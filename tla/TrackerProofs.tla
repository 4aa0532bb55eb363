--------------------------- MODULE TrackerProofs ---------------------------
(***************************************************************************)
(* Proofs about Tracker for every value of its constants.                  *)
(***************************************************************************)
EXTENDS Tracker, TLAPS

\* The search is dispatched as soon as one of its counters passes its limit.
SearchInv ==
  /\ pc \in {"off", "tick"} => loopGPS <= GpsLimit
  /\ pc \in {"off", "tick", "gps"} => noSat <= NoSatMax

\* The limit is passed only in the step that ends the sport mode.
SportInv == forceSport => limitSport <= SportLimit

\* Where the program is in the protocol: the argument of powerDownLoop, and the
\* two places that follow a transmission.
PlaceInv ==
  /\ pc \in {"battery", "weak", "send", "record", "sleep"} => msg # "none"
  /\ pc \notin {"send", "record"} => tx = "none"

\* A parked cycle starts without sport mode and has switched the receiver off
\* before its message; only the first turn that sees a move, or the dance at
\* the start of the wait, changes that.
ParkedInv ==
  msg = "NO_MOTION" =>
    /\ pc \in {"battery", "weak"} => ~forceSport
    /\ pc \in {"send", "record"} => ~forceSport /\ ~GPSactive /\ ~gpsPower
    /\ pc = "sleep" /\ waitLoop > 0 => ~GPSactive /\ (gpsPower => forceSport)

\* The count of moves against the turns made.
WaitInv ==
  pc = "sleep" =>
    /\ detectMotion \in 0..(2 * MotionMin + i)
    /\ sleepDuration = 4 => detectMotion = 0 /\ msg # "NO_MOTION"
    /\ msg # "NO_MOTION" => i <= PeriodCount /\ waitLoop <= PeriodCount
    /\ msg = "NO_MOTION" => detectMotion = (IF waitLoop = 0 THEN 1 ELSE 0)

IInv == TypeOK /\ SearchInv /\ SportInv /\ PlaceInv /\ ParkedInv /\ WaitInv

-----------------------------------------------------------------------------
\* The constants are positive numbers.
LEMMA ConstantTypes ==
  /\ PeriodCount \in Nat /\ GpsLimit \in Nat /\ NoSatMax \in Nat
  /\ SyncSlow \in Nat /\ SyncFast \in Nat /\ SportLimit \in Nat
  /\ NoMotionLoops \in Nat \ {0} /\ MotionMin \in Nat \ {0}
  BY PeriodAssumption

\* An int8_t keeps a count that is in its range.
LEMMA Int8InRange ==
  ASSUME NEW x \in -128..127
  PROVE  Int8(x) = x
  BY DEF Int8

\* Every int8_t value is one.
LEMMA Int8Type ==
  ASSUME NEW x \in Int
  PROVE  Int8(x) \in -128..127
  BY DEF Int8

\* So is the sum of two uint8_t.
LEMMA ByteSum ==
  ASSUME NEW x \in 0..255, NEW y \in 0..255
  PROVE  (x + y) % 256 \in 0..255
  OBVIOUS

\* The accelDance: seq is 0, 1 or 2 between two moves.
LEMMA DanceSeqType ==
  ASSUME NEW s \in 0..2, NEW p \in Positions, NEW n \in Positions
  PROVE  DanceSeq(s, p, n) \in 0..4
  BY DEF DanceSeq, Positions

\* The compressed speed and altitude are numbers again.
LEMMA CodeType ==
  ASSUME NEW n \in Nat
  PROVE  AltCode(n) \in Nat /\ SpdCode(n) \in Nat
  BY DEF AltCode, SpdCode

\* The parked wait is at least as long as the first one.
LEMMA DoublingType ==
  ASSUME NEW k \in 0..3
  PROVE  Doubling[k] \in Nat \ {0}
  BY DEF Doubling

\* What accelStatus() leaves behind, whatever it reads: it alone writes these
\* variables, it can only switch the sport mode on with a fresh limit, and it
\* powers the receiver only for the sport mode.
LEMMA AccelStatusEffect ==
  ASSUME TypeOK, SportInv,
         NEW r \in Readings, NEW quota \in BOOLEAN, NEW answer \in BOOLEAN,
         NEW active \in BOOLEAN, NEW power \in BOOLEAN,
         AccelStatus(r, quota, answer, active, power)
  PROVE  /\ forceSport' \in BOOLEAN
         /\ limitSport' \in 0..(SportLimit + 1)
         /\ gpsPower' \in BOOLEAN
         /\ seq' \in 0..2 /\ accelPosition' \in Positions
         /\ latch' \in BOOLEAN /\ gpio' \in BOOLEAN
         /\ SportInv'
         /\ gpsPower' => power \/ forceSport'
         /\ ~Moved(r) => UNCHANGED <<dance, sport, supply>> /\ gpsPower' = power
<1>1. CASE accelPresent /\ r \in Positions
  <2> DEFINE n == DanceSeq(seq, accelPosition, r)
  <2>1. n \in 0..4
    BY <1>1, DanceSeqType DEF TypeOK, FlagsOK, DataOK
  <2>2. Moved(r)
    BY <1>1 DEF Moved, Positions
  <2>3. SportLimit \in Nat
    BY PeriodAssumption
  <2>4. /\ accelPosition' = r
        /\ seq' = IF n < 3 THEN n ELSE 0
        /\ latch' = (latch /\ n # 3)
        /\ gpio' = (gpio /\ n # 3)
        /\ forceSport' = IF n = 4 /\ quota THEN ~forceSport ELSE forceSport
        /\ limitSport' = IF n = 4 /\ quota THEN 0 ELSE limitSport
        /\ gpsPower' = IF (n = 4 /\ quota) /\ ~forceSport /\ ~active
                       THEN Drive(answer) ELSE power /\ n # 3
    BY <1>1 DEF AccelStatus
  <2> HIDE DEF n
  <2>5. seq' \in 0..2
    BY <2>1, <2>4
  <2>6. limitSport' \in 0..(SportLimit + 1) /\ SportInv'
    BY <2>3, <2>4 DEF TypeOK, FlagsOK, DataOK, SportInv
  <2>7. gpsPower' \in BOOLEAN /\ (gpsPower' => power \/ forceSport')
    BY <2>4 DEF TypeOK, FlagsOK, DataOK, Drive
  <2> QED
    BY <1>1, <2>2, <2>4, <2>5, <2>6, <2>7 DEF TypeOK, FlagsOK, DataOK
<1>2. CASE ~(accelPresent /\ r \in Positions)
  <2>1. /\ gpsPower' = power
        /\ UNCHANGED <<dance, sport, supply>>
    BY <1>2 DEF AccelStatus
  <2> QED
    BY <2>1 DEF TypeOK, FlagsOK, DataOK, SportInv, dance, sport, supply
<1> QED
  BY <1>1, <1>2

-----------------------------------------------------------------------------
\* The invariant holds at first.
LEMMA InvInit == Init => IInv
<1> SUFFICES ASSUME Init PROVE IInv
  OBVIOUS
<1>1. FlagsOK
  BY DEF Init, FlagsOK
<1>2. DataOK
  BY ConstantTypes DEF Init, DataOK, Places, CycleMsgs, Msgs, Positions
<1>3. SearchInv /\ SportInv /\ PlaceInv /\ ParkedInv /\ WaitInv
  BY ConstantTypes DEF Init, SearchInv, SportInv, PlaceInv, ParkedInv, WaitInv
<1> QED
  BY <1>1, <1>2, <1>3 DEF IInv, TypeOK

\* Applying and losing power.
LEMMA InvPower ==
  ASSUME IInv, PowerLoss \/ \E r \in Readings : Boot(r) \/ BootStuck(r)
  PROVE  IInv'
<1>1. CASE PowerLoss
  <2>1. FlagsOK'
    BY <1>1 DEF PowerLoss, FlagsOK
  <2>2. DataOK'
    BY <1>1, ConstantTypes
    DEF PowerLoss, DataOK, Places, CycleMsgs, Msgs, Positions
  <2>3. SearchInv' /\ SportInv' /\ PlaceInv' /\ ParkedInv' /\ WaitInv'
    BY <1>1, ConstantTypes
    DEF PowerLoss, SearchInv, SportInv, PlaceInv, ParkedInv, WaitInv
  <2> QED
    BY <2>1, <2>2, <2>3 DEF IInv, TypeOK
<1>2. ASSUME NEW r \in Readings, Boot(r) \/ BootStuck(r) PROVE IInv'
  <2>1. PICK board \in Boards :
          /\ StartUp(r, board)
          /\ baromPresent' \in {FALSE, board.barom}
          /\ latch' \in {TRUE, board.modem}
    BY <1>2 DEF Boot, BootStuck
  <2>2. board.accel \in BOOLEAN /\ board.barom \in BOOLEAN /\ board.modem \in BOOLEAN
    <3>1. board \in [accel : BOOLEAN, barom : BOOLEAN, modem : BOOLEAN]
      BY InputAssumption DEF AllBoards
    <3> QED
      BY <3>1
  <2>3. pc = "off" /\ pc' \in {"tick", "hung"}
    BY <1>2 DEF Boot, BootStuck
  <2>4. seq' \in 0..2 /\ accelPosition' \in Positions
    BY <2>1 DEF StartUp, IInv, TypeOK, DataOK, dance, DanceSeq
  <2>5. baromPresent' \in BOOLEAN /\ latch' \in BOOLEAN
    BY <2>1, <2>2
  <2>6. FlagsOK'
    BY <2>1, <2>2, <2>5 DEF StartUp, IInv, TypeOK, FlagsOK, sport, wait
  <2>7. DataOK'
    BY <2>1, <2>3, <2>4
    DEF StartUp, IInv, TypeOK, DataOK, Places, search, fix, sport, wait
  <2>8. SearchInv' /\ SportInv' /\ PlaceInv' /\ ParkedInv' /\ WaitInv'
    BY <2>1, <2>3
    DEF StartUp, IInv, SearchInv, SportInv, PlaceInv, ParkedInv, WaitInv, search, sport
  <2> QED
    BY <2>6, <2>7, <2>8 DEF IInv, TypeOK
<1> QED
  BY <1>1, <1>2

-----------------------------------------------------------------------------
\* What the sport test leaves behind: it can only end the sport mode, and
\* without it the receiver is off.
LEMMA SportStepEffect ==
  ASSUME TypeOK, SportInv, NEW percent, NEW power \in BOOLEAN,
         SportStep(percent, power)
  PROVE  /\ forceSport' \in BOOLEAN
         /\ limitSport' \in 0..(SportLimit + 1)
         /\ GPSactive' \in BOOLEAN /\ gpsPower' \in BOOLEAN
         /\ SportInv'
         /\ forceSport' => forceSport
         /\ ~forceSport => ~GPSactive' /\ ~gpsPower'
<1>1. CASE forceSport
  <2>1. /\ limitSport' = SportCount(percent)
        /\ forceSport' = ~SportEnds(percent)
        /\ gpsPower' = power /\ GPSactive' = GPSactive
    BY <1>1 DEF SportStep
  <2>2. limitSport \in 0..SportLimit /\ SportLimit \in Nat /\ SportLimit < 255
    BY <1>1, PeriodAssumption DEF SportInv, TypeOK, DataOK
  <2>3. limitSport' \in {limitSport, limitSport + 1}
    BY <2>1, <2>2 DEF SportCount
  <2>4. SportInv'
    <3>1. forceSport' => ~(limitSport >= SportLimit)
      BY <2>1 DEF SportEnds
    <3>2. ~(limitSport >= SportLimit) => limitSport' <= SportLimit
      BY <2>2, <2>3
    <3> QED
      BY <3>1, <3>2 DEF SportInv
  <2>5. forceSport' \in BOOLEAN /\ GPSactive' \in BOOLEAN /\ gpsPower' \in BOOLEAN
    BY <2>1 DEF TypeOK, FlagsOK
  <2> QED
    BY <1>1, <2>2, <2>3, <2>4, <2>5
<1>2. CASE ~forceSport
  <2>1. /\ ~GPSactive' /\ ~gpsPower' /\ GPSactive' \in BOOLEAN /\ gpsPower' \in BOOLEAN
        /\ UNCHANGED sport
    BY <1>2 DEF SportStep, GpsStandby
  <2> QED
    BY <1>2, <2>1 DEF TypeOK, FlagsOK, DataOK, SportInv, sport
<1> QED
  BY <1>1, <1>2

\* What a transmission leaves behind.
LEMMA SendSigFoxEffect ==
  ASSUME TypeOK, NEW m \in Msgs, SendSigFox(m)
  PROVE  /\ airPlaneSpeed' \in BOOLEAN
         /\ syncSat' \in 0..255 /\ sat' \in 0..255
         /\ spd' \in Nat /\ alt' \in Nat
         /\ tx' \in {m, "none"}
<1>1. PICK press \in Pressures :
        /\ MakePayload(m, press)
        /\ tx' = IF Suppressed(m, press) THEN "none" ELSE m
  BY DEF SendSigFox
<1>2. airPlaneSpeed' \in BOOLEAN
  BY <1>1 DEF MakePayload, PlaneFlagFor, PlaneFlag
<1>3. syncSat' \in 0..255 /\ sat' \in 0..255
  BY <1>1 DEF MakePayload, TypeOK, DataOK
<1>4. spd' \in Nat /\ alt' \in Nat
  BY <1>1, CodeType DEF MakePayload, TypeOK, DataOK
<1> QED
  BY <1>1, <1>2, <1>3, <1>4

-----------------------------------------------------------------------------
\* The search: a tick with a look at the accelerometer.
LEMMA InvTick ==
  ASSUME IInv, NEW r \in Readings, Tick(r)
  PROVE  IInv'
<1>1. PICK quota \in BOOLEAN, answer \in BOOLEAN :
        AccelStatus(r, quota, answer, GPSactive, gpsPower)
  BY DEF Tick
<1>2. /\ forceSport' \in BOOLEAN
      /\ limitSport' \in 0..(SportLimit + 1)
      /\ gpsPower' \in BOOLEAN
      /\ seq' \in 0..2 /\ accelPosition' \in Positions
      /\ latch' \in BOOLEAN /\ gpio' \in BOOLEAN
      /\ SportInv'
  BY <1>1, AccelStatusEffect DEF IInv, TypeOK, FlagsOK
<1>3. loopGPS' \in 0..(GpsLimit + 1)
  BY PeriodAssumption DEF Tick, IInv, TypeOK, DataOK, SearchInv
<1>4. FlagsOK'
  BY <1>2 DEF Tick, IInv, TypeOK, FlagsOK, parts, wait
<1>5. DataOK'
  BY <1>2, <1>3 DEF Tick, IInv, TypeOK, DataOK, Places, fix, wait
<1>6. SearchInv' /\ PlaceInv' /\ ParkedInv' /\ WaitInv'
  BY DEF Tick, IInv, SearchInv, PlaceInv, ParkedInv, WaitInv
<1> QED
  BY <1>2, <1>4, <1>5, <1>6 DEF IInv, TypeOK

\* The search: the other steps.
LEMMA InvSearch ==
  ASSUME IInv, NoTick \/ GpsNoFix \/ GpsFix \/ Check
  PROVE  IInv'
<1>1. CASE NoTick
  <2>1. FlagsOK'
    BY <1>1 DEF NoTick, IInv, TypeOK, FlagsOK, sport, gps, parts, wait, supply
  <2>2. DataOK'
    BY <1>1 DEF NoTick, IInv, TypeOK, DataOK, Places, search, fix, sport, dance,
                wait
  <2>3. SearchInv' /\ SportInv' /\ PlaceInv' /\ ParkedInv' /\ WaitInv'
    BY <1>1 DEF NoTick, IInv, SearchInv, SportInv, PlaceInv, ParkedInv, WaitInv,
                search, sport
  <2> QED
    BY <2>1, <2>2, <2>3 DEF IInv, TypeOK
<1>2. CASE GpsNoFix
  <2>1. FlagsOK'
    BY <1>2 DEF GpsNoFix, Drive, IInv, TypeOK, FlagsOK, sport, parts, wait, supply
  <2>2. noSat' \in 0..(NoSatMax + 1)
    BY <1>2, PeriodAssumption DEF GpsNoFix, IInv, TypeOK, DataOK, SearchInv
  <2>3. DataOK'
    BY <1>2, <2>2 DEF GpsNoFix, IInv, TypeOK, DataOK, Places, fix, sport, dance,
                      wait
  <2>4. SearchInv' /\ SportInv' /\ PlaceInv' /\ ParkedInv' /\ WaitInv'
    BY <1>2 DEF GpsNoFix, IInv, SearchInv, SportInv, PlaceInv, ParkedInv, WaitInv,
                sport
  <2> QED
    BY <2>1, <2>3, <2>4 DEF IInv, TypeOK
<1>3. CASE GpsFix
  <2>1. FlagsOK'
    BY <1>3 DEF GpsFix, IInv, TypeOK, FlagsOK, sport, gps, parts, wait, supply
  <2>2. sat' \in 0..255 /\ spd' \in Nat /\ alt' \in Nat
    BY <1>3, InputAssumption DEF GpsFix
  <2>3. syncSat' \in 0..255 /\ noSat' \in 0..(NoSatMax + 1)
    <3>1. syncSat \in 0..255
      BY DEF IInv, TypeOK, DataOK
    <3>2. syncSat' = (syncSat + sat') % 256 /\ noSat' = 0
      BY <1>3 DEF GpsFix
    <3>3. (syncSat + sat') % 256 \in 0..255
      BY <2>2, <3>1, ByteSum
    <3>4. 0 \in 0..(NoSatMax + 1)
      BY ConstantTypes
    <3> QED
      BY <3>2, <3>3, <3>4
  <2>4. DataOK'
    BY <1>3, <2>2, <2>3 DEF GpsFix, IInv, TypeOK, DataOK, Places, sport, dance, wait
  <2>5. SearchInv' /\ SportInv' /\ PlaceInv' /\ ParkedInv' /\ WaitInv'
    BY <1>3 DEF GpsFix, IInv, SearchInv, SportInv, PlaceInv, ParkedInv, WaitInv,
                sport
  <2> QED
    BY <2>1, <2>4, <2>5 DEF IInv, TypeOK
<1>4. CASE Check
  <2>1. FlagsOK'
    BY <1>4 DEF Check, IInv, TypeOK, FlagsOK, sport, gps, parts, wait, supply
  <2>2. DataOK'
    BY <1>4 DEF Check, IInv, TypeOK, DataOK, Places, CycleMsgs, search, fix, sport,
                dance, wait
  <2>3. SearchInv'
    BY <1>4, ConstantTypes
    DEF Check, SearchExpired, IInv, TypeOK, DataOK, SearchInv, search
  <2>4. SportInv' /\ PlaceInv' /\ ParkedInv' /\ WaitInv'
    BY <1>4 DEF Check, IInv, SportInv, PlaceInv, ParkedInv, WaitInv, sport
  <2> QED
    BY <2>1, <2>2, <2>3, <2>4 DEF IInv, TypeOK
<1> QED
  BY <1>1, <1>2, <1>3, <1>4

-----------------------------------------------------------------------------
\* powerDownLoop up to its message.
LEMMA InvReport ==
  ASSUME IInv, MeasureBattery \/ SendWeak \/ Send \/ Stuck
  PROVE  IInv'
<1>1. CASE MeasureBattery
  <2>1. PICK bat \in Volts :
          IF Weak(bat)
          THEN /\ pc' = "weak"
               /\ gpsPower' = FALSE
               /\ UNCHANGED <<sport, GPSactive>>
          ELSE /\ pc' = "send"
               /\ SportStep(Percent(bat), Drive(forceSport \/ GPSactive))
    BY <1>1 DEF MeasureBattery
  <2>2. /\ forceSport' \in BOOLEAN
        /\ limitSport' \in 0..(SportLimit + 1)
        /\ GPSactive' \in BOOLEAN /\ gpsPower' \in BOOLEAN
        /\ SportInv'
        /\ pc' \in {"weak", "send"}
        /\ ~forceSport => ~forceSport'
        /\ pc' = "send" /\ ~forceSport => ~GPSactive' /\ ~gpsPower'
    <3>1. CASE Weak(bat)
      BY <2>1, <3>1 DEF IInv, TypeOK, FlagsOK, DataOK, SportInv, sport
    <3>2. CASE ~Weak(bat)
      <4>1. Drive(forceSport \/ GPSactive) \in BOOLEAN
        BY DEF Drive
      <4>2. pc' = "send" /\ SportStep(Percent(bat), Drive(forceSport \/ GPSactive))
        BY <2>1, <3>2
      <4> QED
        BY <4>1, <4>2, SportStepEffect DEF IInv, TypeOK, FlagsOK
    <3> QED
      BY <3>1, <3>2
  <2>3. FlagsOK'
    BY <1>1, <2>2 DEF MeasureBattery, IInv, TypeOK, FlagsOK, parts, wait, supply
  <2>4. DataOK'
    BY <1>1, <2>2 DEF MeasureBattery, IInv, TypeOK, DataOK, Places, search, fix,
                      dance, wait
  <2>5. SearchInv' /\ PlaceInv' /\ WaitInv'
    BY <1>1, <2>2 DEF MeasureBattery, IInv, SearchInv, PlaceInv, WaitInv
  <2>6. ParkedInv'
    BY <1>1, <2>2 DEF MeasureBattery, IInv, ParkedInv
  <2> QED
    BY <2>2, <2>3, <2>4, <2>5, <2>6 DEF IInv, TypeOK
<1>2. CASE SendWeak
  <2>1. SendSigFox("WEAK_BAT") /\ SportStep(0, FALSE)
    BY <1>2 DEF SendWeak
  <2>2. /\ airPlaneSpeed' \in BOOLEAN
        /\ syncSat' \in 0..255 /\ sat' \in 0..255
        /\ spd' \in Nat /\ alt' \in Nat
        /\ tx' \in {"WEAK_BAT", "none"}
    BY <2>1, SendSigFoxEffect DEF IInv, Msgs
  <2>3. /\ forceSport' \in BOOLEAN
        /\ limitSport' \in 0..(SportLimit + 1)
        /\ GPSactive' \in BOOLEAN /\ gpsPower' \in BOOLEAN
        /\ SportInv'
        /\ forceSport' => forceSport
        /\ ~forceSport => ~GPSactive' /\ ~gpsPower'
    BY <2>1, SportStepEffect DEF IInv
  <2>4. FlagsOK'
    BY <1>2, <2>2, <2>3 DEF SendWeak, IInv, TypeOK, FlagsOK, parts, wait
  <2>5. DataOK'
    BY <1>2, <2>2, <2>3
    DEF SendWeak, IInv, TypeOK, DataOK, Places, Msgs, dance, wait
  <2>6. SearchInv' /\ PlaceInv' /\ WaitInv'
    BY <1>2 DEF SendWeak, IInv, SearchInv, PlaceInv, WaitInv
  <2>7. ParkedInv'
    BY <1>2, <2>3 DEF SendWeak, IInv, ParkedInv
  <2> QED
    BY <2>3, <2>4, <2>5, <2>6, <2>7 DEF IInv, TypeOK
<1>3. CASE Send
  <2>1. msg \in CycleMsgs
    BY <1>3 DEF Send, IInv, PlaceInv, TypeOK, DataOK
  <2>2. /\ airPlaneSpeed' \in BOOLEAN
        /\ syncSat' \in 0..255 /\ sat' \in 0..255
        /\ spd' \in Nat /\ alt' \in Nat
        /\ tx' \in {msg, "none"}
    <3>1. CASE GateOpen
      BY <1>3, <2>1, <3>1, SendSigFoxEffect DEF Send, IInv, Msgs
    <3>2. CASE ~GateOpen
      BY <1>3, <3>2 DEF Send, IInv, TypeOK, FlagsOK, DataOK, fix
    <3> QED
      BY <3>1, <3>2
  <2>3. FlagsOK'
    BY <1>3, <2>2 DEF Send, IInv, TypeOK, FlagsOK, sport, gps, parts, wait, supply
  <2>4. DataOK'
    BY <1>3, <2>1, <2>2
    DEF Send, IInv, TypeOK, DataOK, Places, Msgs, sport, dance, wait
  <2>5. SearchInv' /\ SportInv' /\ PlaceInv' /\ WaitInv'
    BY <1>3 DEF Send, IInv, SearchInv, SportInv, PlaceInv, WaitInv, sport
  <2>6. ParkedInv'
    BY <1>3 DEF Send, IInv, ParkedInv, sport, gps
  <2> QED
    BY <2>3, <2>4, <2>5, <2>6 DEF IInv, TypeOK
<1>4. CASE Stuck
  <2>1. FlagsOK'
    BY <1>4 DEF Stuck, IInv, TypeOK, FlagsOK, sport, gps, parts, wait, supply
  <2>2. DataOK'
    BY <1>4 DEF Stuck, IInv, TypeOK, DataOK, Places, search, fix, sport, dance, wait
  <2>3. SearchInv' /\ SportInv' /\ PlaceInv' /\ ParkedInv' /\ WaitInv'
    BY <1>4 DEF Stuck, IInv, SearchInv, SportInv, PlaceInv, ParkedInv, WaitInv, sport
  <2> QED
    BY <2>1, <2>2, <2>3 DEF IInv, TypeOK
<1> QED
  BY <1>1, <1>2, <1>3, <1>4

-----------------------------------------------------------------------------
\* The wait begins.
LEMMA InvRecord ==
  ASSUME IInv, NEW r \in Readings, Record(r)
  PROVE  IInv'
<1>1. PICK quota \in BOOLEAN, answer \in BOOLEAN :
        AccelStatus(r, quota, answer, GPSactive, gpsPower)
  BY DEF Record
<1>2. /\ forceSport' \in BOOLEAN
      /\ limitSport' \in 0..(SportLimit + 1)
      /\ gpsPower' \in BOOLEAN
      /\ seq' \in 0..2 /\ accelPosition' \in Positions
      /\ latch' \in BOOLEAN /\ gpio' \in BOOLEAN
      /\ SportInv'
      /\ gpsPower' => gpsPower \/ forceSport'
  BY <1>1, AccelStatusEffect DEF IInv, TypeOK, FlagsOK
<1>3. /\ FirstMotion \in {0, 2 * MotionMin}
      /\ msg = "NO_MOTION" => FirstMotion = 0
      /\ detectMotion' = FirstMotion /\ i' = 0
      /\ msg \in CycleMsgs /\ UNCHANGED msg
  BY DEF Record, FirstMotion, IInv, PlaceInv, TypeOK, DataOK
<1>4. waitLoop' \in Nat /\ (waitLoop' = 0 => msg # "NO_MOTION")
                        /\ (msg # "NO_MOTION" => waitLoop' <= PeriodCount)
  <2>1. CASE msg = "NO_MOTION"
    <3>1. waitLoop' = NoMotionLoops * Doubling[countNoMotion]
      BY <2>1 DEF Record, WaitFor
    <3>2. Doubling[countNoMotion] \in {1, 2, 4, 8}
      BY DEF Doubling, IInv, TypeOK, DataOK
    <3> QED
      BY <2>1, <3>1, <3>2, ConstantTypes
  <2>2. CASE msg # "NO_MOTION"
    <3>1. waitLoop' = PeriodCount - loopGPS
      BY <2>2 DEF Record, WaitFor
    <3>2. loopGPS \in 0..(GpsLimit + 1)
      BY DEF IInv, TypeOK, DataOK
    <3> QED
      BY <2>2, <3>1, <3>2, PeriodAssumption
  <2> QED
    BY <2>1, <2>2
<1>5. countNoMotion' \in 0..3
  BY DEF Record, NextCount, IInv, TypeOK, DataOK
<1>6. /\ sleepDuration' \in {4, 8}
      /\ sleepDuration' = 4 => msg # "NO_MOTION" /\ FirstMotion = 0
  BY DEF Record
<1>7. FlagsOK'
  BY <1>2 DEF Record, IInv, TypeOK, FlagsOK, parts
<1>8. DataOK'
  <2>1. detectMotion' \in -128..127
    BY <1>3, PeriodAssumption
  <2> QED
    BY <1>2, <1>3, <1>4, <1>5, <1>6, <2>1
    DEF Record, IInv, TypeOK, DataOK, Places, search, fix
<1>9. SearchInv' /\ PlaceInv'
  BY DEF Record, IInv, SearchInv, PlaceInv
<1>10. ParkedInv'
  BY <1>2 DEF Record, IInv, ParkedInv
<1>11. WaitInv'
  BY <1>3, <1>4, <1>6, ConstantTypes DEF WaitInv
<1> QED
  BY <1>2, <1>7, <1>8, <1>9, <1>10, <1>11 DEF IInv, TypeOK

\* One turn of the wait.
LEMMA InvSleepStep ==
  ASSUME IInv, NEW r \in Readings, SleepStep(r)
  PROVE  IInv'
<1> DEFINE power(active) == IF GPSactive THEN Drive(active) ELSE gpsPower
<1>1. PICK bat \in Volts, quota \in BOOLEAN, answer \in BOOLEAN :
        /\ GPSactive' = StaysActive(Percent(bat))
        /\ AccelStatus(r, quota, answer, StaysActive(Percent(bat)),
                       power(StaysActive(Percent(bat))))
        /\ i' = NextLoop(Moved(r))
        /\ sleepDuration' = NextSleep(Moved(r))
        /\ detectMotion' = IF Moved(r) THEN Int8(detectMotion + 1) ELSE detectMotion
        /\ waitLoop' = IF Moved(r) /\ (msg = "NO_MOTION" \/ modeSport # forceSport')
                       THEN 0 ELSE waitLoop
  BY DEF SleepStep
<1> DEFINE active == StaysActive(Percent(bat))
<1>2. active \in BOOLEAN /\ (active => GPSactive)
  BY DEF StaysActive
<1>3. power(active) \in BOOLEAN /\ (power(active) => GPSactive \/ gpsPower)
  BY <1>2 DEF Drive, IInv, TypeOK, FlagsOK
<1>4. /\ forceSport' \in BOOLEAN
      /\ limitSport' \in 0..(SportLimit + 1)
      /\ gpsPower' \in BOOLEAN
      /\ seq' \in 0..2 /\ accelPosition' \in Positions
      /\ latch' \in BOOLEAN /\ gpio' \in BOOLEAN
      /\ SportInv'
      /\ gpsPower' => power(active) \/ forceSport'
      /\ ~Moved(r) => UNCHANGED <<dance, sport, supply>> /\ gpsPower' = power(active)
  BY <1>1, <1>2, <1>3, AccelStatusEffect DEF IInv
<1>5. /\ pc = "sleep" /\ UNCHANGED <<pc, msg>> /\ tx' = "none"
      /\ i \in Nat /\ waitLoop \in Nat /\ i < waitLoop
      /\ sleepDuration \in {4, 8}
      /\ detectMotion \in 0..(2 * MotionMin + i)
      /\ sleepDuration = 4 => detectMotion = 0 /\ msg # "NO_MOTION"
      /\ msg # "NO_MOTION" => i < PeriodCount /\ waitLoop <= PeriodCount
      /\ msg = "NO_MOTION" => detectMotion = 0
  BY ConstantTypes DEF SleepStep, IInv, TypeOK, DataOK, WaitInv
<1>6. detectMotion + 1 \in 0..127
  BY <1>5, PeriodAssumption
<1>7. /\ detectMotion' = IF Moved(r) THEN detectMotion + 1 ELSE detectMotion
      /\ i' = IF Moved(r) /\ sleepDuration = 4 THEN i \div 2 + 1 ELSE i + 1
      /\ sleepDuration' = IF Moved(r) THEN 8 ELSE sleepDuration
  BY <1>1, <1>6, Int8InRange DEF NextLoop, NextSleep
<1>8. i' \in Nat /\ i' <= i + 1 /\ detectMotion' \in 0..(2 * MotionMin + i')
  BY <1>5, <1>7, ConstantTypes
<1>9. FlagsOK'
  BY <1>1, <1>2, <1>4 DEF SleepStep, IInv, TypeOK, FlagsOK, parts
<1>10. DataOK'
  <2>1. detectMotion' \in -128..127
    BY <1>5, <1>6, <1>7
  <2>2. waitLoop' \in Nat
    BY <1>1, <1>5
  <2> QED
    BY <1>4, <1>5, <1>7, <1>8, <2>1, <2>2
    DEF SleepStep, IInv, TypeOK, DataOK, search, fix
<1>11. SearchInv' /\ PlaceInv'
  BY <1>5 DEF IInv, SearchInv, PlaceInv
<1>12. ParkedInv'
  <2>1. SUFFICES ASSUME msg = "NO_MOTION", waitLoop' > 0
                 PROVE  ~GPSactive' /\ (gpsPower' => forceSport')
    BY <1>5 DEF ParkedInv
  <2>2. ~Moved(r) /\ waitLoop' = waitLoop
    BY <1>1, <2>1
  <2>3. ~GPSactive /\ (gpsPower => forceSport)
    BY <1>5, <2>1, <2>2 DEF IInv, ParkedInv
  <2>4. gpsPower' = gpsPower /\ forceSport' = forceSport
    BY <1>4, <2>2, <2>3 DEF sport
  <2> QED
    BY <1>1, <1>2, <2>3, <2>4
<1>13. WaitInv'
  <2>1. waitLoop' \in {0, waitLoop}
    BY <1>1
  <2>2. msg = "NO_MOTION" => waitLoop' = IF Moved(r) THEN 0 ELSE waitLoop
    BY <1>1
  <2> QED
    BY <1>5, <1>7, <1>8, <2>1, <2>2, ConstantTypes DEF WaitInv
<1> QED
  BY <1>4, <1>9, <1>10, <1>11, <1>12, <1>13 DEF IInv, TypeOK

\* The end of the wait.
LEMMA InvWakeUp ==
  ASSUME IInv, WakeUp
  PROVE  IInv'
<1>1. Verdict \in {-1, 0, 1} /\ (Verdict = 0 => ~forceSport)
  BY DEF Verdict
<1>2. FlagsOK'
  BY DEF WakeUp, Drive, IInv, TypeOK, FlagsOK, sport, gps, parts, supply
<1>3. DataOK'
  BY <1>1, ConstantTypes
  DEF WakeUp, ResetSearch, IInv, TypeOK, DataOK, Places, CycleMsgs, sport, dance
<1>4. SearchInv' /\ SportInv' /\ PlaceInv' /\ WaitInv'
  BY ConstantTypes
  DEF WakeUp, ResetSearch, IInv, SearchInv, SportInv, PlaceInv, WaitInv, sport
<1>5. ParkedInv'
  BY <1>1 DEF WakeUp, ParkedInv, sport
<1> QED
  BY <1>2, <1>3, <1>4, <1>5 DEF IInv, TypeOK

\* Nothing happens.
LEMMA InvStutter ==
  ASSUME IInv, UNCHANGED vars
  PROVE  IInv'
<1>1. FlagsOK'
  BY DEF vars, IInv, TypeOK, FlagsOK, sport, gps, parts, wait, supply
<1>2. DataOK'
  BY DEF vars, IInv, TypeOK, DataOK, place, search, fix, sport, dance, wait
<1>3. SearchInv' /\ SportInv' /\ PlaceInv'
  BY DEF vars, IInv, SearchInv, SportInv, PlaceInv, place, search, sport
<1>4. ParkedInv' /\ WaitInv'
  BY DEF vars, IInv, ParkedInv, WaitInv, place, sport, gps, wait
<1> QED
  BY <1>1, <1>2, <1>3, <1>4 DEF IInv, TypeOK

\* Every step.
LEMMA InvNext == IInv /\ [Next]_vars => IInv'
<1> SUFFICES ASSUME IInv, [Next]_vars PROVE IInv'
  OBVIOUS
<1>1. CASE \E r \in Readings : Boot(r) \/ BootStuck(r) \/ Sense(r)
  BY <1>1, InvPower, InvTick, InvRecord, InvSleepStep DEF Sense
<1>2. CASE Compute
  BY <1>2, InvSearch, InvReport, InvWakeUp DEF Compute
<1>3. CASE Stuck \/ PowerLoss
  BY <1>3, InvPower, InvReport
<1>4. CASE UNCHANGED vars
  BY <1>4, InvStutter
<1> QED
  BY <1>1, <1>2, <1>3, <1>4 DEF Next

-----------------------------------------------------------------------------
\* The inductive invariant.
THEOREM Invariant == Spec => []IInv
<1> QED
  BY InvInit, InvNext, PTL DEF Spec

\* No counter of the C code leaves its width, and no search outlives its limits.
THEOREM TypeCorrect == Spec => []TypeOK
<1>1. IInv => TypeOK
  BY DEF IInv
<1> QED
  BY <1>1, Invariant, PTL

\* A parked tracker feeds the receiver only for the sport mode.
THEOREM ParkedGpsIsOff == Spec => []ParkedGpsOff
<1>1. IInv => ParkedGpsOff
  BY DEF IInv, ParkedInv, ParkedGpsOff
<1> QED
  BY <1>1, Invariant, PTL

\* The count of moves cannot wrap.
THEOREM MotionCountKept == Spec => []MotionCounted
<1>1. IInv => MotionCounted
  BY DEF IInv, WaitInv, MotionCounted
<1> QED
  BY <1>1, Invariant, PTL

-----------------------------------------------------------------------------
(***************************************************************************)
(* Tracker implements MotionProtocol: every step of the code is a step of  *)
(* the protocol or leaves all that its owner sees unchanged.               *)
(***************************************************************************)

\* The step of the protocol, or none.
Maps == Protocol!Next \/ UNCHANGED Protocol!vars

\* The initial state.
LEMMA InitMaps == Init => Protocol!Init
  BY DEF Init, Protocol!Init, Phase, Owed, Motions

\* Applying and losing power, and a hang.
LEMMA PowerMaps ==
  ASSUME IInv,
         PowerLoss \/ Stuck \/ \E r \in Readings : Boot(r) \/ BootStuck(r)
  PROVE  Maps
<1>1. CASE PowerLoss
  <2>1. Protocol!Stop
    BY <1>1 DEF PowerLoss, IInv, TypeOK, DataOK, Places, Protocol!Stop, Phase, Owed,
                Motions
  <2> QED
    BY <2>1 DEF Maps, Protocol!Next
<1>2. CASE Stuck
  <2>1. Protocol!Jam
    BY <1>2 DEF Stuck, Protocol!Jam, Phase, Owed, Motions, sport
  <2> QED
    BY <2>1 DEF Maps, Protocol!Next
<1>3. ASSUME NEW r \in Readings, Boot(r) PROVE Maps
  <2>1. Protocol!Start
    BY <1>3 DEF Boot, StartUp, Protocol!Start, Phase, Owed, Motions, sport
  <2> QED
    BY <2>1 DEF Maps, Protocol!Next
<1>4. ASSUME NEW r \in Readings, BootStuck(r) PROVE Maps
  <2>1. Protocol!Jam
    BY <1>4 DEF BootStuck, StartUp, IInv, PlaceInv, Protocol!Jam, Phase, Owed, Motions,
                sport
  <2> QED
    BY <2>1 DEF Maps, Protocol!Next
<1> QED
  BY <1>1, <1>2, <1>3, <1>4

\* The search: only its end and the user's dance are seen from outside.
LEMMA SearchMaps ==
  ASSUME IInv,
         NoTick \/ GpsNoFix \/ GpsFix \/ Check \/ \E r \in Readings : Tick(r)
  PROVE  Maps
<1>1. tx = "none" /\ Motions = 0 /\ Phase = "search" /\ Owed = "none"
  BY DEF NoTick, GpsNoFix, GpsFix, Check, Tick, IInv, PlaceInv, Motions, Phase, Owed
<1>2. CASE NoTick \/ GpsNoFix \/ GpsFix
  <2>1. pc' \in {"gps", "check"} /\ tx' = "none" /\ UNCHANGED sport
    BY <1>2 DEF NoTick, GpsNoFix, GpsFix
  <2> QED
    BY <1>1, <2>1 DEF Maps, Protocol!vars, Motions, Phase, Owed, sport
<1>3. CASE Check
  <2>1. /\ pc' \in {"battery", "tick"} /\ tx' = "none" /\ UNCHANGED sport
        /\ pc' = "battery" => msg' \in {"POSITION", "NO_GPS"}
    BY <1>3 DEF Check
  <2>2. CASE pc' = "battery"
    <3>1. Protocol!Conclude
      BY <1>1, <2>1, <2>2 DEF Protocol!Conclude, Motions, Phase, Owed, sport
    <3> QED
      BY <3>1 DEF Maps, Protocol!Next
  <2>3. CASE pc' = "tick"
    BY <1>1, <2>1, <2>3 DEF Maps, Protocol!vars, Motions, Phase, Owed, sport
  <2> QED
    BY <2>1, <2>2, <2>3
<1>4. ASSUME NEW r \in Readings, Tick(r) PROVE Maps
  <2>1. pc' = "gps" /\ tx' = "none" /\ Motions' = 0 /\ Phase' = "search"
                    /\ Owed' = "none"
    BY <1>4 DEF Tick, Motions, Phase, Owed
  <2>2. forceSport \in BOOLEAN /\ forceSport' \in BOOLEAN
    BY <1>4, InvTick DEF IInv, TypeOK, FlagsOK
  <2>3. CASE forceSport' = ~forceSport
    <3>1. Protocol!Toggle
      BY <1>1, <2>1, <2>3 DEF Protocol!Toggle
    <3> QED
      BY <3>1 DEF Maps, Protocol!Next
  <2>4. CASE forceSport' = forceSport
    BY <1>1, <2>1, <2>4 DEF Maps, Protocol!vars
  <2> QED
    BY <2>2, <2>3, <2>4
<1> QED
  BY <1>2, <1>3, <1>4

\* powerDownLoop up to its message.
LEMMA ReportMaps ==
  ASSUME IInv, MeasureBattery \/ SendWeak \/ Send
  PROVE  Maps
<1>1. msg # "none" /\ Owed = msg /\ Motions = 0
  BY DEF MeasureBattery, SendWeak, Send, IInv, PlaceInv, Owed, Motions
<1>2. forceSport \in BOOLEAN /\ forceSport' \in BOOLEAN
  BY InvReport DEF IInv, TypeOK, FlagsOK
<1>3. CASE MeasureBattery
  <2>1. /\ pc' \in {"weak", "send"} /\ UNCHANGED msg
        /\ tx = "none" /\ tx' = "none"
    BY <1>3 DEF MeasureBattery, IInv, PlaceInv
  <2>2. Phase' = Phase /\ Owed' = Owed /\ Motions' = Motions
    BY <1>1, <1>3, <2>1 DEF MeasureBattery, Phase, Owed, Motions
  <2>3. ~forceSport => ~forceSport'
    <3>1. PICK bat \in Volts :
            \/ UNCHANGED sport
            \/ SportStep(Percent(bat), Drive(forceSport \/ GPSactive))
      BY <1>3 DEF MeasureBattery
    <3> QED
      BY <1>2, <3>1 DEF SportStep, sport
  <2>4. CASE forceSport /\ ~forceSport'
    <3>1. Protocol!EndSport
      BY <1>1, <2>1, <2>2, <2>4 DEF Protocol!EndSport
    <3> QED
      BY <3>1 DEF Maps, Protocol!Next
  <2>5. CASE forceSport' = forceSport
    BY <2>1, <2>2, <2>5 DEF Maps, Protocol!vars
  <2> QED
    BY <1>2, <2>3, <2>4, <2>5
<1>4. CASE SendWeak
  <2>1. tx' \in {"WEAK_BAT", "none"}
    BY <1>4, SendSigFoxEffect DEF SendWeak, IInv, Msgs
  <2>2. ~forceSport'
    <3>1. SportEnds(0)
      BY DEF SportEnds
    <3> QED
      BY <1>4, <3>1 DEF SendWeak, SportStep, sport
  <2>3. Phase' = Phase /\ Owed' = Owed /\ Motions' = Motions
    BY <1>4 DEF SendWeak, Phase, Owed, Motions
  <2>4. Protocol!Farewell
    BY <1>1, <2>1, <2>2, <2>3 DEF Protocol!Farewell
  <2> QED
    BY <2>4 DEF Maps, Protocol!Next
<1>5. CASE Send
  <2>1. msg \in Msgs
    BY <1>1 DEF IInv, TypeOK, DataOK, Msgs
  <2>2. tx' \in {msg, "none"}
    BY <1>5, <2>1, SendSigFoxEffect DEF Send, IInv
  <2>3. Phase' = Phase /\ Owed' = "none" /\ Motions' = Motions
    BY <1>5 DEF Send, Phase, Owed, Motions
  <2>4. Protocol!Report
    BY <1>1, <1>5, <2>2, <2>3 DEF Send, Protocol!Report, sport
  <2> QED
    BY <2>4 DEF Maps, Protocol!Next
<1> QED
  BY <1>3, <1>4, <1>5

\* The wait.
LEMMA WaitMaps ==
  ASSUME IInv, WakeUp \/ \E r \in Readings : Record(r) \/ SleepStep(r)
  PROVE  Maps
<1>1. msg # "none" /\ Owed = "none"
  BY DEF WakeUp, Record, SleepStep, IInv, PlaceInv, Owed
<1>2. ASSUME NEW r \in Readings, Record(r) PROVE Maps
  <2>1. forceSport' \in BOOLEAN
    BY <1>2, InvRecord DEF IInv, TypeOK, FlagsOK
  <2>2. Phase \in {"watch", "parked"} /\ Phase' = Phase /\ Owed' = "none"
    BY <1>2 DEF Record, Phase, Owed
  <2>3. /\ Motions' \in {0, 2 * MotionMin}
        /\ Phase # "watch" => Motions' = 0
    BY <1>2 DEF Record, FirstMotion, Phase, Motions
  <2>4. Protocol!Settle
    BY <1>1, <1>2, <2>1, <2>2, <2>3 DEF Record, Protocol!Settle
  <2> QED
    BY <2>4 DEF Maps, Protocol!Next
<1>3. ASSUME NEW r \in Readings, SleepStep(r) PROVE Maps
  <2>1. /\ forceSport' \in BOOLEAN
        /\ ~Moved(r) => forceSport' = forceSport
    <3>1. forceSport' \in BOOLEAN
      BY <1>3, InvSleepStep DEF IInv, TypeOK, FlagsOK
    <3>2. ~Moved(r) => UNCHANGED sport
      BY <1>3 DEF SleepStep, AccelStatus, Moved, AllReadings, Positions
    <3> QED
      BY <3>1, <3>2 DEF sport
  <2>2. /\ pc = "sleep" /\ pc' = "sleep" /\ UNCHANGED msg /\ tx = "none" /\ tx' = "none"
        /\ detectMotion' = IF Moved(r) THEN Int8(detectMotion + 1) ELSE detectMotion
    BY <1>3 DEF SleepStep, IInv, PlaceInv
  <2>3. /\ detectMotion + 1 \in -128..127
        /\ msg = "NO_MOTION" => detectMotion = 0
    BY <1>3, PeriodAssumption DEF SleepStep, IInv, TypeOK, DataOK, WaitInv
  <2>4. Motions = detectMotion /\ Motions' = detectMotion'
    BY <2>2 DEF Motions
  <2>5. Phase = (IF msg = "NO_MOTION" THEN "parked" ELSE "watch") /\ Phase' = Phase
        /\ Owed' = "none"
    BY <2>2 DEF Phase, Owed
  <2>6. CASE Moved(r)
    <3>1. Motions' = Motions + 1
      BY <2>2, <2>3, <2>4, <2>6, Int8InRange
    <3>2. Protocol!Move
      BY <1>1, <2>1, <2>2, <2>3, <2>4, <2>5, <3>1 DEF Protocol!Move
    <3> QED
      BY <3>2 DEF Maps, Protocol!Next
  <2>7. CASE ~Moved(r)
    BY <1>1, <2>1, <2>2, <2>4, <2>5, <2>7 DEF Maps, Protocol!vars
  <2> QED
    BY <2>6, <2>7
<1>4. CASE WakeUp
  <2>1. /\ pc = "sleep" /\ tx = "none" /\ tx' = "none" /\ UNCHANGED forceSport
        /\ Motions = detectMotion /\ Motions' = 0
        /\ Phase = IF msg = "NO_MOTION" THEN "parked" ELSE "watch"
    BY <1>4 DEF WakeUp, IInv, PlaceInv, Motions, Phase, sport
  <2>2. /\ detectMotion \in Int
        /\ msg = "NO_MOTION" => detectMotion = (IF waitLoop = 0 THEN 1 ELSE 0)
        /\ MotionMin \in Nat \ {0}
    BY <2>1, ConstantTypes DEF IInv, TypeOK, DataOK, WaitInv
  <2>3. CASE Verdict = 1
    <3>1. /\ Phase' = "search" /\ Owed' = "none"
      BY <1>4, <2>3 DEF WakeUp, Phase, Owed
    <3>2. /\ msg = "NO_MOTION" => waitLoop # 0
          /\ detectMotion > MotionMin \/ forceSport
      BY <2>3 DEF Verdict
    <3>3. Protocol!Search
      BY <1>1, <2>1, <2>2, <3>1, <3>2 DEF Protocol!Search
    <3> QED
      BY <3>3 DEF Maps, Protocol!Next
  <2>4. CASE Verdict = 0
    <3>1. /\ Phase' = "parked" /\ Owed' = "NO_MOTION"
      BY <1>4, <2>4 DEF WakeUp, Phase, Owed
    <3>2. /\ msg = "NO_MOTION" => waitLoop # 0
          /\ ~(detectMotion > MotionMin) /\ ~forceSport
      BY <2>4 DEF Verdict
    <3>3. detectMotion <= MotionMin
      BY <2>2, <3>2
    <3>4. Protocol!Rest
      BY <1>1, <2>1, <2>2, <3>1, <3>2, <3>3 DEF Protocol!Rest
    <3> QED
      BY <3>4 DEF Maps, Protocol!Next
  <2>5. CASE Verdict = -1
    <3>1. /\ Phase' = "watch" /\ Owed' = "MOTION_ALERT"
      BY <1>4, <2>5 DEF WakeUp, Phase, Owed
    <3>2. msg = "NO_MOTION" /\ waitLoop = 0
      BY <2>5 DEF Verdict
    <3>3. Protocol!Alert
      BY <1>1, <2>1, <2>2, <3>1, <3>2 DEF Protocol!Alert
    <3> QED
      BY <3>3 DEF Maps, Protocol!Next
  <2> QED
    BY <2>3, <2>4, <2>5 DEF Verdict
<1> QED
  BY <1>2, <1>3, <1>4

\* Every step.
LEMMA NextMaps == IInv /\ [Next]_vars => [Protocol!Next]_Protocol!vars
<1> SUFFICES ASSUME IInv, [Next]_vars PROVE Maps
  BY DEF Maps
<1>1. CASE \E r \in Readings : Boot(r) \/ BootStuck(r) \/ Sense(r)
  BY <1>1, PowerMaps, SearchMaps, WaitMaps DEF Sense
<1>2. CASE Compute
  BY <1>2, SearchMaps, ReportMaps, WaitMaps DEF Compute
<1>3. CASE Stuck \/ PowerLoss
  BY <1>3, PowerMaps
<1>4. CASE UNCHANGED vars
  BY <1>4 DEF Maps, Protocol!vars, vars, place, sport, Phase, Owed, Motions
<1> QED
  BY <1>1, <1>2, <1>3, <1>4 DEF Next

-----------------------------------------------------------------------------
\* The control loop sends and rests only as the protocol promises its owner.
THEOREM Refinement == Spec => Implements
<1> QED
  BY InitMaps, NextMaps, Invariant, PTL DEF Spec, Implements, Protocol!Spec
=============================================================================
