---------------------------- MODULE HistoryProofs ----------------------------
(***************************************************************************)
(* Proofs about Tracker with its two sets of history variables, for every  *)
(* value of the constants. TrackerTime: how far apart the messages are.    *)
(* TrackerWitness: what the tracker tells the world about its position,    *)
(* and what handling it can switch. Every step of either is one of         *)
(* Tracker, so that the invariant of TrackerProofs holds here too.         *)
(***************************************************************************)
EXTENDS TrackerTime, TrackerWitness, TrackerProofs

tvars == <<vars, clock>>

\* The last message was a regular one and nothing has shortened the wait since.
Unhurried == last \notin {"none", "WEAK_BAT"} /\ ~hurried

\* The turns of a wait are on the clock: at least 4 s each, 8 s when parked.
\* Only the alert of a parked tracker and a switch of the sport mode cut a wait.
SpacedInv ==
  Unhurried =>
    /\ pc \in {"tick", "gps", "check"} => gap >= ShortWait
    /\ pc \in {"battery", "weak", "send"} /\ msg # "MOTION_ALERT" => gap >= ShortWait
    /\ pc = "sleep" =>
         /\ modeSport = forceSport
         /\ msg # "NO_MOTION" => /\ waitLoop >= ShortWait
                                 /\ gap >= ShortWait \/ gap >= i
         /\ msg = "NO_MOTION" => /\ waitLoop = 0 \/ waitLoop >= NoMotionLoops
                                 /\ gap >= ShortWait \/ gap >= 2 * i

ClockInv ==
  /\ gap \in Nat
  /\ pc = "off" => last = "none"
  /\ SpacedInv

TInv == IInv /\ ClockInv

-----------------------------------------------------------------------------
\* The clock only watches: every step is a step of Tracker.
LEMMA ClockWatches == TimedNext => Next
  BY DEF TimedNext, TimedSense, Instant, Next, Sense, Compute

\* A ShortWait is a positive number of turns, and no more than a PeriodCount.
LEMMA ShortWaitType == ShortWait \in Nat /\ GapCap \in Nat
  BY PeriodAssumption, ClockAssumption DEF ShortWait

\* A step that sends nothing: the clock goes on, up to its bound.
LEMMA ElapseSilent ==
  ASSUME ShortWait <= GapCap, gap \in Nat, NEW d \in Nat, Elapse(d), tx' = "none"
  PROVE  /\ gap' \in Nat /\ last' = last
         /\ Unhurried' => Unhurried /\ ~Switched
         /\ gap >= ShortWait => gap' >= ShortWait
         /\ gap' >= ShortWait \/ gap' = gap + d
<1>1. gap' = AtMost(GapCap, gap + d) /\ last' = last /\ hurried' = (hurried \/ Switched)
  BY DEF Elapse
<1>2. Unhurried' => Unhurried /\ ~Switched
  BY <1>1, Zenon DEF Unhurried
<1>3. PICK g \in Nat : g = AtMost(GapCap, gap + d) /\ (g >= GapCap \/ g = gap + d)
  BY ShortWaitType DEF AtMost
<1>4. g \in Nat /\ (gap >= ShortWait => g >= ShortWait) /\ (g >= ShortWait \/ g = gap + d)
  BY <1>3, ShortWaitType
<1> QED
  BY <1>1, <1>2, <1>3, <1>4

\* A step that sends m starts the clock again.
LEMMA ElapseSent ==
  ASSUME NEW d \in Nat, Elapse(d), tx' # "none"
  PROVE  gap' = 0 /\ last' = tx'
  BY DEF Elapse

-----------------------------------------------------------------------------
\* Power comes and goes.
LEMMA TimePower ==
  ASSUME ShortWait <= GapCap, TInv, IInv',
         \/ PowerLoss /\ Forget
         \/ \E r \in Readings : (Boot(r) \/ BootStuck(r)) /\ Elapse(0)
  PROVE  ClockInv'
<1>1. CASE PowerLoss /\ Forget
  BY <1>1 DEF PowerLoss, Forget, ClockInv, SpacedInv, Unhurried
<1>2. ASSUME NEW r \in Readings, Boot(r) \/ BootStuck(r), Elapse(0)
      PROVE  ClockInv'
  <2>1. pc = "off" /\ pc' \in {"tick", "hung"} /\ last = "none" /\ tx = "none"
    BY <1>2 DEF Boot, BootStuck, TInv, ClockInv, IInv, PlaceInv
  <2>2. tx' = "none"
    BY <1>2, <2>1 DEF Boot, BootStuck, StartUp
  <2>3. gap' \in Nat /\ last' = last
    BY <1>2, <2>2, ElapseSilent DEF TInv, ClockInv
  <2> QED
    BY <2>1, <2>3 DEF ClockInv, SpacedInv, Unhurried
<1> QED
  BY <1>1, <1>2

\* The search, the battery and a hang: nothing is sent, and the place is
\* reached from one that is as far from the last message.
LEMMA TimeSearch ==
  ASSUME ShortWait <= GapCap, TInv,
         \/ \E r \in Readings : Tick(r) /\ Elapse(1)
         \/ (NoTick \/ GpsNoFix \/ GpsFix \/ Check \/ MeasureBattery \/ Stuck) /\ Elapse(0)
  PROVE  ClockInv'
<1>1. PICK d \in {0, 1} : Elapse(d)
  OBVIOUS
<1>2. tx' = "none" /\ pc' # "off" /\ pc' # "sleep"
  BY DEF Tick, NoTick, GpsNoFix, GpsFix, Check, MeasureBattery, Stuck
<1>3. \/ pc \in {"tick", "gps", "check"}
      \/ pc' = "hung"
      \/ pc \in {"battery", "weak", "send"} /\ pc' \in {"battery", "weak", "send"} /\ msg' = msg
  BY DEF Tick, NoTick, GpsNoFix, GpsFix, Check, MeasureBattery, Stuck
<1>4. /\ gap' \in Nat
      /\ Unhurried' => Unhurried
      /\ gap >= ShortWait => gap' >= ShortWait
  BY <1>1, <1>2, ElapseSilent DEF TInv, ClockInv
<1>5. SpacedInv'
  BY <1>2, <1>3, <1>4 DEF SpacedInv, TInv, ClockInv
<1> QED
  BY <1>2, <1>4, <1>5 DEF ClockInv

\* The two transmissions of a visit.
LEMMA TimeSend ==
  ASSUME ShortWait <= GapCap, TInv, IInv', SendWeak \/ Send, Elapse(0)
  PROVE  ClockInv'
<1>1. pc' = (IF pc = "weak" THEN "send" ELSE "record") /\ pc \in {"weak", "send"} /\ msg' = msg
  BY DEF SendWeak, Send
<1>2. CASE tx' = "none"
  <2>1. /\ gap' \in Nat
        /\ Unhurried' => Unhurried
        /\ gap >= ShortWait => gap' >= ShortWait
    BY <1>2, ElapseSilent DEF TInv, ClockInv
  <2> QED
    BY <1>1, <2>1 DEF ClockInv, SpacedInv, TInv
<1>3. CASE tx' # "none"
  <2>1. gap' = 0 /\ last' = tx'
    BY <1>3, ElapseSent
  <2>2. pc = "weak" => tx' = "WEAK_BAT"
    BY <1>3 DEF SendWeak, SendSigFox, Send
  <2> QED
    BY <1>1, <2>1, <2>2 DEF ClockInv, SpacedInv, Unhurried
<1> QED
  BY <1>2, <1>3

\* A wait begins.
LEMMA TimeRecord ==
  ASSUME ShortWait <= GapCap, TInv, NEW r \in Readings, Record(r), Elapse(0)
  PROVE  ClockInv'
<1>1. /\ pc' = "sleep" /\ tx' = "none" /\ msg' = msg /\ i' = 0
      /\ modeSport' = forceSport'
      /\ waitLoop' = WaitFor(msg, countNoMotion)
  BY DEF Record
<1>2. gap' \in Nat
  BY <1>1, ElapseSilent DEF TInv, ClockInv
<1>3. msg # "NO_MOTION" => waitLoop' >= ShortWait
  <2>1. loopGPS \in 0..(GpsLimit + 1)
    BY DEF TInv, IInv, TypeOK, DataOK
  <2>2. PeriodCount - loopGPS >= ShortWait
    BY <2>1, ConstantTypes DEF ShortWait
  <2> QED
    BY <1>1, <2>2 DEF WaitFor
<1>4. msg = "NO_MOTION" => waitLoop' >= NoMotionLoops
  <2>1. PICK k \in {1, 2, 4, 8} : Doubling[countNoMotion] = k
    BY DEF TInv, IInv, TypeOK, DataOK, Doubling
  <2>2. NoMotionLoops * k >= NoMotionLoops
    BY ConstantTypes
  <2> QED
    BY <1>1, <2>1, <2>2 DEF WaitFor
<1>5. SpacedInv'
  BY <1>1, <1>2, <1>3, <1>4 DEF SpacedInv
<1> QED
  BY <1>1, <1>2, <1>5 DEF ClockInv

\* A turn of a wait, which the first move of a slow watch folds.
LEMMA TimeSleepStep ==
  ASSUME ShortWait <= GapCap, TInv, NEW r \in Readings, SleepStep(r),
         Elapse(sleepDuration \div 4)
  PROVE  ClockInv'
<1>1. /\ pc = "sleep" /\ i < waitLoop /\ pc' = "sleep" /\ tx' = "none"
      /\ msg' = msg /\ modeSport' = modeSport
      /\ i' = NextLoop(Moved(r))
      /\ waitLoop' = IF Moved(r) /\ (msg = "NO_MOTION" \/ modeSport # forceSport')
                     THEN 0 ELSE waitLoop
  BY DEF SleepStep
<1>2. /\ i \in Nat /\ waitLoop \in Nat /\ sleepDuration \in {4, 8}
      /\ msg = "NO_MOTION" => sleepDuration = 8
  BY <1>1 DEF TInv, IInv, TypeOK, DataOK, WaitInv
<1>3. PICK d \in {1, 2} : d = sleepDuration \div 4 /\ (sleepDuration = 8 => d = 2)
  BY <1>2
<1>4. /\ gap' \in Nat
      /\ Unhurried' => Unhurried /\ ~Switched
      /\ gap >= ShortWait => gap' >= ShortWait
      /\ gap' >= ShortWait \/ gap' = gap + d
  BY <1>1, <1>3, ElapseSilent DEF TInv, ClockInv
<1>5. PICK n \in Nat : n = NextLoop(Moved(r)) /\ n <= i + 1 /\ (sleepDuration = 8 => n = i + 1)
  BY <1>2 DEF NextLoop
<1>6. SpacedInv'
  <2> SUFFICES ASSUME Unhurried'
               PROVE  /\ modeSport = forceSport'
                      /\ msg # "NO_MOTION" => /\ waitLoop' >= ShortWait
                                              /\ gap' >= ShortWait \/ gap' >= n
                      /\ msg = "NO_MOTION" => /\ waitLoop' = 0 \/ waitLoop' >= NoMotionLoops
                                              /\ gap' >= ShortWait \/ gap' >= 2 * n
    BY <1>1, <1>5 DEF SpacedInv
  <2>1. Unhurried /\ ~Switched
    BY <1>4
  <2>2. forceSport' = forceSport
    BY <1>1, <2>1 DEF Switched
  <2>3. /\ modeSport = forceSport
        /\ msg # "NO_MOTION" => waitLoop >= ShortWait /\ (gap >= ShortWait \/ gap >= i)
        /\ msg = "NO_MOTION" => /\ waitLoop = 0 \/ waitLoop >= NoMotionLoops
                                /\ gap >= ShortWait \/ gap >= 2 * i
    BY <1>1, <2>1 DEF TInv, ClockInv, SpacedInv
  <2>4. modeSport = forceSport'
    BY <2>2, <2>3
  <2>5. msg # "NO_MOTION" => waitLoop' = waitLoop
    BY <1>1, <2>4
  <2>6. msg # "NO_MOTION" => gap' >= ShortWait \/ gap' >= n
    <3>1. CASE gap' >= ShortWait \/ gap >= ShortWait
      BY <1>4, <3>1
    <3>2. CASE gap >= i /\ gap' = gap + d
      <4>1. gap + d >= n
        BY <1>2, <1>5, <3>2 DEF TInv, ClockInv
      <4> QED
        BY <3>2, <4>1
    <3> QED
      BY <1>4, <2>3, <3>1, <3>2
  <2>7. msg = "NO_MOTION" => gap' >= ShortWait \/ gap' >= 2 * n
    <3> SUFFICES ASSUME msg = "NO_MOTION" PROVE gap' >= ShortWait \/ gap' >= 2 * n
      OBVIOUS
    <3>1. CASE gap' >= ShortWait \/ gap >= ShortWait
      BY <1>4, <3>1
    <3>2. CASE gap >= 2 * i /\ gap' = gap + d
      <4>1. gap + d >= 2 * n
        BY <1>2, <1>3, <1>5, <3>2 DEF TInv, ClockInv
      <4> QED
        BY <3>2, <4>1
    <3> QED
      BY <1>4, <2>3, <3>1, <3>2
  <2> QED
    BY <1>1, <2>3, <2>4, <2>5, <2>6, <2>7
<1> QED
  BY <1>1, <1>4, <1>6 DEF ClockInv

\* A wait ends: by its last turn, or by the move that alarms a parked tracker.
LEMMA TimeWakeUp ==
  ASSUME ShortWait <= GapCap, ShortWait <= 2 * NoMotionLoops, TInv, WakeUp, Elapse(0)
  PROVE  ClockInv'
<1>1. /\ pc = "sleep" /\ i >= waitLoop /\ tx' = "none"
      /\ pc' \in {"tick", "battery"}
      /\ msg = "NO_MOTION" /\ waitLoop = 0 => pc' = "battery" /\ msg' = "MOTION_ALERT"
  BY DEF WakeUp, Verdict
<1>2. i \in Nat /\ waitLoop \in Nat
  BY DEF TInv, IInv, TypeOK, DataOK
<1>3. /\ gap' \in Nat
      /\ Unhurried' => Unhurried
      /\ gap >= ShortWait => gap' >= ShortWait
  BY <1>1, ElapseSilent DEF TInv, ClockInv
<1>4. ASSUME Unhurried', ~(msg = "NO_MOTION" /\ waitLoop = 0)
      PROVE  gap >= ShortWait
  <2>1. /\ msg # "NO_MOTION" => waitLoop >= ShortWait /\ (gap >= ShortWait \/ gap >= i)
        /\ msg = "NO_MOTION" => waitLoop >= NoMotionLoops /\ (gap >= ShortWait \/ gap >= 2 * i)
    BY <1>1, <1>3, <1>4 DEF TInv, ClockInv, SpacedInv
  <2> QED
    BY <1>1, <1>2, <2>1, ShortWaitType, ConstantTypes DEF TInv, ClockInv
<1>5. SpacedInv'
  BY <1>1, <1>3, <1>4 DEF SpacedInv
<1> QED
  BY <1>1, <1>3, <1>5 DEF ClockInv

-----------------------------------------------------------------------------
\* The invariant holds at first.
LEMMA TimeInit == TimedInit => TInv
<1>1. TimedInit => ClockInv
  BY DEF TimedInit, ClockInv, SpacedInv, Unhurried
<1> QED
  BY <1>1, InvInit DEF TimedInit, TInv

\* Every step keeps it.
LEMMA TimeNext ==
  ASSUME ShortWait <= GapCap, ShortWait <= 2 * NoMotionLoops, TInv, [TimedNext]_tvars
  PROVE  TInv'
<1>1. IInv'
  BY ClockWatches, InvNext DEF TInv, tvars
<1>2. UNCHANGED tvars => ClockInv'
  BY DEF tvars, vars, clock, place, sport, wait, TInv, ClockInv, SpacedInv, Unhurried
<1>3. ASSUME TimedNext PROVE ClockInv'
  <2>1. ASSUME NEW r \in Readings, TimedSense(r)
        PROVE  ClockInv'
    BY <1>1, <2>1, TimePower, TimeSearch, TimeRecord, TimeSleepStep DEF TimedSense
  <2>2. CASE Instant
    BY <1>1, <2>2, TimeSearch, TimeSend, TimeWakeUp DEF Instant
  <2>3. CASE PowerLoss /\ Forget
    BY <1>1, <2>3, TimePower
  <2> QED
    BY <1>3, <2>1, <2>2, <2>3 DEF TimedNext
<1> QED
  BY <1>1, <1>2, <1>3 DEF TInv

\* Two regular messages are a ShortWait apart: the time is on the clock before
\* sendSigFox() is reached again, as long as the first parked wait is not
\* shorter than the others and the clock's bound not below the claim.
THEOREM SendsAreSpaced ==
  ASSUME ShortWait <= GapCap, ShortWait <= 2 * NoMotionLoops
  PROVE  TimedSpec => MessagesSpaced
<1>1. TInv /\ [TimedNext]_tvars =>
        [tx' # "none" /\ msg # "MOTION_ALERT" /\ last \notin {"none", "WEAK_BAT"}
           /\ ~hurried
         => gap >= ShortWait]_tvars
  <2> SUFFICES ASSUME TInv, TimedNext, tx' # "none", msg # "MOTION_ALERT", Unhurried
               PROVE  gap >= ShortWait
    BY DEF Unhurried, tvars
  <2>1. Next
    BY ClockWatches
  <2>2. pc \in {"weak", "send"} \/ pc = "off"
    BY <2>1 DEF Next, Compute, Sense, Tick, Record, SleepStep, NoTick, GpsNoFix, GpsFix,
                Check, MeasureBattery, SendWeak, Send, WakeUp, Stuck, PowerLoss, Boot,
                BootStuck
  <2>3. pc # "off"
    BY DEF TInv, ClockInv, Unhurried
  <2> QED
    BY <2>2, <2>3 DEF TInv, ClockInv, SpacedInv
<1> QED
  BY <1>1, TimeInit, TimeNext, PTL DEF TimedSpec, MessagesSpaced, tvars

-----------------------------------------------------------------------------
(***************************************************************************)
(* TrackerWitness.                                                         *)
(***************************************************************************)

wvars == <<vars, witness>>

WitnessTypes ==
  /\ fresh \in BOOLEAN /\ plane \in BOOLEAN
  /\ seen \in 0..SyncSlow

\* What has been shown before the dance went on.
SeqShown ==
  /\ seq = 1 => shown[4] = "SIDE_UP" /\ shown[3] \in {"FACE_UP", "none"}
  /\ seq = 2 => /\ shown[4] = "SIDE_DN" /\ shown[3] = "SIDE_UP"
                /\ shown[2] \in {"FACE_UP", "none"}

\* syncSat, 8 bits wide, never promises more satellites than this search saw,
\* and what it holds while no read has failed came from the very last read.
FreshInv ==
  /\ pc \in {"off", "tick", "gps", "check"} =>
       /\ syncSat <= seen \/ seen = SyncSlow
       /\ noSat = 0 /\ syncSat > 0 => fresh
  /\ pc = "battery" /\ msg = "POSITION" => fresh /\ seen = SyncSlow

\* The fix of an aircraft is still as it was received, or a makePayload() that
\* compressed it has closed the gate of the regular message.
PlaneInv ==
  /\ pc = "off" => ~plane
  /\ pc \in {"tick", "gps", "check", "battery", "weak"} =>
       (plane => Cruising(sat, spd, alt))
  /\ pc = "send" => (plane => Cruising(sat, spd, alt) \/ syncSat = 255)

\* seq tells how much of the dance the last orientations were; accelPosition is
\* the last one, except that it is FACE_UP before there was any.
DanceInv ==
  /\ pc = "off" => seq = 0 /\ accelPosition = "FACE_UP" /\ shown = NothingShown
  /\ IF shown[4] = "none" THEN accelPosition = "FACE_UP" ELSE accelPosition = shown[4]
  /\ SeqShown


WInv == IInv /\ WitnessTypes /\ FreshInv /\ PlaneInv /\ DanceInv

-----------------------------------------------------------------------------
\* The witnesses only watch: every step is a step of Tracker.
LEMMA WatchesTracker == WNext => Next
  BY DEF WNext, WSense, WFix, WNoFix, WWakeUp, WOther, WPowerLoss, Next, Sense, Compute

\* A uint8_t sum is never more than the sum.
LEMMA ByteSumBelow ==
  ASSUME NEW x \in 0..255, NEW y \in 0..255
  PROVE  (x + y) % 256 <= x + y
  OBVIOUS

\* The witnesses when a search begins.
LEMMA WitnessReset ==
  ASSUME fresh' = FALSE, seen' = 0, plane' = FALSE
  PROVE  WitnessTypes'
<1>1. 0 \in 0..SyncSlow
  BY ConstantTypes
<1> QED
  BY <1>1 DEF WitnessTypes

\* A look at the accelerometer: seq follows the last orientations, and what the
\* dance switches it switches only at the dance's last one.
LEMMA DanceEffect ==
  ASSUME IInv, NEW r \in Readings, NEW quota \in BOOLEAN, NEW answer \in BOOLEAN,
         NEW active \in BOOLEAN, NEW power \in BOOLEAN,
         AccelStatus(r, quota, answer, active, power),
         Watch(r), UNCHANGED parts, DanceInv, pc # "off"
  PROVE  /\ IF shown'[4] = "none" THEN accelPosition' = "FACE_UP"
                                  ELSE accelPosition' = shown'[4]
         /\ SeqShown'
         /\ latch # latch' => Danced("SIDE_UP")
         /\ forceSport # forceSport' => Danced("FACE_UP")
<1>1. latch \in BOOLEAN /\ forceSport \in BOOLEAN /\ seq \in 0..2
  BY DEF IInv, TypeOK, FlagsOK, DataOK
<1>2. CASE accelPresent /\ r \in Positions
  <2> DEFINE n == DanceSeq(seq, accelPosition, r)
  <2>1. /\ accelPosition' = r
        /\ seq' = IF n < 3 THEN n ELSE 0
        /\ latch' = (latch /\ n # 3)
        /\ forceSport' = IF n = 4 /\ quota THEN ~forceSport ELSE forceSport
    BY <1>2 DEF AccelStatus
  <2>2. shown' = <<shown[2], shown[3], shown[4], r>>
    BY <1>2 DEF Watch, parts
  <2>3. /\ shown'[2] = shown[3] /\ shown'[3] = shown[4]
        /\ shown'[4] = r /\ r # "none"
    BY <1>2, <2>2 DEF Positions
  <2>4. /\ n \in 0..4
        /\ n = 1 => accelPosition = "FACE_UP" /\ r = "SIDE_UP"
        /\ n = 2 => seq = 1 /\ accelPosition = "SIDE_UP" /\ r = "SIDE_DN"
        /\ n = 3 => seq = 2 /\ accelPosition = "SIDE_DN" /\ r = "SIDE_UP"
        /\ n = 4 => seq = 2 /\ accelPosition = "SIDE_DN" /\ r = "FACE_UP"
    BY DEF DanceSeq
  <2> HIDE DEF n
  <2>5. latch # latch' => n = 3
    BY <1>1, <2>1
  <2>6. forceSport # forceSport' => n = 4
    BY <2>1
  <2>7. n \in {3, 4} =>
          \E first \in {"FACE_UP", "none"} : shown' = <<first, "SIDE_UP", "SIDE_DN", r>>
    BY <2>2, <2>4 DEF DanceInv, SeqShown
  <2>10. n = 1 => shown[4] \in {"FACE_UP", "none"}
    BY <2>4 DEF DanceInv
  <2>11. n = 2 => shown[4] = "SIDE_UP" /\ shown[3] \in {"FACE_UP", "none"}
    BY <2>4 DEF DanceInv, SeqShown
  <2>8. seq' = 1 => n = 1
    BY <2>1
  <2>9. seq' = 2 => n = 2
    BY <2>1
  <2> QED
    BY <2>1, <2>3, <2>4, <2>5, <2>6, <2>7, <2>8, <2>9, <2>10, <2>11 DEF SeqShown, Danced
<1>3. CASE ~(accelPresent /\ r \in Positions)
  <2>1. UNCHANGED <<dance, sport, supply>> /\ shown' = shown
    BY <1>3 DEF AccelStatus, Watch, parts
  <2> QED
    BY <2>1 DEF dance, sport, supply, DanceInv, SeqShown
<1> QED
  BY <1>2, <1>3

\* A look taken by the control loop, whatever it reads.
LEMMA SenseDance ==
  ASSUME IInv, DanceInv, NEW r \in Readings, Sense(r), Watch(r)
  PROVE  /\ DanceInv'
         /\ latch # latch' => Danced("SIDE_UP")
         /\ forceSport # forceSport' => Danced("FACE_UP")
<1>1. pc # "off" /\ pc' # "off" /\ UNCHANGED parts
  BY DEF Sense, Tick, Record, SleepStep
<1>2. \E quota, answer, active, power \in BOOLEAN :
        AccelStatus(r, quota, answer, active, power)
  <2>1. GPSactive \in BOOLEAN /\ gpsPower \in BOOLEAN
    BY DEF IInv, TypeOK, FlagsOK
  <2>2. CASE Tick(r) \/ Record(r)
    BY <2>1, <2>2 DEF Tick, Record
  <2>3. CASE SleepStep(r)
    <3>1. PICK bat \in Volts, quota \in BOOLEAN, answer \in BOOLEAN :
            AccelStatus(r, quota, answer, StaysActive(Percent(bat)),
                        IF GPSactive THEN Drive(StaysActive(Percent(bat))) ELSE gpsPower)
      BY <2>3 DEF SleepStep
    <3>2. /\ StaysActive(Percent(bat)) \in BOOLEAN
          /\ (IF GPSactive THEN Drive(StaysActive(Percent(bat))) ELSE gpsPower) \in BOOLEAN
      BY <2>1 DEF StaysActive, Drive
    <3> QED
      BY <3>1, <3>2
  <2> QED
    BY <2>2, <2>3 DEF Sense
<1> QED
  BY <1>1, <1>2, DanceEffect DEF DanceInv

-----------------------------------------------------------------------------
\* The invariant holds at first.
LEMMA WInvInit == WInit => WInv
<1> SUFFICES ASSUME WInit PROVE WInv
  OBVIOUS
<1>1. IInv
  BY InvInit DEF WInit
<1>2. WitnessTypes
  <2>1. 0 \in 0..SyncSlow
    BY ConstantTypes
  <2> QED
    BY <2>1 DEF WInit, WitnessTypes
<1>3. FreshInv /\ PlaneInv /\ DanceInv
  BY DEF WInit, Init, FreshInv, PlaneInv, DanceInv, SeqShown, NothingShown
<1> QED
  BY <1>1, <1>2, <1>3 DEF WInv

\* Losing power.
LEMMA WInvPowerLoss ==
  ASSUME WInv, IInv', WPowerLoss
  PROVE  WInv'
<1>1. WitnessTypes'
  BY WitnessReset DEF WPowerLoss
<1>2. FreshInv' /\ PlaneInv' /\ DanceInv'
  BY DEF WPowerLoss, PowerLoss, FreshInv, PlaneInv, DanceInv, SeqShown, NothingShown
<1> QED
  BY <1>1, <1>2 DEF WInv

\* Applying power.
LEMMA WInvBoot ==
  ASSUME WInv, IInv', NEW r \in Readings, Boot(r) \/ BootStuck(r), Watch(r)
  PROVE  WInv'
<1> USE DEF WInv
<1>1. PICK board \in Boards : StartUp(r, board)
  BY DEF Boot, BootStuck
<1>2. /\ pc = "off" /\ pc' \in {"tick", "hung"}
      /\ UNCHANGED <<fresh, seen, plane, search, fix, msg>>
  BY <1>1 DEF Boot, BootStuck, StartUp, Watch
<1>3. WitnessTypes' /\ FreshInv' /\ PlaneInv'
  BY <1>2 DEF WitnessTypes, FreshInv, PlaneInv, search, fix
<1>4. DanceInv'
  <2>1. CASE board.accel /\ r \in Positions
    <3>1. /\ accelPosition' = r /\ seq' = DanceSeq(0, "FACE_UP", r)
          /\ shown' = <<shown[2], shown[3], shown[4], r>>
      BY <1>1, <2>1 DEF StartUp, Watch
    <3>2. shown'[3] = "none" /\ shown'[4] = r /\ r # "none"
      BY <1>2, <2>1, <3>1 DEF DanceInv, NothingShown, Positions
    <3>3. seq' \in {0, 1} /\ (seq' = 1 => r = "SIDE_UP")
      BY <3>1 DEF DanceSeq
    <3> QED
      BY <1>2, <3>1, <3>2, <3>3 DEF DanceInv, SeqShown
  <2>2. CASE ~(board.accel /\ r \in Positions)
    <3>1. UNCHANGED <<dance, shown>>
      BY <1>1, <2>2 DEF StartUp, Watch
    <3> QED
      BY <1>2, <3>1 DEF DanceInv, SeqShown, dance
  <2> QED
    BY <2>1, <2>2
<1> QED
  BY <1>3, <1>4

\* Looks at the accelerometer change nothing the search knows.
LEMMA WInvSense ==
  ASSUME WInv, IInv', NEW r \in Readings, Sense(r), Watch(r)
  PROVE  WInv'
<1> USE DEF WInv
<1>1. /\ pc \in {"tick", "record", "sleep"} /\ pc' \in {"gps", "sleep"}
      /\ pc' = "gps" => pc = "tick"
      /\ UNCHANGED <<fresh, seen, plane, noSat, syncSat, fix>>
  BY DEF Sense, Tick, Record, SleepStep, Watch, search
<1>2. WitnessTypes' /\ FreshInv' /\ PlaneInv'
  BY <1>1 DEF WitnessTypes, FreshInv, PlaneInv, fix
<1> QED
  BY <1>2, SenseDance

\* The reads of the receiver and the verdict of main() about them.
LEMMA WInvSearch ==
  ASSUME WInv, IInv', WFix \/ WNoFix \/ ((NoTick \/ Check) /\ UNCHANGED witness)
  PROVE  WInv'
<1> USE DEF WInv
<1>1. /\ noSat \in 0..(NoSatMax + 1) /\ syncSat \in 0..255
      /\ sat' \in 0..255 /\ SyncSlow \in Nat \ {0} /\ SyncFast \in Nat
      /\ SyncSlow <= SyncFast /\ NoSatMax \in Nat /\ NoSatMax < 255
  BY PeriodAssumption DEF IInv, TypeOK, DataOK
<1>2. /\ pc' # "off" /\ pc # "off" /\ pc' # "send" /\ UNCHANGED <<shown, dance>>
      /\ pc \in {"tick", "gps", "check"}
  BY DEF WFix, WNoFix, NoTick, Check, GpsFix, GpsNoFix, witness
<1>3. DanceInv'
  BY <1>2 DEF DanceInv, SeqShown, dance
<1>4. CASE WFix
  <2>1. /\ pc = "gps" /\ pc' = "check" /\ noSat' = 0
        /\ fresh' = TRUE
        /\ plane' = Cruising(sat', spd', alt')
    BY <1>4 DEF WFix, GpsFix
  <2>2. PICK s \in 0..255 :
          /\ syncSat' = (syncSat + s) % 256
          /\ seen' = IF seen + s > SyncSlow THEN SyncSlow ELSE seen + s
    BY <1>1, <1>4 DEF WFix, GpsFix
  <2>3. syncSat <= seen \/ seen = SyncSlow
    BY <2>1 DEF FreshInv
  <2>4. syncSat' <= syncSat + s /\ syncSat \in Nat /\ seen \in 0..SyncSlow
    BY <1>1, <2>2, ByteSumBelow DEF WitnessTypes
  <2>5. seen' \in 0..SyncSlow
    BY <1>1, <2>2, <2>4
  <2>6. syncSat' <= seen' \/ seen' = SyncSlow
    <3>1. CASE syncSat <= seen
      BY <1>1, <2>2, <2>4, <3>1
    <3>2. CASE seen = SyncSlow
      BY <1>1, <2>2, <3>2
    <3> QED
      BY <2>3, <3>1, <3>2
  <2>7. plane' \in BOOLEAN
    BY <2>1 DEF Cruising
  <2> QED
    BY <1>3, <2>1, <2>5, <2>6, <2>7 DEF WitnessTypes, FreshInv, PlaneInv
<1>5. CASE WNoFix
  <2>1. /\ pc = "gps" /\ pc' = "check" /\ noSat' = (noSat + 1) % 256
        /\ fresh' = FALSE /\ plane' = FALSE /\ seen' = seen /\ syncSat' = syncSat
    BY <1>5 DEF WNoFix, GpsNoFix
  <2>2. noSat <= NoSatMax
    BY <2>1 DEF IInv, SearchInv
  <2>3. noSat' # 0
    BY <1>1, <2>1, <2>2
  <2> QED
    BY <1>3, <2>1, <2>3 DEF WitnessTypes, FreshInv, PlaneInv
<1>6. CASE NoTick /\ UNCHANGED witness
  BY <1>3, <1>6 DEF NoTick, witness, search, fix, WitnessTypes, FreshInv, PlaneInv
<1>7. CASE Check /\ UNCHANGED witness
  <2>1. /\ UNCHANGED <<fresh, seen, plane, search, fix>> /\ pc = "check"
        /\ pc' \in {"battery", "tick"}
        /\ (pc' = "battery" /\ msg' = "POSITION") => Synced
    BY <1>7 DEF Check, witness
  <2>2. Synced => fresh /\ seen = SyncSlow
    <3>1. Synced => syncSat >= SyncSlow /\ noSat = 0
      BY <1>1 DEF Synced
    <3> QED
      BY <1>1, <2>1, <3>1 DEF FreshInv, WitnessTypes
  <2> QED
    BY <1>3, <2>1, <2>2 DEF WitnessTypes, FreshInv, PlaneInv, search, fix
<1> QED
  BY <1>4, <1>5, <1>6, <1>7

\* A makePayload() that sees an aircraft closes the gate of the regular message.
LEMMA GateCloses ==
  ASSUME NEW m, SendSigFox(m)
  PROVE  /\ Cruising(sat, spd, alt) => syncSat' = 255
         /\ Cruising(sat, spd, alt) => tx' # "POSITION" \/ m # "POSITION"
         /\ syncSat = 255 => syncSat' = 255
<1>1. PICK press \in Pressures :
        /\ MakePayload(m, press)
        /\ tx' = IF Suppressed(m, press) THEN "none" ELSE m
  BY DEF SendSigFox
<1>2. (Cruising(sat, spd, alt) /\ m = "POSITION") => Suppressed(m, press)
  BY DEF Suppressed, PlaneFlagFor, PlaneFlag
<1> QED
  BY <1>1, <1>2 DEF MakePayload

\* powerDownLoop up to its message.
LEMMA WInvReport ==
  ASSUME WInv, IInv', MeasureBattery \/ SendWeak \/ Send \/ Stuck, UNCHANGED witness
  PROVE  WInv'
<1> USE DEF WInv
<1>1. /\ UNCHANGED <<fresh, seen, plane, shown, dance>>
      /\ pc # "off" /\ pc' \in {"weak", "send", "record", "hung"}
  BY DEF MeasureBattery, SendWeak, Send, Stuck, witness
<1>2. WitnessTypes' /\ FreshInv' /\ DanceInv'
  BY <1>1 DEF WitnessTypes, FreshInv, DanceInv, SeqShown, dance
<1>3. PlaneInv'
  <2>1. CASE MeasureBattery
    <3>1. pc = "battery" /\ pc' \in {"weak", "send"} /\ UNCHANGED fix
      BY <2>1 DEF MeasureBattery
    <3> QED
      BY <1>1, <3>1 DEF PlaneInv, fix
  <2>2. CASE SendWeak
    <3>1. pc = "weak" /\ pc' = "send" /\ SendSigFox("WEAK_BAT")
      BY <2>2 DEF SendWeak
    <3> QED
      BY <1>1, <3>1, GateCloses DEF PlaneInv
  <2>3. CASE Send \/ Stuck
    BY <2>3 DEF Send, Stuck, PlaneInv
  <2> QED
    BY <2>1, <2>2, <2>3
<1> QED
  BY <1>2, <1>3

\* The end of a wait forgets the search before it.
LEMMA WInvWakeUp ==
  ASSUME WInv, IInv', WWakeUp
  PROVE  WInv'
<1> USE DEF WInv
<1>1. /\ fresh' = FALSE /\ seen' = 0 /\ plane' = FALSE /\ shown' = shown
      /\ UNCHANGED dance
      /\ syncSat' = 0 /\ noSat' = 0 /\ pc \notin {"off"} /\ pc' \in {"tick", "battery"}
      /\ (pc' = "battery" => msg' # "POSITION")
  BY DEF WWakeUp, WakeUp, ResetSearch
<1>2. WitnessTypes'
  BY <1>1, WitnessReset
<1> QED
  BY <1>1, <1>2 DEF FreshInv, PlaneInv, DanceInv, SeqShown, dance

\* Every step keeps the invariant.
LEMMA WInvNext == WInv /\ [WNext]_wvars => WInv'
<1> SUFFICES ASSUME WInv, [WNext]_wvars PROVE WInv'
  OBVIOUS
<1>1. IInv'
  <2>1. [Next]_vars
    BY WatchesTracker DEF wvars
  <2> QED
    BY <2>1, InvNext DEF WInv
<1>2. CASE UNCHANGED wvars
  <2>1. UNCHANGED <<place, search, fix, dance, witness>>
    BY <1>2 DEF wvars, vars
  <2> QED
    BY <1>1, <2>1 DEF WInv, WitnessTypes, FreshInv, PlaneInv, DanceInv, SeqShown, place,
                      search, fix, dance, witness
<1>3. ASSUME NEW r \in Readings, WSense(r) PROVE WInv'
  BY <1>1, <1>3, WInvBoot, WInvSense DEF WSense
<1>4. CASE WFix \/ WNoFix
  BY <1>1, <1>4, WInvSearch
<1>5. CASE WWakeUp
  BY <1>1, <1>5, WInvWakeUp
<1>6. CASE WOther
  BY <1>1, <1>6, WInvSearch, WInvReport DEF WOther
<1>7. CASE WPowerLoss
  BY <1>1, <1>7, WInvPowerLoss
<1> QED
  BY <1>2, <1>3, <1>4, <1>5, <1>6, <1>7 DEF WNext

-----------------------------------------------------------------------------
\* The inductive invariant.
THEOREM WitnessInvariant == WSpec => []WInv
<1> QED
  BY WInvInit, WInvNext, PTL DEF WSpec, wvars

\* A reported position was given by the last read of this very search, whose
\* fixes alone made it good enough.
THEOREM FixIsFresh == WSpec => []ReportedFixIsFresh
<1>1. WInv => ReportedFixIsFresh
  BY DEF WInv, FreshInv, ReportedFixIsFresh
<1> QED
  BY <1>1, WitnessInvariant, PTL

\* No position is transmitted from the fix of a cruising airplane, however often
\* makePayload() compressed it.
THEOREM PlaneIsSilent == WSpec => SilentInFlight
<1>1. WInv /\ [WNext]_wvars => [tx' = "POSITION" => ~plane]_wvars
  <2> SUFFICES ASSUME WInv, WNext, tx' = "POSITION" PROVE ~plane
    BY DEF wvars
  <2>1. pc # "off" \/ tx = "none"
    BY DEF WInv, IInv, PlaceInv
  <2>2. Send
    <3>1. Next
      BY WatchesTracker
    <3>2. ~SendWeak
      <4>1. SendWeak => tx' \in {"WEAK_BAT", "none"}
        BY DEF SendWeak, SendSigFox
      <4> QED
        BY <4>1
    <3>3. \A r \in Readings : ~Boot(r) /\ ~BootStuck(r) /\ ~Sense(r)
      BY <2>1 DEF Boot, BootStuck, StartUp, Sense, Tick, Record, SleepStep
    <3> QED
      BY <3>1, <3>2, <3>3
      DEF Next, Compute, NoTick, GpsNoFix, GpsFix, Check, MeasureBattery, WakeUp,
          Stuck, PowerLoss
  <2>3. pc = "send" /\ SendSigFox(msg) /\ syncSat < 255
    BY <2>2 DEF Send, GateOpen
  <2>4. msg = "POSITION"
    BY <2>3 DEF SendSigFox
  <2>5. ~Cruising(sat, spd, alt)
    BY <2>3, <2>4, GateCloses
  <2> QED
    BY <2>3, <2>5 DEF WInv, PlaneInv
<1> QED
  BY <1>1, WitnessInvariant, PTL DEF WSpec, SilentInFlight, wvars

\* Handling the tracker switches it off, or the sport mode on or off, only by
\* the dance, or by its last three orientations when the board has shown nothing
\* else since power-on: between two looks at the accelerometer nothing counts.
THEOREM HandlingIsTheDance == WSpec => OnlyTheDance
<1> DEFINE Switch ==
      pc' # "off" /\ pc \in {"tick", "record", "sleep"} =>
        /\ latch # latch' => Danced("SIDE_UP")
        /\ forceSport # forceSport' => Danced("FACE_UP")
<1>1. WInv /\ [WNext]_wvars => [Switch]_wvars
  <2> SUFFICES ASSUME WInv, WNext, pc' # "off", pc \in {"tick", "record", "sleep"}
               PROVE  /\ latch # latch' => Danced("SIDE_UP")
                      /\ forceSport # forceSport' => Danced("FACE_UP")
    BY DEF wvars
  <2>1. CASE \E r \in Readings : WSense(r)
    <3>1. PICK r \in Readings : Sense(r) /\ Watch(r)
      BY <2>1 DEF WSense, Boot, BootStuck
    <3> QED
      BY <3>1, SenseDance DEF WInv
  <2>2. CASE NoTick \/ WakeUp
    BY <2>2 DEF NoTick, WakeUp, sport, supply
  <2>3. ~WFix /\ ~WNoFix /\ ~WPowerLoss
    BY DEF WFix, WNoFix, WPowerLoss, GpsFix, GpsNoFix, PowerLoss
  <2>4. ~Check /\ ~MeasureBattery /\ ~SendWeak /\ ~Send /\ ~Stuck
    BY DEF Check, MeasureBattery, SendWeak, Send, Stuck
  <2> QED
    BY <2>1, <2>2, <2>3, <2>4 DEF WNext, WWakeUp, WOther
<1> QED
  BY <1>1, WitnessInvariant, PTL DEF WSpec, OnlyTheDance, wvars
==============================================================================
