------------------------------ MODULE DogProofs ------------------------------
(***************************************************************************)
(* Proofs about DogTracker for every fence, wait, threshold and fix: the   *)
(* motion count stays an int8_t, no position is sent from inside the fence *)
(* and none is kept silent outside it without one of the known reasons.    *)
(***************************************************************************)
EXTENDS DogTracker, TLAPS

\* A search whose limit is passed is dispatched by the very next tests.
SearchInv == pc # "tests" => loopGPS <= GpsLimit /\ noSat <= NoSatMax

\* The firmware's centre of the fence is the first place of the session.
CentreInv == previous = kennel

\* What a fix says are numbers, and RAM at reset has no dance in progress.
DataInv ==
  /\ spd \in Nat /\ alt \in Nat
  /\ pc = "off" => seq = 0
  /\ pc = "asleep" => msg \in {"POSITION", "NO_GPS", "NO_MOTION", "MOTION_ALERT"}

\* The count of moves against the turns made. In sport mode the wait is longer
\* than the count is wide: there a count that is high enough ends it.
WaitInv ==
  pc = "asleep" =>
    /\ detectMotion \in 0 .. 2 * MOTION_MIN + i
    /\ sleepDuration = 4 => detectMotion = 0 /\ msg # "NO_MOTION"
    /\ waitLoop > 0 =>
         /\ modeSport = forceSport
         /\ msg = "NO_MOTION" => detectMotion = 0
         /\ msg # "NO_MOTION" /\ ~forceSport =>
              i <= PERIOD_COUNT /\ waitLoop <= PERIOD_COUNT
         /\ msg # "NO_MOTION" /\ forceSport =>
              detectMotion < MOTION_MIN \/ i <= DOG_COUNT + 1

DogInv ==
  TypeOK /\ SearchInv /\ CentreInv /\ DataInv /\ WaitInv /\ FenceHolds /\ EscapeReported

-----------------------------------------------------------------------------
\* The constants are numbers; the widths of the counters hold them.
LEMMA ConstantTypes ==
  /\ PERIOD_COUNT \in Nat \ {0} /\ SportWait \in Nat \ {0} /\ StillWait \in Nat \ {0}
  /\ MOTION_MIN \in Nat \ {0} /\ DOG_COUNT \in Nat \ {0}
  /\ GpsLimit \in Nat /\ NoSatMax \in Nat
  /\ SyncSlow \in Nat \ {0} /\ SyncFast \in Nat /\ SyncSize \in Nat \ {0}
  /\ FoldMax \in Nat /\ FoldMax <= 3
  /\ GpsLimit + 1 < PERIOD_COUNT /\ PERIOD_COUNT <= 127
  /\ DOG_COUNT + 2 <= PERIOD_COUNT /\ NoSatMax < 255
  /\ SyncSlow < SyncFast
  BY DogAssumption

\* The parked wait is at least as long as the first one.
LEMMA DoublingType ==
  ASSUME NEW k \in 0 .. 3
  PROVE  Doubling[k] \in {1, 2, 4, 8}
  BY DEF Doubling

\* One step of the dance.
LEMMA StepType ==
  ASSUME TypeOK, NEW r
  PROVE  /\ Step(r) \in 0 .. 4
         /\ seq = 0 => Step(r) \in {0, 1}
         /\ ~Moved(r) => Step(r) = 0
  BY DEF TypeOK, Step, DanceSeq, Moved, Positions

\* What accelStatus() leaves behind: only a move switches the sport mode, and a
\* new session has neither a fence nor a first place.
LEMMA AccelStatusEffect ==
  ASSUME TypeOK, NEW r, NEW on \in BOOLEAN, NEW centre, NEW first, centre = first,
         AccelStatus(r, on, centre, first)
  PROVE  /\ seq' \in 0 .. 2 /\ accelPosition' \in Positions
         /\ forceSport' \in BOOLEAN
         /\ CentreInv'
         /\ ~Moved(r) => forceSport' = on
<1>1. /\ Step(r) \in 0 .. 4
      /\ ~Moved(r) => Step(r) = 0
  BY StepType
<1>2. seq' \in 0 .. 2 /\ accelPosition' \in Positions
  <2>1. CASE accelPresent /\ r \in Positions
    <3>1. accelPosition' = r /\ seq' = IF Step(r) < 3 THEN Step(r) ELSE 0
      BY <2>1 DEF AccelStatus
    <3> QED
      BY <1>1, <2>1, <3>1
  <2>2. CASE ~(accelPresent /\ r \in Positions)
    BY <2>2 DEF AccelStatus, dance, TypeOK
  <2> QED
    BY <2>1, <2>2
<1>3. forceSport' = IF Step(r) = 4 THEN ~on ELSE on
  BY DEF AccelStatus
<1>4. CentreInv'
  BY DEF AccelStatus, CentreInv
<1>5. CASE Step(r) = 4
  <2>1. forceSport' = ~on
    BY <1>3, <1>5
  <2>2. forceSport' \in BOOLEAN
    BY <2>1, Zenon
  <2>3. Moved(r)
    BY <1>1, <1>5
  <2> QED
    BY <1>2, <1>4, <2>2, <2>3, Zenon
<1>6. CASE Step(r) # 4
  <2>1. forceSport' = on
    BY <1>3, <1>6
  <2> QED
    BY <1>2, <1>4, <2>1, Zenon
<1> QED
  BY <1>5, <1>6

\* A step that sends nothing says nothing about the fence.
LEMMA SilenceEffect ==
  ASSUME sent' = Silence
  PROVE  FenceHolds' /\ EscapeReported'
  BY DEF Silence, FenceHolds, EscapeReported

\* What makePayload() and sendSigFox() leave behind. A frame that leaves in sport
\* mode is from outside the fence; a position with satellites in view is kept
\* silent only inside it, by an aircraft or by a syncSat that was 255 before.
LEMMA SendEffect ==
  ASSUME TypeOK, CentreInv, NEW type, NEW q, NEW v \in Nat, NEW h \in Nat,
         NEW on \in BOOLEAN, NEW pr, Send(type, q, v, h, on, pr),
         type = "POSITION" => syncSat # 0
  PROVE  /\ airPlaneSpeed' \in BOOLEAN /\ airPlanePress' \in BOOLEAN
         /\ FenceHolds' /\ EscapeReported'
         /\ Outcome(type, q, v, h, on, pr).syncSat \in {syncSat, Silenced}
<1> DEFINE out == Outcome(type, q, v, h, on, pr)
           sync == IF Fenced(q, on) THEN Silenced ELSE syncSat
           flying == sync # 0 /\ v > 120 /\ h > 1250
           sync2 == IF flying THEN Silenced ELSE sync
           fast == flying \/ (airPlaneSpeed /\ ~(sync # 0 /\ v < 120))
           ground == IF pr > GroundPress \/ (sync2 > 0 /\ ~fast) THEN pr ELSE GroundPress
           high == IF baromPresent THEN ground - pr >= 32 ELSE airPlanePress
           fast2 == fast /\ ~(baromPresent /\ pr > 1000)
           ok == /\ type = "POSITION" \/ ~high
                 /\ ~fast2
                 /\ sync2 # Silenced
<1>1. out.syncSat = sync2
  BY DEF Outcome
<1>2. out.fast = fast2
  BY Zenon DEF Outcome
<1>3. out.high = high /\ high \in BOOLEAN
  <2>1. out.high = high
    BY Zenon DEF Outcome
  <2>2. (ground - pr >= 32) \in BOOLEAN
    OBVIOUS
  <2> HIDE DEF ground
  <2>3. high \in BOOLEAN
    BY <2>2, Zenon DEF TypeOK
  <2> QED
    BY <2>1, <2>3
<1>4. out.ok = ok
  BY Zenon DEF Outcome
<1>5. /\ airPlaneSpeed' = out.fast /\ airPlanePress' = out.high
      /\ sent' = [type |-> type, ok |-> out.ok, at |-> q, on |-> on, spd |-> v,
                  first |-> FirstPlace(q, on), muted |-> syncSat = Silenced]
  BY DEF Send
<1> HIDE DEF out
<1>6. FirstPlace(q, on) = Centre(q, on)
  BY DEF FirstPlace, Centre, CentreInv
<1>7. FenceHolds'
  <2> SUFFICES ASSUME out.ok, on PROVE ~Near(q, Centre(q, on))
    BY <1>5, <1>6 DEF FenceHolds
  <2>1. sync # Silenced
    BY <1>4
  <2> QED
    BY <2>1 DEF Fenced
<1>8. EscapeReported'
  <2> SUFFICES ASSUME type = "POSITION", ~out.ok, syncSat # Silenced,
                      ~(on /\ Near(q, Centre(q, on)))
               PROVE  v >= 120
    BY <1>5, <1>6 DEF EscapeReported
  <2>1. sync = syncSat /\ sync # 0 /\ sync # Silenced
    BY DEF Fenced
  <2> HIDE DEF sync
  <2>2. out.fast \/ flying
    BY <1>2, <1>4, <2>1
  <2>3. flying \/ ~(v < 120)
    BY <1>2, <2>1, <2>2
  <2> QED
    BY <2>3
<1>9. airPlaneSpeed' \in BOOLEAN /\ airPlanePress' \in BOOLEAN
  BY <1>2, <1>3, <1>5
<1> QED
  BY <1>1, <1>7, <1>8, <1>9 DEF out

-----------------------------------------------------------------------------
\* RAM at reset.
LEMMA ResetTypes ==
  /\ 0 \in 0 .. GpsLimit + 1 /\ 0 \in 0 .. NoSatMax + 1 /\ 0 \in 0 .. SyncSize - 1
  /\ 1 \in -1 .. 2 * MOTION_MIN + PERIOD_COUNT /\ 0 \in 0 .. FoldMax
  /\ 0 <= GpsLimit /\ 0 <= NoSatMax
  BY ConstantTypes

\* The invariant holds at first.
LEMMA DogInit == Init => DogInv
<1> SUFFICES ASSUME Init PROVE DogInv
  OBVIOUS
<1>1. TypeOK
  <2>1. /\ forceSport \in BOOLEAN /\ modeSport \in BOOLEAN
        /\ airPlaneSpeed \in BOOLEAN /\ airPlanePress \in BOOLEAN
        /\ button_pressed \in BOOLEAN
    BY Zenon DEF Init
  <2>2. /\ detectMotion = 1 /\ loopGPS = 0 /\ noSat = 0 /\ syncSat = 0 /\ seq = 0
        /\ countNoMotion = 0 /\ waitLoop = 0 /\ i = 0 /\ sleepDuration = 8
        /\ pc = "off" /\ accelPosition = "FACE_UP" /\ button_flag = 0
    BY DEF Init
  <2> QED
    BY <2>1, <2>2, ResetTypes DEF TypeOK, Positions
<1>2. SearchInv
  BY ResetTypes DEF Init, SearchInv
<1>3. CentreInv /\ DataInv /\ WaitInv
  BY DEF Init, CentreInv, DataInv, WaitInv
<1>4. FenceHolds /\ EscapeReported
  BY DEF Init, Silence, FenceHolds, EscapeReported
<1> QED
  BY <1>1, <1>2, <1>3, <1>4 DEF DogInv

\* The supply is dropped.
LEMMA DogPowerOff ==
  ASSUME PowerOff
  PROVE  DogInv'
<1>1. TypeOK'
  <2>1. /\ forceSport' \in BOOLEAN /\ modeSport' \in BOOLEAN
        /\ airPlaneSpeed' \in BOOLEAN /\ airPlanePress' \in BOOLEAN
        /\ button_pressed' \in BOOLEAN
    BY Zenon DEF PowerOff, Reset
  <2>2. /\ detectMotion' = 1 /\ loopGPS' = 0 /\ noSat' = 0 /\ syncSat' = 0 /\ seq' = 0
        /\ countNoMotion' = 0 /\ waitLoop' = 0 /\ i' = 0 /\ sleepDuration' = 8
        /\ pc' = "off" /\ accelPosition' = "FACE_UP" /\ button_flag' = 0
    BY DEF PowerOff, Reset
  <2> QED
    BY <2>1, <2>2, ResetTypes DEF TypeOK, Positions
<1>2. SearchInv'
  BY ResetTypes DEF PowerOff, Reset, SearchInv
<1>3. CentreInv' /\ DataInv' /\ WaitInv'
  BY DEF PowerOff, Reset, CentreInv, DataInv, WaitInv
<1>4. FenceHolds' /\ EscapeReported'
  BY SilenceEffect DEF PowerOff, Reset
<1> QED
  BY <1>1, <1>2, <1>3, <1>4 DEF DogInv

\* The supply comes.
LEMMA DogBoot ==
  ASSUME DogInv, NEW board \in Boards, NEW r \in Readings, NEW pr \in BootPressures,
         Boot(board, r, pr)
  PROVE  DogInv'
<1> USE DEF DogInv
<1>1. seq' \in 0 .. 2 /\ accelPosition' \in Positions
  <2>1. CASE board.accel /\ r \in Positions
    <3>1. accelPosition' = r /\ seq' = DanceSeq(seq, accelPosition, r) /\ seq = 0
      BY <2>1 DEF Boot, DataInv
    <3> QED
      BY <2>1, <3>1 DEF DanceSeq
  <2>2. CASE ~(board.accel /\ r \in Positions)
    BY <2>2 DEF Boot, dance, TypeOK
  <2> QED
    BY <2>1, <2>2
<1>2. /\ pc = "off" /\ pc' = "turn"
      /\ UNCHANGED <<msg, sent, detectMotion, search, fix, sport, airPlaneSpeed,
                     airPlanePress, wait, button>>
  BY DEF Boot
<1>3. TypeOK'
  BY <1>1, <1>2 DEF TypeOK, search, sport, wait, button
<1>4. SearchInv' /\ CentreInv' /\ DataInv' /\ WaitInv'
  BY <1>2 DEF SearchInv, CentreInv, DataInv, WaitInv, search, sport, fix
<1>5. FenceHolds' /\ EscapeReported'
  BY <1>2 DEF FenceHolds, EscapeReported
<1> QED
  BY <1>3, <1>4, <1>5

-----------------------------------------------------------------------------
\* The steps between two places of main() that change nothing else.
LEMMA DogStill ==
  ASSUME DogInv, sent' = Silence,
         UNCHANGED <<msg, detectMotion, search, fix, sport, plane, dance, wait>>,
         button_pressed' \in BOOLEAN, button_flag' \in {0, 1},
         pc' = pc \/ pc' \in {"turn", "button", "rest", "alert"},
         pc = "tests" /\ pc' # "tests" => ~TimeOver
  PROVE  DogInv'
<1> USE DEF DogInv
<1>1. TypeOK'
  BY DEF TypeOK, search, sport, plane, dance, wait
<1>2. SearchInv'
  BY ConstantTypes DEF SearchInv, TimeOver, TypeOK, search
<1>3. CentreInv' /\ DataInv' /\ WaitInv'
  BY DEF CentreInv, DataInv, WaitInv, sport, fix, dance, wait
<1> QED
  BY <1>1, <1>2, <1>3, SilenceEffect

\* A press of the button.
LEMMA DogPress ==
  ASSUME DogInv, Press
  PROVE  DogInv'
<1>1. button_flag' \in {0, 1}
  BY DEF Press, DogInv, TypeOK
<1> QED
  BY <1>1, DogStill DEF Press

\* A turn of the search: what the receiver gives, after a look or without.
LEMMA DogTurn ==
  ASSUME DogInv, NEW ticks \in BOOLEAN, Turn(ticks)
  PROVE  DogInv'
<1> USE DEF DogInv
<1>1. CASE PowerOff
  BY <1>1, DogPowerOff
<1>2. CASE ~PowerOff
  <2>1. /\ pc = "turn" /\ pc' = "tests" /\ sent' = Silence /\ GpsProcess
        /\ UNCHANGED <<msg, detectMotion, plane, wait, button, parts>>
        /\ \/ UNCHANGED <<loopGPS, sport, dance>>
           \/ \E r \in Readings : Tick(r)
    BY <1>2 DEF Turn
  <2>2. loopGPS <= GpsLimit /\ noSat <= NoSatMax /\ loopGPS \in Nat /\ noSat \in Nat
    BY <2>1 DEF SearchInv, TypeOK
  <2>3. /\ loopGPS' \in 0 .. GpsLimit + 1
        /\ seq' \in 0 .. 2 /\ accelPosition' \in Positions
        /\ forceSport' \in BOOLEAN /\ CentreInv'
    <3>1. CASE UNCHANGED <<loopGPS, sport, dance>>
      BY <3>1 DEF TypeOK, CentreInv, sport, dance
    <3>2. ASSUME NEW r \in Readings, Tick(r)
          PROVE  /\ loopGPS' \in 0 .. GpsLimit + 1
                 /\ seq' \in 0 .. 2 /\ accelPosition' \in Positions
                 /\ forceSport' \in BOOLEAN /\ CentreInv'
      <4>1. AccelStatus(r, forceSport, previous, kennel)
        BY <3>2 DEF Tick
      <4>2. loopGPS' \in 0 .. GpsLimit + 1
        BY <2>2, <3>2, ConstantTypes DEF Tick
      <4> QED
        BY <4>1, <4>2, AccelStatusEffect DEF TypeOK, CentreInv
    <3> QED
      BY <2>1, <3>1, <3>2
  <2>4. /\ noSat' \in 0 .. NoSatMax + 1 /\ syncSat' \in 0 .. SyncSize - 1
        /\ spd' \in Nat /\ alt' \in Nat
    <3>1. ASSUME NEW f \in Fixes, spd' = f.spd, alt' = f.alt,
                 syncSat' = (syncSat + f.sat) % SyncSize, noSat' = 0
          PROVE  /\ noSat' \in 0 .. NoSatMax + 1 /\ syncSat' \in 0 .. SyncSize - 1
                 /\ spd' \in Nat /\ alt' \in Nat
      <4>1. f.sat \in Nat /\ f.spd \in Nat /\ f.alt \in Nat
        BY DogAssumption
      <4>2. syncSat + f.sat \in Nat
        BY <4>1 DEF TypeOK
      <4>3. syncSat' \in 0 .. SyncSize - 1
        BY <3>1, <4>2, ConstantTypes
      <4> QED
        BY <3>1, <4>1, <4>3, ResetTypes
    <3>2. CASE noSat' = (noSat + 1) % 256 /\ UNCHANGED <<fix, syncSat>>
      BY <2>2, <3>2, ConstantTypes DEF TypeOK, DataInv, fix
    <3>3. CASE UNCHANGED <<fix, syncSat, noSat>>
      BY <3>3 DEF TypeOK, DataInv, fix
    <3> QED
      BY <2>1, <3>1, <3>2, <3>3 DEF GpsProcess
  <2>5. TypeOK'
    BY <2>1, <2>3, <2>4 DEF TypeOK, plane, wait, button
  <2>6. SearchInv' /\ DataInv' /\ WaitInv'
    BY <2>1, <2>4 DEF SearchInv, DataInv, WaitInv
  <2> QED
    BY <2>1, <2>3, <2>5, <2>6, SilenceEffect
<1> QED
  BY <1>1, <1>2

-----------------------------------------------------------------------------
\* powerDownLoop() up to its while loop: one frame, and the wait that follows.
LEMMA DogReport ==
  ASSUME DogInv, NEW m \in {"POSITION", "NO_GPS", "NO_MOTION", "MOTION_ALERT"},
         NEW low \in BOOLEAN, NEW r, NEW pr, m = "POSITION" => Located,
         Report(m, low, r, pr)
  PROVE  DogInv'
<1> DEFINE on == forceSport /\ ~low
<1> USE DEF DogInv
<1>1. on \in BOOLEAN /\ spd \in Nat /\ alt \in Nat
  BY DEF DataInv
<1>2. m = "POSITION" => syncSat # 0
  BY ConstantTypes DEF Located, TypeOK
<1>3. /\ Send(m, p, spd, alt, on, pr)
      /\ AccelStatus(r, on, Centre(p, on), FirstPlace(p, on))
  BY DEF Report
<1>4. Centre(p, on) = FirstPlace(p, on)
  BY DEF Centre, FirstPlace, CentreInv
<1> HIDE DEF on
<1>5. seq' \in 0 .. 2 /\ accelPosition' \in Positions /\ forceSport' \in BOOLEAN /\ CentreInv'
  BY <1>1, <1>3, <1>4, AccelStatusEffect
<1>6. airPlaneSpeed' \in BOOLEAN /\ airPlanePress' \in BOOLEAN /\ FenceHolds' /\ EscapeReported'
  BY <1>1, <1>2, <1>3, SendEffect
<1>7. /\ pc' = "asleep" /\ msg' = m /\ modeSport' = forceSport' /\ i' = 0
      /\ loopGPS' = 0 /\ noSat' = 0 /\ syncSat' = 0 /\ spd' = 0 /\ alt' = 0
      /\ button_flag' = 0
      /\ detectMotion' \in {0, 2 * MOTION_MIN}
      /\ m = "NO_MOTION" => detectMotion' = 0
      /\ sleepDuration' \in {4, 8}
      /\ sleepDuration' = 4 => detectMotion' = 0 /\ m # "NO_MOTION"
  BY DEF Report, NextSearch
<1>8. button_pressed' \in BOOLEAN /\ modeSport' \in BOOLEAN
  BY <1>5, Zenon DEF Report
<1>9. countNoMotion' \in 0 .. FoldMax
  <2>1. \/ countNoMotion' \in {0, countNoMotion}
        \/ countNoMotion < FoldMax /\ countNoMotion' = countNoMotion + 1
    BY DEF Report
  <2> QED
    BY <2>1, ConstantTypes DEF TypeOK
<1>10. waitLoop' \in Nat /\ (m # "NO_MOTION" /\ ~forceSport' => waitLoop' <= PERIOD_COUNT)
  <2>1. CASE m = "NO_MOTION"
    <3>1. waitLoop' = StillWait * Doubling[countNoMotion]
      BY <2>1 DEF Report
    <3>2. countNoMotion \in 0 .. 3
      BY ConstantTypes DEF TypeOK
    <3>3. PICK d \in {1, 2, 4, 8} : Doubling[countNoMotion] = d
      BY <3>2, DoublingType
    <3>4. StillWait * d \in Nat
      BY ConstantTypes
    <3> QED
      BY <2>1, <3>1, <3>3, <3>4
  <2>2. CASE m # "NO_MOTION" /\ forceSport'
    BY <2>2, ConstantTypes DEF Report
  <2>3. CASE m # "NO_MOTION" /\ ~forceSport'
    <3>1. waitLoop' = PERIOD_COUNT - loopGPS
      BY <2>3 DEF Report
    <3>2. PERIOD_COUNT - loopGPS \in Nat /\ PERIOD_COUNT - loopGPS <= PERIOD_COUNT
      BY ConstantTypes DEF TypeOK
    <3> QED
      BY <3>1, <3>2
  <2> QED
    BY <2>1, <2>2, <2>3
<1>11. TypeOK'
  <2>1. detectMotion' \in -1 .. 2 * MOTION_MIN + PERIOD_COUNT
    BY <1>7, ConstantTypes
  <2> QED
    BY <1>5, <1>6, <1>7, <1>8, <1>9, <1>10, <2>1, ResetTypes DEF TypeOK
<1>12. SearchInv' /\ DataInv'
  BY <1>7, ResetTypes DEF SearchInv, DataInv
<1>13. WaitInv'
  BY <1>7, <1>10, ConstantTypes DEF WaitInv
<1> QED
  BY <1>5, <1>6, <1>11, <1>12, <1>13

\* powerDownLoop() from its call, a dropped supply included.
LEMMA DogVisit ==
  ASSUME DogInv, NEW m \in {"POSITION", "NO_GPS", "NO_MOTION", "MOTION_ALERT"},
         m = "POSITION" => Located, Visit(m)
  PROVE  DogInv'
<1>1. CASE PowerOff
  BY <1>1, DogPowerOff
<1>2. ASSUME NEW low \in BOOLEAN, NEW r \in Readings, NEW pr \in Pressures,
             Report(m, low, r, pr)
      PROVE  DogInv'
  BY <1>2, DogReport
<1> QED
  BY <1>1, <1>2 DEF Visit

\* A place of main() is left without a report.
LEMMA DogGoto ==
  ASSUME DogInv, NEW place \in {"turn", "button", "rest", "alert"}, Goto(place),
         pc = "tests" => ~TimeOver
  PROVE  DogInv'
<1>1. button_pressed' \in BOOLEAN /\ button_flag' \in {0, 1}
  BY DEF Goto, button, DogInv, TypeOK
<1> QED
  BY <1>1, DogStill DEF Goto

\* The two tests of the search.
LEMMA DogTests ==
  ASSUME DogInv, Tests
  PROVE  DogInv'
<1>1. CASE Located /\ Visit("POSITION")
  BY <1>1, DogVisit
<1>2. CASE Visit("NO_GPS")
  BY <1>2, DogVisit
<1>3. CASE ~TimeOver /\ Goto("button")
  BY <1>3, DogGoto
<1> QED
  BY <1>1, <1>2, <1>3 DEF Tests

\* The test for a parked tracker and the one for its alarm.
LEMMA DogRestAlert ==
  ASSUME DogInv, Rest \/ Alert
  PROVE  DogInv'
<1>1. CASE Visit("NO_MOTION") \/ Visit("MOTION_ALERT")
  BY <1>1, DogVisit
<1>2. CASE pc # "tests" /\ (Goto("alert") \/ Goto("turn"))
  BY <1>2, DogGoto
<1> QED
  BY <1>1, <1>2 DEF Rest, Alert

\* The answer to a press: no position is known, which in sport mode counts as
\* inside a fence that is not drawn yet, and leaves syncSat at 255.
LEMMA DogButton ==
  ASSUME DogInv, Button
  PROVE  DogInv'
<1>1. CASE Goto("rest")
  BY <1>1, DogGoto DEF Button
<1>2. CASE ~Goto("rest")
  <2> USE DEF DogInv
  <2>1. PICK pr \in Pressures :
            /\ Send("OPTION", Nowhere, 0, 0, forceSport, pr)
            /\ syncSat' = Outcome("OPTION", Nowhere, 0, 0, forceSport, pr).syncSat
            /\ previous' = Centre(Nowhere, forceSport)
            /\ kennel' = FirstPlace(Nowhere, forceSport)
            /\ button_pressed' = FALSE /\ button_flag' = 1
            /\ p' = Nowhere /\ spd' = 0 /\ alt' = 0
            /\ pc' = "rest"
            /\ UNCHANGED <<msg, detectMotion, loopGPS, noSat, forceSport, dance, wait,
                           parts>>
    BY <1>2 DEF Button
  <2>2. forceSport \in BOOLEAN /\ 0 \in Nat
    BY DEF TypeOK
  <2>3. /\ airPlaneSpeed' \in BOOLEAN /\ airPlanePress' \in BOOLEAN
        /\ FenceHolds' /\ EscapeReported'
        /\ Outcome("OPTION", Nowhere, 0, 0, forceSport, pr).syncSat \in {syncSat, Silenced}
    BY <2>1, <2>2, SendEffect
  <2>4. syncSat' \in 0 .. SyncSize - 1
    BY <2>1, <2>3, ConstantTypes DEF TypeOK, Silenced
  <2>5. forceSport' \in BOOLEAN /\ modeSport' \in BOOLEAN /\ button_pressed' \in BOOLEAN
    BY <2>1, Zenon DEF TypeOK, wait
  <2>6. TypeOK'
    BY <2>1, <2>3, <2>4, <2>5 DEF TypeOK, dance, wait
  <2>7. SearchInv' /\ CentreInv' /\ DataInv' /\ WaitInv'
    BY <1>2, <2>1 DEF Button, SearchInv, CentreInv, DataInv, WaitInv, Centre, FirstPlace
  <2> QED
    BY <2>3, <2>6, <2>7
<1> QED
  BY <1>1, <1>2

\* One turn of the while loop of powerDownLoop().
LEMMA DogSleepTurn ==
  ASSUME DogInv, pc = "asleep", i < waitLoop, NEW r, SleepTurn(r)
  PROVE  DogInv'
<1> DEFINE again == sleepDuration = 4 /\ Moved(r)
           dm    == IF Moved(r) THEN detectMotion + 1 ELSE detectMotion
           j     == IF again THEN i \div 2 ELSE i
           leave == \/ button_pressed
                    \/ Moved(r) /\ (msg = "NO_MOTION" \/ modeSport # forceSport')
                    \/ Excited(dm, j) /\ forceSport'
<1> USE DEF DogInv
<1>1. /\ AccelStatus(r, forceSport, previous, kennel)
      /\ detectMotion' = dm /\ i' = j + 1
      /\ sleepDuration' = IF again THEN 8 ELSE sleepDuration
      /\ waitLoop' = IF leave THEN 0 ELSE waitLoop
      /\ sent' = Silence
      /\ UNCHANGED <<pc, msg, search, fix, plane, countNoMotion, modeSport, button, parts>>
  BY DEF SleepTurn
<1>2. /\ seq' \in 0 .. 2 /\ accelPosition' \in Positions /\ forceSport' \in BOOLEAN
      /\ CentreInv'
      /\ ~Moved(r) => forceSport' = forceSport
  BY <1>1, AccelStatusEffect DEF TypeOK, CentreInv
<1>3. /\ waitLoop \in Nat /\ i \in Nat /\ detectMotion \in 0 .. 2 * MOTION_MIN + i
      /\ sleepDuration \in {4, 8}
      /\ sleepDuration = 4 => detectMotion = 0 /\ msg # "NO_MOTION"
      /\ msg = "NO_MOTION" => detectMotion = 0
      /\ msg # "NO_MOTION" /\ ~forceSport => i <= PERIOD_COUNT /\ waitLoop <= PERIOD_COUNT
      /\ msg # "NO_MOTION" /\ forceSport => detectMotion < MOTION_MIN \/ i <= DOG_COUNT + 1
  BY DEF TypeOK, WaitInv
<1>4. modeSport = forceSport
  BY DEF TypeOK, WaitInv
<1>5. /\ j \in Nat /\ j <= i
      /\ dm \in 0 .. 2 * MOTION_MIN + j + 1
      /\ again => dm = 1
  BY <1>3, ConstantTypes
<1>6. dm \in 0 .. 2 * MOTION_MIN + PERIOD_COUNT
  BY <1>3, ConstantTypes
<1>7. ~leave => /\ modeSport = forceSport'
                /\ msg = "NO_MOTION" => dm = 0
                /\ msg # "NO_MOTION" /\ ~forceSport' =>
                     j + 1 <= PERIOD_COUNT /\ waitLoop <= PERIOD_COUNT
                /\ msg # "NO_MOTION" /\ forceSport' =>
                     dm < MOTION_MIN \/ j + 1 <= DOG_COUNT + 1
  <2> SUFFICES ASSUME ~leave
               PROVE  /\ modeSport = forceSport'
                      /\ msg = "NO_MOTION" => dm = 0
                      /\ msg # "NO_MOTION" /\ ~forceSport' =>
                           j + 1 <= PERIOD_COUNT /\ waitLoop <= PERIOD_COUNT
                      /\ msg # "NO_MOTION" /\ forceSport' =>
                           dm < MOTION_MIN \/ j + 1 <= DOG_COUNT + 1
    OBVIOUS
  <2>1. modeSport = forceSport'
    BY <1>2, <1>4
  <2>2. msg = "NO_MOTION" => dm = 0
    BY <1>3
  <2> HIDE DEF again
  <2>3. ~forceSport' => ~forceSport
    BY <1>4, <2>1
  <2>4. msg # "NO_MOTION" /\ ~forceSport' => j + 1 <= PERIOD_COUNT /\ waitLoop <= PERIOD_COUNT
    BY <1>3, <1>5, <2>3, ConstantTypes
  <2>5. forceSport' => ~Excited(dm, j)
    OBVIOUS
  <2> HIDE DEF dm, j
  <2>6. forceSport' => dm < MOTION_MIN \/ j + 1 <= DOG_COUNT + 1
    BY <1>5, <1>6, <2>5, ConstantTypes DEF Excited
  <2> QED
    BY <2>1, <2>2, <2>4, <2>6
<1>8. sleepDuration' \in {4, 8} /\ (sleepDuration' = 4 => dm = 0 /\ msg # "NO_MOTION")
  BY <1>1, <1>3
<1> HIDE DEF dm, j, leave, again
<1>9. waitLoop' \in {0, waitLoop} /\ (waitLoop' > 0 => ~leave)
  BY <1>1, <1>3
<1>10. TypeOK'
  <2>1. modeSport' \in BOOLEAN /\ button_pressed' \in BOOLEAN
    BY <1>1 DEF button, TypeOK
  <2> QED
    BY <1>1, <1>2, <1>3, <1>5, <1>6, <1>8, <1>9, <2>1, ConstantTypes
    DEF TypeOK, search, fix, plane, button
<1>11. SearchInv' /\ DataInv'
  BY <1>1 DEF SearchInv, DataInv, search, fix
<1>12. WaitInv'
  <2>1. detectMotion' \in 0 .. 2 * MOTION_MIN + i'
    <3>1. dm \in 0 .. 2 * MOTION_MIN + (j + 1)
      BY <1>5, ConstantTypes
    <3> QED
      BY <1>1, <3>1
  <2>2. sleepDuration' = 4 => detectMotion' = 0 /\ msg' # "NO_MOTION"
    BY <1>1, <1>8
  <2>3. ASSUME waitLoop' > 0
        PROVE  /\ modeSport' = forceSport'
               /\ msg' = "NO_MOTION" => detectMotion' = 0
               /\ msg' # "NO_MOTION" /\ ~forceSport' =>
                    i' <= PERIOD_COUNT /\ waitLoop' <= PERIOD_COUNT
               /\ msg' # "NO_MOTION" /\ forceSport' =>
                    detectMotion' < MOTION_MIN \/ i' <= DOG_COUNT + 1
    <3>1. ~leave /\ waitLoop' = waitLoop
      BY <1>9, <2>3
    <3>2. UNCHANGED <<msg, modeSport>> /\ detectMotion' = dm /\ i' = j + 1
      BY <1>1
    <3>3. modeSport' = forceSport' /\ (msg' = "NO_MOTION" => detectMotion' = 0)
      BY <1>7, <3>1, <3>2
    <3>4. msg' # "NO_MOTION" /\ ~forceSport' => i' <= PERIOD_COUNT /\ waitLoop' <= PERIOD_COUNT
      BY <1>7, <3>1, <3>2
    <3>5. msg' # "NO_MOTION" /\ forceSport' =>
            detectMotion' < MOTION_MIN \/ i' <= DOG_COUNT + 1
      BY <1>7, <3>1, <3>2
    <3> QED
      BY <3>3, <3>4, <3>5
  <2> QED
    BY <2>1, <2>2, <2>3 DEF WaitInv
<1>13. FenceHolds' /\ EscapeReported'
  BY <1>1, SilenceEffect
<1> QED
  BY <1>2, <1>10, <1>11, <1>12, <1>13

\* A turn of the sleep, whatever the device shows after it.
LEMMA DogSleep ==
  ASSUME DogInv, Sleep
  PROVE  DogInv'
<1>1. CASE PowerOff
  BY <1>1, DogPowerOff
<1>2. ASSUME NEW r \in Readings, SleepTurn(r)
      PROVE  DogInv'
  BY <1>2, DogSleepTurn DEF Sleep
<1> QED
  BY <1>1, <1>2 DEF Sleep

\* The end of powerDownLoop(): what comes next.
LEMMA DogReturn ==
  ASSUME DogInv, Return
  PROVE  DogInv'
<1> USE DEF DogInv
<1>1. /\ pc = "asleep" /\ pc' \in {"button", "alert", "turn"} /\ sent' = Silence
      /\ msg' = "none" /\ i' = 0 /\ waitLoop' = 0 /\ sleepDuration' = 8
      /\ detectMotion' \in {-1, 0, 1}
      /\ UNCHANGED <<countNoMotion, search, fix, sport, plane, dance, button, parts>>
  BY DEF Return
<1>2. modeSport' \in BOOLEAN
  BY Zenon DEF Return
<1>3. detectMotion' \in -1 .. 2 * MOTION_MIN + PERIOD_COUNT
  BY <1>1, ConstantTypes
<1>4. TypeOK'
  BY <1>1, <1>2, <1>3 DEF TypeOK, search, sport, plane, dance, button
<1>5. SearchInv' /\ CentreInv' /\ DataInv' /\ WaitInv'
  BY <1>1 DEF SearchInv, CentreInv, DataInv, WaitInv, search, sport, fix, dance
<1> QED
  BY <1>1, <1>4, <1>5, SilenceEffect

-----------------------------------------------------------------------------
\* Every step keeps the invariant.
LEMMA DogNext ==
  ASSUME DogInv, [Next]_vars
  PROVE  DogInv'
<1>1. CASE Turn(FALSE) \/ Turn(TRUE)
  BY <1>1, DogTurn
<1>2. CASE Tests
  BY <1>2, DogTests
<1>3. CASE Button
  BY <1>3, DogButton
<1>4. CASE Rest \/ Alert
  BY <1>4, DogRestAlert
<1>5. CASE Sleep
  BY <1>5, DogSleep
<1>6. CASE Return
  BY <1>6, DogReturn
<1>7. CASE Press
  BY <1>7, DogPress
<1>8. ASSUME NEW board \in Boards, NEW r \in Readings, NEW pr \in BootPressures,
             Boot(board, r, pr)
      PROVE  DogInv'
  BY <1>8, DogBoot
<1>9. CASE UNCHANGED vars
  BY <1>9 DEF DogInv, TypeOK, SearchInv, CentreInv, DataInv, WaitInv, FenceHolds,
              EscapeReported, vars, search, fix, sport, plane, dance, wait, button, parts
<1> QED
  BY <1>1, <1>2, <1>3, <1>4, <1>5, <1>6, <1>7, <1>8, <1>9 DEF Next, Program

(* The inductive invariant of the DOG sketch, for every fence, threshold    *)
(* and fix.                                                                 *)
THEOREM DogInvariant == Spec => []DogInv
  BY DogInit, DogNext, PTL DEF Spec

(* The motion count that powerDownLoop() increments without a test stays in *)
(* its int8_t, loopGPS and noSatCount stay below their limits, and the wait *)
(* is never a negative number taken for a large one.                        *)
THEOREM DogTypeCorrect == Spec => []TypeOK
<1>1. DogInv => TypeOK
  BY DEF DogInv
<1> QED
  BY DogInvariant, <1>1, PTL

(* In sport mode powerDownLoop() sends no position from inside the fence    *)
(* around the first place of the session, wherever the dog has been since.  *)
THEOREM FenceIsKept == Spec => []FenceHolds
<1>1. DogInv => FenceHolds
  BY DEF DogInv
<1> QED
  BY DogInvariant, <1>1, PTL

(* A position is kept silent only inside the fence, at the speed of an      *)
(* airplane, or when a press left syncSat at 255: an escape is reported.    *)
THEOREM EscapesAreReported == Spec => []EscapeReported
<1>1. DogInv => EscapeReported
  BY DEF DogInv
<1> QED
  BY DogInvariant, <1>1, PTL
=============================================================================
