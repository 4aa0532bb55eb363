---------------------------- MODULE DogTracker ----------------------------
(* The DOG variant of the sketch (HidnSeek_v3_28_DOG): a press of the       *)
(* button asks for a message, and the sport mode draws a fence around the   *)
(* first position it reports from and keeps silent inside it.               *)
(*                                                                          *)
(* main() is one thread; the button's interrupt handler sets a flag at any  *)
(* moment.  pc is the place main() has reached:                             *)
(*   off     no power             turn    top of while (1)                  *)
(*   tests   before the two tests of the search                             *)
(*   button  before the test of the button                                  *)
(*   rest    before the test for NO_MOTION     alert  before MOTION_ALERT   *)
(*   asleep  in the while loop of powerDownLoop()                           *)
(* Positions are points of a line, Nowhere is 0/0.  The receiver's power,   *)
(* the message counter and the calendar are left out, and power is taken to *)
(* fail as soon as the program drops shdPin.                                *)
EXTENDS Sensors

CONSTANTS
  PERIOD_COUNT, SportWait, StillWait,   \* sleeps of a visit: 75, 410, 420
  FoldMax,                              \* doublings of StillWait: 3
  MOTION_MIN, DOG_COUNT,                \* 3, 30
  Radius,                               \* DOG_DISTANCE
  GpsLimit, NoSatMax,                   \* 30, 120
  SyncSlow, SyncFast, SyncSize,         \* 64, 128; syncSat counts modulo 256
  Fixes,                                \* what a fix may say
  Boards,                               \* which sensors answer at boot
  BootPressures, Pressures,             \* hPa where it is switched on, and later
  Readings                              \* what accel.update() may show

Silenced == SyncSize - 1                \* 255
Nowhere == 0

ASSUME DogAssumption ==
  /\ {PERIOD_COUNT, SportWait, StillWait, MOTION_MIN, DOG_COUNT, Radius, GpsLimit,
      NoSatMax} \subseteq Nat \ {0}
  /\ {SyncSlow, SyncFast, SyncSize} \subseteq Nat \ {0}
  /\ FoldMax \in 0 .. 3
  /\ GpsLimit + 1 < PERIOD_COUNT         \* waitLoop is unsigned
  /\ DOG_COUNT + 2 <= PERIOD_COUNT
  /\ NoSatMax < 255                      \* so is its counter
  /\ 2 * MOTION_MIN + PERIOD_COUNT <= 127 \* detectMotion is an int8_t
  /\ SyncSlow < SyncFast /\ SyncFast < Silenced
  /\ Fixes \subseteq [p : Int, sat : Nat, spd : Nat, alt : Nat]
  /\ \A f \in Fixes : f.p # Nowhere /\ f.sat < SyncSlow
  /\ BootPressures \subseteq Nat /\ Pressures \subseteq Nat
  /\ Boards \subseteq [accel : BOOLEAN, barom : BOOLEAN]
  /\ Readings \subseteq AllReadings

VARIABLES
  pc, msg,                      \* place; argument of powerDownLoop
  sent,                         \* what this step handed to sendSigFox, if it did
  detectMotion,
  loopGPS, noSat, syncSat,
  p, spd, alt,
  forceSport,
  previous,                     \* centre of the fence: previous_lat/previous_lon
  airPlaneSpeed, airPlanePress, GroundPress,
  seq, accelPosition,
  countNoMotion, i, waitLoop, sleepDuration, modeSport,
  button_pressed, button_flag,
  accelPresent, baromPresent,
  kennel                        \* history: first place reported in this sport session

search == <<loopGPS, noSat, syncSat>>
fix    == <<p, spd, alt>>
plane  == <<airPlaneSpeed, airPlanePress, GroundPress>>
dance  == <<seq, accelPosition>>
sport  == <<forceSport, previous, kennel>>
wait   == <<countNoMotion, i, waitLoop, sleepDuration, modeSport>>
button == <<button_pressed, button_flag>>
parts  == <<accelPresent, baromPresent>>
vars == <<pc, msg, sent, detectMotion, search, fix, sport, plane, dance, wait,
          button, parts>>

Silence == [type |-> "none"]

-----------------------------------------------------------------------------
(* RAM at reset; while off the variables rest at these values.              *)
Reset ==
  /\ msg' = "none" /\ sent' = Silence
  /\ detectMotion' = 1
  /\ loopGPS' = 0 /\ noSat' = 0 /\ syncSat' = 0
  /\ p' = Nowhere /\ spd' = 0 /\ alt' = 0
  /\ forceSport' = FALSE /\ previous' = Nowhere /\ kennel' = Nowhere
  /\ airPlaneSpeed' = FALSE /\ airPlanePress' = FALSE /\ GroundPress' = 0
  /\ seq' = 0 /\ accelPosition' = "FACE_UP"
  /\ countNoMotion' = 0 /\ i' = 0 /\ waitLoop' = 0 /\ sleepDuration' = 8
  /\ modeSport' = FALSE
  /\ button_pressed' = FALSE /\ button_flag' = 0

Init ==
  /\ pc = "off"
  /\ msg = "none" /\ sent = Silence
  /\ detectMotion = 1
  /\ loopGPS = 0 /\ noSat = 0 /\ syncSat = 0
  /\ p = Nowhere /\ spd = 0 /\ alt = 0
  /\ forceSport = FALSE /\ previous = Nowhere /\ kennel = Nowhere
  /\ airPlaneSpeed = FALSE /\ airPlanePress = FALSE /\ GroundPress = 0
  /\ seq = 0 /\ accelPosition = "FACE_UP"
  /\ countNoMotion = 0 /\ i = 0 /\ waitLoop = 0 /\ sleepDuration = 8
  /\ modeSport = FALSE
  /\ button_pressed = FALSE /\ button_flag = 0
  /\ accelPresent = FALSE /\ baromPresent = FALSE

PowerOff == pc' = "off" /\ Reset /\ UNCHANGED parts

(* main() up to while (1), with the parts that answered and a first look r  *)
(* at the accelerometer.  The modem answers: without it shdPin drops.       *)
Boot(board, r, pr) ==
  /\ pc = "off"
  /\ pc' = "turn"
  /\ accelPresent' = board.accel /\ baromPresent' = board.barom
  /\ GroundPress' = IF board.barom THEN pr ELSE 0
  /\ IF board.accel /\ r \in Positions
     THEN accelPosition' = r /\ seq' = DanceSeq(seq, accelPosition, r)
     ELSE UNCHANGED dance
  /\ UNCHANGED <<msg, sent, detectMotion, search, fix, sport, airPlaneSpeed,
                 airPlanePress, wait, button>>

-----------------------------------------------------------------------------
(* accelStatus() returns true.                                              *)
Moved(r) == ~accelPresent \/ r # "still"

Step(r) == IF accelPresent /\ r \in Positions
           THEN DanceSeq(seq, accelPosition, r) ELSE 0

(* The dance drops shdPin.                                                  *)
SwitchedOff(r) == Step(r) = 3

(* *Mutant*: a new sport session keeps the old fence.                       *)
AccelStatusKeepsFence(r, on, centre, first) ==
  /\ IF accelPresent /\ r \in Positions
     THEN accelPosition' = r /\ seq' = IF Step(r) < 3 THEN Step(r) ELSE 0
     ELSE UNCHANGED dance
  /\ forceSport' = IF Step(r) = 4 THEN ~on ELSE on
  /\ previous' = centre
  /\ kennel' = IF Step(r) = 4 /\ ~on THEN Nowhere ELSE first

(* What accelStatus() changes when it shows r and the sport mode is `on`    *)
(* with the fence around `centre`: four steps of the dance toggle the mode  *)
(* and a new session forgets the fence.                                     *)
AccelStatus(r, on, centre, first) ==
  /\ IF accelPresent /\ r \in Positions
     THEN accelPosition' = r /\ seq' = IF Step(r) < 3 THEN Step(r) ELSE 0
     ELSE UNCHANGED dance
  /\ forceSport' = IF Step(r) = 4 THEN ~on ELSE on
  /\ previous' = IF Step(r) = 4 /\ ~on THEN Nowhere ELSE centre
  /\ kennel' = IF Step(r) = 4 /\ ~on THEN Nowhere ELSE first

-----------------------------------------------------------------------------
(* gps.distance_between(): two positions are the same, or close.            *)
Near(a, b) ==
  \/ a = b
  \/ a # Nowhere /\ b # Nowhere /\ a - b < Radius /\ b - a < Radius

(* *Mutant*: the fence follows the dog.                                     *)
CentreFollows(q, on) == IF on THEN q ELSE previous

(* The centre of the fence after makePayload() at position q.               *)
Centre(q, on) == IF on /\ previous = Nowhere THEN q ELSE previous
FirstPlace(q, on) == IF on /\ kennel = Nowhere THEN q ELSE kennel

Fenced(q, on) == on /\ Near(q, Centre(q, on))

(* makePayload() and sendSigFox(type) at position q with speed v, altitude  *)
(* h and the sport mode `on`, when the barometer shows pr: the state it     *)
(* leaves, and whether the frame is given to the modem.                     *)
Outcome(type, q, v, h, on, pr) ==
  LET sync1 == IF Fenced(q, on) THEN Silenced ELSE syncSat
      flying == sync1 # 0 /\ v > 120 /\ h > 1250
      sync2 == IF flying THEN Silenced ELSE sync1
      fast1 == flying \/ (airPlaneSpeed /\ ~(sync1 # 0 /\ v < 120))
      ground == IF pr > GroundPress \/ (sync2 > 0 /\ ~fast1) THEN pr ELSE GroundPress
      high  == IF baromPresent THEN ground - pr >= 32 ELSE airPlanePress
      fast2 == fast1 /\ ~(baromPresent /\ pr > 1000)
  IN  [syncSat |-> sync2, fast |-> fast2, high |-> high,
       ground |-> IF baromPresent THEN ground ELSE GroundPress,
       ok |-> /\ type = "POSITION" \/ ~high
              /\ ~fast2
              /\ sync2 # Silenced]

Send(type, q, v, h, on, pr) ==
  LET out == Outcome(type, q, v, h, on, pr)
  IN  /\ airPlaneSpeed' = out.fast
      /\ airPlanePress' = out.high
      /\ GroundPress' = out.ground
      /\ sent' = [type |-> type, ok |-> out.ok, at |-> q, on |-> on, spd |-> v,
                  first |-> FirstPlace(q, on), muted |-> syncSat = Silenced]

-----------------------------------------------------------------------------
(* *Mutant*: only the turns without a fix are counted.                      *)
TickWithoutFix(r) ==
  /\ loopGPS' = IF noSat = 0 /\ p # Nowhere THEN loopGPS ELSE (loopGPS + 1) % 256
  /\ AccelStatus(r, forceSport, previous, kennel)

(* The top of while (1): every four seconds a look at the accelerometer     *)
(* (reading r), and while a position is wanted two seconds of the receiver. *)
Tick(r) ==
  /\ loopGPS' = (loopGPS + 1) % 256
  /\ AccelStatus(r, forceSport, previous, kennel)

GpsProcess ==
  IF detectMotion = 1
  THEN \/ \E f \in Fixes :
            /\ p' = f.p /\ spd' = f.spd /\ alt' = f.alt
            /\ syncSat' = (syncSat + f.sat) % SyncSize
            /\ noSat' = 0
       \/ noSat' = (noSat + 1) % 256 /\ UNCHANGED <<fix, syncSat>>
  ELSE UNCHANGED <<fix, syncSat, noSat>>

Turn(ticks) ==
  /\ pc = "turn"
  /\ \/ /\ ~ticks
        /\ UNCHANGED <<loopGPS, sport, dance>>
        /\ GpsProcess
        /\ pc' = "tests"
        /\ sent' = Silence
        /\ UNCHANGED <<msg, detectMotion, plane, wait, button, parts>>
     \/ /\ ticks
        /\ \E r \in Readings :
             \/ SwitchedOff(r) /\ PowerOff
             \/ /\ ~SwitchedOff(r)
                /\ Tick(r)
                /\ GpsProcess
                /\ pc' = "tests"
                /\ sent' = Silence
                /\ UNCHANGED <<msg, detectMotion, plane, wait, button, parts>>

TimeOver == loopGPS > GpsLimit \/ noSat > NoSatMax

Located ==
  /\ \/ syncSat >= SyncSlow /\ (spd < 11 \/ spd > 80)
     \/ syncSat >= SyncFast
  /\ noSat = 0

-----------------------------------------------------------------------------
(* The last lines of powerDownLoop() start the next search from nothing.    *)
(* Its while loop reads none of these, so they change before it here.       *)
NextSearch ==
  /\ loopGPS' = 0 /\ noSat' = 0 /\ syncSat' = 0
  /\ p' = Nowhere /\ spd' = 0 /\ alt' = 0

(* << countNoMotion                                                         *)
Doubling ==
  [k \in 0 .. 3 |-> IF k = 0 THEN 1 ELSE IF k = 1 THEN 2 ELSE IF k = 2 THEN 4 ELSE 8]

(* powerDownLoop(m) up to its while loop, when the battery is good or under *)
(* 25 %: it ends the sport mode, reports, looks at the accelerometer (r)    *)
(* and chooses how long to sleep.  Presses during the report are forgotten. *)
Report(m, low, r, pr) ==
  LET on == forceSport /\ ~low
  IN  /\ Send(m, p, spd, alt, on, pr)
      /\ NextSearch
      /\ AccelStatus(r, on, Centre(p, on), FirstPlace(p, on))
      /\ pc' = "asleep" /\ msg' = m
      /\ detectMotion' = IF m = "POSITION" /\ spd > 5 /\ noSat = 0
                         THEN 2 * MOTION_MIN ELSE 0
      /\ waitLoop' = IF m = "NO_MOTION" THEN StillWait * Doubling[countNoMotion]
                     ELSE IF forceSport' THEN SportWait ELSE PERIOD_COUNT - loopGPS
      /\ countNoMotion' = IF m # "NO_MOTION" THEN 0
                          ELSE IF countNoMotion < FoldMax THEN countNoMotion + 1
                          ELSE countNoMotion
      /\ modeSport' = forceSport'
      /\ i' = 0
      /\ sleepDuration' = IF m # "NO_MOTION" /\ detectMotion' = 0 /\ ~forceSport'
                          THEN 4 ELSE 8
      /\ button_pressed' = FALSE /\ button_flag' = 0
      /\ UNCHANGED parts

(* powerDownLoop() from its call in main(); an empty battery sends WEAK_BAT *)
(* and drops shdPin.                                                        *)
Visit(m) ==
  \/ \E low \in BOOLEAN, r \in Readings, pr \in Pressures :
       \/ ~SwitchedOff(r) /\ Report(m, low, r, pr)
       \/ SwitchedOff(r) /\ PowerOff
  \/ PowerOff

(* *Mutant*: looks for the count itself, which may be passed before.        *)
ExcitedExactly(dm, j) == dm = MOTION_MIN /\ j > DOG_COUNT

(* Enough movement to end a sleep of the sport mode.                        *)
Excited(dm, j) == dm >= MOTION_MIN /\ j > DOG_COUNT

(* One turn of the while loop; the device shows r after the sleep.          *)
SleepTurn(r) ==
  LET again == sleepDuration = 4 /\ Moved(r)
      dm    == IF Moved(r) THEN detectMotion + 1 ELSE detectMotion
      j     == IF again THEN i \div 2 ELSE i
      leave == \/ button_pressed
               \/ Moved(r) /\ (msg = "NO_MOTION" \/ modeSport # forceSport')
               \/ Excited(dm, j) /\ forceSport'
  IN  /\ AccelStatus(r, forceSport, previous, kennel)
      /\ detectMotion' = dm
      /\ sleepDuration' = IF again THEN 8 ELSE sleepDuration
      /\ i' = j + 1
      /\ waitLoop' = IF leave THEN 0 ELSE waitLoop
      /\ sent' = Silence
      /\ UNCHANGED <<pc, msg, search, fix, plane, countNoMotion, modeSport, button,
                     parts>>

Sleep ==
  /\ pc = "asleep" /\ i < waitLoop
  /\ \E r \in Readings :
       \/ ~SwitchedOff(r) /\ SleepTurn(r)
       \/ SwitchedOff(r) /\ PowerOff

(* *Mutant*: the press only ends the sleep.                                 *)
WantsPositionUnasked == detectMotion >= MOTION_MIN \/ forceSport

WantsPosition == detectMotion >= MOTION_MIN \/ forceSport \/ button_pressed

(* The end of powerDownLoop(), whose locals are gone, and main() after it.  *)
Return ==
  /\ pc = "asleep" /\ i >= waitLoop
  /\ detectMotion' = IF WantsPosition THEN 1
                     ELSE IF msg = "NO_MOTION" /\ i > waitLoop THEN -1
                     ELSE 0
  /\ \/ msg \in {"POSITION", "NO_GPS"} /\ pc' = "button"
     \/ msg = "NO_MOTION" /\ pc' = "alert"
     \/ msg = "MOTION_ALERT" /\ pc' = "turn"
  /\ sent' = Silence
  /\ msg' = "none" /\ i' = 0 /\ waitLoop' = 0 /\ sleepDuration' = 8
  /\ modeSport' = FALSE                 \* locals of powerDownLoop
  /\ UNCHANGED <<countNoMotion, search, fix, sport, plane, dance, button, parts>>

-----------------------------------------------------------------------------
Goto(place) ==
  /\ pc' = place
  /\ sent' = Silence
  /\ UNCHANGED <<msg, detectMotion, search, fix, sport, plane, dance, wait, button,
                 parts>>

(* The two tests of the search.                                             *)
Tests ==
  /\ pc = "tests"
  /\ \/ Located /\ Visit("POSITION")
     \/ ~Located /\ TimeOver /\ Visit("NO_GPS")
     \/ ~Located /\ ~TimeOver /\ Goto("button")

(* A press, once in a search, is answered by a message.                     *)
Button ==
  /\ pc = "button"
  /\ IF button_pressed /\ button_flag = 0
     THEN \E pr \in Pressures :
            /\ Send("OPTION", Nowhere, 0, 0, forceSport, pr)
            /\ syncSat' = Outcome("OPTION", Nowhere, 0, 0, forceSport, pr).syncSat
            /\ previous' = Centre(Nowhere, forceSport)
            /\ kennel' = FirstPlace(Nowhere, forceSport)
            /\ button_pressed' = FALSE /\ button_flag' = 1
            /\ p' = Nowhere /\ spd' = 0 /\ alt' = 0
            /\ pc' = "rest"
            /\ UNCHANGED <<msg, detectMotion, loopGPS, noSat, forceSport, dance, wait,
                           parts>>
     ELSE Goto("rest")

Rest ==
  /\ pc = "rest"
  /\ IF detectMotion = 0 THEN Visit("NO_MOTION") ELSE Goto("alert")

Alert ==
  /\ pc = "alert"
  /\ IF detectMotion = -1 THEN Visit("MOTION_ALERT") ELSE Goto("turn")

(* pin2_isr() and pin3_isr().                                               *)
Press ==
  /\ pc # "off" /\ ~button_pressed
  /\ button_pressed' = TRUE
  /\ sent' = Silence
  /\ UNCHANGED <<pc, msg, detectMotion, search, fix, sport, plane, dance, wait,
                 button_flag, parts>>

Program == Turn(FALSE) \/ Turn(TRUE) \/ Tests \/ Button \/ Rest \/ Alert \/ Sleep \/ Return

Next ==
  \/ Program
  \/ Press
  \/ \E board \in Boards, r \in Readings, pr \in BootPressures : Boot(board, r, pr)

(* The processor runs, and millis() goes on: four seconds pass again and    *)
(* again at the top of the loop.                                            *)
Spec == Init /\ [][Next]_vars /\ WF_vars(Program) /\ SF_vars(Turn(TRUE))

-----------------------------------------------------------------------------
(* Types; above all detectMotion, which is an int8_t that powerDownLoop()   *)
(* increments without a test, stays far below 128.                          *)
TypeOK ==
  /\ pc \in {"off", "turn", "tests", "button", "rest", "alert", "asleep"}
  /\ detectMotion \in -1 .. 2 * MOTION_MIN + PERIOD_COUNT
  /\ loopGPS \in 0 .. GpsLimit + 1
  /\ noSat \in 0 .. NoSatMax + 1
  /\ syncSat \in 0 .. SyncSize - 1
  /\ forceSport \in BOOLEAN /\ modeSport \in BOOLEAN
  /\ airPlaneSpeed \in BOOLEAN /\ airPlanePress \in BOOLEAN
  /\ seq \in 0 .. 2 /\ accelPosition \in Positions
  /\ countNoMotion \in 0 .. FoldMax
  /\ waitLoop \in Nat /\ i \in Nat
  /\ sleepDuration \in {4, 8}
  /\ button_pressed \in BOOLEAN /\ button_flag \in {0, 1}

(* "if not arround house location send new position" (the call of           *)
(* sendSigFox in powerDownLoop): in sport mode no position is sent from     *)
(* less than DOG_DISTANCE of the first place of this session.               *)
FenceHolds ==
  (sent.type = "POSITION" /\ sent.ok /\ sent.on) => ~Near(sent.at, sent.first)

(* A dog that left the fence is reported: a position is kept silent only    *)
(* inside the fence or at the speed of an airplane, however it moved - or   *)
(* when a press before the fence was known left syncSat at 255, which the   *)
(* next position takes for a fence even if the sport mode has ended.        *)
EscapeReported ==
  (sent.type = "POSITION" /\ ~sent.ok) =>
    \/ sent.on /\ Near(sent.at, sent.first)
    \/ sent.spd >= 120
    \/ sent.muted

(* Why an OPTION message is not transmitted: an aircraft, or a sport        *)
(* session without a centre, in which 0/0 is taken for the house            *)
(* (makePayload() sets syncSat to 255, sendSigFox() tests it).              *)
Unheard == airPlaneSpeed \/ airPlanePress \/ (sent.on /\ sent.first = Nowhere)

(* A press while the tracker sleeps is answered by an OPTION message that   *)
(* the modem really gets, unless the tracker is in an aircraft, or in a     *)
(* sport session that has no centre yet, or the power goes.  pin2_isr(),    *)
(* powerDownLoop(), main().                                                 *)
PressAnswered ==
  (pc = "asleep" /\ button_pressed)
    ~> (sent.type = "OPTION" /\ (sent.ok \/ Unheard)) \/ pc = "off"

(* Searches and sleeps end: main() comes back to powerDownLoop for ever.    *)
KeepsReporting == []<>(pc \in {"asleep", "off"})
=============================================================================
