------------------------------ MODULE Tracker ------------------------------
(***************************************************************************)
(* The control loop of the HidnSeek tracker (HidnSeek_v3_28.ino with       *)
(* accel.ino, battery.ino, gps.ino, sigfox.ino): main() looks for a GPS    *)
(* fix, powerDownLoop() reports a message over Sigfox and sleeps, counting *)
(* movements, and its result says what main() does next.                   *)
(*                                                                         *)
(* The program is one thread without interrupt handlers of its own; pc is  *)
(* the place it has reached:                                               *)
(*   off      no power, RAM lost         hung    waits for a peripheral    *)
(*   tick     top of while (1)           gps     before gpsProcess()       *)
(*   check    before the two tests of the fix                              *)
(*   battery  entry of powerDownLoop     weak    in shutdownSys()          *)
(*   send     before if (syncSat < 255)  record  after the message         *)
(*   sleep    in while (i < waitLoop)                                      *)
(***************************************************************************)
EXTENDS Sensors, Payload

CONSTANTS
  PeriodCount,    \* PERIOD_COUNT, 8 s sleeps between two reports (75)
  GpsLimit,       \* seconds / 4 a search for a fix may take (30)
  NoSatMax,       \* failed gpsProcess() calls a search may take (120)
  SyncSlow,       \* satellites summed over fixes that end a search when the
                  \* speed is under 11 or over 80 km/h (64)
  SyncFast,       \* the same at any speed (128)
  SportLimit,     \* SPORT_LIMIT, reports of one sport session (48)
  NoMotionLoops,  \* 8 s sleeps of the first parked hour (420)
  MotionMin,      \* MOTION_MIN_NUMBER (2)
  Boards,         \* which parts answer at boot
  Readings,       \* what a call of accel.update() may show
  Volts,          \* battery voltages batterySense() may see, in mV
  Sats, Speeds, Alts,   \* what a fix may say
  Pressures       \* hPa

ASSUME PeriodAssumption ==
  /\ {PeriodCount, GpsLimit, NoSatMax, SyncSlow, SyncFast, SportLimit,
      NoMotionLoops, MotionMin} \subseteq Nat \ {0}
  /\ GpsLimit + 1 < PeriodCount           \* waitLoop is unsigned
  /\ PeriodCount + 2 * MotionMin <= 127   \* detectMotion is an int8_t
  /\ NoSatMax < 255 /\ SportLimit < 255   \* so are their counters, unsigned
  /\ SyncSlow <= SyncFast                  \* 64 and 128

\* The accelerometer, the barometer and the modem work or do not.
AllBoards == [accel : BOOLEAN, barom : BOOLEAN, modem : BOOLEAN]

ASSUME InputAssumption ==
  /\ Boards \subseteq AllBoards
  /\ Readings \subseteq AllReadings
  /\ Volts \subseteq Nat
  /\ Sats \subseteq 0..255
  /\ Speeds \subseteq Nat
  /\ Alts \subseteq Nat
  /\ Pressures \subseteq Nat

VARIABLES
  pc, msg,                     \* place, and the argument of powerDownLoop
  tx,                          \* the message this step gave to the modem
  detectMotion,
  loopGPS, noSat, syncSat,     \* progress of the search
  sat, spd, alt,               \* the last fix
  forceSport, limitSport,
  GPSactive, gpsPower,         \* the flag, and what rstPin really drives
  airPlaneSpeed,
  accelPresent, baromPresent,
  seq, accelPosition,          \* the accelDance
  countNoMotion,
  i, waitLoop, sleepDuration, modeSport,   \* locals of powerDownLoop
  latch,                       \* shdPin holds the supply
  gpio                         \* the ports are driven (DDRx as initGPIO left)

place  == <<pc, msg>>
search == <<loopGPS, noSat, syncSat>>
fix    == <<sat, spd, alt>>
sport  == <<forceSport, limitSport>>
gps    == <<GPSactive, gpsPower>>
parts  == <<accelPresent, baromPresent>>
dance  == <<seq, accelPosition>>
wait   == <<i, waitLoop, sleepDuration, modeSport>>
supply == <<latch, gpio>>
vars   == <<place, tx, detectMotion, search, fix, sport, gps, airPlaneSpeed,
            parts, dance, countNoMotion, wait, supply>>

CycleMsgs == {"POSITION", "NO_MOTION", "NO_GPS", "MOTION_ALERT"}
Msgs      == CycleMsgs \cup {"WEAK_BAT"}
Places    == {"off", "hung", "tick", "gps", "check", "battery", "weak", "send",
              "record", "sleep"}

Int8(x) == ((x + 128) % 256) - 128

-----------------------------------------------------------------------------
\* RAM at reset; while off the variables rest at these values.
Init ==
  /\ pc = "off" /\ msg = "none" /\ tx = "none"
  /\ detectMotion = 1
  /\ loopGPS = 0 /\ noSat = 0 /\ syncSat = 0
  /\ sat = 0 /\ spd = 0 /\ alt = 0
  /\ forceSport = FALSE /\ limitSport = 0
  /\ GPSactive = TRUE /\ gpsPower = FALSE
  /\ airPlaneSpeed = FALSE
  /\ accelPresent = FALSE /\ baromPresent = FALSE
  /\ seq = 0 /\ accelPosition = "FACE_UP"
  /\ countNoMotion = 0
  /\ i = 0 /\ waitLoop = 0 /\ sleepDuration = 8 /\ modeSport = FALSE
  /\ latch = FALSE /\ gpio = FALSE


\* digitalWrite(rstPin, v): without the output direction it only sets a pull-up.
Drive(v) == gpio /\ v

\* accelStatus() returns true.
Moved(r) == ~accelPresent \/ r # "still"

\* accelStatus() with reading r; quota is MsgCount < 90, answer what gpsInit()
\* returns, active and power are GPSactive and rstPin when it is called.
AccelStatus(r, quota, answer, active, power) ==
  IF accelPresent /\ r \in Positions
  THEN LET n      == DanceSeq(seq, accelPosition, r)
           toggle == n = 4 /\ quota
       IN  /\ accelPosition' = r
           /\ seq' = IF n < 3 THEN n ELSE 0
           /\ latch' = (latch /\ n # 3)
           /\ gpio' = (gpio /\ n # 3)
           /\ forceSport' = IF toggle THEN ~forceSport ELSE forceSport
           /\ limitSport' = IF toggle THEN 0 ELSE limitSport
           /\ gpsPower' = IF toggle /\ ~forceSport /\ ~active
                          THEN Drive(answer) ELSE power /\ n # 3
  ELSE /\ gpsPower' = power
       /\ UNCHANGED <<dance, sport, supply>>

-----------------------------------------------------------------------------
\* main() from initGPIO() to the first look at the accelerometer, which reads r.
StartUp(r, board) ==
  /\ gpio' = TRUE
  /\ \E answer \in BOOLEAN : GPSactive' = answer /\ gpsPower' = answer
  /\ accelPresent' = board.accel
  /\ IF board.accel /\ r \in Positions
     THEN accelPosition' = r /\ seq' = DanceSeq(0, "FACE_UP", r)
     ELSE UNCHANGED dance
  /\ UNCHANGED <<msg, tx, detectMotion, search, fix, sport, airPlaneSpeed,
                 countNoMotion, wait>>

\* main() up to while (1). When initSigFox() does not find the modem, the supply
\* is released.
Boot(r) ==
  /\ pc = "off"
  /\ pc' = "tick"
  /\ \E board \in Boards :
       StartUp(r, board) /\ baromPresent' = board.barom /\ latch' = board.modem

\* Barometer.init(), a measurement or getID() waits for bytes that never come.
BootStuck(r) ==
  /\ pc = "off"
  /\ pc' = "hung"
  /\ \E board \in Boards :
       StartUp(r, board) /\ baromPresent' \in {FALSE, board.barom}
  /\ latch' = TRUE

\* The supply goes away: empty battery, released latch, pressed reset.
PowerLoss ==
  /\ pc # "off"
  /\ pc' = "off" /\ msg' = "none" /\ tx' = "none"
  /\ detectMotion' = 1
  /\ loopGPS' = 0 /\ noSat' = 0 /\ syncSat' = 0
  /\ sat' = 0 /\ spd' = 0 /\ alt' = 0
  /\ forceSport' = FALSE /\ limitSport' = 0
  /\ GPSactive' = TRUE /\ gpsPower' = FALSE
  /\ airPlaneSpeed' = FALSE
  /\ accelPresent' = FALSE /\ baromPresent' = FALSE
  /\ seq' = 0 /\ accelPosition' = "FACE_UP"
  /\ countNoMotion' = 0
  /\ i' = 0 /\ waitLoop' = 0 /\ sleepDuration' = 8 /\ modeSport' = FALSE
  /\ latch' = FALSE /\ gpio' = FALSE

-----------------------------------------------------------------------------
\* 4 s have passed since start; accelStatus() reads r.
Tick(r) ==
  /\ pc = "tick"
  /\ pc' = "gps" /\ tx' = "none"
  /\ loopGPS' = (loopGPS + 1) % 256
  /\ \E quota, answer \in BOOLEAN :
       AccelStatus(r, quota, answer, GPSactive, gpsPower)
  /\ UNCHANGED <<msg, detectMotion, noSat, syncSat, fix, GPSactive,
                 airPlaneSpeed, parts, countNoMotion, wait>>

NoTick ==
  /\ pc = "tick"
  /\ pc' = "gps" /\ tx' = "none"
  /\ UNCHANGED <<msg, detectMotion, search, fix, sport, gps, airPlaneSpeed,
                 parts, dance, countNoMotion, wait, supply>>

\* gpsProcess() without a valid position; a silent line restarts the receiver.
GpsNoFix ==
  /\ pc = "gps"
  /\ pc' = "check" /\ tx' = "none"
  /\ noSat' = (noSat + 1) % 256
  /\ \/ gpsPower' = gpsPower
     \/ \E answer \in BOOLEAN : gpsPower' = Drive(answer)
  /\ UNCHANGED <<msg, detectMotion, loopGPS, syncSat, fix, sport, GPSactive,
                 airPlaneSpeed, parts, dance, countNoMotion, wait, supply>>

\* Mutant: every fix grants a whole new search.
GpsFixRestarts ==
  /\ pc = "gps"
  /\ pc' = "check" /\ tx' = "none"
  /\ sat' \in Sats /\ spd' \in Speeds /\ alt' \in Alts
  /\ syncSat' = (syncSat + sat') % 256
  /\ noSat' = 0 /\ loopGPS' = 0
  /\ UNCHANGED <<msg, detectMotion, sport, gps, airPlaneSpeed, parts, dance,
                 countNoMotion, wait, supply>>

\* gpsProcess() with at least one valid sentence.
GpsFix ==
  /\ pc = "gps"
  /\ pc' = "check" /\ tx' = "none"
  /\ sat' \in Sats /\ spd' \in Speeds /\ alt' \in Alts
  /\ syncSat' = (syncSat + sat') % 256
  /\ noSat' = 0
  /\ UNCHANGED <<msg, detectMotion, loopGPS, sport, gps, airPlaneSpeed, parts,
                 dance, countNoMotion, wait, supply>>

\* The position is good enough to be reported.
Synced ==
  /\ \/ syncSat >= SyncSlow /\ (spd < 11 \/ spd > 80)
     \/ syncSat >= SyncFast
  /\ noSat = 0

\* Mutant: both limits must be passed.
SearchExpiredByBoth == loopGPS > GpsLimit /\ noSat > NoSatMax

\* One of the two limits of a search is passed.
SearchExpired == loopGPS > GpsLimit \/ noSat > NoSatMax

\* The tests of main() after gpsProcess().
Check ==
  /\ pc = "check"
  /\ tx' = "none"
  /\ \/ Synced /\ pc' = "battery" /\ msg' = "POSITION"
     \/ ~Synced /\ SearchExpired /\ pc' = "battery" /\ msg' = "NO_GPS"
     \/ ~Synced /\ ~SearchExpired /\ pc' = "tick" /\ UNCHANGED msg
  /\ UNCHANGED <<detectMotion, search, fix, sport, gps, airPlaneSpeed, parts,
                 dance, countNoMotion, wait, supply>>

-----------------------------------------------------------------------------
\* limitSport++ >= SPORT_LIMIT, or too little battery for the sport mode.
SportEnds(percent) == percent < 25 \/ limitSport >= SportLimit

\* Mutant: every visit of powerDownLoop starts the limit again.
SportCountRestarts(percent) == 0

SportCount(percent) ==
  IF percent < 25 THEN limitSport ELSE (limitSport + 1) % 256

\* Mutant: the pin is forgotten.
GpsStandbyFlagOnly == GPSactive' = FALSE /\ UNCHANGED gpsPower

\* gpsStandby()
GpsStandby == GPSactive' = FALSE /\ gpsPower' = FALSE

\* The sport test of powerDownLoop, rstPin being at power before it.
SportStep(percent, power) ==
  IF forceSport
  THEN /\ limitSport' = SportCount(percent)
       /\ forceSport' = ~SportEnds(percent)
       /\ gpsPower' = power
       /\ UNCHANGED GPSactive
  ELSE GpsStandby /\ UNCHANGED sport

\* batterySense() and, unless the battery is weak, the sport test.
MeasureBattery ==
  /\ pc = "battery"
  /\ tx' = "none"
  /\ \E bat \in Volts :
       IF Weak(bat)
       THEN /\ pc' = "weak"
            /\ gpsPower' = FALSE          \* first line of shutdownSys()
            /\ UNCHANGED <<sport, GPSactive>>
       ELSE /\ pc' = "send"
            /\ SportStep(Percent(bat), Drive(forceSport \/ GPSactive))
  /\ UNCHANGED <<msg, detectMotion, search, fix, airPlaneSpeed, parts, dance,
                 countNoMotion, wait, supply>>

\* airPlaneSpeed as makePayload leaves it.
PlaneFlag ==
  \/ Cruising(sat, spd, alt)
  \/ airPlaneSpeed /\ ~(sat > 3 /\ spd < 120)

\* airPlaneSpeed when sendSigFox decides; only other messages than POSITION
\* measure the pressure.
PlaneFlagFor(m, press) ==
  PlaneFlag /\ ~(m # "POSITION" /\ baromPresent /\ press > 1000)

\* airPlanePress of this very message: it is measured before every use.
PlanePress(m, press) == m # "POSITION" /\ baromPresent /\ press < 880

Suppressed(m, press) == PlanePress(m, press) \/ PlaneFlagFor(m, press)

\* makePayload() and the pressure test of sendSigFox(m).
MakePayload(m, press) ==
  /\ airPlaneSpeed' = PlaneFlagFor(m, press)
  /\ syncSat' = IF Cruising(sat, spd, alt) THEN 255 ELSE syncSat
  /\ alt' = IF sat > 3 THEN AltCode(alt) ELSE alt
  /\ spd' = IF sat > 3 THEN SpdCode(spd) ELSE spd
  /\ sat' = IF sat > 8 THEN 8 ELSE sat

\* sendSigFox(m) returned; without driven ports the modem gets no frame.
SendSigFox(m) ==
  \E press \in Pressures :
    /\ MakePayload(m, press)
    /\ Suppressed(m, press) \/ gpio
    /\ tx' = IF Suppressed(m, press) THEN "none" ELSE m

\* shutdownSys(), then the sport test with an empty battery. A supply that the
\* latch does not control (USB) keeps the program running.
SendWeak ==
  /\ pc = "weak"
  /\ pc' = "send"
  /\ SendSigFox("WEAK_BAT")
  /\ latch' = FALSE
  /\ SportStep(0, FALSE)
  /\ UNCHANGED <<msg, detectMotion, loopGPS, noSat, parts, dance,
                 countNoMotion, wait, gpio>>

\* Mutant: nothing remembers what the first makePayload() of the visit saw.
Ungated == TRUE

\* The gate of the regular message; makePayload sets syncSat for an aircraft.
GateOpen == syncSat < 255

\* if (syncSat < 255) sendSigFox(msgs);
Send ==
  /\ pc = "send"
  /\ pc' = "record"
  /\ IF GateOpen
     THEN SendSigFox(msg)
     ELSE tx' = "none" /\ UNCHANGED <<fix, syncSat, airPlaneSpeed>>
  /\ UNCHANGED <<msg, detectMotion, loopGPS, noSat, sport, gps, parts, dance,
                 countNoMotion, wait, supply>>

\* HidnSeek.send() waits for an answer of the modem that never comes.
Stuck ==
  /\ \/ pc = "weak"
     \/ pc = "send" /\ GateOpen
  /\ pc' = "hung" /\ tx' = "none"
  /\ UNCHANGED <<msg, detectMotion, search, fix, sport, gps, airPlaneSpeed,
                 parts, dance, countNoMotion, wait, supply>>

-----------------------------------------------------------------------------
\* The motion count a cycle starts with: a fast fix counts as motion.
FirstMotion ==
  IF msg = "POSITION" /\ spd > 5 /\ noSat = 0 THEN 2 * MotionMin ELSE 0

\* << countNoMotion
Doubling ==
  [k \in 0..3 |-> IF k = 0 THEN 1 ELSE IF k = 1 THEN 2 ELSE IF k = 2 THEN 4 ELSE 8]

\* Mutant: the older interval of the sport mode.
WaitForHalved(m, count) ==
  IF m = "NO_MOTION" THEN NoMotionLoops * Doubling[count]
  ELSE (IF forceSport THEN PeriodCount \div 2 ELSE PeriodCount) - loopGPS

\* The heartbeat interval doubles up to eight hours; other messages reset it.
WaitFor(m, count) ==
  IF m = "NO_MOTION" THEN NoMotionLoops * Doubling[count] ELSE PeriodCount - loopGPS

NextCount ==
  IF msg # "NO_MOTION" THEN 0
  ELSE IF countNoMotion < 3 THEN countNoMotion + 1 ELSE countNoMotion

\* powerDownLoop from the angle reference to while (i < waitLoop).
Record(r) ==
  /\ pc = "record"
  /\ pc' = "sleep" /\ tx' = "none"
  /\ \E quota, answer \in BOOLEAN :
       AccelStatus(r, quota, answer, GPSactive, gpsPower)
  /\ detectMotion' = FirstMotion
  /\ waitLoop' = WaitFor(msg, countNoMotion)
  /\ countNoMotion' = NextCount
  /\ modeSport' = forceSport'
  /\ i' = 0
  /\ sleepDuration' =
       IF msg # "NO_MOTION" /\ FirstMotion = 0 /\ ~forceSport' THEN 4 ELSE 8
  /\ UNCHANGED <<msg, search, fix, GPSactive, airPlaneSpeed, parts>>

\* gpsStandby() of the sleep loop: not in sport mode, not on a full charger.
StaysActive(percent) == GPSactive /\ (percent >= 98 \/ forceSport)

\* Mutant: a counter too narrow for the heartbeat's wait.
NextLoopNarrow(moved) ==
  (IF moved /\ sleepDuration = 4 THEN i \div 2 + 1 ELSE i + 1) % (PeriodCount + 1)

\* i at the end of a turn: the first move of a slow watch folds it onto 8 s.
NextLoop(moved) ==
  IF moved /\ sleepDuration = 4 THEN i \div 2 + 1 ELSE i + 1

\* Mutant: the watch stays slow, and every move folds i again.
NextSleepSlow(moved) == sleepDuration

NextSleep(moved) == IF moved THEN 8 ELSE sleepDuration

\* One turn of while (i < waitLoop).
SleepStep(r) ==
  /\ pc = "sleep" /\ i < waitLoop
  /\ tx' = "none"
  /\ \E bat \in Volts, quota, answer \in BOOLEAN :
       LET active == StaysActive(Percent(bat))
       IN  /\ GPSactive' = active
           /\ AccelStatus(r, quota, answer, active,
                          IF GPSactive THEN Drive(active) ELSE gpsPower)
           /\ i' = NextLoop(Moved(r))
           /\ sleepDuration' = NextSleep(Moved(r))
           /\ detectMotion' =
                IF Moved(r) THEN Int8(detectMotion + 1) ELSE detectMotion
           /\ waitLoop' =
                IF Moved(r) /\ (msg = "NO_MOTION" \/ modeSport # forceSport')
                THEN 0 ELSE waitLoop
  /\ UNCHANGED <<pc, msg, search, fix, airPlaneSpeed, parts, countNoMotion,
                 modeSport>>

\* Mutant: off by one.
VerdictEarly ==
  IF msg = "NO_MOTION" /\ waitLoop = 0 THEN -1
  ELSE IF detectMotion >= MotionMin \/ forceSport THEN 1 ELSE 0

\* What powerDownLoop returns.
Verdict ==
  IF msg = "NO_MOTION" /\ waitLoop = 0 THEN -1
  ELSE IF detectMotion > MotionMin \/ forceSport THEN 1 ELSE 0

\* Mutant: the satellites of the last search still count.
ResetSearchPartly == loopGPS' = 0 /\ noSat' = 0 /\ UNCHANGED syncSat

\* loopGPS = syncSat = noSat = 0; the next search starts afresh.
ResetSearch == loopGPS' = 0 /\ noSat' = 0 /\ syncSat' = 0

\* The end of powerDownLoop and main()'s dispatch on its result; a call that
\* follows at once (no motion, alert) is entered in the same step.
WakeUp ==
  /\ pc = "sleep" /\ i >= waitLoop
  /\ tx' = "none"
  /\ detectMotion' = Verdict
  /\ IF Verdict = 1 /\ ~GPSactive
     THEN \E answer \in BOOLEAN : GPSactive' = answer /\ gpsPower' = Drive(answer)
     ELSE UNCHANGED gps
  /\ \/ Verdict = 1  /\ pc' = "tick"    /\ msg' = "none"
     \/ Verdict = 0  /\ pc' = "battery" /\ msg' = "NO_MOTION"
     \/ Verdict = -1 /\ pc' = "battery" /\ msg' = "MOTION_ALERT"
  /\ ResetSearch
  /\ alt' = 0 /\ spd' = 0
  /\ i' = 0 /\ waitLoop' = 0 /\ sleepDuration' = 8 /\ modeSport' = FALSE
  /\ UNCHANGED <<sat, sport, airPlaneSpeed, parts, dance, countNoMotion, supply>>

-----------------------------------------------------------------------------
\* The steps that read the accelerometer, and the others.
Sense(r) == Tick(r) \/ Record(r) \/ SleepStep(r)

Compute ==
  \/ NoTick \/ GpsNoFix \/ GpsFix \/ Check
  \/ MeasureBattery \/ SendWeak \/ Send \/ WakeUp

Next ==
  \/ \E r \in Readings : Boot(r) \/ BootStuck(r) \/ Sense(r)
  \/ Compute \/ Stuck \/ PowerLoss

Spec == Init /\ [][Next]_vars

\* The processor runs (into a hang, when the modem is mute), and millis() goes
\* on: the 4 s test of main() cannot be false for ever. Nothing says that power
\* is applied or lost or that a fix is found.
Fairness ==
  /\ WF_vars(Compute \/ Stuck \/ \E r \in Readings : Sense(r))
  /\ SF_vars(\E r \in Readings : Tick(r))

FairSpec == Spec /\ Fairness

-----------------------------------------------------------------------------
\* Type invariant. The interesting parts: a search never outlives its limits
\* unseen, and no counter of the C code leaves its width.
FlagsOK ==
  /\ forceSport \in BOOLEAN /\ modeSport \in BOOLEAN
  /\ GPSactive \in BOOLEAN /\ gpsPower \in BOOLEAN
  /\ airPlaneSpeed \in BOOLEAN
  /\ accelPresent \in BOOLEAN /\ baromPresent \in BOOLEAN
  /\ latch \in BOOLEAN /\ gpio \in BOOLEAN

DataOK ==
  /\ pc \in Places
  /\ msg \in CycleMsgs \cup {"none"}
  /\ tx \in Msgs \cup {"none"}
  /\ detectMotion \in -128..127
  /\ loopGPS \in 0..(GpsLimit + 1)
  /\ noSat \in 0..(NoSatMax + 1)
  /\ syncSat \in 0..255
  /\ sat \in 0..255 /\ spd \in Nat /\ alt \in Nat
  /\ limitSport \in 0..(SportLimit + 1)
  /\ seq \in 0..2 /\ accelPosition \in Positions
  /\ countNoMotion \in 0..3
  /\ i \in Nat /\ waitLoop \in Nat /\ sleepDuration \in {4, 8}

TypeOK == FlagsOK /\ DataOK

\* Hazard: several places switch the receiver on behind GPSactive (the sport
\* dance, a silent line in gpsProcess, batterySense). A parked tracker, which
\* sleeps for hours, must not feed it unless the sport mode wants it.
ParkedGpsOff ==
  pc = "sleep" /\ msg = "NO_MOTION" /\ waitLoop > 0 /\ gpsPower => forceSport

\* Hazard: detectMotion is an int8_t that counts every move of a wait whose
\* loop counter is folded on the way. The count never exceeds the turns made,
\* so it cannot wrap to a negative verdict.
MotionCounted ==
  pc = "sleep" => /\ detectMotion \in 0..(2 * MotionMin + i)
                  /\ msg # "NO_MOTION" => i <= PeriodCount

\* The tracker implements the protocol its owner relies on. A wait begins with
\* Record; before it, the message is owed until Send has handled it.
Phase ==
  IF pc \in {"off", "hung"} THEN pc
  ELSE IF pc \in {"tick", "gps", "check"} THEN "search"
  ELSE IF msg = "NO_MOTION" THEN "parked" ELSE "watch"

Owed == IF pc \in {"battery", "weak", "send"} THEN msg ELSE "none"

Motions == IF pc = "sleep" THEN detectMotion ELSE 0

Protocol == INSTANCE MotionProtocol WITH
  phase <- Phase, owed <- Owed, motions <- Motions, sport <- forceSport

\* Messages, phases and the alert come only as MotionProtocol allows: NO_MOTION
\* only when a wait saw too little motion, the alert only after the first move
\* of a parked wait, no regular message twice in one visit of powerDownLoop.
Implements == Protocol!Spec

\* A search ends: by a report, a hang or a power loss. The limits of the search
\* count different things (4 s ticks, failed reads, satellites).
SearchEnds == pc = "tick" ~> pc \in {"record", "hung", "off"}

\* powerDownLoop's wait ends although i is folded on the way.
SleepEnds == pc = "sleep" ~> pc # "sleep"

\* The sport mode, which keeps the receiver on, never lasts for ever. Its limit
\* counts visits of powerDownLoop, so searches and waits must end for it to be
\* reached; a hang is the only place where the mode can stay.
SportExpires == forceSport ~> (~forceSport \/ pc = "hung")

=============================================================================
