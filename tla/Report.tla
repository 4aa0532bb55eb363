------------------------------- MODULE Report ------------------------------
(* One report after the other, from the battery to the modem: a visit of    *)
(* powerDownLoop() measures the battery (Battery), packs a frame (Frame),   *)
(* sends it with sendSigFox() over the link (ModemLink), and a weak battery *)
(* sends one more frame before it.  What the visits do in between, and when *)
(* they come, is in Tracker; here a visit may come whenever the message it  *)
(* carries can.                                                             *)
EXTENDS ModemLink, Battery, Frame

CONSTANTS Fixes,       \* [sat, spd, alt, course] as the receiver gives them
          Pressures    \* hPa; 990 stands for no barometer as well

ASSUME ReportConstants ==
  /\ Fixes \subseteq [sat : Nat, spd : Nat, alt : Nat, course : Nat]
  /\ \A f \in Fixes : f.sat <= 255 /\ f.spd <= 65535 /\ f.alt <= 65535
  /\ Pressures \subseteq Nat

VARIABLES
  stage,         \* "rest", "sense", "weak", "send" or "over"
  msg,           \* the message of the visit; at rest, whether the last visit
                 \* was a parked one: "none", "NO_MOTION" or "other"
  fix,           \* sat, spd, alt and course, as makePayload() leaves them
  coordinates,   \* what p.lat and p.lon hold: "none", "position", "weather"
  airPlaneSpeed, gated,   \* gated: syncSat is 255
  truth,         \* ghost: the fix as received, until a frame is made of it
  frame          \* ghost: the frame built in this very step

reportVars == <<stage, msg, fix, coordinates, airPlaneSpeed, gated, truth, frame>>
vars == <<linkVars, batteryVars, reportVars>>

NoFix == [sat |-> 0, spd |-> 0, alt |-> 0, course |-> 0]
NoFrame == [made |-> FALSE]

Init ==
  /\ LinkInit /\ BatteryInit
  /\ stage = "rest" /\ msg = "none" /\ fix = NoFix /\ coordinates = "none"
  /\ airPlaneSpeed = FALSE /\ gated = FALSE /\ truth = NoFix
  /\ frame = NoFrame

-----------------------------------------------------------------------------
(* gpsProcess() with a position, which p keeps.                             *)
TakeFix == \E f \in Fixes : fix' = f /\ truth' = f /\ coordinates' = "position"

(* A visit begins.  A search ends with a position or without one; a parked  *)
(* visit follows a visit, an alert a parked visit.                          *)
Visit ==
  /\ stage = "rest" /\ at = "idle"
  /\ stage' = "sense"
  /\ \/ msg' = "POSITION" /\ TakeFix
     \/ msg' = "NO_GPS" /\ (TakeFix \/ UNCHANGED <<fix, truth, coordinates>>)
     \/ /\ msg' = "NO_MOTION" /\ msg # "none"
        /\ UNCHANGED <<fix, truth, coordinates>>
     \/ /\ msg' = "MOTION_ALERT" /\ msg = "NO_MOTION"
        /\ UNCHANGED <<fix, truth, coordinates>>
  /\ frame' = NoFrame
  /\ UNCHANGED <<linkVars, batteryVars, airPlaneSpeed, gated>>

(* batterySense(); a weak battery sends its message first.                  *)
Measure ==
  /\ stage = "sense"
  /\ \E taken \in Windows :
       /\ Sense(taken)
       /\ stage' = IF Weak(Bat(Middle(Sorted(taken)))) THEN "weak" ELSE "send"
  /\ UNCHANGED <<linkVars, msg, fix, coordinates, airPlaneSpeed, gated, truth, frame>>

-----------------------------------------------------------------------------
(* makePayload(): the flags of an aircraft, and the fix compressed in place *)
Compressed(f) ==
  IF f.sat > 3
  THEN [f EXCEPT !.alt = AltCode(f.alt), !.spd = SpdCode(f.spd), !.sat = Min({8, f.sat})]
  ELSE f

(* The plane flag after makePayload() and, but for a position, the pressure *)
PlaneFlag(m, press) ==
  /\ \/ Cruising(fix.sat, fix.spd, fix.alt)
     \/ airPlaneSpeed /\ ~(fix.sat > 3 /\ fix.spd < 120)
  /\ ~(m # "POSITION" /\ press > 1000)

(* *Mutant*: the frame is packed from what the receiver gave.               *)
FrameRaw(m, position) ==
  Pack(fix.alt, fix.spd, Cap(fix.sat, fix.course, position), batteryPercent,
       Mode(m, Compressed(fix).sat))

FrameOf(m, position) ==
  LET c == Compressed(fix)
  IN Pack(c.alt, c.spd, Cap(c.sat, c.course, position), batteryPercent, Mode(m, c.sat))

(* A heartbeat has temperature and pressure in the place of the position.   *)
CoordinatesFor(m) == IF m = "NO_MOTION" THEN "weather" ELSE coordinates

(* sendSigFox(m): suppressed in an aircraft.                                *)
SendSigFox(m) ==
  \E press \in Pressures, position \in {0, 5} :
    LET plane == PlaneFlag(m, press)
        quiet == plane \/ (m # "POSITION" /\ press < 880)
    IN /\ airPlaneSpeed' = plane
       /\ gated' = (gated \/ Cruising(fix.sat, fix.spd, fix.alt))
       /\ fix' = Compressed(fix)
       /\ coordinates' = CoordinatesFor(m)
       /\ IF quiet
          THEN frame' = NoFrame /\ UNCHANGED linkVars
          ELSE /\ frame' = [made |-> TRUE, of |-> m, holds |-> CoordinatesFor(m),
                            cpx |-> FrameOf(m, position),
                            shows |-> truth, battery |-> batteryPercent]
               /\ SendFrame

(* The samples are gone when batterySense() has returned; the percentage is *)
(* measured again before it is next read.                                   *)
ForgetSamples == /\ samples' = <<>> /\ sortedValues' = <<>>
                 /\ UNCHANGED <<sensorMax, drained>>

(* shutdownSys(), and the program goes on under another supply.             *)
SendWeak ==
  /\ stage = "weak" /\ at = "idle"
  /\ SendSigFox("WEAK_BAT")
  /\ ForgetSamples /\ UNCHANGED batteryPercent
  /\ stage' = "send" /\ truth' = NoFix
  /\ UNCHANGED msg

SendRegular ==
  /\ stage = "send" /\ at = "idle"
  /\ IF gated
     THEN frame' = NoFrame /\ UNCHANGED <<linkVars, fix, coordinates, airPlaneSpeed, gated>>
     ELSE SendSigFox(msg)
  /\ stage' = "over" /\ truth' = NoFix
  /\ ForgetSamples /\ batteryPercent' = 0
  /\ UNCHANGED msg

(* *Mutant*: the altitude of a visit is left to the next one.               *)
FixOverKeepsAlt == [fix EXCEPT !.spd = 0]
FixOver == [fix EXCEPT !.spd = 0, !.alt = 0]

(* The visit ends, and with it the search: syncSat = alt = spd = 0 and      *)
(* p.lat = p.lon = 0.  The result of send() is not read again.              *)
Over ==
  /\ stage = "over" /\ at = "idle"
  /\ stage' = "rest" /\ gated' = FALSE /\ frame' = NoFrame
  /\ fix' = FixOver /\ coordinates' = "none"
  /\ msg' = IF msg = "NO_MOTION" THEN msg ELSE "other"
  /\ result' = "none" /\ onAir' = FALSE
  /\ UNCHANGED <<at, rx, attempt, found, wire, owed, faults,
                 batteryVars, airPlaneSpeed, truth>>

-----------------------------------------------------------------------------
SketchWaits ==
  /\ frame' = NoFrame
  /\ UNCHANGED <<batteryVars, stage, msg, fix, coordinates, airPlaneSpeed, gated, truth>>

LibraryStep == Library /\ SketchWaits
LineStep == Line /\ SketchWaits

Reboot ==
  /\ Restart
  /\ samples' = <<>> /\ sortedValues' = <<>>
  /\ sensorMax' = 980 /\ batteryPercent' = 0 /\ drained' = FALSE
  /\ stage' = "rest" /\ msg' = "none" /\ fix' = NoFix /\ coordinates' = "none"
  /\ airPlaneSpeed' = FALSE /\ gated' = FALSE /\ truth' = NoFix
  /\ frame' = NoFrame

Next ==
  \/ Visit \/ Measure \/ SendWeak \/ SendRegular \/ Over
  \/ LibraryStep \/ LineStep \/ Reboot

(* The processor runs; the modem answers and its bytes arrive.              *)
Fairness == WF_vars(LibraryStep) /\ WF_vars(LineStep)

Spec == Init /\ [][Next]_vars /\ Fairness

-----------------------------------------------------------------------------
(* Type invariant.                                                          *)
TypeOK ==
  /\ LinkTypeOK /\ BatteryTypeOK
  /\ stage \in {"rest", "sense", "weak", "send", "over"}
  /\ coordinates \in {"none", "position", "weather"}
  /\ frame.made => /\ frame.cpx.spd \in Nat /\ frame.cpx.spd < 128
                    /\ frame.cpx.alt \in Nat /\ frame.cpx.alt < 8192

(* The first frame of a visit carries what was measured: after compression  *)
(* in place and packing, the fields of the frame hold the battery, the kind *)
(* of message, the speed to 18 km/h and, in a position, the altitude to     *)
(* 16 m.  makePayload(), sendSigFox(), with the field widths of             *)
(* decodPayload(); speeds above 528 km/h are cut.  The decoder of the       *)
(* README masks one bit too many: it shows battery and speed as they were   *)
(* measured where the lowest bit of course or altitude is 0, only there.    *)
FrameFaithful ==
  frame.made /\ fix.sat > 3 =>
    LET f == frame.cpx
        t == frame.shows
    IN /\ f.bat = frame.battery
       /\ ShownBattery(f) = frame.battery <=> f.cap % 2 = 0
       /\ f.mode < 3 <=> frame.of = "POSITION"
       /\ t # NoFix =>
            /\ Speed(f) <= t.spd
            /\ t.spd < 544 => t.spd - Speed(f) < 18
            /\ t.spd < 544 => (t.spd - ShownSpeed(f) \in 0 .. 17 <=> f.alt % 2 = 0)
            /\ frame.of = "POSITION" => Altitude(f) <= t.alt /\ t.alt - Altitude(f) < 16

(* What a frame holds in the place of the coordinates is taken for what it  *)
(* is: nothing but mode and altitude marks temperature and pressure, which  *)
(* takes an altitude that is reset after every visit, and a weak battery    *)
(* before a heartbeat must not change it.  sendSigFox(), powerDownLoop().   *)
WeatherMarked ==
  frame.made => (HeldAs(frame.cpx) = "weather" <=> frame.holds = "weather")

(* A battery that measures 864, 3.57 V on the fullest scale, is never taken *)
(* for an empty one, whatever was measured since boot: the calibration      *)
(* never grows too far.  Only a measurement without any battery breaks that *)
(* (batteryComp underflows).  batterySense().                               *)
HealthyNotWeak == stage = "weak" /\ samples # <<>> /\ ~drained => Middle(sortedValues) < 864
=============================================================================
