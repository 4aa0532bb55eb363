--------------------------- MODULE TrackerWitness ---------------------------
(***************************************************************************)
(* Tracker with witnesses of what the world really showed: the last fix as *)
(* the receiver gave it (makePayload overwrites the globals), and the      *)
(* orientations the board really showed: accelPosition starts as FACE_UP   *)
(* without having been read.                                               *)
(***************************************************************************)
EXTENDS Tracker

VARIABLES
  fresh,   \* the last gpsProcess() of this search gave a fix
  seen,    \* satellites of all fixes of this search, at most SyncSlow
  plane,   \* that fix, as received, was one of a cruising airplane
  shown    \* the last four orientations since power-on, the latest one last

witness == <<fresh, seen, plane, shown>>

NothingShown == <<"none", "none", "none", "none">>

WInit ==
  /\ Init
  /\ fresh = FALSE /\ seen = 0 /\ plane = FALSE /\ shown = NothingShown

\* accelStatus() sees the board move to r.
Watch(r) ==
  /\ shown' = IF accelPresent' /\ r \in Positions
              THEN <<shown[2], shown[3], shown[4], r>> ELSE shown
  /\ UNCHANGED <<fresh, seen, plane>>

WSense(r) == (Boot(r) \/ BootStuck(r) \/ Sense(r)) /\ Watch(r)

WFix ==
  /\ GpsFix
  /\ fresh' = TRUE
  /\ seen' = IF seen + sat' > SyncSlow THEN SyncSlow ELSE seen + sat'
  /\ plane' = Cruising(sat', spd', alt')
  /\ UNCHANGED shown

WNoFix ==
  GpsNoFix /\ fresh' = FALSE /\ plane' = FALSE /\ UNCHANGED <<seen, shown>>

WWakeUp ==
  /\ WakeUp
  /\ fresh' = FALSE /\ seen' = 0 /\ plane' = FALSE /\ UNCHANGED shown

WOther ==
  (NoTick \/ Check \/ MeasureBattery \/ SendWeak \/ Send \/ Stuck)
    /\ UNCHANGED witness

WPowerLoss ==
  /\ PowerLoss
  /\ fresh' = FALSE /\ seen' = 0 /\ plane' = FALSE /\ shown' = NothingShown

WNext ==
  \/ \E r \in Readings : WSense(r)
  \/ WFix \/ WNoFix \/ WWakeUp \/ WOther \/ WPowerLoss

WSpec == WInit /\ [][WNext]_<<vars, witness>>

-----------------------------------------------------------------------------
\* Hazard: the counters of the search are globals that outlive it, and syncSat
\* is 8 bits wide. A position is only reported when the very last read of this
\* search gave it and the fixes of this search, alone, make it good enough.
ReportedFixIsFresh ==
  pc = "battery" /\ msg = "POSITION" => fresh /\ seen = SyncSlow

\* Hazard: makePayload compresses spd in place and may run twice in one visit
\* (WEAK_BAT, then the position), where the second run sees a slow aircraft.
\* A position is never transmitted from a fix of a cruising airplane.
SilentInFlight ==
  [][tx' = "POSITION" => ~plane]_<<vars, witness>>

\* The last four orientations, or all three since power-on.
Danced(last) ==
  \E first \in {"FACE_UP", "none"} : shown' = <<first, "SIDE_UP", "SIDE_DN", last>>

\* Hazard: seq survives between calls of accelStatus that may be hours apart.
\* Handling the tracker switches it off, or the sport mode on or off, only by
\* the four orientations of the dance directly one after the other. A board
\* that has shown nothing else since power-on needs only the last three:
\* accelStatus takes the initial accelPosition for FACE_UP.
OnlyTheDance ==
  [][pc' # "off" /\ pc \in {"tick", "record", "sleep"} =>
       /\ latch # latch' => Danced("SIDE_UP")
       /\ forceSport # forceSport' => Danced("FACE_UP")]_<<vars, witness>>

=============================================================================
