-------------------------- MODULE MCTrackerWitness --------------------------
(***************************************************************************)
(* Instance of TrackerWitness for TLC: an aircraft whose crew may dance.   *)
(***************************************************************************)
EXTENDS TrackerWitness

\* All parts work; a cabin pressure acts as no barometer does.
MCBoards == {[accel |-> TRUE, barom |-> TRUE, modem |-> TRUE]}

\* Every orientation of the dance, and no move.
MCReadings == {"still", "FACE_UP", "SIDE_UP", "SIDE_DN"}

\* On both sides of the test of makePayload; 125 km/h is sent as 101.
MCSpeeds == {0, 125}

\* A cabin and the ground.
MCPressures == {990, 1030}

=============================================================================
