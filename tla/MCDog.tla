------------------------------- MODULE MCDog -------------------------------
(* Places 1, 2 and 3 in a row with a fence that reaches the next one, so    *)
(* that a dog can walk out of it step by step; a fix without satellites in  *)
(* view, and an airplane.  Switched on at 1013 hPa and used at 970, so that *)
(* the airplane mode by pressure sets in.                                   *)
EXTENDS DogTracker

Fix(q, n, v, h) == [p |-> q, sat |-> n, spd |-> v, alt |-> h]
MCFixes == {Fix(1, 2, 8, 0), Fix(3, 2, 8, 0), Fix(2, 0, 20, 0),
            Fix(3, 2, 300, 2000)}
MCBoards == {[accel |-> TRUE, barom |-> TRUE], [accel |-> TRUE, barom |-> FALSE],
             [accel |-> FALSE, barom |-> FALSE]}
MCReadings == {"still", "FACE_UP", "SIDE_UP", "SIDE_DN"}
=============================================================================
