--------------------------- MODULE MCTrackerTime ---------------------------
(***************************************************************************)
(* Instances of TrackerTime for TLC.                                       *)
(***************************************************************************)
EXTENDS TrackerTime

\* With and without the accelerometer (without it every turn is a move), with
\* and without a modem (without it the supply is not held).
MCBoards == [accel : BOOLEAN, barom : {FALSE}, modem : BOOLEAN]

\* The sport dance and a move that is not part of it.
MCReadings == {"still", "FACE_UP", "SIDE_UP", "SIDE_DN"}

=============================================================================
