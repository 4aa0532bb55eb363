------------------------------ MODULE Sensors ------------------------------
(***************************************************************************)
(* What the main sketch computes from its two analogue worlds: the         *)
(* orientation of the board (accel.ino) and the battery (battery.ino).     *)
(* Pure operators, shared by every module about the sketch.                *)
(***************************************************************************)
EXTENDS Integers

\* The enum of def.h; POS_NULL is every tilted orientation.
Positions ==
  {"FACE_UP", "FACE_DN", "SIDE_UP", "SIDE_DN", "SIDE_RT", "SIDE_LT", "NULL"}

\* What one call of accel.update() shows: an I2C error, axes within 2 units of
\* the last ones, or axes that moved and the orientation they now give.
AllReadings == {"error", "still"} \cup Positions

\* Mutant: a wrong move does not restart the dance.
DanceSeqSticky(seq, p, n) ==
  IF seq = 0 /\ p = "FACE_UP" /\ n = "SIDE_UP" THEN 1
  ELSE IF seq = 1 /\ p = "SIDE_UP" /\ n = "SIDE_DN" THEN 2
  ELSE IF seq = 2 /\ p = "SIDE_DN" /\ n = "SIDE_UP" THEN 3
  ELSE IF seq = 2 /\ p = "SIDE_DN" /\ n = "FACE_UP" THEN 4
  ELSE seq

\* The accelDance: the value of seq after a move from position p to position n.
\* 3 asks for power off, 4 toggles the sport mode, everything else restarts.
DanceSeq(seq, p, n) ==
  IF seq = 0 /\ p = "FACE_UP" /\ n = "SIDE_UP" THEN 1
  ELSE IF seq = 1 /\ p = "SIDE_UP" /\ n = "SIDE_DN" THEN 2
  ELSE IF seq = 2 /\ p = "SIDE_DN" /\ n = "SIDE_UP" THEN 3
  ELSE IF seq = 2 /\ p = "SIDE_DN" /\ n = "FACE_UP" THEN 4
  ELSE 0

BATT_MIN == 3570
BATT_MAX == 4200

\* batteryPercent of a battery voltage in millivolts: Arduino's map() between
\* min(bat, BATT_MIN) and max(bat, BATT_MAX).
Percent(bat) ==
  LET lo == IF bat < BATT_MIN THEN bat ELSE BATT_MIN
      hi == IF bat > BATT_MAX THEN bat ELSE BATT_MAX
  IN  ((bat - lo) * 100) \div (hi - lo)

\* What batterySense() returns.
Weak(bat) == bat < BATT_MIN

=============================================================================
