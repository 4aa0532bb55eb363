------------------------------- MODULE Frame -------------------------------
(* The frame of a message: how makePayload() and sendSigFox() pack the 32   *)
(* bits of cpx (gps.ino, sigfox.ino), how decodPayload() of the sketch takes *)
(* them apart, and the decoder for a backend that the README of the sketch  *)
(* gives.  cpx is a record of its bit fields; values wider than their field *)
(* run over into the next one, as they do when the words are or-ed together. *)
EXTENDS Payload, FiniteSetsExt

(* A position has its quality as mode, the other messages their number.     *)
ModeOf == [NO_MOTION |-> 4, NO_GPS |-> 5, MOTION_ALERT |-> 6, WEAK_BAT |-> 7]
Mode(m, sat) == IF m = "POSITION" THEN (sat \div 4) % 4 ELSE ModeOf[m]

(* The bits of 13 bits, by their weights.                                   *)
Weights == {1, 2, 4, 8, 16, 32, 64, 128, 256, 512, 1024, 2048, 4096}
Bits(n) == {w \in Weights : (n \div w) % 2 = 1}
Or(a, b) == IF b = 0 THEN a ELSE SumSet(Bits(a) \cup Bits(b))

(* *Mutant*: the speed is not cut to its field.                             *)
SpeedFieldWide(spd) == spd

(* alt << 19 | spd << 12 | cap << 10 | (127 & bat) << 3 | mode              *)
SpeedField(spd) == spd % 128
Pack(alt, spd, cap, bat, mode) ==
  [alt |-> Or(alt % 8192, spd \div 128), spd |-> SpeedField(spd), cap |-> cap,
   bat |-> bat % 128, mode |-> mode]

(* The course of a fix in quarters; the orientation of the board otherwise. *)
Cap(sat, course, position) ==
  IF sat > 3 THEN (course \div 90) % 4 ELSE IF position < 3 THEN position ELSE 3

-----------------------------------------------------------------------------
(* The fields as decodPayload() cuts them out, 7 bits of speed and battery, *)
(* with the steps of makePayload() undone as the README does it.            *)
Altitude(f) == IF f.alt > 4096 /\ f.mode < 3 THEN (f.alt - 3840) * 16 ELSE f.alt
Expanded(s) == IF s > 102 THEN (s - 94) * 16 ELSE IF s > 90 THEN (s - 60) * 3 ELSE s
Speed(f) == Expanded(f.spd)
HeldAs(f) == IF f.mode = 4 /\ f.alt = 0 THEN "weather" ELSE "position"

(* What the decoder of the README shows: it masks speed and battery with    *)
(* 0xff, which takes in the lowest bit of the field above them, and expands *)
(* the speed afterwards.                                                    *)
ShownSpeed(f) == Expanded(f.spd + 128 * (f.alt % 2))
ShownBattery(f) == f.bat + 128 * (f.cap % 2)
=============================================================================
