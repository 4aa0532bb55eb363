------------------------------ MODULE Payload ------------------------------
(***************************************************************************)
(* The 32 bit word cpx of a Sigfox frame (gps.ino): altitude and speed are *)
(* compressed in place, in the globals alt and spd, before they are packed. *)
(***************************************************************************)
EXTENDS Integers

\* 16 m steps above 4096 m, at most 8191.
AltCode(alt) ==
  LET a == IF alt > 4096 THEN alt \div 16 + 3840 ELSE alt
  IN  IF a > 8191 THEN 8191 ELSE a

\* 3 km/h steps above 90 km/h, 16 km/h steps above 127, at most 127.
SpdCode(spd) ==
  LET s == IF spd > 127 THEN spd \div 16 + 94
           ELSE IF spd > 90 THEN spd \div 3 + 60 ELSE spd
  IN  IF s > 126 THEN 127 ELSE s

\* A fix that makePayload takes for a cruising airplane.
Cruising(sat, spd, alt) == sat > 3 /\ spd > 120 /\ alt > 1250

=============================================================================
