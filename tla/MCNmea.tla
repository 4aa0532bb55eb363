------------------------------ MODULE MCNmea ------------------------------
(* The parser on the receiver's stream; the numbers are in nmea.cfg.        *)
EXTENDS NmeaStream

(* Bytes are lost among the sentences with a position.                      *)
MCLosses == [t \in {"fix", "sky"} |-> IF t = "fix" THEN 1 ELSE 0]

(* Up to sixteen GPS satellites, four of them in the half of GLONASS.       *)
MCMessages == [t \in {"GPGSV", "GLGSV"} |-> IF t = "GPGSV" THEN 4 ELSE 3]

(* One satellite that has lost its strength, or four of which one is not    *)
(* tracked.                                                                 *)
MCSkies == { << <<"0">> >>, << <<"snr">>, Empty, <<"snr">>, <<"snr">> >> }
=============================================================================
