---------------------------- MODULE MCLowPower ----------------------------
(* All five processors; timer 2 at the core's prescaler, at another one     *)
(* that uses the lowest bit, and stopped.                                   *)
EXTENDS LowPower

MCClocks == {{}, {2}, {0, 1}}
=============================================================================
