---------------------------- MODULE MCDayCounter ----------------------------
(***************************************************************************)
(* Instance of DayCounter for TLC: months of three days.                   *)
(***************************************************************************)
EXTENDS DayCounter

=============================================================================
