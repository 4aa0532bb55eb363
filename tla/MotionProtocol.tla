--------------------------- MODULE MotionProtocol ---------------------------
(***************************************************************************)
(* What the tracker promises its owner, without batteries, receivers or    *)
(* loop counters: when it looks for a position, when it reports that it    *)
(* rests, and when it raises the alert. Read from powerDownLoop() and the  *)
(* dispatch of main(). At most one regular message is owed per visit of    *)
(* powerDownLoop; it may be suppressed, but not sent twice, late or from    *)
(* another phase.                                                          *)
(***************************************************************************)
EXTENDS Integers

CONSTANT MotionMin   \* moves a watch may see without a new search

VARIABLES
  phase,     \* off, hung, search, watch (short wait), parked (long wait)
  owed,      \* the regular message of this visit not handled yet
  tx,        \* message given to the modem by the last step
  motions,   \* moves counted in this wait
  sport      \* sport mode
vars == <<phase, owed, tx, motions, sport>>

Init ==
  /\ phase = "off" /\ owed = "none" /\ tx = "none"
  /\ motions = 0 /\ sport = FALSE

Start ==
  /\ phase = "off" /\ phase' = "search"
  /\ UNCHANGED <<owed, tx, motions, sport>>

Stop ==
  /\ phase # "off" /\ phase' = "off"
  /\ owed' = "none" /\ tx' = "none" /\ motions' = 0 /\ sport' = FALSE

\* A peripheral does not answer.
Jam ==
  /\ phase \in {"off", "watch", "parked"}
  /\ phase' = "hung" /\ owed' = "none" /\ tx' = "none"
  /\ UNCHANGED <<motions, sport>>

\* The user's dance during a search.
Toggle ==
  /\ phase = "search" /\ sport' = ~sport
  /\ UNCHANGED <<phase, owed, tx, motions>>

\* The search ends, with a position or without one.
Conclude ==
  /\ phase = "search" /\ phase' = "watch"
  /\ owed' \in {"POSITION", "NO_GPS"}
  /\ UNCHANGED <<tx, motions, sport>>

\* The sport mode may end with a report: battery or limit.
EndSport ==
  /\ owed # "none" /\ sport /\ ~sport'
  /\ UNCHANGED <<phase, owed, tx, motions>>

\* The last words of an empty battery; they end the sport mode.
Farewell ==
  /\ owed # "none"
  /\ tx' \in {"WEAK_BAT", "none"} /\ ~sport'
  /\ UNCHANGED <<phase, owed, motions>>

\* The owed message is sent, or suppressed.
Report ==
  /\ owed # "none" /\ owed' = "none"
  /\ tx' \in {owed, "none"}
  /\ UNCHANGED <<phase, motions, sport>>

\* The wait begins; a fast position counts as motion.
Settle ==
  /\ phase \in {"watch", "parked"} /\ owed = "none"
  /\ motions' \in (IF phase = "watch" THEN {0, 2 * MotionMin} ELSE {0})
  /\ tx' = "none" /\ sport' \in BOOLEAN
  /\ UNCHANGED <<phase, owed>>

\* The accelerometer reports a move; it may complete the sport dance.
Move ==
  /\ phase \in {"watch", "parked"} /\ owed = "none"
  /\ phase = "parked" => motions = 0
  /\ motions' = motions + 1
  /\ tx' = "none" /\ sport' \in BOOLEAN
  /\ UNCHANGED <<phase, owed>>

\* What the wait leads to.
Search ==
  /\ owed = "none" /\ tx = "none"
  /\ \/ phase = "watch" /\ (motions > MotionMin \/ sport)
     \/ phase = "parked" /\ motions = 0 /\ sport
  /\ phase' = "search" /\ motions' = 0
  /\ UNCHANGED <<owed, tx, sport>>

Rest ==
  /\ owed = "none" /\ tx = "none" /\ ~sport
  /\ \/ phase = "watch" /\ motions <= MotionMin
     \/ phase = "parked" /\ motions = 0
  /\ phase' = "parked" /\ owed' = "NO_MOTION" /\ motions' = 0
  /\ UNCHANGED <<tx, sport>>

Alert ==
  /\ owed = "none" /\ tx = "none"
  /\ phase = "parked" /\ motions = 1
  /\ phase' = "watch" /\ owed' = "MOTION_ALERT" /\ motions' = 0
  /\ UNCHANGED <<tx, sport>>

Next ==
  \/ Start \/ Stop \/ Jam \/ Toggle \/ Conclude \/ EndSport \/ Farewell
  \/ Report \/ Settle \/ Move \/ Search \/ Rest \/ Alert

Spec == Init /\ [][Next]_vars

=============================================================================
