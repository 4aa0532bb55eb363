---------------------------- MODULE TrackerTime ----------------------------
(***************************************************************************)
(* Tracker with a clock: history variables that add up the time the code   *)
(* is sure to spend, in units of 4 s. A tick of main() is at least one     *)
(* unit, a turn of the sleep loop its sleepDuration; nothing else counts.  *)
(***************************************************************************)
EXTENDS Tracker

CONSTANTS GapCap, SportCap   \* bounds of the two clocks

ASSUME ClockAssumption == {GapCap, SportCap} \subseteq Nat

VARIABLES
  gap,        \* time since the last message
  last,       \* that message; "none" after a reset
  hurried,    \* the sport mode has been switched since then
  sportTime   \* time since the sport mode was switched on

clock == <<gap, last, hurried, sportTime>>

AtMost(cap, n) == IF n > cap THEN cap ELSE n

\* The user switches the sport mode in this step.
Switched == pc \in {"tick", "record", "sleep"} /\ forceSport' # forceSport

\* A step of Tracker that takes at least d units of time.
Elapse(d) ==
  /\ IF tx' = "none"
     THEN /\ gap' = AtMost(GapCap, gap + d)
          /\ last' = last
          /\ hurried' = (hurried \/ Switched)
     ELSE /\ gap' = 0
          /\ last' = tx'
          /\ hurried' = FALSE
  /\ sportTime' = IF forceSport THEN AtMost(SportCap, sportTime + d) ELSE 0

\* Nothing is known of the time before a power loss.
Forget == gap' = 0 /\ last' = "none" /\ hurried' = FALSE /\ sportTime' = 0

TimedInit == Init /\ gap = 0 /\ last = "none" /\ hurried = FALSE /\ sportTime = 0

\* The steps that read the accelerometer, each with its duration.
TimedSense(r) ==
  \/ Boot(r) /\ Elapse(0)
  \/ BootStuck(r) /\ Elapse(0)
  \/ Tick(r) /\ Elapse(1)
  \/ SleepStep(r) /\ Elapse(sleepDuration \div 4)
  \/ Record(r) /\ Elapse(0)

Instant ==
  \/ NoTick /\ Elapse(0)
  \/ GpsNoFix /\ Elapse(0)
  \/ GpsFix /\ Elapse(0)
  \/ Check /\ Elapse(0)
  \/ MeasureBattery /\ Elapse(0)
  \/ SendWeak /\ Elapse(0)
  \/ Send /\ Elapse(0)
  \/ Stuck /\ Elapse(0)
  \/ WakeUp /\ Elapse(0)

TimedNext ==
  \/ \E r \in Readings : TimedSense(r)
  \/ Instant
  \/ PowerLoss /\ Forget

TimedSpec == TimedInit /\ [][TimedNext]_<<vars, clock>>

\* The fairness of Tracker: the clock only watches its steps.
TimedFairSpec == TimedSpec /\ Fairness

-----------------------------------------------------------------------------
\* The shortest wait powerDownLoop makes: a search that used all its ticks,
\* then a watch that saw nothing, in turns of 4 s.
ShortWait == PeriodCount - GpsLimit - 1

\* Hazard: the send rate rests on waitLoop, which is shortened by the search,
\* folded by the first move and zeroed by a parked move. Unless the battery is
\* empty or the user switches the sport mode, two messages are a ShortWait
\* apart, the alert apart.
MessagesSpaced ==
  [][tx' # "none" /\ msg # "MOTION_ALERT" /\ last \notin {"none", "WEAK_BAT"}
       /\ ~hurried
     => gap >= ShortWait]_<<vars, clock>>

\* HidnSeek.cpp: "the interval between messages should be 10 minutes", which is
\* PERIOD_COUNT turns of 8 s.
TenMinutesApart ==
  [][tx' # "none" /\ last # "none" => gap >= 2 * PeriodCount]_<<vars, clock>>

\* def.h: SPORT_LIMIT is a "4h limit", 48 times the 5 minutes that PERIOD_COUNT
\* turns of 4 s take; one more period of 10 minutes is granted.
SportWithinLimit ==
  forceSport => sportTime <= SportLimit * PeriodCount + 2 * PeriodCount

=============================================================================
