----------------------------- MODULE DayCounter -----------------------------
(***************************************************************************)
(* The message statistics of eeprom.ino: one EEPROM byte per day of the    *)
(* month, the running count of the current day in RAM, and a byte that     *)
(* says which day that is. EEPROM bytes are written one at a time and the  *)
(* power may go between two of them. The day is what the GPS said last, or *)
(* what powerDownLoop's own calendar made of it.                           *)
(***************************************************************************)
EXTENDS Integers

CONSTANTS
  LastDay,   \* last day of a month (31), every month having the same days
  MaxDate,   \* bound: days the calendar of the world runs for
  MaxSent    \* bound: messages sent on one day

ASSUME DayAssumption ==
  /\ {LastDay, MaxDate, MaxSent} \subseteq Nat \ {0}
  /\ LastDay < 255

VARIABLES
  pc,         \* off, idle, in stepMsg (save, mark, clear), record: after it
  cell,       \* the EEPROM bytes 0 (ADDR_TODAY) to LastDay; 255 is erased
  today, MsgCount,
  day,        \* the date the firmware believes in; 0 is none
  gpsDay,     \* the day in TinyGPS's _date
  \* of the world:
  date,       \* the date, counted from 1
  sent,       \* messages sent on the last date with this day of the month
  lostDays,   \* days of the month whose count an accident has reached
  right,      \* messages of this date sent with day and _date right, since
              \* the last one sent without a date
  outage      \* the power has been lost

ram   == <<today, MsgCount>>
world == <<date, sent, lostDays, right, outage>>
vars  == <<pc, cell, ram, day, gpsDay, world>>

Days    == 1..LastDay
DayOf(n) == ((n - 1) % LastDay) + 1
Now     == DayOf(date)

Init ==
  /\ pc = "off"
  /\ cell = [a \in 0..LastDay |-> 255]
  /\ today = 0 /\ MsgCount = 0 /\ day = 0 /\ gpsDay = 0
  /\ date = 1 /\ sent = [d \in Days |-> 0] /\ lostDays = {}
  /\ right = 0 /\ outage = FALSE

-----------------------------------------------------------------------------
\* dumpEEprom(): erased bytes become 0, the count of the last day is resumed.
\* Its writes are one action: an interrupted boot only repeats them.
Boot ==
  /\ pc = "off" /\ pc' = "idle"
  /\ cell' = [a \in 0..LastDay |-> IF cell[a] = 255 THEN 0 ELSE cell[a]]
  /\ today' = cell'[0] /\ MsgCount' = cell'[cell'[0]]
  /\ day' = 0 /\ gpsDay' = 0
  /\ UNCHANGED world

\* crack_datetime() in gpsProcess(): a new date sentence, or the last one again.
GpsDate ==
  /\ pc = "idle"
  /\ gpsDay' \in {gpsDay, Now}
  /\ day' = gpsDay'
  /\ UNCHANGED <<pc, cell, ram, world>>

\* Mutant: the calendar does not wrap.
NextDayEndless == day + 1

\* powerDownLoop after the message. After NO_MOTION the hours it is going to
\* sleep are added to the calendar and may pass midnight; their number is
\* abstracted away.
NextDay == IF day + 1 > LastDay THEN 0 ELSE day + 1

Record ==
  /\ pc = "record" /\ pc' = "idle"
  /\ day' \in {day, NextDay}
  /\ UNCHANGED <<cell, ram, gpsDay, world>>

\* A message that sendSigFox suppresses is not counted, and a visit that skips
\* sendSigFox counts nothing.
NoMessage ==
  /\ pc = "idle" /\ pc' = "record"
  /\ UNCHANGED <<cell, ram, day, gpsDay, world>>

\* Mutant: the count goes to the new day's byte.
SaveEEpromAhead ==
  cell' = IF day \in Days THEN [cell EXCEPT ![day] = MsgCount] ELSE cell

\* saveEEprom()
SaveEEprom ==
  cell' = IF today \in Days THEN [cell EXCEPT ![today] = MsgCount] ELSE cell

\* What the world notes of a message: on which date it is sent, and which
\* counts can be wrong because the firmware has no date or a wrong one.
Note ==
  /\ sent[Now] < MaxSent
  /\ sent' = [sent EXCEPT ![Now] = @ + 1]
  /\ lostDays' =
       IF day = Now THEN lostDays
       ELSE IF day = 0 THEN lostDays \cup ({today, Now} \cap Days)
       ELSE lostDays \cup {day, Now}
  /\ right' = IF day = 0 THEN 0
              ELSE IF day = Now /\ gpsDay = Now THEN right + 1 ELSE right
  /\ UNCHANGED <<date, outage>>

\* stepMsg() without a date.
StepUndated ==
  /\ pc = "idle" /\ pc' = "record" /\ day = 0
  /\ MsgCount' = 0
  /\ Note
  /\ UNCHANGED <<cell, today, day, gpsDay>>

\* stepMsg() on the day it counts, in RAM or according to ADDR_TODAY.
StepSameDay ==
  /\ pc = "idle" /\ pc' = "record" /\ day > 0
  /\ day = today \/ day = cell[0]
  /\ today' = day
  /\ MsgCount' = (MsgCount + 1) % 256
  /\ Note
  /\ UNCHANGED <<cell, day, gpsDay>>

\* stepMsg() finds a new day: first it stores the count of the old one,
StepNewDay ==
  /\ pc = "idle" /\ day > 0 /\ day # today /\ day # cell[0]
  /\ pc' = "save"
  /\ today' = cell[0]
  /\ Note
  /\ UNCHANGED <<cell, MsgCount, day, gpsDay>>

StepSave ==
  /\ pc = "save" /\ pc' = "mark"
  /\ SaveEEprom
  /\ UNCHANGED <<ram, day, gpsDay, world>>

\* Mutant: the new day is not written down.
StepMarkLost ==
  /\ pc = "mark" /\ pc' = "clear"
  /\ UNCHANGED <<cell, ram, day, gpsDay, world>>

\* EEPROM.write(ADDR_TODAY, day)
StepMark ==
  /\ pc = "mark" /\ pc' = "clear"
  /\ cell' = [cell EXCEPT ![0] = day]
  /\ UNCHANGED <<ram, day, gpsDay, world>>

\* EEPROM.write(day, 0); the message is the first of the day.
StepClear ==
  /\ pc = "clear" /\ pc' = "record"
  /\ cell' = [cell EXCEPT ![day] = 0]
  /\ today' = day /\ MsgCount' = 1
  /\ UNCHANGED <<day, gpsDay, world>>

\* No statement of stepMsg is pending.
Quiet == pc \in {"idle", "record"}

\* saveEEprom() before a shutdown: the dance, or an empty battery, which then
\* sends one message more.
Shutdown ==
  /\ Quiet
  /\ SaveEEprom
  /\ UNCHANGED <<pc, ram, day, gpsDay, world>>

\* What a loss of power costs: the counts not stored, and inside stepMsg the
\* first message of the new day.
Unsaved ==
  (IF today \in Days /\ cell[today] # MsgCount THEN {today} ELSE {})
    \cup (IF pc \in {"save", "mark", "clear"} THEN {day} ELSE {})

PowerLoss ==
  /\ pc # "off" /\ pc' = "off"
  /\ today' = 0 /\ MsgCount' = 0 /\ day' = 0 /\ gpsDay' = 0
  /\ lostDays' = lostDays \cup Unsaved
  /\ outage' = TRUE
  /\ UNCHANGED <<cell, date, sent, right>>

\* The world's midnight. The count of last month's same day is no longer asked
\* for, unless the tracker still counts it: it sent nothing for a month.
Midnight ==
  /\ pc \in {"off", "idle"} /\ date < MaxDate
  /\ date' = date + 1
  /\ sent' = [sent EXCEPT ![DayOf(date + 1)] = 0]
  /\ lostDays' = IF DayOf(date + 1) = cell[0]
                 THEN lostDays \cup {cell[0]}
                 ELSE lostDays \ {DayOf(date + 1)}
  /\ right' = 0
  /\ UNCHANGED <<pc, cell, ram, day, gpsDay, outage>>

Next ==
  \/ Boot \/ GpsDate \/ Record \/ NoMessage \/ StepUndated \/ StepSameDay \/ StepNewDay
  \/ StepSave \/ StepMark \/ StepClear \/ Shutdown \/ PowerLoss \/ Midnight

Spec == Init /\ [][Next]_vars

-----------------------------------------------------------------------------
\* Type invariant.
TypeOK ==
  /\ pc \in {"off", "idle", "save", "mark", "clear", "record"}
  /\ cell \in [0..LastDay -> 0..255]
  /\ cell[0] \in Days \cup {0, 255}
  /\ today \in 0..LastDay /\ MsgCount \in 0..255
  /\ day \in 0..LastDay /\ gpsDay \in 0..LastDay
  /\ date \in 1..MaxDate
  /\ sent \in [Days -> 0..MaxSent] /\ right \in 0..MaxSent
  /\ lostDays \subseteq Days /\ outage \in BOOLEAN

\* The count of a day: the RAM's for the current one, else the EEPROM's.
Count(d) == IF d = today THEN MsgCount ELSE cell[d]

\* Hazard: RAM and EEPROM both say which day is counted, and a crash may come
\* between the two writes. While nothing is in progress they agree.
TodayStored == Quiet => today = cell[0]

\* Hazard: a lost write, a wrong date or a forgotten save silently changes the
\* statistics. The only accidents are a power loss with an unsaved count, a
\* message sent without a date or under a wrong one, and a month without a
\* message; and each reaches only the days it concerns. All other counts are
\* the messages really sent.
CountExact ==
  Quiet => \A d \in Days \ lostDays : sent[d] > 0 => Count(d) = sent[d]

\* def.h: the bytes are the "number of messages sent". Without any power loss,
\* a tracker has counted those messages of this date that it sent while both its
\* own calendar and the last date sentence were right.
DayCountKept ==
  Quiet /\ ~outage /\ Now = today /\ Now = day => MsgCount >= right

=============================================================================
