-------------------------- MODULE DayCounterProofs --------------------------
(***************************************************************************)
(* Proofs about DayCounter for months of any length and any number of days *)
(* and messages: wherever the power is lost, RAM and EEPROM agree on the   *)
(* day whenever stepMsg() is not at work.                                  *)
(***************************************************************************)
EXTENDS DayCounter, TLAPS

\* stepMsg() opens a day only with a date, and the day in RAM follows the one
\* in the EEPROM through its three writes.
StoreInv ==
  /\ pc \in {"idle", "record", "save", "mark"} => today = cell[0]
  /\ pc \in {"save", "mark", "clear"} => day \in Days
  /\ pc = "clear" => cell[0] = day

\* The messages counted right today are among those sent today.
RightInv == right <= sent[Now]

DInv == TypeOK /\ StoreInv /\ RightInv

-----------------------------------------------------------------------------
\* A date has a day of the month.
LEMMA DayOfType ==
  ASSUME NEW n \in Nat \ {0}
  PROVE  DayOf(n) \in Days
<1>1. LastDay \in Nat \ {0}
  BY DayAssumption
<1>2. (n - 1) % LastDay \in 0..(LastDay - 1)
  BY <1>1
<1> QED
  BY <1>1, <1>2 DEF DayOf, Days

\* The constants, and what they bound.
LEMMA DayTypes ==
  /\ LastDay \in 1..254 /\ MaxDate \in Nat \ {0} /\ MaxSent \in Nat \ {0}
  /\ Days \subseteq 0..LastDay /\ Days \subseteq 0..255 /\ 0 \notin Days
  /\ 0 \in 0..LastDay
  BY DayAssumption DEF Days

\* Today has a day of the month.
LEMMA NowType == TypeOK => Now \in Days
  BY DayOfType DEF TypeOK, Now

\* saveEEprom() writes a count, and never over the byte that names the day.
LEMMA SaveEffect ==
  ASSUME TypeOK, SaveEEprom
  PROVE  cell' \in [0..LastDay -> 0..255] /\ cell'[0] = cell[0]
  BY DayTypes DEF TypeOK, SaveEEprom

\* A message in the world's books.
LEMMA NoteEffect ==
  ASSUME TypeOK, RightInv, Note
  PROVE  /\ sent' \in [Days -> 0..MaxSent] /\ right' \in 0..MaxSent
         /\ lostDays' \subseteq Days /\ RightInv'
         /\ date' = date /\ outage' = outage
<1>1. Now \in Days /\ Now' = Now /\ date' = date /\ outage' = outage
  BY NowType DEF Note, Now
<1>2. sent' \in [Days -> 0..MaxSent] /\ sent'[Now] = sent[Now] + 1
  BY <1>1, DayTypes DEF TypeOK, Note
<1>3. right' \in {0, right, right + 1}
  BY DEF Note
<1>4. right' \in 0..MaxSent /\ RightInv'
  BY <1>1, <1>2, <1>3, DayTypes DEF TypeOK, RightInv, Note
<1>5. lostDays' \subseteq Days
  <2>1. day \in Days \cup {0}
    BY DayTypes DEF TypeOK, Days
  <2> QED
    BY <1>1, <2>1 DEF TypeOK, Note
<1> QED
  BY <1>1, <1>2, <1>4, <1>5

-----------------------------------------------------------------------------
\* The invariant holds at first.
LEMMA DInvInit == Init => DInv
<1> SUFFICES ASSUME Init PROVE DInv
  OBVIOUS
<1>1. TypeOK
  <2>1. cell \in [0..LastDay -> 0..255] /\ cell[0] = 255
    BY DayTypes DEF Init
  <2>2. sent \in [Days -> 0..MaxSent]
    BY DayTypes DEF Init
  <2>3. outage \in BOOLEAN /\ lostDays \subseteq Days
    BY DEF Init
  <2>4. date \in 1..MaxDate
    BY DayTypes DEF Init
  <2> QED
    BY <2>1, <2>2, <2>3, <2>4, DayTypes DEF Init, TypeOK
<1>2. StoreInv
  BY DEF Init, StoreInv
<1>3. RightInv
  BY <1>1, NowType DEF Init, RightInv
<1> QED
  BY <1>1, <1>2, <1>3 DEF DInv

\* Every step but those of stepMsg().
LEMMA DInvQuiet ==
  ASSUME DInv,
         Boot \/ GpsDate \/ Record \/ NoMessage \/ Shutdown \/ PowerLoss \/ Midnight
  PROVE  DInv'
<1> USE DEF DInv, ram, world
<1>1. CASE Boot
  <2>1. cell' \in [0..LastDay -> 0..255] /\ cell'[0] \in Days \cup {0}
    BY <1>1, DayTypes DEF Boot, TypeOK
  <2>2. today' = cell'[0] /\ today' \in 0..LastDay /\ MsgCount' \in 0..255
    <3>1. today' = cell'[0] /\ MsgCount' = cell'[cell'[0]]
      BY <1>1 DEF Boot
    <3>2. cell'[0] \in 0..LastDay
      BY <2>1, DayTypes
    <3> QED
      BY <2>1, <3>1, <3>2
  <2>3. TypeOK'
    <3>1. outage' \in BOOLEAN /\ pc' = "idle"
      BY <1>1 DEF Boot, TypeOK
    <3>2. cell'[0] \in Days \cup {0, 255}
      BY <2>1
    <3>3. /\ date' \in 1..MaxDate
          /\ sent' \in [Days -> 0..MaxSent] /\ right' \in 0..MaxSent
          /\ lostDays' \subseteq Days
      BY <1>1 DEF Boot, TypeOK
    <3>4. day' \in 0..LastDay /\ gpsDay' \in 0..LastDay
      BY <1>1, DayTypes DEF Boot
    <3> QED
      BY <2>1, <2>2, <3>1, <3>2, <3>3, <3>4 DEF TypeOK
  <2> QED
    BY <1>1, <2>2, <2>3 DEF Boot, StoreInv, RightInv, Now
<1>2. CASE GpsDate
  <2>1. gpsDay' \in 0..LastDay /\ day' \in 0..LastDay
    BY <1>2, NowType, DayTypes DEF GpsDate, TypeOK
  <2> QED
    BY <1>2, <2>1 DEF GpsDate, TypeOK, StoreInv, RightInv, Now
<1>3. CASE Record
  <2>1. day' \in 0..LastDay
    BY <1>3, DayTypes DEF Record, NextDay, TypeOK
  <2> QED
    BY <1>3, <2>1 DEF Record, TypeOK, StoreInv, RightInv, Now
<1>4. CASE NoMessage
  BY <1>4 DEF NoMessage, TypeOK, StoreInv, RightInv, Now
<1>5. CASE Shutdown
  <2>1. cell' \in [0..LastDay -> 0..255] /\ cell'[0] = cell[0]
    BY <1>5, SaveEffect DEF Shutdown
  <2> QED
    BY <1>5, <2>1 DEF Shutdown, Quiet, TypeOK, StoreInv, RightInv, Now
<1>6. CASE PowerLoss
  <2>1. Unsaved \subseteq Days
    BY DEF Unsaved, StoreInv
  <2> QED
    BY <1>6, <2>1, DayTypes DEF PowerLoss, TypeOK, StoreInv, RightInv, Now
<1>7. CASE Midnight
  <2>1. date + 1 \in Nat \ {0} /\ DayOf(date + 1) \in Days /\ date' = date + 1
    BY <1>7, DayOfType, DayTypes DEF Midnight, TypeOK
  <2>2. Now' = DayOf(date + 1) /\ sent' \in [Days -> 0..MaxSent]
        /\ sent'[DayOf(date + 1)] = 0
    BY <1>7, <2>1, DayTypes DEF Midnight, TypeOK, Now
  <2>3. lostDays' \subseteq Days
    BY <1>7, <2>1 DEF Midnight, TypeOK
  <2>4. date' \in 1..MaxDate
    BY <1>7, <2>1, DayTypes DEF Midnight, TypeOK
  <2>5. RightInv'
    BY <1>7, <2>2 DEF Midnight, RightInv
  <2>6. TypeOK'
    BY <1>7, <2>2, <2>3, <2>4, DayTypes DEF Midnight, TypeOK
  <2> QED
    BY <1>7, <2>5, <2>6 DEF Midnight, StoreInv
<1> QED
  BY <1>1, <1>2, <1>3, <1>4, <1>5, <1>6, <1>7

\* The steps of stepMsg().
LEMMA DInvStep ==
  ASSUME DInv,
         StepUndated \/ StepSameDay \/ StepNewDay \/ StepSave \/ StepMark \/ StepClear
  PROVE  DInv'
<1> USE DEF DInv, ram, world
<1>1. CASE StepUndated
  BY <1>1, NoteEffect DEF StepUndated, TypeOK, StoreInv
<1>2. CASE StepSameDay
  <2>1. MsgCount' \in 0..255
    BY <1>2 DEF StepSameDay, TypeOK
  <2> QED
    BY <1>2, <2>1, NoteEffect DEF StepSameDay, TypeOK, StoreInv
<1>3. CASE StepNewDay
  <2>1. today' = cell[0] /\ today' \in 0..LastDay
    BY <1>3 DEF StepNewDay, StoreInv, TypeOK
  <2>2. day \in Days
    BY <1>3, DayTypes DEF StepNewDay, TypeOK, Days
  <2> QED
    BY <1>3, <2>1, <2>2, NoteEffect DEF StepNewDay, TypeOK, StoreInv
<1>4. CASE StepSave
  <2>1. cell' \in [0..LastDay -> 0..255] /\ cell'[0] = cell[0]
    BY <1>4, SaveEffect DEF StepSave
  <2> QED
    BY <1>4, <2>1 DEF StepSave, TypeOK, StoreInv, RightInv, Now
<1>5. CASE StepMark
  <2>1. day \in Days /\ cell'[0] = day /\ cell' \in [0..LastDay -> 0..255]
    BY <1>5, DayTypes DEF StepMark, TypeOK, StoreInv
  <2> QED
    BY <1>5, <2>1 DEF StepMark, TypeOK, StoreInv, RightInv, Now
<1>6. CASE StepClear
  <2>1. day \in Days /\ cell'[0] = day /\ cell' \in [0..LastDay -> 0..255]
    BY <1>6, DayTypes DEF StepClear, TypeOK, StoreInv
  <2> QED
    BY <1>6, <2>1, DayTypes DEF StepClear, TypeOK, StoreInv, RightInv, Now
<1> QED
  BY <1>1, <1>2, <1>3, <1>4, <1>5, <1>6

\* Every step.
LEMMA DInvNext == DInv /\ [Next]_vars => DInv'
<1> SUFFICES ASSUME DInv, [Next]_vars PROVE DInv'
  OBVIOUS
<1>1. CASE UNCHANGED vars
  BY <1>1 DEF vars, ram, world, DInv, TypeOK, StoreInv, RightInv, Now
<1> QED
  BY <1>1, DInvQuiet, DInvStep DEF Next

-----------------------------------------------------------------------------
\* The inductive invariant.
THEOREM DayInvariant == Spec => []DInv
<1> QED
  BY DInvInit, DInvNext, PTL DEF Spec

\* The counts, days and dates of the statistics keep their ranges.
THEOREM DayTypeCorrect == Spec => []TypeOK
<1>1. DInv => TypeOK
  BY DEF DInv
<1> QED
  BY <1>1, DayInvariant, PTL

\* Whenever stepMsg() is not at work, RAM counts the day the EEPROM names.
THEOREM TodayIsStored == Spec => []TodayStored
<1>1. DInv => TodayStored
  BY DEF DInv, StoreInv, TodayStored, Quiet
<1> QED
  BY <1>1, DayInvariant, PTL

-----------------------------------------------------------------------------
\* stepMsg() is between its writes.
Opening == pc \in {"save", "mark", "clear"}

\* Wherever the power is lost, the bytes hold the counts that no accident has
\* reached: all of them, but for the RAM's one and the day being opened.
CellsInv ==
  \A d \in Days \ lostDays : sent[d] > 0 =>
    /\ Quiet \/ (pc = "save" /\ d # day) => Count(d) = sent[d]
    /\ pc = "off" \/ (pc \in {"mark", "clear"} /\ d # day) => cell[d] = sent[d]

\* A day is opened by its first message.
OpenInv == Opening /\ day \notin lostDays => day = Now /\ sent[day] = 1

\* A day with messages is the one the EEPROM names, or is about to name.
NowInv ==
  Now \notin lostDays /\ sent[Now] > 0 => Now = IF Opening THEN day ELSE cell[0]

\* The day the EEPROM names has messages.
NamedInv == cell[0] \in Days \ lostDays => sent[cell[0]] > 0

CInv == DInv /\ CellsInv /\ OpenInv /\ NowInv /\ NamedInv

\* saveEEprom() writes the counts down.
LEMMA SaveCounts ==
  ASSUME TypeOK, SaveEEprom, NEW d \in Days
  PROVE  cell'[d] = Count(d)
  BY DayTypes DEF TypeOK, SaveEEprom, Count

\* A count no message of this step has reached is of another day, or of today
\* with the right date.
LEMMA NoteSpares ==
  ASSUME TypeOK, Note, NEW d \in Days, d \notin lostDays'
  PROVE  /\ d \notin lostDays
         /\ d # Now => sent'[d] = sent[d]
         /\ d = Now => day = Now /\ sent'[d] = sent[d] + 1
         /\ day = 0 => d # today
         /\ d = day => day = Now
<1>1. Now \in Days
  BY NowType
<1>2. lostDays' = IF day = Now THEN lostDays
                  ELSE IF day = 0 THEN lostDays \cup ({today, Now} \cap Days)
                  ELSE lostDays \cup {day, Now}
  BY DEF Note
<1>3. sent' = [sent EXCEPT ![Now] = @ + 1] /\ sent \in [Days -> 0..MaxSent]
  BY DEF Note, TypeOK
<1> QED
  BY <1>1, <1>2, <1>3, DayTypes

\* A message never makes a day's number smaller.
LEMMA NoteAdds ==
  ASSUME TypeOK, Note, NEW d \in Days
  PROVE  sent[d] \in Nat /\ sent'[d] \in Nat /\ sent'[d] >= sent[d] /\ Now' = Now
<1>1. Now \in Days /\ Now' = Now
  BY NowType DEF Note, Now
<1>2. sent' = [sent EXCEPT ![Now] = @ + 1] /\ sent \in [Days -> 0..MaxSent]
  BY DEF Note, TypeOK
<1> QED
  BY <1>1, <1>2, DayTypes

-----------------------------------------------------------------------------
\* The counts at first: there are none.
LEMMA CInvInit == Init => CInv
<1> SUFFICES ASSUME Init PROVE CInv
  OBVIOUS
<1>1. DInv
  BY DInvInit
<1>2. Now \in Days /\ \A d \in Days : sent[d] = 0
  BY <1>1, NowType DEF DInv, Init
<1>3. pc = "off" /\ cell[0] = 255 /\ 255 \notin Days
  BY DayTypes DEF Init, Days
<1> QED
  BY <1>1, <1>2, <1>3 DEF CInv, CellsInv, OpenInv, NowInv, NamedInv, Opening

\* Power comes: no count is 255, what an erased byte reads as.
LEMMA CInvBoot ==
  ASSUME MaxSent < 255, CInv, DInv', Boot
  PROVE  CInv'
<1>1. /\ pc = "off" /\ pc' = "idle" /\ Now' = Now
      /\ sent' = sent /\ lostDays' = lostDays
  BY DEF Boot, world, Now
<1>2. \A a \in 0..LastDay : cell'[a] = IF cell[a] = 255 THEN 0 ELSE cell[a]
  BY DEF Boot
<1>3. today' = cell'[0] /\ MsgCount' = cell'[cell'[0]]
  BY DEF Boot
<1>4. \A d \in Days : Count(d)' = cell'[d]
  BY <1>3 DEF Count
<1>5. CellsInv'
  <2> SUFFICES ASSUME NEW d \in Days \ lostDays, sent[d] > 0
               PROVE  Count(d)' = sent[d]
    BY <1>1 DEF CellsInv, Opening, Quiet
  <2>1. cell[d] = sent[d] /\ sent[d] \in 0..MaxSent
    BY <1>1 DEF CInv, DInv, TypeOK, CellsInv
  <2>2. cell'[d] = cell[d]
    BY <1>2, <2>1, DayTypes
  <2> QED
    BY <1>4, <2>1, <2>2
<1>6. cell[0] \in Days => cell'[0] = cell[0]
  BY <1>2, DayTypes
<1>7. NowInv'
  BY <1>1, <1>6, NowType DEF CInv, DInv, NowInv, Opening
<1>8. NamedInv'
  <2>1. cell'[0] \in Days => cell'[0] = cell[0]
    BY <1>2, DayTypes
  <2> QED
    BY <1>1, <2>1 DEF CInv, NamedInv
<1> QED
  BY <1>1, <1>5, <1>7, <1>8 DEF CInv, OpenInv, Opening

\* The steps that count nothing.
LEMMA CInvQuiet ==
  ASSUME CInv, DInv', GpsDate \/ Record \/ NoMessage \/ Shutdown
  PROVE  CInv'
<1>1. /\ Quiet /\ Quiet' /\ ~Opening' /\ ~Opening /\ Now' = Now
      /\ today' = today /\ MsgCount' = MsgCount
      /\ sent' = sent /\ lostDays' = lostDays
  BY DEF GpsDate, Record, NoMessage, Shutdown, Quiet, Opening, ram, world, Now
<1>2. cell'[0] = cell[0] /\ \A d \in Days : Count(d)' = Count(d)
  <2>1. CASE Shutdown
    <3>1. SaveEEprom /\ TypeOK
      BY <2>1 DEF Shutdown, CInv, DInv
    <3>2. \A d \in Days : cell'[d] = Count(d)
      BY <3>1, SaveCounts
    <3> QED
      BY <1>1, <3>1, <3>2, SaveEffect DEF Count
  <2>2. CASE ~Shutdown
    BY <1>1, <2>2 DEF GpsDate, Record, NoMessage, Count
  <2> QED
    BY <2>1, <2>2
<1>3. CellsInv'
  BY <1>1, <1>2 DEF CInv, CellsInv, Quiet, Opening
<1> QED
  BY <1>1, <1>2, <1>3 DEF CInv, OpenInv, NowInv, NamedInv

\* The power goes: what RAM alone knew is lost, and said to be.
LEMMA CInvPowerLoss ==
  ASSUME CInv, DInv', PowerLoss
  PROVE  CInv'
<1>1. /\ pc # "off" /\ pc' = "off" /\ Now' = Now /\ sent' = sent /\ cell' = cell
      /\ lostDays' = lostDays \cup Unsaved
  BY DEF PowerLoss, Now
<1>2. pc \in {"idle", "record", "save", "mark", "clear"}
  BY <1>1 DEF CInv, DInv, TypeOK
<1>3. CellsInv'
  <2> SUFFICES ASSUME NEW d \in Days \ lostDays', sent[d] > 0
               PROVE  cell[d] = sent[d]
    BY <1>1 DEF CellsInv, Quiet
  <2>1. /\ d \in Days \ lostDays
        /\ d = today => cell[d] = MsgCount
        /\ pc \in {"save", "mark", "clear"} => d # day
    BY <1>1 DEF Unsaved
  <2>2. Quiet \/ pc = "save" => Count(d) = sent[d]
    BY <2>1 DEF CInv, CellsInv, Quiet
  <2>3. pc \in {"mark", "clear"} => cell[d] = sent[d]
    BY <2>1 DEF CInv, CellsInv
  <2> QED
    BY <1>2, <2>1, <2>2, <2>3 DEF Count, Quiet
<1>4. NowInv'
  <2>1. Opening => day \in lostDays'
    BY <1>1 DEF Unsaved, Opening
  <2> QED
    BY <1>1, <2>1 DEF CInv, NowInv, Opening
<1>5. NamedInv'
  BY <1>1 DEF CInv, NamedInv
<1> QED
  BY <1>1, <1>3, <1>4, <1>5 DEF CInv, OpenInv, Opening

\* A new date takes last month's day out of the books.
LEMMA CInvMidnight ==
  ASSUME CInv, DInv', Midnight
  PROVE  CInv'
<1> DEFINE n == DayOf(date + 1)
<1>1. /\ pc \in {"off", "idle"} /\ pc' = pc /\ Now' = n
      /\ UNCHANGED <<cell, today, MsgCount>>
      /\ sent' = [sent EXCEPT ![n] = 0]
      /\ lostDays' = IF n = cell[0] THEN lostDays \cup {cell[0]} ELSE lostDays \ {n}
  BY DEF Midnight, ram, Now
<1>2. n \in Days
  BY DayOfType DEF CInv, DInv, TypeOK
<1> HIDE DEF n
<1>3. sent'[n] = 0 /\ \A d \in Days : d # n => sent'[d] = sent[d]
  BY <1>1, <1>2 DEF CInv, DInv, TypeOK
<1>4. \A d \in Days \ lostDays' : d # n => d \notin lostDays
  BY <1>1
<1>5. CellsInv'
  <2> SUFFICES ASSUME NEW d \in Days \ lostDays', sent'[d] > 0
               PROVE  /\ Quiet => Count(d) = sent'[d]
                      /\ pc = "off" => cell[d] = sent'[d]
    BY <1>1 DEF CellsInv, Quiet, Count
  <2>1. d # n /\ d \notin lostDays /\ sent'[d] = sent[d]
    BY <1>3, <1>4
  <2> QED
    BY <2>1 DEF CInv, CellsInv
<1>6. NowInv' /\ OpenInv'
  BY <1>1, <1>2, <1>3 DEF NowInv, OpenInv, Opening
<1>7. NamedInv'
  <2> SUFFICES ASSUME cell[0] \in Days \ lostDays'
               PROVE  sent'[cell[0]] > 0
    BY <1>1 DEF NamedInv
  <2>1. n # cell[0]
    BY <1>1
  <2>2. cell[0] \notin lostDays /\ sent'[cell[0]] = sent[cell[0]]
    BY <1>3, <1>4, <2>1
  <2> QED
    BY <2>2 DEF CInv, NamedInv
<1> QED
  BY <1>5, <1>6, <1>7 DEF CInv

\* A message that opens no day.
LEMMA CInvSameDay ==
  ASSUME MaxSent < 255, CInv, DInv', StepUndated \/ StepSameDay
  PROVE  CInv'
<1>1. /\ pc = "idle" /\ pc' = "record" /\ Note /\ TypeOK /\ cell' = cell
      /\ today = cell[0]
  BY DEF StepUndated, StepSameDay, CInv, DInv, StoreInv
<1>2. Now \in Days /\ Now' = Now
  BY <1>1, NowType, NoteAdds
<1>3. today' = today /\ (StepSameDay => day = today /\ day \in Days)
  BY <1>1, DayTypes DEF StepUndated, StepSameDay, TypeOK, Days
<1>4. ASSUME NEW d \in Days, d \notin lostDays', sent'[d] > 0
      PROVE  Count(d)' = sent'[d]
  <2>1. /\ d \notin lostDays
        /\ d # Now => sent'[d] = sent[d]
        /\ d = Now => day = Now /\ sent'[d] = sent[d] + 1
        /\ day = 0 => d # today
        /\ d = day => day = Now
    BY <1>1, <1>4, NoteSpares
  <2>2. sent[d] > 0 => Count(d) = sent[d]
    BY <1>1, <2>1 DEF CInv, CellsInv, Quiet
  <2>3. CASE d = today
    <3>1. StepSameDay /\ day = Now /\ d = Now
      BY <1>3, <2>1, <2>3 DEF StepUndated, StepSameDay
    <3>2. sent[d] > 0
      BY <1>1, <2>1, <2>3 DEF CInv, NamedInv
    <3>3. MsgCount = sent[d] /\ MsgCount' = (MsgCount + 1) % 256
      BY <2>2, <2>3, <3>1, <3>2 DEF Count, StepSameDay
    <3>4. sent[d] \in 0..MaxSent /\ MaxSent \in Nat
      BY <1>1, DayTypes DEF TypeOK
    <3>5. MsgCount' = sent[d] + 1
      BY <3>3, <3>4
    <3> QED
      BY <1>3, <2>1, <2>3, <3>1, <3>5 DEF Count
  <2>4. CASE d # today
    <3>1. d # Now
      BY <1>2, <1>3, <2>1, <2>4, DayTypes DEF StepUndated
    <3> QED
      BY <1>1, <1>3, <1>4, <2>1, <2>2, <2>4, <3>1 DEF Count
  <2> QED
    BY <2>3, <2>4
<1>5. CellsInv' /\ OpenInv'
  BY <1>1, <1>4 DEF CellsInv, OpenInv, Opening
<1>6. NowInv'
  <2> SUFFICES ASSUME Now \notin lostDays' PROVE Now = cell[0]
    BY <1>1, <1>2 DEF NowInv, Opening
  <2>1. day = Now
    BY <1>1, <1>2, NoteSpares
  <2> QED
    BY <1>1, <1>2, <1>3, <2>1, DayTypes DEF StepUndated
<1>7. NamedInv'
  <2> SUFFICES ASSUME cell[0] \in Days \ lostDays' PROVE sent'[cell[0]] > 0
    BY <1>1 DEF NamedInv
  <2>1. cell[0] \notin lostDays
    BY <1>1, NoteSpares
  <2>2. sent[cell[0]] > 0
    BY <2>1 DEF CInv, NamedInv
  <2> QED
    BY <1>1, <2>2, NoteAdds
<1> QED
  BY <1>5, <1>6, <1>7 DEF CInv

\* The message that opens a day.
LEMMA CInvNewDay ==
  ASSUME CInv, DInv', StepNewDay
  PROVE  CInv'
<1>1. /\ pc = "idle" /\ pc' = "save" /\ Note /\ TypeOK /\ cell' = cell
      /\ today = cell[0] /\ today' = today /\ MsgCount' = MsgCount /\ day' = day
      /\ day # cell[0] /\ day \in Days
  BY DayTypes DEF StepNewDay, CInv, DInv, StoreInv, TypeOK, Days
<1>2. Now \in Days /\ Now' = Now
  BY <1>1, NowType, NoteAdds
<1>3. CellsInv'
  <2> SUFFICES ASSUME NEW d \in Days \ lostDays', sent'[d] > 0, d # day
               PROVE  Count(d)' = sent'[d]
    BY <1>1 DEF CellsInv, Quiet
  <2>1. d \notin lostDays /\ sent'[d] = sent[d]
    BY <1>1, NoteSpares
  <2>2. Count(d) = sent[d]
    BY <1>1, <2>1 DEF CInv, CellsInv, Quiet
  <2> QED
    BY <1>1, <2>1, <2>2 DEF Count
<1>4. OpenInv'
  <2> SUFFICES ASSUME day \notin lostDays' PROVE day = Now /\ sent'[day] = 1
    BY <1>1, <1>2 DEF OpenInv
  <2>1. day \notin lostDays /\ day = Now /\ sent'[day] = sent[day] + 1
    BY <1>1, NoteSpares
  <2>2. ~(sent[day] > 0)
    BY <1>1, <2>1 DEF CInv, NowInv, Opening
  <2>3. sent[day] \in Nat
    BY <1>1, NoteAdds
  <2> QED
    BY <2>1, <2>2, <2>3
<1>5. NowInv'
  BY <1>1, <1>2, NoteSpares DEF NowInv, Opening
<1>6. NamedInv'
  <2> SUFFICES ASSUME cell[0] \in Days \ lostDays' PROVE sent'[cell[0]] > 0
    BY <1>1 DEF NamedInv
  <2>1. cell[0] \notin lostDays
    BY <1>1, NoteSpares
  <2>2. sent[cell[0]] > 0
    BY <2>1 DEF CInv, NamedInv
  <2> QED
    BY <1>1, <2>2, NoteAdds
<1> QED
  BY <1>3, <1>4, <1>5, <1>6 DEF CInv

\* The three writes that open it: each leaves every other count where a restart
\* looks for it.
LEMMA CInvWrites ==
  ASSUME CInv, DInv', StepSave \/ StepMark \/ StepClear
  PROVE  CInv'
<1>1. /\ day' = day /\ sent' = sent /\ lostDays' = lostDays /\ Now' = Now /\ TypeOK
      /\ Opening /\ day \in Days
  BY DEF StepSave, StepMark, StepClear, world, Now, CInv, DInv, StoreInv, Opening
<1>2. CASE StepSave
  <2>1. /\ pc = "save" /\ pc' = "mark" /\ cell'[0] = cell[0]
        /\ \A d \in Days : cell'[d] = Count(d)
    BY <1>1, <1>2, SaveEffect, SaveCounts DEF StepSave
  <2>2. CellsInv'
    BY <1>1, <2>1 DEF CInv, CellsInv, Quiet
  <2> QED
    BY <1>1, <2>1, <2>2 DEF CInv, OpenInv, NowInv, NamedInv, Opening
<1>3. CASE StepMark
  <2>1. pc = "mark" /\ pc' = "clear" /\ cell' = [cell EXCEPT ![0] = day]
    BY <1>3 DEF StepMark
  <2>2. cell'[0] = day /\ \A d \in Days : cell'[d] = cell[d]
    BY <1>1, <2>1, DayTypes DEF TypeOK
  <2>3. CellsInv'
    BY <1>1, <2>1, <2>2 DEF CInv, CellsInv, Quiet
  <2>4. OpenInv' /\ NowInv' /\ NamedInv'
    BY <1>1, <2>1, <2>2 DEF CInv, OpenInv, NowInv, NamedInv, Opening
  <2> QED
    BY <2>3, <2>4 DEF CInv
<1>4. CASE StepClear
  <2>1. /\ pc = "clear" /\ pc' = "record" /\ today' = day /\ MsgCount' = 1
        /\ cell' = [cell EXCEPT ![day] = 0] /\ cell[0] = day
    BY <1>4 DEF StepClear, CInv, DInv, StoreInv
  <2>2. cell'[0] = cell[0] /\ \A d \in Days : d # day => cell'[d] = cell[d]
    BY <1>1, <2>1, DayTypes DEF TypeOK
  <2>3. CellsInv'
    <3> SUFFICES ASSUME NEW d \in Days \ lostDays, sent[d] > 0
                 PROVE  Count(d)' = sent[d]
      BY <1>1, <2>1 DEF CellsInv, Quiet
    <3>1. CASE d = day
      BY <1>1, <2>1, <3>1 DEF CInv, OpenInv, Count
    <3>2. CASE d # day
      BY <2>1, <2>2, <3>2 DEF CInv, CellsInv, Count
    <3> QED
      BY <3>1, <3>2
  <2>4. OpenInv' /\ NowInv' /\ NamedInv'
    BY <1>1, <2>1, <2>2 DEF CInv, OpenInv, NowInv, NamedInv, Opening
  <2> QED
    BY <2>3, <2>4 DEF CInv
<1> QED
  BY <1>2, <1>3, <1>4

\* Every step keeps the counts.
LEMMA CInvNext ==
  ASSUME MaxSent < 255
  PROVE  CInv /\ [Next]_vars => CInv'
<1> SUFFICES ASSUME CInv, [Next]_vars PROVE CInv'
  OBVIOUS
<1>1. DInv'
  BY DInvNext DEF CInv
<1>2. CASE UNCHANGED vars
  BY <1>1, <1>2 DEF vars, ram, world, CInv, CellsInv, OpenInv, NowInv, NamedInv,
                    Opening, Quiet, Count, Now
<1>3. CASE Next
  BY <1>1, <1>3, CInvBoot, CInvQuiet, CInvPowerLoss, CInvMidnight, CInvSameDay,
     CInvNewDay, CInvWrites DEF Next
<1> QED
  BY <1>2, <1>3

\* As long as a day's messages are fewer than a byte can count, no crash, date or
\* midnight makes a count wrong that no accident has reached.
THEOREM CountsAreExact ==
  ASSUME MaxSent < 255
  PROVE  Spec => []CountExact
<1>1. CInv => CountExact
  BY DEF CInv, CellsInv, CountExact
<1> QED
  BY <1>1, CInvInit, CInvNext, PTL DEF Spec

=============================================================================
