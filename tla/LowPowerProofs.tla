--------------------------- MODULE LowPowerProofs ---------------------------
(***************************************************************************)
(* Proofs about LowPower for any of its processors, any number of modules  *)
(* the program itself switches off and any prescalers of timer 2: what a   *)
(* call cuts it gives back, and a sleep for ever is only ended by the      *)
(* watchdog of an earlier call.                                            *)
(***************************************************************************)
EXTENDS LowPower, TLAPS

\* The function being served gives back whatever it cuts.
FnInv ==
  /\ call.fn.cut \subseteq call.fn.back
  /\ call.fn.irq \in {"masked", "open"}

\* While a call is served, what worked before it works still or is among the
\* modules the call gives back.
PowerInv ==
  pc # "running" =>
    /\ before.powered \subseteq powered \union (call.off \intersect call.fn.cut)
    /\ before.aden => aden \/ "adc" \in call.off

\* A running watchdog belongs to the timed call being served, until its sleep
\* is over, or to one that was cut short.
WdtInv ==
  wdt # "off" => early \/ (pc \in {"prepared", "masked", "asleep"} /\ call.timed)

SInv == TypeOK /\ FnInv /\ PowerInv /\ WdtInv

-----------------------------------------------------------------------------
\* Each processor's own idle().
LEMMA IdleOf ==
  /\ Idle("328P") = Idle328 /\ Idle("32U4") = Idle32U4
  /\ Idle("2560") = Idle2560 /\ Idle("256RFR2") = Idle256RFR2
  BY Zenon DEF Idle

\* Every function gives back what it cuts, and names modules of its board.
LEMMA FunctionsGiveBack ==
  ASSUME NEW b \in Boards, NEW fn \in Functions(b)
  PROVE  /\ fn.cut \subseteq fn.back
         /\ fn.names \subseteq AllModules(b)
         /\ fn.irq \in {"masked", "open"}
<1>1. b \in {"328P", "32U4", "2560", "256RFR2", "SAMD21"}
  BY BoardsOK
<1>2. CASE b = "SAMD21"
  BY <1>2 DEF Functions, SamdSleep, AllModules
<1>3. CASE b # "SAMD21"
  <2>1. Idle(b) \in {Idle328, Idle32U4, Idle2560, Idle256RFR2}
    BY <1>1, <1>3, IdleOf
  <2>2. /\ Idle(b).cut \subseteq Idle(b).back
        /\ "adc" \in Idle(b).names
        /\ Idle(b).irq = "masked"
    BY <2>1 DEF Idle328, Idle32U4, Idle2560, Idle256RFR2, Shallow
  <2>3. Timer2On(b) \subseteq Idle(b).names
    BY <1>1, <1>3, IdleOf DEF Timer2On, Idle328, Idle2560, Idle256RFR2, Shallow
  <2>4. AllModules(b) = Idle(b).names
    BY <1>3 DEF AllModules
  <2>5. fn = Idle(b) \/ fn = Deep({"adc"} \union Timer2On(b)) \/ fn = Deep({"adc"})
    BY <1>3 DEF Functions, AdcNoiseReduction, PowerDown, PowerSave, PowerStandby,
                PowerExtStandby
  <2> QED
    BY <2>2, <2>3, <2>4, <2>5 DEF Deep
<1> QED
  BY <1>2, <1>3

\* What is switched off is a set of the modules the function names.
LEMMA OffsNamed ==
  ASSUME NEW fn, NEW off \in Offs(fn)
  PROVE  off \subseteq fn.names
  BY DEF Offs

\* The prescaler timer 2 gets back is one of its bits.
LEMMA ClockTypes ==
  ASSUME NEW src
  PROVE  GivenBack(src) \subseteq 0 .. 2
  BY DEF GivenBack

\* A sleep that is over leaves a watchdog running only when it was cut short.
LEMMA WakeEffect ==
  ASSUME SInv, pc \in {"prepared", "masked", "asleep"}, NEW irqs, Wake(irqs)
  PROVE  /\ pc' = "woken"
         /\ wdt' \in {"off", "interrupt"} /\ early' \in BOOLEAN
         /\ wdt' # "off" => early'
         /\ wdt' # wdt => wdt # "off"
<1> USE DEF SInv, TypeOK
<1>1. pc' = "woken" /\ wdt' \in {"off", wdt} /\ early' \in BOOLEAN
  BY DEF Wake, Handler
<1>2. wdt' # "off" => wdt' = wdt
  BY <1>1
<1>3. wdt' # "off" => early'
  BY <1>2 DEF Wake, WdtInv
<1> QED
  BY <1>1, <1>2, <1>3

-----------------------------------------------------------------------------
\* The invariant holds at first.
LEMMA SInvInit == Init => SInv
<1> SUFFICES ASSUME Init PROVE SInv
  OBVIOUS
<1>1. FnInv /\ call.off = {} /\ call.timed = FALSE
  BY DEF Init, FnInv, NoCall, PowerDown, Deep
<1>2. tccr2b \subseteq 0 .. 2
  BY DEF Init
<1> QED
  BY <1>1, <1>2 DEF Init, SInv, TypeOK, PowerInv, WdtInv

\* A call: it switches off modules the board has.
LEMMA SInvCall ==
  ASSUME SInv, NEW fn \in Functions(board), NEW off \in Offs(fn),
         NEW timed \in BOOLEAN, Call(fn, off, timed)
  PROVE  SInv'
<1> USE DEF SInv, TypeOK
<1>1. /\ fn.cut \subseteq fn.back /\ fn.names \subseteq AllModules(board)
      /\ fn.irq \in {"masked", "open"}
  BY FunctionsGiveBack
<1>2. off \subseteq AllModules(board)
  BY <1>1, OffsNamed
<1>3. /\ call'.fn = fn /\ call'.off = off /\ call'.timed = timed
      /\ pc' = "prepared" /\ board' = board /\ pending' = pending
  BY DEF Call
<1>4. FnInv'
  BY <1>1, <1>3 DEF FnInv
<1>5. PowerInv'
  <2>1. before'.powered = powered /\ before'.aden = aden
    BY DEF Call
  <2>2. powered' = powered \ (off \intersect fn.cut)
        /\ aden' = (aden /\ "adc" \notin off)
    BY DEF Call
  <2> QED
    BY <1>3, <2>1, <2>2 DEF PowerInv
<1>6. wdt' = (IF timed THEN "interrupt" ELSE wdt) /\ early' = (early /\ ~timed)
  BY DEF Call, Arm
<1>7. WdtInv'
  BY <1>3, <1>6 DEF WdtInv, Call
<1>8. TypeOK'
  <2>1. powered' \subseteq AllModules(board) /\ aden' \in BOOLEAN
    BY DEF Call
  <2>2. tccr2b' \subseteq 0 .. 2
    BY DEF Call
  <2>3. AllModules(board)' = AllModules(board)
    BY <1>3
  <2> QED
    BY <1>2, <1>3, <1>6, <2>1, <2>2, <2>3
<1> QED
  BY <1>4, <1>5, <1>7, <1>8

\* The steps towards the sleep and the interrupts, which switch no module.
LEMMA SInvSleep ==
  ASSUME SInv, Mask \/ SleepCpu \/ Interrupt \/ Timeout
  PROVE  SInv'
<1> USE DEF SInv, TypeOK
<1>1. /\ board' = board /\ powered' = powered /\ aden' = aden /\ tccr2b' = tccr2b
      /\ call' = call /\ before' = before
  BY DEF Mask, SleepCpu, Interrupt, Timeout, registers, history
<1>2. FnInv' /\ AllModules(board)' = AllModules(board)
  BY <1>1 DEF FnInv
<1>3. /\ pc' \in {"running", "prepared", "masked", "asleep", "woken"}
      /\ wdt' \in {"off", "interrupt"} /\ early' \in BOOLEAN
      /\ pending' \subseteq {"other", "watchdog"}
      /\ pc' # "running" => pc # "running"
      /\ WdtInv'
  <2>1. CASE Mask
    BY <2>1 DEF Mask, WdtInv, history
  <2>2. CASE SleepCpu
    <3>1. CASE pending = {}
      BY <2>2, <3>1 DEF SleepCpu, WdtInv
    <3>2. CASE pending # {}
      <4>1. Wake(pending) /\ pc \in {"prepared", "masked", "asleep"} /\ pending' = {}
        BY <2>2, <3>2 DEF SleepCpu
      <4> QED
        BY <4>1, WakeEffect DEF WdtInv
    <3> QED
      BY <3>1, <3>2
  <2>3. CASE Interrupt
    <3>1. CASE pc = "masked"
      BY <2>3, <3>1 DEF Interrupt, WdtInv, history
    <3>2. CASE pc = "asleep"
      <4>1. Wake({"other"}) /\ pending' = pending
        BY <2>3, <3>2 DEF Interrupt
      <4> QED
        BY <3>2, <4>1, WakeEffect DEF WdtInv
    <3> QED
      BY <2>3, <3>1, <3>2 DEF Interrupt
  <2>4. CASE Timeout
    <3>1. CASE pc = "masked"
      <4>1. /\ pending' = pending \union {"watchdog"}
            /\ wdt' = wdt /\ pc' = pc /\ early' = early
        BY <2>4, <3>1 DEF Timeout
      <4>2. WdtInv'
        BY <1>1, <4>1 DEF WdtInv
      <4> QED
        BY <4>1, <4>2
    <3>2. CASE pc = "asleep"
      <4>1. Wake({"watchdog"}) /\ pending' = pending
        BY <2>4, <3>2 DEF Timeout
      <4> QED
        BY <3>2, <4>1, WakeEffect DEF WdtInv
    <3>3. CASE pc \notin {"masked", "asleep"}
      BY <2>4, <3>3 DEF Timeout, WdtInv, Handler
    <3> QED
      BY <3>1, <3>2, <3>3
  <2> QED
    BY <2>1, <2>2, <2>3, <2>4
<1>4. PowerInv'
  BY <1>1, <1>3 DEF PowerInv
<1> QED
  BY <1>1, <1>2, <1>3, <1>4

\* The program's own use of the registers, and the second half of a call.
LEMMA SInvRun ==
  ASSUME SInv, Client \/ Restore
  PROVE  SInv'
<1> USE DEF SInv, TypeOK
<1>1. /\ board' = board /\ call' = call /\ wdt' = wdt /\ early' = early
      /\ before' = before /\ pending' = pending /\ pc' = "running"
      /\ pc \in {"running", "woken"}
  BY DEF Client, Restore, history
<1>2. FnInv' /\ PowerInv' /\ WdtInv' /\ AllModules(board)' = AllModules(board)
  BY <1>1 DEF FnInv, PowerInv, WdtInv
<1>3. powered' \subseteq AllModules(board)
  BY DEF Client, Restore
<1>4. aden' \in BOOLEAN
  BY DEF Client, Restore
<1>5. tccr2b' \subseteq 0 .. 2
  <2>1. CASE Client
    BY <2>1, ClocksOK DEF Client
  <2>2. CASE Restore
    <3>1. tccr2b' = tccr2b \/ tccr2b' = tccr2b \union GivenBack(call.clockSource)
      BY <2>2 DEF Restore
    <3> QED
      BY <3>1, ClockTypes
  <2> QED
    BY <2>1, <2>2
<1> QED
  BY <1>1, <1>2, <1>3, <1>4, <1>5

\* Every step keeps the invariant.
LEMMA SInvNext == SInv /\ [Next]_vars => SInv'
<1> SUFFICES ASSUME SInv, [Next]_vars PROVE SInv'
  OBVIOUS
<1>1. CASE UNCHANGED vars
  BY <1>1 DEF vars, SInv, TypeOK, FnInv, PowerInv, WdtInv
<1>2. ASSUME NEW fn \in Functions(board), NEW off \in Offs(fn),
             NEW timed \in BOOLEAN, Call(fn, off, timed)
      PROVE  SInv'
  BY <1>2, SInvCall
<1> QED
  BY <1>1, <1>2, SInvSleep, SInvRun DEF Next, Sleeping

-----------------------------------------------------------------------------
\* The inductive invariant.
THEOREM SleepInvariant == Spec => []SInv
<1> QED
  BY SInvInit, SInvNext, PTL DEF Spec

\* Types; no handler leaves the watchdog in the mode in which its next time-out
\* would reset the processor.
THEOREM SleepTypeCorrect == Spec => []TypeOK
<1>1. SInv => TypeOK
  BY DEF SInv
<1> QED
  BY <1>1, SleepInvariant, PTL

\* What a call of the library switched off it switches on again.
THEOREM PowerComesBack == Spec => NothingLost
<1>1. SInv /\ [Next]_vars =>
        [pc = "woken" /\ pc' = "running" =>
           before.powered \subseteq powered' /\ (before.aden => aden')]_vars
  <2> SUFFICES ASSUME SInv, Next, pc = "woken", pc' = "running"
               PROVE  before.powered \subseteq powered' /\ (before.aden => aden')
    BY DEF vars
  <2>1. Restore
    <3>1. \A fn, off, timed : ~Call(fn, off, timed)
      BY DEF Call
    <3>2. ~Mask /\ ~SleepCpu /\ ~Interrupt /\ ~Client
      BY DEF Mask, SleepCpu, Interrupt, Client
    <3>3. ~Timeout
      BY DEF Timeout
    <3> QED
      BY <3>1, <3>2, <3>3 DEF Next, Sleeping
  <2>2. /\ powered' = powered \union (call.off \intersect call.fn.back)
        /\ aden' = (aden \/ "adc" \in call.off)
    BY <2>1 DEF Restore
  <2> QED
    BY <2>2 DEF SInv, FnInv, PowerInv
<1> QED
  BY <1>1, SleepInvariant, PTL DEF Spec, NothingLost

\* A sleep for ever is ended by a watchdog only after a timed sleep that some
\* other interrupt cut short.
THEOREM ForeverIsForever == Spec => ForeverUnlessLeftover
<1>1. SInv /\ [Next]_vars =>
        [(pc' = "woken" /\ pc # "woken" /\ ~call.timed /\ wdt' # wdt) => early]_vars
  <2> SUFFICES ASSUME SInv, Next, pc' = "woken", pc # "woken", ~call.timed, wdt' # wdt
               PROVE  early
    BY DEF vars
  <2>1. SleepCpu \/ Interrupt \/ Timeout
    <3>1. \A fn, off, timed : ~Call(fn, off, timed)
      BY DEF Call
    <3>2. ~Mask /\ ~Restore /\ ~Client
      BY DEF Mask, Restore, Client
    <3> QED
      BY <3>1, <3>2 DEF Next, Sleeping
  <2>2. \E irqs : Wake(irqs) /\ pc \in {"prepared", "masked", "asleep"}
    BY <2>1 DEF SleepCpu, Interrupt, Timeout
  <2>3. wdt # "off"
    BY <2>2, WakeEffect
  <2> QED
    BY <2>3 DEF SInv, WdtInv
<1> QED
  BY <1>1, SleepInvariant, PTL DEF Spec, ForeverUnlessLeftover
=============================================================================
