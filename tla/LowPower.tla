----------------------------- MODULE LowPower -----------------------------
(* The sleep library: a program cuts the power of the modules it names, may *)
(* arm the watchdog, sleeps until some interrupt and gives the power back.  *)
(* Interrupts come at any moment; a watchdog armed by one call may still be *)
(* running in the next ones, because only its own interrupt disables it.    *)
(*                                                                          *)
(* Left out: the brown-out detector (switched by hardware for the time of   *)
(* one sleep) and which clocks each sleep mode stops.                       *)
EXTENDS Naturals, FiniteSets

CONSTANTS Boards,     \* processors of the run, each with its own idle()
          ClientOff,  \* modules the program itself switches off at most
          Clocks      \* prescalers (sets of CS bits) it gives timer 2

ASSUME ClientOffOK == ClientOff \in Nat
ASSUME BoardsOK == Boards \subseteq {"328P", "32U4", "2560", "256RFR2", "SAMD21"}
ASSUME ClocksOK == Clocks \subseteq SUBSET (0 .. 2)

VARIABLES
  board,
  powered,   \* modules whose power reduction bit is clear
  aden,      \* ADEN: the converter is enabled
  tccr2b,    \* CS bits of timer 2 that are set; {} stops it
  wdt,       \* "off" | "interrupt": WDE and WDIE set | "reset": WDE alone
  pc,        \* "running" | "prepared" | "masked" | "asleep" | "woken"
  call,      \* the call being served: function, modules, timed, clockSource
  pending,   \* interrupts flagged while they are masked
  early,     \* history: a timed sleep ended before its watchdog
  before     \* history: powered and aden when the call began

vars == <<board, powered, aden, tccr2b, wdt, pc, call, pending, early, before>>
registers == <<powered, aden, tccr2b>>
history == <<early, before>>

-----------------------------------------------------------------------------
(* What each function switches: `cut` loses its power before the sleep and  *)
(* `back` gets it again; `names` are the modules it takes an argument for,  *)
(* and `irq` says whether it masks interrupts while it falls asleep.        *)
Deep(names) == [names |-> names, cut |-> {}, back |-> {}, irq |-> "masked"]
Shallow(cut, back) == [names |-> cut, cut |-> cut, back |-> back, irq |-> "masked"]
Timer2On(b) == IF b = "32U4" THEN {} ELSE {"timer2"}

Idle328 ==
  Shallow({"timer2", "adc", "timer1", "timer0", "spi", "usart0", "twi"},
          {"adc", "timer2", "timer1", "timer0", "spi", "usart0", "twi"})

Idle32U4 ==
  Shallow({"adc", "timer4", "timer3", "timer1", "timer0", "spi", "usart1", "twi", "usb"},
          {"adc", "timer4", "timer3", "timer1", "timer0", "spi", "usart1", "twi", "usb"})

(* *Mutant*: the fourth USART is not switched on again.                     *)
Idle2560Forgets ==
  Shallow({"timer2", "adc", "timer5", "timer4", "timer3", "timer1", "timer0", "spi",
           "usart3", "usart2", "usart1", "usart0", "twi"},
          {"adc", "timer2", "timer5", "timer4", "timer3", "timer1", "timer0", "spi",
           "usart2", "usart1", "usart0", "twi"})

Idle2560 ==
  Shallow({"timer2", "adc", "timer5", "timer4", "timer3", "timer1", "timer0", "spi",
           "usart3", "usart2", "usart1", "usart0", "twi"},
          {"adc", "timer2", "timer5", "timer4", "timer3", "timer1", "timer0", "spi",
           "usart3", "usart2", "usart1", "usart0", "twi"})

Idle256RFR2 ==
  Shallow({"timer2", "adc", "timer5", "timer4", "timer3", "timer1", "timer0", "spi",
           "usart1", "usart0", "twi"},
          {"adc", "timer2", "timer5", "timer4", "timer3", "timer1", "timer0", "spi",
           "usart1", "usart0", "twi"})

AdcNoiseReduction(b) == Deep({"adc"} \union Timer2On(b))
PowerDown == Deep({"adc"})
PowerSave(b) == Deep({"adc"} \union Timer2On(b))
PowerStandby == Deep({"adc"})
PowerExtStandby(b) == Deep({"adc"} \union Timer2On(b))

(* The SAMD21 functions only wait for an interrupt: no module is named, no  *)
(* watchdog is armed, and interrupts stay enabled.                          *)
SamdSleep == [names |-> {}, cut |-> {}, back |-> {}, irq |-> "open"]

Idle(b) == CASE b = "328P"    -> Idle328
             [] b = "32U4"    -> Idle32U4
             [] b = "2560"    -> Idle2560
             [] b = "256RFR2" -> Idle256RFR2

Functions(b) ==
  IF b = "SAMD21" THEN {SamdSleep}
  ELSE {Idle(b), AdcNoiseReduction(b), PowerDown, PowerSave(b), PowerStandby,
        PowerExtStandby(b)}

AllModules(b) == IF b = "SAMD21" THEN {} ELSE Idle(b).names

-----------------------------------------------------------------------------
(* clockSource as the code computes it: `TCCR2B & CS22` masks with the bit  *)
(* number 2, which is bit 1, `& CS21` is bit 0 and `& CS20` is nothing.  The *)
(* same masks read it back, so bit 0 returns as bit 2 and the rest is gone. *)
Saved(cs) == {b \in {1, 2} : b - 1 \in cs}
GivenBack(src) == IF 1 \in src THEN {2} ELSE {}

(* *Mutant*: every call arms the watchdog.                                  *)
ArmAlways(timed) == "interrupt"

(* wdt_enable(period) and WDIE, unless the sleep is for ever.               *)
Arm(timed) == IF timed THEN "interrupt" ELSE wdt

(* The program calls a function with the modules it wants off.              *)
Call(fn, off, timed) ==
  /\ pc = "running"
  /\ fn.irq = "open" => ~timed
  /\ call' = [fn |-> fn, off |-> off, timed |-> timed,
              clockSource |-> IF "timer2" \in off THEN Saved(tccr2b) ELSE {}]
  /\ tccr2b' = IF "timer2" \in off THEN {} ELSE tccr2b
  /\ aden' = (aden /\ "adc" \notin off)
  /\ powered' = powered \ (off \intersect fn.cut)
  /\ wdt' = Arm(timed)
  /\ early' = (early /\ ~timed)
  /\ before' = [powered |-> powered, aden |-> aden]
  /\ pc' = "prepared"
  /\ UNCHANGED <<board, pending>>

(* cli() and sleep_enable(); interrupts before it are served and forgotten. *)
Mask ==
  /\ pc = "prepared"
  /\ call.fn.irq = "masked"
  /\ pc' = "masked"
  /\ UNCHANGED <<board, registers, wdt, call, pending, history>>

(* *Mutant*: the watchdog's handler leaves WDE set.                         *)
HandlerLeavesWde(irqs) == IF "watchdog" \in irqs THEN "reset" ELSE wdt

(* ISR(WDT_vect): wdt_disable().                                            *)
Handler(irqs) == IF "watchdog" \in irqs THEN "off" ELSE wdt

(* What is served ends the sleep; served early, a watchdog keeps running.   *)
Wake(irqs) ==
  /\ pc' = "woken"
  /\ wdt' = Handler(irqs)
  /\ early' = (wdt' # "off" /\ (early \/ call.timed))

(* *Mutant*: interrupts enabled one instruction too soon, so that the flags *)
(* are served before sleep_cpu().                                           *)
SleepCpuTooLate ==
  /\ \/ pc = "masked"
     \/ pc = "prepared" /\ call.fn.irq = "open"
  /\ pc' = "asleep"
  /\ pending' = {}
  /\ UNCHANGED <<board, registers, call, wdt, history>>

(* sei(); sleep_cpu(): the instruction after sei() still runs before any    *)
(* flagged interrupt, which then ends the sleep at once.                    *)
SleepCpu ==
  /\ \/ pc = "masked"
     \/ pc = "prepared" /\ call.fn.irq = "open"
  /\ IF pending = {} THEN pc' = "asleep" /\ UNCHANGED <<wdt, early>>
                     ELSE Wake(pending)
  /\ pending' = {}
  /\ UNCHANGED <<board, registers, call, before>>

(* An interrupt other than the watchdog's, a press of the button for one.   *)
Interrupt ==
  \/ /\ pc = "masked"
     /\ pending' = pending \union {"other"}
     /\ UNCHANGED <<board, registers, wdt, pc, call, history>>
  \/ /\ pc = "asleep"
     /\ Wake({"other"})
     /\ UNCHANGED <<board, registers, call, pending, before>>

(* The watchdog's time is over.  One armed by this very call cannot be over *)
(* before the sleep: the shortest period is 15 ms.                          *)
Timeout ==
  /\ wdt = "interrupt"
  /\ pc \in {"prepared", "masked"} => ~call.timed
  /\ \/ /\ pc = "masked"
        /\ pending' = pending \union {"watchdog"}
        /\ UNCHANGED <<wdt, pc, early>>
     \/ pc = "asleep" /\ Wake({"watchdog"}) /\ UNCHANGED pending
     \/ /\ pc \notin {"masked", "asleep"}
        /\ wdt' = Handler({"watchdog"})
        /\ early' = FALSE
        /\ UNCHANGED <<pc, pending>>
  /\ UNCHANGED <<board, registers, call, before>>

(* sleep_disable() and the second half of the function.                     *)
Restore ==
  /\ pc = "woken"
  /\ powered' = powered \union (call.off \intersect call.fn.back)
  /\ aden' = (aden \/ "adc" \in call.off)
  /\ tccr2b' = IF "timer2" \in call.off THEN tccr2b \union GivenBack(call.clockSource) ELSE tccr2b
  /\ pc' = "running"
  /\ UNCHANGED <<board, wdt, call, pending, history>>

(* Between its calls the program uses the same registers.                   *)
Client ==
  /\ pc = "running"
  /\ \/ \E m \in powered :
          /\ Cardinality(AllModules(board) \ powered) < ClientOff
          /\ powered' = powered \ {m}
          /\ UNCHANGED <<aden, tccr2b>>
     \/ aden' = ~aden /\ UNCHANGED <<powered, tccr2b>>
     \/ /\ "timer2" \in powered
        /\ tccr2b' \in Clocks
        /\ UNCHANGED <<powered, aden>>
  /\ UNCHANGED <<board, wdt, pc, call, pending, history>>

-----------------------------------------------------------------------------
NoCall == [fn |-> PowerDown, off |-> {}, timed |-> FALSE, clockSource |-> {}]

Init ==
  /\ board \in Boards
  /\ powered = AllModules(board)
  /\ aden = TRUE
  /\ tccr2b = {2}                \* the Arduino core's prescaler of 64
  /\ wdt = "off"
  /\ pc = "running"
  /\ call = NoCall
  /\ pending = {}
  /\ early = FALSE
  /\ before = [powered |-> powered, aden |-> aden]

(* Arguments: none of the modules off, one of them, or all of them.         *)
Offs(fn) == {{}, fn.names} \union {{m} : m \in fn.names}

Sleeping == Mask \/ SleepCpu \/ Restore

Next ==
  \/ \E fn \in Functions(board) : \E off \in Offs(fn), timed \in BOOLEAN :
       Call(fn, off, timed)
  \/ Sleeping
  \/ Interrupt
  \/ Timeout
  \/ Client

(* The processor executes its program and the watchdog's oscillator never   *)
(* stops; nothing obliges another interrupt to come.                        *)
Spec == Init /\ [][Next]_vars /\ WF_vars(Sleeping) /\ WF_vars(Timeout)

-----------------------------------------------------------------------------
(* Types; and no handler leaves the watchdog in the mode in which its next  *)
(* time-out would reset the processor.                                      *)
TypeOK ==
  /\ board \in Boards
  /\ powered \subseteq AllModules(board)
  /\ aden \in BOOLEAN
  /\ tccr2b \subseteq 0 .. 2
  /\ wdt \in {"off", "interrupt"}
  /\ pc \in {"running", "prepared", "masked", "asleep", "woken"}
  /\ call.off \subseteq AllModules(board)
  /\ call.timed \in BOOLEAN
  /\ pending \subseteq {"other", "watchdog"}
  /\ early \in BOOLEAN

(* Whatever a call switched off it switches on again, whoever ended the     *)
(* sleep: what worked before the call works after it.  The two halves of    *)
(* every function are separate lists of modules.  The prescaler of timer 2  *)
(* is not part of it: see Saved.                                            *)
NothingLost ==
  [][pc = "woken" /\ pc' = "running" =>
       /\ before.powered \subseteq powered'
       /\ before.aden => aden']_vars

(* "SLEEP_FOREVER - Sleep without waking up through WDT" holds except after *)
(* a timed sleep that another interrupt cut short, whose watchdog runs on.  *)
ForeverUnlessLeftover ==
  [][(pc' = "woken" /\ pc # "woken" /\ ~call.timed /\ wdt' # wdt) => early]_vars

(* A timed sleep ends without anybody's help; and an interrupt that comes   *)
(* once they are masked ends even a sleep without a time-out.               *)
SleepEnds ==
  /\ (pc = "asleep" /\ call.timed) ~> (pc = "running")
  /\ (pc = "masked" /\ pending # {}) ~> (pc \in {"woken", "running"})
=============================================================================
