----------------------------- MODULE BootHost -----------------------------
(* The programmer (avrdude over a USB host controller) at work on the boot  *)
(* loader: control transfers in their stages, handshakes lost on the wire,  *)
(* transfers given up, bus resets.  None of the programmer is code of the   *)
(* repository; what it may do is what the boot loader's requests allow.     *)
EXTENDS BootLoader

CONSTANTS Sessions,      \* sets of transfers; a run draws on one of them
          MaxTransfers,  \* how many of them in one run
          MaxFaults      \* lost handshakes, transfers given up, resets

(* What the programmer wants in the cell at address a, and how it may be    *)
(* brought there.                                                           *)
Image(a) == <<"image", a>>
Writes(t) == t.req \in {"WRITEFLASH", "WRITEEPROM"}
WritesByte(t) == t.req = "TRANSMIT" /\ t.sub = "writeByte"

(* A transfer has its direction in its request and, in a request of the     *)
(* standard, no direction without data; a write has data of the image,      *)
(* within the memory, in flash from the first byte of a word on.            *)
ASSUME HostConstants ==
  /\ MaxTransfers \in Nat /\ MaxFaults \in Nat
  /\ \A t \in UNION Sessions :
       /\ t.len \in 0 .. 254 /\ t.addr \in Nat
       /\ t.std \in BOOLEAN /\ t.in \in BOOLEAN /\ t.last \in BOOLEAN
       /\ t.std => /\ t.req \notin Paged \cup {"TRANSMIT"}
                   /\ t.in <=> t.len > 0
                   /\ t.req = "GET_DESCRIPTOR" => t.value \in DOMAIN Descriptor
       /\ ~t.std => (t.in <=> t.req \notin {"WRITEFLASH", "WRITEEPROM"})
       /\ t.req \in {"WRITEFLASH", "WRITEEPROM"} => t.len > 0
       /\ t.req = "WRITEFLASH" => t.addr % 2 = 0 /\ t.addr + t.len <= FlashSize
       /\ t.req = "WRITEEPROM" => t.addr + t.len <= EepromSize
       /\ WritesByte(t) => t.addr < EepromSize /\ t.val = Image(t.addr)

VARIABLES
  session,     \* the transfers the programmer makes in this run
  stage,       \* where the host is in its transfer
  xfer,        \* the transfer
  sent, got,   \* bytes acknowledged by the device; bytes received from it
  toggle,      \* data toggle expected next from the device
  hostAddr,    \* the address the host uses
  se0,         \* the host holds the bus in reset
  transfers, faults,
  span,        \* flash addresses loaded by an unbroken run of clean writes
  clean,       \* no data packet of this transfer was sent twice
  stale,       \* a broken write may have left words in the page buffer
  confirmed    \* cells the host may trust to hold the image

hostVars == <<session, stage, xfer, sent, got, toggle, hostAddr, se0, transfers, faults,
              span, clean, stale, confirmed>>
vars == <<usbVars, bootVars, hostVars>>

(* What was in the cell at address a.                                       *)
Old(a) == <<"old", a>>

Init ==
  /\ BootInit
  /\ flash  = [a \in 0 .. FlashSize - 1 |-> Old(a)]
  /\ eeprom = [a \in 0 .. EepromSize - 1 |-> Old(a)]
  /\ stage = "idle" /\ sent = 0 /\ got = <<>> /\ toggle = 1
  /\ session \in Sessions
  /\ xfer \in {t \in session : t.req = "CONNECT"}
  /\ hostAddr = 0 /\ se0 = FALSE /\ transfers = 0 /\ faults = 0
  /\ span = {} /\ clean = TRUE /\ stale = FALSE /\ confirmed = {}

-----------------------------------------------------------------------------
RangeOf(t)   == t.addr .. t.addr + t.len - 1
Cells(m, S)  == {<<m, a>> : a \in S}
PagesOf(S)   == {a \in 0 .. FlashSize - 1 : PageOf(a) \in {PageOf(b) : b \in S}}

(* A write in progress takes its cells, for flash the whole of its pages,   *)
(* out of what the host trusts.                                             *)
Endangered(t) ==
  CASE t.req = "WRITEFLASH" -> Cells("flash", PagesOf(RangeOf(t)))
    [] t.req = "WRITEEPROM" -> Cells("eeprom", RangeOf(t))
    [] WritesByte(t)        -> {<<"eeprom", t.addr>>}
    [] OTHER                -> {}

(* A flash write that goes on where the last one ended.                     *)
Continues(t) == t.addr - 1 \in span /\ t.addr \notin span

Heard == pc # "app" /\ ~se0 /\ hostAddr = usbDeviceAddr
Quiet == UNCHANGED <<bootVars, session>>

Start(t) ==
  /\ stage = "idle" /\ transfers < MaxTransfers /\ ~se0
  /\ stage' = "setup" /\ xfer' = t /\ transfers' = transfers + 1
  /\ sent' = 0 /\ got' = <<>> /\ toggle' = 1 /\ clean' = TRUE
  /\ confirmed' = confirmed \ Endangered(t)
  /\ stale' = (stale \/ (t.req = "WRITEFLASH" /\ span # {} /\ ~Continues(t)))
  /\ UNCHANGED <<usbVars, hostAddr, se0, faults, span>> /\ Quiet

(* "lost" is the device's handshake: the device has the packet, the host    *)
(* does not know it and sends it again.                                     *)
Fault(lost) == /\ lost => faults < MaxFaults
               /\ faults' = IF lost THEN faults + 1 ELSE faults

SetupStage(lost) ==
  /\ stage = "setup" /\ Heard /\ Fault(lost)
  /\ HandleData("SETUP", xfer)
  /\ stage' = IF lost THEN stage
              ELSE IF Writes(xfer) THEN "dataOut"
              ELSE IF xfer.std /\ ~xfer.in THEN "statusIn" ELSE "dataIn"
  /\ UNCHANGED <<xfer, sent, got, toggle, hostAddr, se0, transfers, span, clean,
                 stale, confirmed>> /\ Quiet

NextData == [k \in 1 .. Min({PacketSize, xfer.len - sent}) |->
               Image(xfer.addr + sent + k - 1)]

OutStage(lost) ==
  /\ stage = "dataOut" /\ Heard /\ Fault(lost)
  /\ HandleData("OUT", NextData)
  /\ sent' = IF lost THEN sent ELSE sent + Len(NextData)
  /\ stage' = IF sent' = xfer.len THEN "statusIn" ELSE stage
  /\ clean' = (clean /\ ~lost)
  /\ UNCHANGED <<xfer, got, toggle, hostAddr, se0, transfers, span, stale,
                 confirmed>> /\ Quiet

(* A packet from the device.  Garbled on the way, it is gone; with the      *)
(* wrong toggle it is taken for a repetition and dropped.                   *)
InStage(lost) ==
  /\ stage = "dataIn" /\ Heard /\ Fault(lost)
  /\ HandleIn
  /\ IF lost \/ usbTxBuf.toggle # toggle
     THEN UNCHANGED <<stage, got, toggle>>
     ELSE /\ got' = got \o usbTxBuf.data
          /\ toggle' = 1 - toggle
          /\ stage' = IF Len(usbTxBuf.data) < PacketSize \/ Len(got') >= xfer.len
                      THEN "statusOut" ELSE stage
  /\ UNCHANGED <<xfer, sent, hostAddr, se0, transfers, span, clean, stale,
                 confirmed>> /\ Quiet

StatusOut ==
  /\ stage = "statusOut" /\ Heard
  /\ HandleData("OUT", <<>>)
  /\ stage' = "idle"
  /\ confirmed' = IF WritesByte(xfer) /\ Len(got) = 1
                  THEN confirmed \cup {<<"eeprom", xfer.addr>>} ELSE confirmed
  /\ span' = IF WritesByte(xfer) THEN {} ELSE span
  /\ UNCHANGED <<xfer, sent, got, toggle, hostAddr, se0, transfers, faults,
                 clean, stale>> /\ Quiet

-----------------------------------------------------------------------------
(* What a completed flash write lets the host trust: pages loaded from      *)
(* their first word on without a gap, up to a page end or up to the last    *)
(* byte of a transfer marked as the last; not the page that a broken write  *)
(* may have left words for.                                                 *)
Loaded ==
  IF ~clean THEN {}
  ELSE IF xfer.addr % PageSize = 0 THEN RangeOf(xfer)
  ELSE IF Continues(xfer) THEN span \cup RangeOf(xfer) ELSE {}

Complete(S) ==
  {a \in S : \/ PagesOf({a}) \subseteq S
             \/ xfer.last /\ \A b \in PagesOf({a}) : b \in S \/ b >= xfer.addr + xfer.len}

FirstPage(S) == IF S = {} THEN {} ELSE PagesOf({Min(S)})
Trusted == Complete(Loaded) \ (IF stale THEN FirstPage(Loaded) ELSE {})

StatusIn(lost) ==
  /\ stage = "statusIn" /\ Heard /\ Fault(lost)
  /\ HandleIn
  /\ IF lost \/ usbTxBuf.toggle # toggle \/ usbTxBuf.data # <<>>
     THEN UNCHANGED <<stage, hostAddr, span, stale, confirmed>>
     ELSE /\ stage' = "idle"
          /\ hostAddr' = IF xfer.req = "SET_ADDRESS" THEN xfer.value ELSE hostAddr
          /\ IF xfer.req = "WRITEFLASH"
             THEN /\ confirmed' = confirmed \cup Cells("flash", Trusted)
                  /\ span' = Loaded \ Complete(Loaded)
                  /\ stale' = (Loaded = {} \/ (stale /\ Complete(Loaded) = {}))
             ELSE IF xfer.req = "WRITEEPROM"
             THEN /\ confirmed' = IF clean THEN confirmed \cup Cells("eeprom", RangeOf(xfer))
                                  ELSE confirmed
                  /\ span' = {} /\ UNCHANGED stale
             ELSE UNCHANGED <<confirmed, span, stale>>
  /\ UNCHANGED <<xfer, sent, got, toggle, se0, transfers, clean>> /\ Quiet

(* The host gives a transfer up, or the bus answers nothing.                *)
GiveUp ==
  /\ stage # "idle" /\ faults < MaxFaults
  /\ faults' = faults + 1 /\ stage' = "idle"
  /\ span' = {}
  /\ stale' = (stale \/ xfer.req = "WRITEFLASH" \/ span # {})
  /\ UNCHANGED <<usbVars, xfer, sent, got, toggle, hostAddr, se0, transfers,
                 clean, confirmed>> /\ Quiet

(* A bus reset takes the address away; the device notices it when it polls, *)
(* or misses it while it writes a memory.                                   *)
ResetBus ==
  /\ stage = "idle" /\ ~se0 /\ faults < MaxFaults
  /\ faults' = faults + 1 /\ se0' = TRUE /\ hostAddr' = 0
  /\ UNCHANGED <<usbVars, stage, xfer, sent, got, toggle, transfers, span, clean,
                 stale, confirmed>> /\ Quiet
EndReset ==
  /\ se0 /\ se0' = FALSE
  /\ UNCHANGED <<usbVars, stage, xfer, sent, got, toggle, hostAddr, transfers,
                 faults, span, clean, stale, confirmed>> /\ Quiet

Host ==
  \/ \E t \in session : Start(t)
  \/ \E lost \in BOOLEAN : SetupStage(lost)
  \/ \E lost \in BOOLEAN : OutStage(lost)
  \/ \E lost \in BOOLEAN : InStage(lost)
  \/ \E lost \in BOOLEAN : StatusIn(lost)
  \/ StatusOut \/ GiveUp \/ ResetBus \/ EndReset

Main == MainStep(se0) /\ UNCHANGED hostVars

Next == Host \/ Main
Spec == Init /\ [][Next]_vars /\ WF_vars(Main)

-----------------------------------------------------------------------------
(* Type invariant.                                                          *)
TypeOK ==
  /\ BootTypeOK
  /\ stage \in {"idle", "setup", "dataOut", "dataIn", "statusIn", "statusOut"}
  /\ sent \in 0 .. 254 /\ toggle \in {0, 1} /\ se0 \in BOOLEAN
  /\ span \subseteq 0 .. FlashSize - 1

(* What the programmer was told is written stays written: a cell confirmed  *)
(* by the status stage of a write without repeated packets holds the image, *)
(* whatever is read, reset, given up or written elsewhere afterwards.       *)
(* usbFunctionWrite(), usbFunctionSetup(), usbPoll().                       *)
ConfirmedHolds ==
  \A c \in confirmed :
    (IF c[1] = "flash" THEN flash[c[2]] ELSE eeprom[c[2]]) = Image(c[2])

(* The answer the device owes to a request.                                 *)
Answer(t) ==
  CASE t.req = "READFLASH"  -> [k \in 1 .. t.len |-> flash[t.addr + k - 1]]
    [] t.req = "READEEPROM" -> [k \in 1 .. t.len |-> eeprom[t.addr + k - 1]]
    [] t.std                -> SubSeq(DriverReply(t), 1, Min({t.len, Len(DriverReply(t))}))
    [] OTHER                -> FunctionReply(t)

(* An answer as long as it should be is the answer: packets of an earlier   *)
(* transfer, of a repeated SETUP or behind a lost packet never make up a    *)
(* complete reply.  usbProcessRx(), usbBuildTxBlock(), handleIn.            *)
AnswerIsExact ==
  stage = "statusOut" /\ Len(got) = Len(Answer(xfer)) => got = Answer(xfer)

(* The device never goes mute: while no handshake was lost, every poll that *)
(* finds the receive buffer empty and the host waiting for a packet leaves  *)
(* one ready.  usbPoll() with usbFunctionWrite()'s return value.            *)
Waiting == stage \in {"dataIn", "statusIn"} /\ faults = 0 /\ usbRxBuf = Free
NeverMute ==
  [][pc = "tx" /\ pc' = "bus" /\ Waiting => usbTxLen' = "DATA"]_vars

(* When the programmer falls silent the boot loader is left for the         *)
(* application: by the programmer's request or by the time-out.             *)
LeavesAtLast == <>(pc = "app")

(* "the boot loader will exit shortly after the programmer closes the       *)
(* connection" (bootloaderconfig.h): a requested exit does not wait for the *)
(* inactivity time-out.                                                     *)
RequestedExitIsPrompt ==
  [][pc' = "app" /\ requestBootLoaderExit => inactivity_timer_nsec' < Timeout]_vars
=============================================================================
