---------------------------- MODULE BootLoader ----------------------------
(* The boot loader of the tracker (USBaspLoader/main.c) on top of the USB   *)
(* driver it includes: the requests of a USBasp programmer, flash and       *)
(* EEPROM access, and the main loop with its two ways out.  The memories    *)
(* are hardware and modelled from how main.c uses them.  The programmer     *)
(* that drives it over the bus is in BootHost.                              *)
EXTENDS UsbDriver

CONSTANTS PageSize,      \* SPM_PAGESIZE
          FlashSize,     \* bytes of flash that are programmed
          EepromSize,
          Wrap,          \* 2 ^ (width of the loop counters i and j)
          Timeout        \* TIMEOUT_DURATION

ASSUME BootConstants ==
  /\ PageSize \in Nat /\ PageSize > 0 /\ PageSize % 2 = 0 /\ PacketSize % 2 = 0
  /\ FlashSize \in Nat /\ FlashSize > 0 /\ FlashSize % PageSize = 0
  /\ EepromSize \in Nat /\ EepromSize > 0
  /\ Wrap \in Nat /\ Wrap > 1 /\ Timeout \in Nat /\ Timeout > 0

VARIABLES
  flash, eeprom,          \* memory contents
  pageBuf,                \* the hardware's temporary page buffer
  currentAddress, bytesRemaining, isLastPage, currentRequest,
  requestBootLoaderExit, inactivity_timer_nsec,
  i, j,                   \* the counters of main()'s loop
  pc                      \* where main() is: "rx", "tx", "bus" or "app"

transferVars == <<currentAddress, bytesRemaining, isLastPage, currentRequest>>
memoryVars   == <<flash, eeprom, pageBuf>>
loopVars     == <<i, j>>
bootVars == <<transferVars, memoryVars, loopVars, requestBootLoaderExit,
              inactivity_timer_nsec, pc>>

-----------------------------------------------------------------------------
(* The memories.  A cell holds the value written there, or what an erased   *)
(* cell reads as, or Junk when the hardware does not say.                   *)
Blank == <<"blank", 0>>
Junk  == <<"junk", 0>>
BlankPage == [o \in 0 .. PageSize - 1 |-> Blank]
PageOf(a) == (a \div PageSize) * PageSize

(* Erasing sets a page to Blank; writing a page can only program cells that *)
(* are blank, and empties the temporary buffer; filling a word of the       *)
(* buffer a second time gives no defined content.                           *)
Erase(mem, a)      == [c \in DOMAIN mem |-> IF PageOf(c) = PageOf(a)
                                            THEN Blank ELSE mem[c]]
WritePage(mem, buf, a) ==
  [c \in DOMAIN mem |->
     LET new == buf[c % PageSize]
     IN IF PageOf(c) # PageOf(a) \/ new = Blank THEN mem[c]
        ELSE IF mem[c] = Blank THEN new ELSE Junk]
Fill(buf, a, low, high) ==
  [o \in DOMAIN buf |->
     IF o \notin {a % PageSize, (a % PageSize) + 1} THEN buf[o]
     ELSE IF buf[o] # Blank THEN Junk
     ELSE IF o = a % PageSize THEN low ELSE high]

(* What the word at address a does in usbFunctionWrite(): erase on a page's *)
(* first word, fill, and write on its last word or on the last word of the  *)
(* transfer that the programmer marked as the last.                         *)
AtPageStart(a) == a % PageSize = 0
(* *Mutant*: the page is written only when its boundary is crossed.         *)
StoreWordNoLast(s, a, low, high, finish) ==
  LET mem == IF AtPageStart(a) THEN Erase(s.flash, a) ELSE s.flash
      buf == Fill(s.buf, a, low, high)
  IN IF AtPageStart(a + 2)
     THEN [flash |-> WritePage(mem, buf, a), buf |-> BlankPage]
     ELSE [flash |-> mem, buf |-> buf]

StoreWord(s, a, low, high, finish) ==
  LET mem == IF AtPageStart(a) THEN Erase(s.flash, a) ELSE s.flash
      buf == Fill(s.buf, a, low, high)
  IN IF AtPageStart(a + 2) \/ finish
     THEN [flash |-> WritePage(mem, buf, a), buf |-> BlankPage]
     ELSE [flash |-> mem, buf |-> buf]

(* The loop over a packet's words: the memories after the first w of them.  *)
(* A packet of odd length still stores a whole last word; its upper byte is *)
(* whatever follows in the buffer.                                          *)
Storing(data, n, last) ==
  LET At(k) == IF k <= n THEN data[k] ELSE Junk
      stored[w \in 0 .. (n + 1) \div 2] ==
        IF w = 0 THEN [flash |-> flash, buf |-> pageBuf]
        ELSE StoreWord(stored[w - 1], currentAddress + 2 * w - 2,
                       At(2 * w - 1), At(2 * w), last /\ 2 * w >= n)
  IN stored
StorePacket(data, n, last) == Storing(data, n, last)[(n + 1) \div 2]

-----------------------------------------------------------------------------
(* inactivity_timer_stop() and _start(): every call of the program by the   *)
(* driver starts the time-out anew.                                         *)
TimerRestart == inactivity_timer_nsec' = 0

(* Requests.  A SETUP packet carries the fields the code looks at:          *)
(*   std    a request of the USB standard, answered by the driver           *)
(*   req    the request; for TRANSMIT "sub" is the ISP command              *)
(*   addr   wValue (wValue high, wIndex low for TRANSMIT)                   *)
(*   len    wLength, at most 254; last the flag in wIndex; val wIndex high  *)
Signature == <<"signature", 0>>
Nothing == <<"zero", 0>>
Paged == {"READFLASH", "WRITEFLASH", "READEEPROM", "WRITEEPROM"}
EepromPaged == {"READEEPROM", "WRITEEPROM"}

TransmitReply(rq) ==          \* only the last of the four bytes matters
  CASE rq.sub = "signature"  -> <<Signature>>
    [] rq.sub = "readByte"   -> <<eeprom[rq.addr]>>
    [] OTHER                 -> <<Nothing>>

FunctionReply(rq) ==
  CASE rq.req = "TRANSMIT"   -> TransmitReply(rq)
    [] rq.req = "ENABLEPROG" -> <<Nothing>>
    [] OTHER                 -> <<>>

(* Writing the EEPROM loses what the temporary page buffer holds.           *)
FunctionSetup(rq) ==
  /\ eeprom' = IF rq.req = "TRANSMIT" /\ rq.sub = "writeByte"
               THEN [eeprom EXCEPT ![rq.addr] = rq.val] ELSE eeprom
  /\ pageBuf' = IF rq.req = "TRANSMIT" /\ rq.sub = "writeByte"
                THEN BlankPage ELSE pageBuf
  /\ currentAddress' = IF rq.req \in Paged \cup {"SETLONGADDRESS"} THEN rq.addr
                       ELSE currentAddress
  /\ IF rq.req \in Paged
     THEN /\ bytesRemaining' = rq.len
          /\ isLastPage' = rq.last
          /\ currentRequest' = rq.req
     ELSE UNCHANGED <<bytesRemaining, isLastPage, currentRequest>>
  /\ requestBootLoaderExit' = (requestBootLoaderExit \/ rq.req = "DISCONNECT")
  /\ TimerRestart
  /\ UNCHANGED flash

(* usbFunctionWrite(): at most bytesRemaining bytes of the packet count.    *)
WriteLenUnbounded(data) == Len(data)            \* *Mutant*: not cut off
WriteLen(data) == Min({Len(data), bytesRemaining})
FinalPacket(data) == bytesRemaining = WriteLen(data)

FunctionWrite(data) ==
  LET n == WriteLen(data)
      s == StorePacket(data, n, FinalPacket(data) /\ isLastPage)
  IN /\ bytesRemaining' = bytesRemaining - n
     /\ IF currentRequest \in EepromPaged
        THEN /\ eeprom' = [c \in DOMAIN eeprom |->
                            IF c \in currentAddress .. currentAddress + n - 1
                            THEN data[c - currentAddress + 1] ELSE eeprom[c]]
             /\ pageBuf' = IF n > 0 THEN BlankPage ELSE pageBuf
             /\ currentAddress' = currentAddress + n
             /\ UNCHANGED flash
        ELSE /\ flash' = s.flash
             /\ pageBuf' = s.buf
             /\ currentAddress' = currentAddress + n + (n % 2)    \* whole words
             /\ UNCHANGED eeprom
     /\ TimerRestart
     /\ UNCHANGED <<isLastPage, currentRequest, requestBootLoaderExit>>

(* usbFunctionRead(): the bytes at the current address.                     *)
ReadLen == Min({WantLen, bytesRemaining})
FunctionReadData ==
  [k \in 1 .. ReadLen |-> IF currentRequest \in EepromPaged
                          THEN eeprom[currentAddress + k - 1]
                          ELSE flash[currentAddress + k - 1]]
FunctionRead ==
  /\ bytesRemaining' = bytesRemaining - ReadLen
  /\ currentAddress' = currentAddress + ReadLen
  /\ TimerRestart
  /\ UNCHANGED <<isLastPage, currentRequest, requestBootLoaderExit, memoryVars>>

-----------------------------------------------------------------------------
(* main()'s loop.  usbPoll() is three steps, so that the interrupt handler  *)
(* can come between them: process the packet received, prepare the next     *)
(* packet to send, look for a bus reset.                                    *)
PollSetup ==
  /\ pc = "rx" /\ usbRxBuf.token = "SETUP"
  /\ LET rq == usbRxBuf.data
     IN IF rq.std
        THEN /\ DriverSetup(rq)
             /\ ProcessSetup(rq, FALSE, DriverReply(rq))
             /\ UNCHANGED <<transferVars, memoryVars, requestBootLoaderExit,
                            inactivity_timer_nsec>>
        ELSE /\ FunctionSetup(rq)
             /\ ProcessSetup(rq, rq.req \in Paged, FunctionReply(rq))
             /\ UNCHANGED <<usbNewDeviceAddr, usbConfiguration>>
  /\ UNCHANGED <<usbDeviceAddr, loopVars>>
  /\ pc' = "tx"

PollOut ==
  /\ pc = "rx" /\ usbRxBuf.token = "OUT"
  /\ IF usbMsgFlags = "program"
     THEN /\ ProcessOut(FinalPacket(usbRxBuf.data))
          /\ FunctionWrite(usbRxBuf.data)
     ELSE /\ ProcessOut(FALSE)
          /\ UNCHANGED <<transferVars, memoryVars, requestBootLoaderExit,
                         inactivity_timer_nsec>>
  /\ UNCHANGED loopVars
  /\ pc' = "tx"

PollNothing ==
  /\ pc = "rx" /\ usbRxBuf = Free
  /\ pc' = "tx"
  /\ UNCHANGED <<usbVars, transferVars, memoryVars, loopVars,
                 requestBootLoaderExit, inactivity_timer_nsec>>

PollTx ==
  /\ pc = "tx"
  /\ IF ~TxWanted
     THEN UNCHANGED <<usbVars, transferVars, memoryVars, requestBootLoaderExit,
                      inactivity_timer_nsec>>
     ELSE IF usbMsgFlags = "program" /\ WantLen > 0
     THEN BuildTxBlock(FunctionReadData) /\ FunctionRead
     ELSE /\ BuildTxBlock(DeviceRead)
          /\ UNCHANGED <<transferVars, memoryVars, requestBootLoaderExit,
                         inactivity_timer_nsec>>
  /\ UNCHANGED loopVars
  /\ pc' = "bus"

(* The end of a turn: the counters, and leaveBootloader() when the timer or *)
(* the programmer's request says so.  i counts once per turn, and once more *)
(* while an exit is requested.                                              *)
Down(n) == (n + Wrap - 1) % Wrap

(* *Mutant*: the inactivity counter is never advanced.                      *)
CountWithoutTimer ==
  LET i1 == Down(i)
      j1 == IF i1 = 0 THEN Down(j) ELSE j
      i2 == Down(i1)
      j2 == IF i2 = 0 THEN Down(j1) ELSE j1
  IN /\ UNCHANGED inactivity_timer_nsec
     /\ IF ~requestBootLoaderExit
        THEN i' = i1 /\ j' = j1 /\ pc' = "rx"
        ELSE i' = i2 /\ j' = j2 /\ pc' = IF i2 = 0 /\ j2 = 0 THEN "app" ELSE "rx"

Count ==
  LET i1   == Down(i)
      j1   == IF i1 = 0 THEN Down(j) ELSE j
      nsec == IF i1 = 0 /\ j1 = 0 THEN inactivity_timer_nsec + 1
              ELSE inactivity_timer_nsec
      i2   == Down(i1)
      j2   == IF i2 = 0 THEN Down(j1) ELSE j1
  IN /\ inactivity_timer_nsec' = nsec
     /\ IF nsec >= Timeout
        THEN i' = i1 /\ j' = j1 /\ pc' = "app"
        ELSE IF ~requestBootLoaderExit
        THEN i' = i1 /\ j' = j1 /\ pc' = "rx"
        ELSE i' = i2 /\ j' = j2 /\ pc' = IF i2 = 0 /\ j2 = 0 THEN "app" ELSE "rx"

LoopEnd(se0) ==
  /\ pc = "bus"
  /\ IF se0 THEN BusReset ELSE UNCHANGED usbVars
  /\ Count
  /\ UNCHANGED <<transferVars, memoryVars, requestBootLoaderExit>>

MainStep(se0) == PollSetup \/ PollOut \/ PollNothing \/ PollTx \/ LoopEnd(se0)

-----------------------------------------------------------------------------
(* Reset into the boot loader: bootLoaderInit(), initForUsbConnectivity()   *)
(* and the first values of main()'s counters.                               *)
BootInit ==
  /\ UsbInit
  /\ currentAddress = 0 /\ bytesRemaining = 0 /\ isLastPage = FALSE
  /\ currentRequest = "none" /\ requestBootLoaderExit = FALSE
  /\ inactivity_timer_nsec = 0 /\ i = 0 /\ j = 0
  /\ pageBuf = BlankPage
  /\ pc = "rx"

BootTypeOK ==
  /\ UsbTypeOK
  /\ currentAddress \in Nat /\ bytesRemaining \in 0 .. 254
  /\ currentRequest \in Paged \cup {"none"}
  /\ isLastPage \in BOOLEAN /\ requestBootLoaderExit \in BOOLEAN
  /\ inactivity_timer_nsec \in 0 .. Timeout
  /\ i \in 0 .. Wrap - 1 /\ j \in 0 .. Wrap - 1
  /\ pc \in {"rx", "tx", "bus", "app"}
=============================================================================
