---------------------------- MODULE UsbDriver ----------------------------
(* The V-USB driver of the boot loader (usbdrv/usbdrv.c) and the interrupt  *)
(* handler that serves it (usbdrv/asmcommon.inc): one receive buffer, one   *)
(* transmit buffer, and the control endpoint's message that usbPoll() cuts  *)
(* into packets.  The interrupt handler answers the bus at any moment; the  *)
(* main program only looks at the buffers when it polls.  The program on    *)
(* top of the driver gives the replies to its own requests, so the parts of *)
(* usbPoll() that call it take what it returned as a parameter.             *)
(*                                                                          *)
(* Bytes are opaque values; CRCs, bit timing and the unused interrupt       *)
(* endpoint 1 are left out.                                                 *)
EXTENDS Integers, Sequences, SequencesExt, FiniteSetsExt

CONSTANTS PacketSize,   \* bytes in a full packet: 8 on the wire
          Descriptor    \* descriptor type -> its bytes

ASSUME PacketSizeOK == PacketSize \in Nat \ {0}
ASSUME DescriptorsOK ==
  \A d \in DOMAIN Descriptor : Descriptor[d] \in Seq(Range(Descriptor[d]))

VARIABLES
  usbRxBuf,          \* the packet received and not yet processed, or Free
  usbTxLen,          \* what the next IN token is answered with
  usbTxBuf,          \* the packet to transmit and its data toggle
  usbMsgPtr,         \* bytes of the message still to be sent
  usbMsgLen,         \* how many of them the host is to get, or NoMsg
  usbMsgFlags,       \* who supplies the data: the driver or the program
  usbNewDeviceAddr,  \* address to take after the next data packet
  usbDeviceAddr,     \* address the interrupt handler answers to
  usbConfiguration   \* configuration selected by the host

usbVars == <<usbRxBuf, usbTxLen, usbTxBuf, usbMsgPtr, usbMsgLen, usbMsgFlags,
             usbNewDeviceAddr, usbDeviceAddr, usbConfiguration>>

Free  == [token |-> "none"]      \* usbRxLen = 0
NoMsg == 255                     \* USB_NO_MSG

-----------------------------------------------------------------------------
(* Start: static initialisers and usbInit().                               *)
UsbInit ==
  /\ usbRxBuf = Free
  /\ usbTxLen = "NAK"
  /\ usbTxBuf = [toggle |-> 0, data |-> <<>>]
  /\ usbMsgPtr = <<>> /\ usbMsgLen = NoMsg /\ usbMsgFlags = "driver"
  /\ usbNewDeviceAddr = 0 /\ usbDeviceAddr = 0 /\ usbConfiguration = 0

-----------------------------------------------------------------------------
(* Interrupt side.  A packet is refused (NAK: nothing changes) while the    *)
(* previous one waits; data of length zero is acknowledged and dropped.     *)
HandleData(token, packet) ==
  /\ usbRxBuf = Free
  /\ usbRxBuf' = IF token = "OUT" /\ packet = <<>> THEN Free
                 ELSE [token |-> token, data |-> packet]
  /\ UNCHANGED <<usbTxLen, usbTxBuf, usbMsgPtr, usbMsgLen, usbMsgFlags,
                 usbNewDeviceAddr, usbDeviceAddr, usbConfiguration>>

(* An IN token is answered with the transmit buffer, which counts as sent   *)
(* at once: the host's handshake is not waited for.  A new address is taken *)
(* with the first data packet that goes out after it was set.               *)
HandleIn ==
  /\ usbRxBuf = Free
  /\ usbTxLen = "DATA"
  /\ usbTxLen' = "NAK"
  /\ usbDeviceAddr' = IF usbNewDeviceAddr # 0 THEN usbNewDeviceAddr
                      ELSE usbDeviceAddr
  /\ UNCHANGED <<usbRxBuf, usbTxBuf, usbMsgPtr, usbMsgLen, usbMsgFlags,
                 usbNewDeviceAddr, usbConfiguration>>

-----------------------------------------------------------------------------
(* usbDriverDescriptor() and usbDriverSetup(): the requests of the USB      *)
(* standard.  The reply and the two registers they write.                   *)
DriverReply(rq) ==
  CASE rq.req = "GET_STATUS"        -> <<<<"zero", 0>>, <<"zero", 0>>>>
    [] rq.req = "GET_DESCRIPTOR"    -> Descriptor[rq.value]
    [] rq.req = "GET_CONFIGURATION" -> <<<<"config", usbConfiguration>>>>
    [] rq.req = "GET_INTERFACE"     -> <<<<"zero", 0>>>>
    [] OTHER                        -> <<>>

DriverSetup(rq) ==
  /\ usbNewDeviceAddr' = IF rq.req = "SET_ADDRESS" THEN rq.value
                         ELSE usbNewDeviceAddr
  /\ usbConfiguration' = IF rq.req = "SET_CONFIGURATION" THEN rq.value
                         ELSE usbConfiguration

(* *Mutant*: a transmission still pending survives the SETUP packet.        *)
ProcessSetupKeepsTx(rq, own, reply) ==
  /\ usbTxBuf' = usbTxBuf
  /\ usbTxLen' = usbTxLen
  /\ usbMsgPtr' = reply
  /\ usbMsgFlags' = IF own THEN "program" ELSE "driver"
  /\ usbMsgLen' = IF ~own THEN Min({Len(reply), rq.len})
                  ELSE IF rq.in THEN rq.len ELSE NoMsg
  /\ usbRxBuf' = Free

(* usbProcessRx() on a SETUP packet.  "own" says that the program supplies  *)
(* or takes the data itself (it returned USB_NO_MSG); "reply" is what it    *)
(* wants sent otherwise.                                                    *)
ProcessSetup(rq, own, reply) ==
  /\ usbTxBuf' = [usbTxBuf EXCEPT !.toggle = 0]
  /\ usbTxLen' = "NAK"                        \* abort pending transmit
  /\ usbMsgPtr' = reply
  /\ usbMsgFlags' = IF own THEN "program" ELSE "driver"
  /\ usbMsgLen' = IF ~own THEN Min({Len(reply), rq.len})
                  ELSE IF rq.in THEN rq.len ELSE NoMsg
  /\ usbRxBuf' = Free

(* *Mutant*: the end of a write is not answered.                            *)
ProcessOutUnanswered(final) ==
  /\ usbRxBuf' = Free
  /\ UNCHANGED <<usbMsgLen, usbTxLen, usbTxBuf, usbMsgPtr, usbMsgFlags,
                 usbNewDeviceAddr, usbDeviceAddr, usbConfiguration>>

(* usbProcessRx() on a data packet: "final" is what usbFunctionWrite()      *)
(* returned; an empty packet then tells the host that all was taken.        *)
ProcessOut(final) ==
  /\ usbMsgLen' = IF usbMsgFlags = "program" /\ final THEN 0 ELSE usbMsgLen
  /\ usbRxBuf' = Free
  /\ UNCHANGED <<usbTxLen, usbTxBuf, usbMsgPtr, usbMsgFlags, usbNewDeviceAddr,
                 usbDeviceAddr, usbConfiguration>>

(* usbPoll(), transmit part: enabled when the transmitter is idle and a     *)
(* message is pending.  usbBuildTxBlock() sends at most one full packet;    *)
(* "data" is what usbDeviceRead() put into it.  A short packet ends the     *)
(* message.                                                                 *)
TxWanted == usbTxLen # "DATA" /\ usbMsgLen # NoMsg
WantLen  == Min({usbMsgLen, PacketSize})

DeviceRead == SubSeq(usbMsgPtr, 1, WantLen)     \* driver's own data

BuildTxBlock(data) ==
  /\ usbTxBuf' = [toggle |-> 1 - usbTxBuf.toggle, data |-> data]
  /\ usbTxLen' = "DATA"
  /\ usbMsgLen' = IF Len(data) < PacketSize THEN NoMsg ELSE usbMsgLen - WantLen
  /\ usbMsgPtr' = IF usbMsgFlags = "program" THEN usbMsgPtr
                  ELSE SubSeq(usbMsgPtr, WantLen + 1, Len(usbMsgPtr))
  /\ UNCHANGED <<usbRxBuf, usbMsgFlags, usbNewDeviceAddr, usbDeviceAddr,
                 usbConfiguration>>

(* usbPoll(), last part: a line held low is a bus reset.                    *)
BusReset ==
  /\ usbNewDeviceAddr' = 0 /\ usbDeviceAddr' = 0
  /\ UNCHANGED <<usbRxBuf, usbTxLen, usbTxBuf, usbMsgPtr, usbMsgLen,
                 usbMsgFlags, usbConfiguration>>

-----------------------------------------------------------------------------
UsbTypeOK ==
  /\ usbRxBuf = Free \/ usbRxBuf.token \in {"SETUP", "OUT"}
  /\ usbTxLen \in {"NAK", "DATA"}
  /\ usbTxBuf.toggle \in {0, 1} /\ Len(usbTxBuf.data) <= PacketSize
  /\ usbMsgLen \in 0 .. NoMsg
  /\ usbMsgFlags \in {"driver", "program"}
=============================================================================
