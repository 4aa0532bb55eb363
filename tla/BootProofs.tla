----------------------------- MODULE BootProofs -----------------------------
(***************************************************************************)
(* Proofs about the boot loader and its programmer, for every memory,      *)
(* packet size and session and any number of faults: the types, the        *)
(* answers the host is given, that the device never goes mute, and that    *)
(* what the host was told is written stays written.                        *)
(***************************************************************************)
EXTENDS BootHost, SequenceTheorems, WellFoundedInduction, TLAPS

\* A sequence of whatever the memories hold.
IsSeq(x) == \E S : x \in Seq(S)

-----------------------------------------------------------------------------
\* A sequence has a length, and is the function from its places.
LEMMA SeqLength ==
  ASSUME NEW x, IsSeq(x)
  PROVE  Len(x) \in Nat /\ DOMAIN x = 1 .. Len(x)
<1>1. PICK S : x \in Seq(S)
  BY DEF IsSeq
<1> QED
  BY <1>1, LenProperties

\* Two sequences with the same elements are one.
LEMMA SeqsEqual ==
  ASSUME NEW x, NEW y, IsSeq(x), IsSeq(y), Len(x) = Len(y),
         \A k \in 1 .. Len(x) : x[k] = y[k]
  PROVE  x = y
<1>1. PICK S : x \in Seq(S)
  BY DEF IsSeq
<1>2. PICK T : y \in Seq(T)
  BY DEF IsSeq
<1>3. x \in Seq(S \cup T) /\ y \in Seq(S \cup T)
  BY <1>1, <1>2, SeqMonotonic
<1> QED
  BY <1>3, SeqEqual

\* One packet after the other.
LEMMA ConcatSeq ==
  ASSUME NEW x, NEW y, IsSeq(x), IsSeq(y)
  PROVE  /\ IsSeq(x \o y)
         /\ Len(x \o y) = Len(x) + Len(y)
         /\ \A k \in 1 .. Len(x) + Len(y) :
              (x \o y)[k] = IF k <= Len(x) THEN x[k] ELSE y[k - Len(x)]
<1>1. PICK S : x \in Seq(S)
  BY DEF IsSeq
<1>2. PICK T : y \in Seq(T)
  BY DEF IsSeq
<1>3. x \in Seq(S \cup T) /\ y \in Seq(S \cup T)
  BY <1>1, <1>2, SeqMonotonic
<1>4. /\ x \o y \in Seq(S \cup T)
      /\ Len(x \o y) = Len(x) + Len(y)
      /\ \A k \in 1 .. Len(x) + Len(y) :
           (x \o y)[k] = IF k <= Len(x) THEN x[k] ELSE y[k - Len(x)]
  BY <1>3, ConcatProperties
<1> QED
  BY <1>4 DEF IsSeq

\* A part of a message.
LEMMA PartSeq ==
  ASSUME NEW x, NEW m \in Int, NEW n \in Int
  PROVE  /\ IsSeq(SubSeq(x, m, n))
         /\ Len(SubSeq(x, m, n)) = IF m <= n THEN n - m + 1 ELSE 0
         /\ \A k \in 1 .. n - m + 1 : SubSeq(x, m, n)[k] = x[m + k - 1]
<1> DEFINE S == {x[k] : k \in m .. n}
<1>1. \A k \in m .. n : x[k] \in S
  OBVIOUS
<1> HIDE DEF S
<1>2. /\ SubSeq(x, m, n) \in Seq(S)
      /\ Len(SubSeq(x, m, n)) = IF m <= n THEN n - m + 1 ELSE 0
      /\ \A k \in 1 .. n - m + 1 : SubSeq(x, m, n)[k] = x[m + k - 1]
  BY <1>1, SubSeqProperties
<1> QED
  BY <1>2 DEF IsSeq

\* A packet given place by place.
LEMMA FunctionSeq ==
  ASSUME NEW n \in Nat, NEW x, DOMAIN x = 1 .. n, x = [k \in 1 .. n |-> x[k]]
  PROVE  IsSeq(x) /\ Len(x) = n
<1>1. x \in [1 .. n -> {x[k] : k \in 1 .. n}]
  OBVIOUS
<1>2. x \in Seq({x[k] : k \in 1 .. n})
  BY <1>1, SeqDef
<1>3. Len(x) = n
  BY <1>2, LenProperties
<1> QED
  BY <1>2, <1>3 DEF IsSeq

\* The empty packet, and the answer of a single byte.
LEMMA ShortSeq ==
  /\ IsSeq(<<>>) /\ Len(<<>>) = 0
  /\ \A v : IsSeq(<<v>>) /\ Len(<<v>>) = 1 /\ <<v>>[1] = v
<1>1. <<>> \in Seq({}) /\ \A v : <<v>> \in Seq({v})
  OBVIOUS
<1> QED
  BY <1>1 DEF IsSeq

\* A sequence without elements is the empty one.
LEMMA EmptyOnly ==
  ASSUME NEW x, IsSeq(x), Len(x) = 0
  PROVE  x = <<>>
  BY SeqsEqual, ShortSeq

\* Min over a pair, as the driver uses it.
LEMMA MinOfTwo ==
  ASSUME NEW a \in Int, NEW b \in Int
  PROVE  Min({a, b}) = IF a <= b THEN a ELSE b
<1> DEFINE m == IF a <= b THEN a ELSE b
<1>1. m \in {a, b} /\ \A y \in {a, b} : m <= y
  OBVIOUS
<1>2. \A x \in {a, b} : (\A y \in {a, b} : x <= y) => x = m
  OBVIOUS
<1> HIDE DEF m
<1>3. Min({a, b}) = m
  BY <1>1, <1>2 DEF Min
<1> QED
  BY <1>3 DEF m

-----------------------------------------------------------------------------
\* The replies: messages all, and what they read of the state.
LEMMA DriverReplyIsSeq ==
  ASSUME NEW t, t.req = "GET_DESCRIPTOR" => t.value \in DOMAIN Descriptor
  PROVE  IsSeq(DriverReply(t))
<1>1. t.req = "GET_DESCRIPTOR" => IsSeq(Descriptor[t.value])
  BY DescriptorsOK DEF IsSeq
<1>2. \A u, v : <<u, v>> \in Seq({u, v})
  OBVIOUS
<1>3. /\ IsSeq(<<>>) /\ IsSeq(<<<<"zero", 0>>>>) /\ IsSeq(<<<<"zero", 0>>, <<"zero", 0>>>>)
      /\ IsSeq(<<<<"config", usbConfiguration>>>>)
  BY <1>2, ShortSeq DEF IsSeq
<1> QED
  BY <1>1, <1>3, Zenon DEF DriverReply

LEMMA FunctionReplyIsSeq ==
  ASSUME NEW t
  PROVE  IsSeq(FunctionReply(t))
<1>1. IsSeq(TransmitReply(t))
  BY ShortSeq, Zenon DEF TransmitReply
<1> QED
  BY <1>1, ShortSeq, Zenon DEF FunctionReply

LEMMA DriverReplySame ==
  ASSUME NEW t, t.req = "GET_CONFIGURATION" => usbConfiguration' = usbConfiguration
  PROVE  DriverReply(t)' = DriverReply(t)
<1>1. CASE t.req = "GET_CONFIGURATION"
  BY <1>1, Zenon DEF DriverReply
<1>2. CASE t.req # "GET_CONFIGURATION"
  BY <1>2, Zenon DEF DriverReply
<1> QED
  BY <1>1, <1>2

LEMMA FunctionReplySame ==
  ASSUME NEW t, t.req = "TRANSMIT" /\ t.sub = "readByte" => eeprom' = eeprom
  PROVE  FunctionReply(t)' = FunctionReply(t)
<1>1. t.req = "TRANSMIT" => TransmitReply(t)' = TransmitReply(t)
  BY Zenon DEF TransmitReply
<1> QED
  BY <1>1, Zenon DEF FunctionReply

\* What is owed to each kind of request.
LEMMA AnswerOf ==
  ASSUME NEW t \in UNION Sessions
  PROVE  /\ t.req = "READFLASH" => Answer(t) = [k \in 1 .. t.len |-> flash[t.addr + k - 1]]
         /\ t.req = "READEEPROM" => Answer(t) = [k \in 1 .. t.len |-> eeprom[t.addr + k - 1]]
         /\ t.std => Answer(t) = SubSeq(DriverReply(t), 1, Min({t.len, Len(DriverReply(t))}))
         /\ ~t.std /\ t.req \notin {"READFLASH", "READEEPROM"} => Answer(t) = FunctionReply(t)
<1>1. t.std => t.req # "READFLASH" /\ t.req # "READEEPROM"
  BY HostConstants DEF Paged
<1> QED
  BY <1>1, Zenon DEF Answer

LEMMA AnswerIsSeq ==
  ASSUME NEW t \in UNION Sessions
  PROVE  IsSeq(Answer(t))
<1>1. t.len \in Nat /\ (t.req = "GET_DESCRIPTOR" /\ t.std => t.value \in DOMAIN Descriptor)
  BY HostConstants
<1>2. CASE t.req \in {"READFLASH", "READEEPROM"}
  <2>1. /\ DOMAIN Answer(t) = 1 .. t.len
        /\ Answer(t) = [k \in 1 .. t.len |-> Answer(t)[k]]
    BY <1>2, AnswerOf
  <2> QED
    BY <1>1, <2>1, FunctionSeq
<1>3. CASE t.std
  <2>1. IsSeq(DriverReply(t))
    BY <1>1, <1>3, DriverReplyIsSeq
  <2>2. Min({t.len, Len(DriverReply(t))}) \in Int
    BY <1>1, <2>1, SeqLength, MinOfTwo
  <2>3. IsSeq(SubSeq(DriverReply(t), 1, Min({t.len, Len(DriverReply(t))})))
    <3>1. \A x : \A n \in Int : IsSeq(SubSeq(x, 1, n))
      BY PartSeq
    <3> QED
      BY <2>2, <3>1, Zenon
  <2> QED
    BY <1>3, <2>3, AnswerOf, Zenon
<1>4. CASE ~t.std /\ t.req \notin {"READFLASH", "READEEPROM"}
  BY <1>4, AnswerOf, FunctionReplyIsSeq
<1> QED
  BY <1>2, <1>3, <1>4

\* A step that touches nothing an answer is read from leaves it alone.
LEMMA AnswerSame ==
  ASSUME NEW t \in UNION Sessions, flash' = flash,
         t.req = "READEEPROM" \/ (t.req = "TRANSMIT" /\ t.sub = "readByte")
           => eeprom' = eeprom,
         t.std /\ t.req = "GET_CONFIGURATION" => usbConfiguration' = usbConfiguration
  PROVE  Answer(t)' = Answer(t)
<1>1. t.std => DriverReply(t)' = DriverReply(t)
  BY DriverReplySame
<1>2. FunctionReply(t)' = FunctionReply(t)
  BY FunctionReplySame
<1>3. t.std => t.req # "READFLASH" /\ t.req # "READEEPROM"
  BY HostConstants DEF Paged
<1>4. CASE t.req = "READFLASH"
  <2>1. Answer(t)' = [k \in 1 .. t.len |-> flash[t.addr + k - 1]]'
    BY <1>3, <1>4, Zenon DEF Answer
  <2>2. flash' = flash
    BY <1>4
  <2> QED
    BY <1>4, <2>1, <2>2, AnswerOf
<1>5. CASE t.req = "READEEPROM"
  <2>1. Answer(t)' = [k \in 1 .. t.len |-> eeprom[t.addr + k - 1]]'
    BY <1>3, <1>5, Zenon DEF Answer
  <2>2. eeprom' = eeprom
    BY <1>5
  <2> QED
    BY <1>5, <2>1, <2>2, AnswerOf
<1>6. CASE t.std
  BY <1>1, <1>3, <1>6, Zenon DEF Answer
<1>7. CASE ~t.std /\ t.req \notin {"READFLASH", "READEEPROM"}
  BY <1>2, <1>7, Zenon DEF Answer
<1> QED
  BY <1>4, <1>5, <1>6, <1>7

-----------------------------------------------------------------------------
\* What the variables of the driver hold. A SETUP packet is one of the requests
\* of the session; a reply the driver sends itself is as long as it says.
ShapeInv ==
  /\ session \in Sessions /\ xfer \in session
  /\ sent \in 0 .. xfer.len /\ faults \in Nat
  /\ stage = "dataOut" => Writes(xfer) /\ sent < xfer.len
  /\ IsSeq(got) /\ IsSeq(usbMsgPtr) /\ IsSeq(usbTxBuf.data)
  /\ usbTxBuf = [toggle |-> usbTxBuf.toggle, data |-> usbTxBuf.data]
  /\ usbRxBuf.token = "SETUP" => usbRxBuf.data \in UNION Sessions
  /\ usbRxBuf.token = "OUT" => IsSeq(usbRxBuf.data)
  /\ pc # "app" => inactivity_timer_nsec < Timeout
  /\ usbMsgFlags = "driver" /\ usbMsgLen # NoMsg => usbMsgLen <= Len(usbMsgPtr)

\* The SETUP packet of the transfer waits for usbPoll().
Unheard == usbRxBuf.token = "SETUP" /\ usbRxBuf.data = xfer

\* The packet on its way to the host, and what the device still has for it.
Pending == IF usbTxLen = "DATA" THEN usbTxBuf.data ELSE <<>>
Rest == IF usbMsgLen = NoMsg THEN 0 ELSE usbMsgLen

\* What the program answers itself comes from the memory behind currentAddress.
OwnAnswer == ~xfer.std /\ xfer.req \in Paged
FromMemory ==
  usbMsgLen # NoMsg =>
    /\ bytesRemaining = usbMsgLen /\ currentRequest = xfer.req
    /\ currentAddress + bytesRemaining = xfer.addr + xfer.len

\* Bytes are never handed out twice. As long as none of them is lost they are
\* those of the answer "a", in order.
InOrder(a) ==
  /\ \A k \in 1 .. Len(got) : got[k] = a[k]
  /\ \A k \in 1 .. Len(Pending) : Pending[k] = a[Len(got) + k]
  /\ ~OwnAnswer => \A k \in 1 .. Rest : usbMsgPtr[k] = a[Len(a) - Rest + k]

Served(a) ==
  /\ usbMsgFlags = IF OwnAnswer THEN "program" ELSE "driver"
  /\ OwnAnswer => FromMemory
  /\ Len(got) + Len(Pending) + Rest <= Len(a)
  /\ Len(got) + Len(Pending) + Rest = Len(a) => InOrder(a)

\* A transfer that is read: it is heard, then served.
AnswerInv ==
  /\ stage = "setup" => got = <<>> /\ sent = 0 /\ toggle = 1
  /\ stage \in {"dataIn", "statusOut"} =>
       /\ ~Writes(xfer)
       /\ \/ stage = "dataIn" /\ Unheard /\ got = <<>>
          \/ usbRxBuf = Free /\ Served(Answer(xfer))

\* While no handshake was lost, host and device agree on where they are. A read
\* in progress has a packet ready or a message to cut one from.
Reading ==
  \/ usbTxLen = "NAK" /\ usbMsgLen # NoMsg /\ usbTxBuf.toggle = 1 - toggle
  \/ /\ usbTxLen = "DATA" /\ usbTxBuf.toggle = toggle
     /\ usbMsgLen = NoMsg => Len(usbTxBuf.data) < PacketSize

\* A write in progress has taken what was sent, but for the packet that waits.
Writing ==
  /\ usbRxBuf = Free \/ usbRxBuf.token = "OUT"
  /\ usbMsgFlags = "program" /\ usbMsgLen = NoMsg
  /\ usbTxLen = "NAK" /\ usbTxBuf.toggle = 0
  /\ bytesRemaining = xfer.len - sent
                      + (IF usbRxBuf.token = "OUT" THEN Len(usbRxBuf.data) ELSE 0)

\* The empty packet that ends a write is ready or wanted.
Acknowledging ==
  /\ usbRxBuf = Free
  /\ \/ usbTxLen = "NAK" /\ usbMsgLen = 0 /\ usbTxBuf.toggle = 0
     \/ usbTxLen = "DATA" /\ usbMsgLen = NoMsg /\ usbTxBuf.toggle = 1 /\ usbTxBuf.data = <<>>

TalkInv ==
  faults = 0 =>
    /\ stage = "dataIn" => (Unheard /\ toggle = 1) \/ (usbRxBuf = Free /\ Reading)
    /\ stage = "dataOut" => /\ toggle = 1
                            /\ (Unheard /\ sent = 0) \/ Writing
    /\ stage = "statusIn" =>
         /\ toggle = 1
         /\ \/ ~Writes(xfer) /\ xfer.len = 0 /\ Unheard
            \/ Writes(xfer) /\ Writing /\ sent = xfer.len /\ usbRxBuf.token = "OUT"
            \/ Acknowledging

BootInv == TypeOK /\ ShapeInv /\ AnswerInv /\ TalkInv

-----------------------------------------------------------------------------
\* The transfer is one of those the assumptions speak of.
LEMMA XferKnown ==
  ASSUME ShapeInv
  PROVE  xfer \in UNION Sessions /\ session \subseteq UNION Sessions
  BY DEF ShapeInv

LEMMA AnswerKept ==
  ASSUME ShapeInv, UNCHANGED <<xfer, flash, eeprom, usbConfiguration>>
  PROVE  Answer(xfer)' = Answer(xfer)
<1>1. PICK t \in UNION Sessions : t = xfer
  BY XferKnown
<1>2. Answer(t)' = Answer(t)
  BY AnswerSame
<1> QED
  BY <1>1, <1>2, Zenon

\* What is owed, by a name that no step changes.
LEMMA ServedNext ==
  ASSUME NEW a, Answer(xfer)' = a, Served(a)'
  PROVE  Served(Answer(xfer))'
  BY Zenon DEF Served, InOrder

LEMMA ServedKept ==
  ASSUME ShapeInv, Served(Answer(xfer)),
         UNCHANGED <<xfer, got, usbTxLen, usbTxBuf, usbMsgPtr, usbMsgLen, usbMsgFlags,
                     usbConfiguration, transferVars, flash, eeprom>>
  PROVE  Served(Answer(xfer))'
<1>1. Answer(xfer)' = Answer(xfer)
  BY AnswerKept
<1>2. PICK a : a = Answer(xfer)
  OBVIOUS
<1>3. Served(a)
  BY <1>2
<1>4. Served(a)'
  BY <1>3 DEF Served, InOrder, OwnAnswer, FromMemory, Pending, Rest, transferVars
<1> QED
  BY <1>1, <1>2, <1>4, ServedNext

-----------------------------------------------------------------------------
\* Steps of the host that send nothing.
LEMMA TypesUntouched ==
  ASSUME TypeOK, UNCHANGED <<usbVars, bootVars>>,
         stage' \in {"idle", "setup", "dataOut", "dataIn", "statusIn", "statusOut"},
         sent' \in 0 .. 254, toggle' \in {0, 1}, se0' \in BOOLEAN,
         span' \subseteq 0 .. FlashSize - 1
  PROVE  TypeOK'
<1>1. BootTypeOK'
  BY DEF TypeOK, BootTypeOK, UsbTypeOK, usbVars, bootVars, transferVars, memoryVars, loopVars
<1> QED
  BY <1>1 DEF TypeOK

LEMMA HostPauses ==
  ASSUME BootInv, UNCHANGED <<usbVars, bootVars, session, xfer, sent, got, toggle>>,
         stage' \in {stage, "idle"}, faults' \in {faults, faults + 1},
         se0' \in BOOLEAN, span' \in {span, {}}
  PROVE  BootInv'
<1>1. TypeOK'
  BY TypesUntouched DEF BootInv, TypeOK
<1>2. ShapeInv'
  BY DEF BootInv, ShapeInv, usbVars, bootVars, transferVars, memoryVars, loopVars
<1>3. AnswerInv'
  <2>1. stage' = "setup" => (got = <<>> /\ sent = 0 /\ toggle = 1)'
    BY DEF BootInv, AnswerInv
  <2>2. ASSUME stage' \in {"dataIn", "statusOut"}
        PROVE  /\ ~Writes(xfer)'
               /\ \/ stage' = "dataIn" /\ Unheard' /\ got' = <<>>
                  \/ usbRxBuf' = Free /\ Served(Answer(xfer))'
    <3>1. stage' = stage /\ ~Writes(xfer)
      BY <2>2 DEF BootInv, AnswerInv
    <3>2. CASE stage = "dataIn" /\ Unheard /\ got = <<>>
      BY <3>1, <3>2 DEF Writes, Unheard, usbVars
    <3>3. CASE usbRxBuf = Free /\ Served(Answer(xfer))
      <4>1. Served(Answer(xfer))'
        BY <3>3, ServedKept DEF BootInv, usbVars, bootVars, memoryVars
      <4> QED
        BY <3>1, <3>3, <4>1 DEF Writes, usbVars
    <3> QED
      BY <2>2, <3>1, <3>2, <3>3 DEF BootInv, AnswerInv
  <2> QED
    BY <2>1, <2>2 DEF AnswerInv
<1>4. TalkInv'
  <2>1. faults' = 0 => faults = 0
    BY DEF BootInv, ShapeInv
  <2> QED
    BY <2>1 DEF BootInv, TalkInv, Unheard, Reading, Writing, Acknowledging, Writes,
      usbVars, bootVars, transferVars
<1> QED
  BY <1>1, <1>2, <1>3, <1>4 DEF BootInv

LEMMA StartKeeps ==
  ASSUME BootInv, NEW t \in session, Start(t)
  PROVE  BootInv'
<1>1. t.len \in 0 .. 254
  BY XferKnown, HostConstants DEF BootInv
<1>2. TypeOK'
  BY TypesUntouched DEF BootInv, TypeOK, Start, Quiet
<1>3. ShapeInv'
  <2>1. IsSeq(got)'
    BY ShortSeq DEF Start, IsSeq
  <2>2. xfer' = t /\ sent' = 0 /\ session' = session /\ faults' = faults
    BY DEF Start, Quiet
  <2>3. (sent \in 0 .. xfer.len)'
    BY <1>1, <2>2
  <2> QED
    BY <2>1, <2>2, <2>3 DEF BootInv, ShapeInv, Start, Quiet, usbVars, bootVars, transferVars,
      memoryVars, loopVars
<1>4. AnswerInv' /\ TalkInv'
  BY DEF Start, AnswerInv, TalkInv
<1> QED
  BY <1>2, <1>3, <1>4 DEF BootInv

-----------------------------------------------------------------------------
\* Packets from the host. The interrupt handler takes one into the empty buffer.
LEMMA SetupStageKeeps ==
  ASSUME BootInv, NEW lost \in BOOLEAN, SetupStage(lost)
  PROVE  BootInv'
<1>1. /\ stage = "setup" /\ usbRxBuf' = [token |-> "SETUP", data |-> xfer]
      /\ usbRxBuf'.token = "SETUP" /\ usbRxBuf'.data = xfer
      /\ UNCHANGED <<usbTxLen, usbTxBuf, usbMsgPtr, usbMsgLen, usbMsgFlags, bootVars, session,
                     xfer, sent, got, toggle, se0, span>>
  BY DEF SetupStage, HandleData, Quiet
<1>2. /\ stage' \in {"setup", "dataOut", "dataIn", "statusIn"}
      /\ stage' = "dataOut" => Writes(xfer) /\ ~lost
      /\ stage' = "dataIn" => ~Writes(xfer)
      /\ stage' = "statusIn" => ~Writes(xfer) /\ xfer.std /\ ~xfer.in
  BY <1>1 DEF SetupStage
<1>3. faults' \in Nat /\ (faults' = 0 => faults = 0)
  BY DEF SetupStage, Fault, BootInv, ShapeInv
<1>4. /\ Writes(xfer) => xfer.len > 0
      /\ xfer.std /\ ~xfer.in => xfer.len = 0
      /\ xfer.len \in 0 .. 254
  BY XferKnown, HostConstants DEF BootInv, Writes
<1>5. got = <<>> /\ sent = 0 /\ toggle = 1
  BY <1>1 DEF BootInv, AnswerInv
<1>6. TypeOK'
  <2>1. BootTypeOK'
    BY <1>1 DEF BootInv, TypeOK, BootTypeOK, UsbTypeOK, bootVars, transferVars, loopVars
  <2> QED
    BY <1>1, <1>2, <2>1 DEF BootInv, TypeOK
<1>7. ShapeInv'
  <2>1. (stage = "dataOut" => Writes(xfer) /\ sent < xfer.len)'
    BY <1>1, <1>2, <1>4, <1>5 DEF Writes
  <2>2. (usbRxBuf.token = "OUT" => IsSeq(usbRxBuf.data))'
    BY <1>1
  <2>3. (usbRxBuf.token = "SETUP" => usbRxBuf.data \in UNION Sessions)'
    BY <1>1, XferKnown DEF BootInv
  <2> QED
    BY <1>1, <1>3, <2>1, <2>2, <2>3 DEF BootInv, ShapeInv, bootVars
<1>8. Unheard'
  BY <1>1 DEF Unheard
<1>9. AnswerInv'
  BY <1>1, <1>2, <1>5, <1>8 DEF AnswerInv, Writes
<1>10. TalkInv'
  BY <1>1, <1>2, <1>3, <1>4, <1>5, <1>8 DEF TalkInv, Writes
<1> QED
  BY <1>6, <1>7, <1>9, <1>10 DEF BootInv

\* The next packet of a write is not empty and not longer than what is left.
LEMMA NextDataSize ==
  ASSUME ShapeInv, sent < xfer.len
  PROVE  /\ IsSeq(NextData) /\ NextData # <<>>
         /\ Len(NextData) \in 1 .. xfer.len - sent
<1>1. xfer.len \in Nat /\ sent \in Nat /\ PacketSize \in Nat /\ PacketSize > 0
  <2>1. xfer.len \in 0 .. 254
    BY XferKnown, HostConstants
  <2>2. sent \in 0 .. xfer.len
    BY DEF ShapeInv
  <2> QED
    BY <2>1, <2>2, PacketSizeOK
<1> DEFINE n == Min({PacketSize, xfer.len - sent})
<1>2. n \in 1 .. xfer.len - sent
  BY <1>1, MinOfTwo
<1> HIDE DEF n
<1>3. NextData = [k \in 1 .. n |-> Image(xfer.addr + sent + k - 1)]
  BY DEF NextData, n
<1>4. DOMAIN NextData = 1 .. n /\ NextData = [k \in 1 .. n |-> NextData[k]]
  BY <1>3
<1>5. IsSeq(NextData) /\ Len(NextData) = n
  BY <1>2, <1>4, FunctionSeq
<1> QED
  BY <1>2, <1>5, ShortSeq

LEMMA OutStageKeeps ==
  ASSUME BootInv, NEW lost \in BOOLEAN, OutStage(lost)
  PROVE  BootInv'
<1>1. /\ stage = "dataOut" /\ usbRxBuf = Free
      /\ UNCHANGED <<usbTxLen, usbTxBuf, usbMsgPtr, usbMsgLen, usbMsgFlags, bootVars, session,
                     xfer, got, toggle, se0, span>>
  BY DEF OutStage, HandleData, Quiet
<1>2. stage' = IF sent' = xfer.len THEN "statusIn" ELSE "dataOut"
  BY <1>1 DEF OutStage
<1>3. faults' \in Nat /\ (faults' = 0 => faults = 0 /\ ~lost)
  BY DEF OutStage, Fault, BootInv, ShapeInv
<1>4. xfer.len \in 0 .. 254 /\ sent \in 0 .. xfer.len
  BY XferKnown, HostConstants DEF BootInv, ShapeInv
<1>5. IsSeq(NextData) /\ NextData # <<>> /\ Len(NextData) \in 1 .. xfer.len - sent
  BY <1>1, NextDataSize DEF BootInv, ShapeInv
<1>6. /\ usbRxBuf' = [token |-> "OUT", data |-> NextData]
      /\ usbRxBuf'.token = "OUT" /\ usbRxBuf'.data = NextData
  BY <1>5 DEF OutStage, HandleData
<1>7. PICK d : d = NextData
  OBVIOUS
<1>8. sent' = IF lost THEN sent ELSE sent + Len(d)
  BY <1>7 DEF OutStage
<1>9. sent' \in 0 .. xfer.len
  <2>1. PICK n : n = IF lost THEN sent ELSE sent + Len(d)
    OBVIOUS
  <2>2. Len(d) \in 1 .. xfer.len - sent
    BY <1>5, <1>7
  <2>3. \A p \in Int : p \in 1 .. xfer.len - sent => sent + p \in 0 .. xfer.len
    BY <1>4
  <2>4. sent + Len(d) \in 0 .. xfer.len
    BY <2>2, <2>3
  <2>5. n \in 0 .. xfer.len
    BY <1>4, <2>1, <2>4, Zenon
  <2> QED
    BY <1>1, <1>8, <2>1, <2>5, Zenon
<1>10. TypeOK'
  <2>1. BootTypeOK'
    BY <1>1, <1>6 DEF BootInv, TypeOK, BootTypeOK, UsbTypeOK, bootVars, transferVars, loopVars
  <2>2. sent' \in 0 .. 254
    BY <1>4, <1>9
  <2> QED
    BY <1>1, <1>2, <2>1, <2>2 DEF BootInv, TypeOK
<1>11. ShapeInv'
  <2>1. (stage = "dataOut" => Writes(xfer) /\ sent < xfer.len)'
    <3>1. stage' = "dataOut" => sent' # xfer.len
      BY <1>2
    <3>2. stage' = "dataOut" => sent' < xfer.len
      BY <1>4, <1>9, <3>1
    <3> QED
      BY <1>1, <3>2 DEF BootInv, ShapeInv, Writes
  <2> QED
    BY <1>1, <1>3, <1>5, <1>6, <1>9, <2>1 DEF BootInv, ShapeInv, bootVars
<1>12. AnswerInv'
  BY <1>2 DEF AnswerInv
<1>13. TalkInv'
  <2> SUFFICES ASSUME faults' = 0 PROVE TalkInv'
    BY DEF TalkInv
  <2>1. ~lost /\ toggle = 1 /\ Writing /\ Writes(xfer)
    <3>1. ~Unheard
      BY <1>1 DEF Unheard, Free
    <3> QED
      BY <1>1, <1>3, <3>1 DEF BootInv, TalkInv, ShapeInv
  <2>2. bytesRemaining = xfer.len - sent + 0
    BY <1>1, <2>1 DEF Writing, Free
  <2>3. PICK n : n = sent + Len(d)
    OBVIOUS
  <2>4. sent' = n
    BY <1>8, <2>1, <2>3
  <2>5. bytesRemaining = xfer.len - n + Len(d)
    <3>1. \A p \in Int : xfer.len - sent + 0 = xfer.len - (sent + p) + p
      BY <1>4
    <3>2. Len(NextData) \in Int
      BY <1>4, <1>5
    <3>3. Len(d) \in Int
      BY <1>7, <3>2, Zenon
    <3> QED
      BY <2>2, <2>3, <3>1, <3>3, Zenon
  <2>6. bytesRemaining' = bytesRemaining
    BY <1>1 DEF bootVars, transferVars
  <2>7. (bytesRemaining = xfer.len - sent + Len(usbRxBuf.data))'
    BY <1>1, <1>6, <1>7, <2>4, <2>5, <2>6, Zenon
  <2>8. (/\ usbMsgFlags = "program" /\ usbMsgLen = NoMsg
         /\ usbTxLen = "NAK" /\ usbTxBuf.toggle = 0)'
    BY <1>1, <2>1 DEF Writing
  <2>9. Writing'
    BY <1>6, <2>7, <2>8, Zenon DEF Writing
  <2> QED
    BY <1>1, <1>2, <1>6, <2>1, <2>9 DEF TalkInv, Writes
<1> QED
  BY <1>10, <1>11, <1>12, <1>13 DEF BootInv

-----------------------------------------------------------------------------
\* Packets to the host. What it takes goes from the transmit buffer to what it
\* has; what is lost is missing for good.
LEMMA HandleInServes ==
  ASSUME BootInv, NEW a, IsSeq(a), Served(a), HandleIn,
         got' \in {got, got \o usbTxBuf.data}, xfer' = xfer, UNCHANGED transferVars
  PROVE  Served(a)'
<1>1. /\ usbTxLen = "DATA" /\ usbTxLen' = "NAK"
      /\ UNCHANGED <<usbTxBuf, usbMsgPtr, usbMsgLen, usbMsgFlags>>
  BY DEF HandleIn
<1> DEFINE p == usbTxBuf.data
<1>2. Pending = p /\ Pending' = <<>>
  BY <1>1 DEF Pending
<1>3. IsSeq(got) /\ IsSeq(p) /\ Rest \in Nat
  <2>1. usbMsgLen \in 0 .. 255
    BY DEF BootInv, TypeOK, BootTypeOK, UsbTypeOK, NoMsg
  <2>2. Rest \in Nat
    BY <2>1 DEF Rest
  <2> QED
    BY <2>2 DEF BootInv, ShapeInv
<1>4. Len(got) \in Nat /\ Len(p) \in Nat /\ Len(a) \in Nat /\ Len(<<>>) = 0
  BY <1>3, SeqLength, ShortSeq
<1>5. /\ OwnAnswer' = OwnAnswer /\ Rest' = Rest /\ usbMsgPtr' = usbMsgPtr
      /\ usbMsgFlags' = usbMsgFlags /\ FromMemory' = FromMemory
  BY <1>1 DEF OwnAnswer, Rest, FromMemory, transferVars
<1>6. /\ Len(got) + Len(p) + Rest <= Len(a)
      /\ Len(got) + Len(p) + Rest = Len(a) => InOrder(a)
  BY <1>2 DEF Served
<1> HIDE DEF p
<1>7. CASE got' = got
  <2>1. Len(got) + 0 + Rest <= Len(a)
    BY <1>3, <1>4, <1>6
  <2>2. Len(got) + 0 + Rest = Len(a) => InOrder(a)
    BY <1>3, <1>4, <1>6
  <2>3. (Len(got) + Len(Pending) + Rest)' = Len(got) + 0 + Rest
    BY <1>2, <1>4, <1>5, <1>7, Zenon
  <2>4. InOrder(a) => InOrder(a)'
    <3> HAVE InOrder(a)
    <3>1. (\A k \in 1 .. Len(Pending) : Pending[k] = a[Len(got) + k])'
      BY <1>2, <1>4
    <3> QED
      BY <3>1, <1>5, <1>7 DEF InOrder
  <2> QED
    BY <1>5, <2>1, <2>2, <2>3, <2>4, Zenon DEF Served
<1>8. CASE got' = got \o p
  <2>1. /\ Len(got \o p) = Len(got) + Len(p)
        /\ \A k \in 1 .. Len(got) + Len(p) :
             (got \o p)[k] = IF k <= Len(got) THEN got[k] ELSE p[k - Len(got)]
    BY <1>3, ConcatSeq
  <2>2. (Len(got) + Len(Pending) + Rest)' = (Len(got) + Len(p)) + 0 + Rest
    BY <1>2, <1>4, <1>5, <1>8, <2>1, Zenon
  <2>3. (Len(got) + Len(p)) + 0 + Rest = Len(got) + Len(p) + Rest
    BY <1>3, <1>4
  <2>4. InOrder(a) => InOrder(a)'
    <3> HAVE InOrder(a)
    <3>1. (\A k \in 1 .. Len(Pending) : Pending[k] = a[Len(got) + k])'
      BY <1>2, <1>4
    <3>2. \A k \in 1 .. Len(got) + Len(p) : (got \o p)[k] = a[k]
      <4>1. /\ \A k \in 1 .. Len(got) : got[k] = a[k]
            /\ \A k \in 1 .. Len(p) : p[k] = a[Len(got) + k]
        BY <1>2 DEF InOrder
      <4>2. \A k \in 1 .. Len(got) + Len(p) : k > Len(got) =>
              k - Len(got) \in 1 .. Len(p) /\ Len(got) + (k - Len(got)) = k
        BY <1>4
      <4> QED
        BY <1>4, <2>1, <4>1, <4>2
    <3>3. (\A k \in 1 .. Len(got) : got[k] = a[k])'
      BY <1>8, <2>1, <3>2, Zenon
    <3>4. (~OwnAnswer => \A k \in 1 .. Rest : usbMsgPtr[k] = a[Len(a) - Rest + k])'
      BY <1>5 DEF InOrder
    <3> QED
      BY <3>1, <3>3, <3>4 DEF InOrder
  <2> QED
    BY <1>5, <1>6, <2>2, <2>3, <2>4, Zenon DEF Served
<1> QED
  BY <1>7, <1>8 DEF p

LEMMA InStageKeeps ==
  ASSUME BootInv, NEW lost \in BOOLEAN, InStage(lost)
  PROVE  BootInv'
<1> DEFINE p == usbTxBuf.data
           taken == ~(lost \/ usbTxBuf.toggle # toggle)
<1>1. /\ stage = "dataIn" /\ HandleIn
      /\ usbRxBuf = Free /\ usbTxLen = "DATA" /\ usbTxLen' = "NAK"
      /\ UNCHANGED <<usbRxBuf, usbTxBuf, usbMsgPtr, usbMsgLen, usbMsgFlags, bootVars, session,
                     xfer, sent, se0, span>>
  BY DEF InStage, HandleIn, Quiet
<1>2. stage' \in {"dataIn", "statusOut"}
  BY <1>1 DEF InStage
<1>3. /\ taken => /\ got' = got \o p /\ toggle' = 1 - toggle
                  /\ stage' = "dataIn" => ~(Len(p) < PacketSize)
      /\ ~taken => got' = got /\ toggle' = toggle
  BY DEF InStage
<1>4. faults' \in Nat /\ (faults' = 0 => faults = 0 /\ ~lost)
  BY DEF InStage, Fault, BootInv, ShapeInv
<1> HIDE DEF taken
<1>5. TypeOK'
  <2>1. BootTypeOK'
    BY <1>1 DEF BootInv, TypeOK, BootTypeOK, UsbTypeOK, bootVars, transferVars, loopVars
  <2>2. toggle' \in {0, 1}
    BY <1>3 DEF BootInv, TypeOK
  <2> QED
    BY <1>1, <1>2, <2>1, <2>2 DEF BootInv, TypeOK
<1>6. ShapeInv'
  <2>1. IsSeq(got \o p)
    BY ConcatSeq DEF BootInv, ShapeInv
  <2>2. IsSeq(got')
    BY <1>3, <2>1 DEF BootInv, ShapeInv
  <2> QED
    BY <1>1, <1>2, <1>4, <2>2 DEF BootInv, ShapeInv, bootVars
<1>7. ~Unheard
  BY <1>1 DEF Unheard, Free
<1>8. AnswerInv'
  <2>1. ~Writes(xfer) /\ Served(Answer(xfer))
    BY <1>1, <1>7 DEF BootInv, AnswerInv
  <2>2. PICK a : a = Answer(xfer)
    OBVIOUS
  <2>3. IsSeq(a) /\ Served(a)
    <3>1. PICK t \in UNION Sessions : t = xfer
      BY XferKnown DEF BootInv
    <3> QED
      BY <2>1, <2>2, <3>1, AnswerIsSeq, Zenon
  <2>4. Served(a)'
    BY <1>1, <1>3, <2>3, HandleInServes DEF bootVars
  <2>5. Answer(xfer)' = a
    BY <1>1, <2>2, AnswerKept DEF BootInv, HandleIn, bootVars, memoryVars
  <2>6. Served(Answer(xfer))'
    BY <2>4, <2>5, ServedNext
  <2> QED
    BY <1>1, <1>2, <2>1, <2>6 DEF AnswerInv, Writes
<1>9. TalkInv'
  <2> SUFFICES ASSUME faults' = 0, stage' = "dataIn" PROVE Reading'
    BY <1>1, <1>2 DEF TalkInv
  <2>1. ~lost /\ Reading
    BY <1>1, <1>4, <1>7 DEF BootInv, TalkInv
  <2>2. usbTxBuf.toggle = toggle /\ (usbMsgLen = NoMsg => Len(p) < PacketSize)
    BY <1>1, <2>1 DEF Reading
  <2>3. taken
    BY <2>1, <2>2 DEF taken
  <2>4. usbMsgLen # NoMsg
    BY <1>3, <2>2, <2>3
  <2>5. toggle' = 1 - toggle /\ usbTxBuf' = usbTxBuf /\ toggle \in {0, 1}
    BY <1>1, <1>3, <2>3 DEF BootInv, TypeOK
  <2>6. usbTxBuf'.toggle = 1 - toggle'
    BY <2>2, <2>5
  <2> QED
    BY <1>1, <2>4, <2>6 DEF Reading
<1> QED
  BY <1>5, <1>6, <1>8, <1>9 DEF BootInv

\* The status stages.
LEMMA StatusOutKeeps ==
  ASSUME BootInv, StatusOut
  PROVE  BootInv'
<1>1. /\ stage' = "idle" /\ usbRxBuf = Free /\ usbRxBuf' = Free
      /\ UNCHANGED <<usbTxLen, usbTxBuf, usbMsgPtr, usbMsgLen, usbMsgFlags, bootVars, session,
                     xfer, sent, got, toggle, se0, faults>>
      /\ span' \in {span, {}}
  BY DEF StatusOut, HandleData, Quiet
<1>2. TypeOK'
  <2>1. BootTypeOK'
    BY <1>1 DEF BootInv, TypeOK, BootTypeOK, UsbTypeOK, bootVars, transferVars, loopVars
  <2> QED
    BY <1>1, <2>1 DEF BootInv, TypeOK
<1>3. ShapeInv'
  BY <1>1 DEF BootInv, ShapeInv, bootVars, Free
<1>4. AnswerInv' /\ TalkInv'
  BY <1>1 DEF AnswerInv, TalkInv
<1> QED
  BY <1>2, <1>3, <1>4 DEF BootInv

\* What a completed flash write adds to the span is flash.
LEMMA SpanInFlash ==
  ASSUME TypeOK, xfer \in UNION Sessions, xfer.req = "WRITEFLASH"
  PROVE  Loaded \subseteq 0 .. FlashSize - 1
<1>1. xfer.addr \in Nat /\ xfer.len \in 0 .. 254 /\ xfer.addr + xfer.len <= FlashSize
  BY HostConstants
<1>2. RangeOf(xfer) \subseteq 0 .. FlashSize - 1
  BY <1>1, BootConstants DEF RangeOf
<1> QED
  BY <1>2 DEF TypeOK, Loaded

LEMMA StatusInKeeps ==
  ASSUME BootInv, NEW lost \in BOOLEAN, StatusIn(lost)
  PROVE  BootInv'
<1>1. /\ stage = "statusIn" /\ HandleIn
      /\ usbRxBuf = Free /\ usbTxLen = "DATA" /\ usbTxLen' = "NAK"
      /\ UNCHANGED <<usbRxBuf, usbTxBuf, usbMsgPtr, usbMsgLen, usbMsgFlags, bootVars, session,
                     xfer, sent, got, toggle, se0>>
  BY DEF StatusIn, HandleIn, Quiet
<1>2. /\ stage' \in {"statusIn", "idle"}
      /\ lost \/ usbTxBuf.toggle # toggle \/ usbTxBuf.data # <<>> \/ stage' = "idle"
  BY <1>1 DEF StatusIn
<1>3. faults' \in Nat /\ (faults' = 0 => faults = 0 /\ ~lost)
  BY DEF StatusIn, Fault, BootInv, ShapeInv
<1>4. TypeOK'
  <2>1. BootTypeOK'
    BY <1>1 DEF BootInv, TypeOK, BootTypeOK, UsbTypeOK, bootVars, transferVars, loopVars
  <2>2. span' \subseteq 0 .. FlashSize - 1
    <3>1. span' \in {span, {}} \/ (xfer.req = "WRITEFLASH" /\ span' \subseteq Loaded)
      BY DEF StatusIn
    <3> QED
      BY <3>1, SpanInFlash, XferKnown DEF BootInv, TypeOK
  <2> QED
    BY <1>1, <1>2, <2>1, <2>2 DEF BootInv, TypeOK
<1>5. ShapeInv'
  BY <1>1, <1>2, <1>3 DEF BootInv, ShapeInv, bootVars
<1>6. AnswerInv'
  BY <1>2 DEF AnswerInv
<1>7. TalkInv'
  <2> SUFFICES ASSUME faults' = 0, stage' = "statusIn" PROVE FALSE
    BY <1>2 DEF TalkInv
  <2>1. ~Unheard /\ usbRxBuf.token # "OUT"
    BY <1>1 DEF Unheard, Free
  <2>2. Acknowledging /\ toggle = 1
    BY <1>1, <1>3, <2>1 DEF BootInv, TalkInv
  <2> QED
    BY <1>1, <1>2, <1>3, <2>2 DEF Acknowledging
<1> QED
  BY <1>4, <1>5, <1>6, <1>7 DEF BootInv

-----------------------------------------------------------------------------
\* Turns of the loop that leave the messages alone.
LEMMA LoopTurns ==
  ASSUME BootInv,
         UNCHANGED <<hostVars, transferVars, memoryVars, requestBootLoaderExit, usbRxBuf,
                     usbTxLen, usbTxBuf, usbMsgPtr, usbMsgLen, usbMsgFlags, usbConfiguration>>,
         inactivity_timer_nsec' \in 0 .. Timeout, i' \in 0 .. Wrap - 1, j' \in 0 .. Wrap - 1,
         pc' \in {"rx", "tx", "bus", "app"},
         pc' # "app" => inactivity_timer_nsec' < Timeout
  PROVE  BootInv'
<1>1. TypeOK'
  BY DEF BootInv, TypeOK, BootTypeOK, UsbTypeOK, transferVars, hostVars
<1>2. ShapeInv'
  BY DEF BootInv, ShapeInv, hostVars, Writes
<1>3. Unheard' = Unheard /\ Writes(xfer)' = Writes(xfer)
  BY DEF Unheard, Writes, hostVars
<1>4. AnswerInv'
  <2>1. Served(Answer(xfer)) => Served(Answer(xfer))'
    BY ServedKept DEF BootInv, hostVars, memoryVars
  <2> QED
    BY <1>3, <2>1 DEF BootInv, AnswerInv, hostVars
<1>5. TalkInv'
  BY <1>3 DEF BootInv, TalkInv, Reading, Writing, Acknowledging, hostVars, transferVars
<1> QED
  BY <1>1, <1>2, <1>4, <1>5 DEF BootInv

LEMMA PollNothingKeeps ==
  ASSUME BootInv, PollNothing, UNCHANGED hostVars
  PROVE  BootInv'
<1>1. /\ UNCHANGED <<usbVars, transferVars, memoryVars, loopVars, requestBootLoaderExit,
                     inactivity_timer_nsec>>
      /\ pc = "rx" /\ pc' = "tx"
  BY DEF PollNothing
<1>2. inactivity_timer_nsec \in 0 .. Timeout /\ inactivity_timer_nsec < Timeout
  BY <1>1 DEF BootInv, TypeOK, BootTypeOK, ShapeInv
<1> QED
  BY <1>1, <1>2, LoopTurns DEF BootInv, TypeOK, BootTypeOK, usbVars, loopVars

LEMMA DownRange ==
  ASSUME NEW n \in 0 .. Wrap - 1
  PROVE  Down(n) \in 0 .. Wrap - 1
  BY BootConstants DEF Down

LEMMA CountRanges ==
  ASSUME TypeOK, inactivity_timer_nsec < Timeout, Count
  PROVE  /\ inactivity_timer_nsec' \in 0 .. Timeout
         /\ i' \in 0 .. Wrap - 1 /\ j' \in 0 .. Wrap - 1
         /\ pc' \in {"rx", "app"}
         /\ pc' # "app" => inactivity_timer_nsec' < Timeout
<1> DEFINE i1   == Down(i)
           j1   == IF i1 = 0 THEN Down(j) ELSE j
           nsec == IF i1 = 0 /\ j1 = 0 THEN inactivity_timer_nsec + 1
                   ELSE inactivity_timer_nsec
           i2   == Down(i1)
           j2   == IF i2 = 0 THEN Down(j1) ELSE j1
<1>1. /\ i1 \in 0 .. Wrap - 1 /\ j1 \in 0 .. Wrap - 1
      /\ i2 \in 0 .. Wrap - 1 /\ j2 \in 0 .. Wrap - 1
  BY DownRange DEF TypeOK, BootTypeOK
<1>2. nsec \in 0 .. Timeout
  BY BootConstants DEF TypeOK, BootTypeOK
<1>3. /\ inactivity_timer_nsec' = nsec
      /\ IF nsec >= Timeout
         THEN i' = i1 /\ j' = j1 /\ pc' = "app"
         ELSE IF ~requestBootLoaderExit
         THEN i' = i1 /\ j' = j1 /\ pc' = "rx"
         ELSE i' = i2 /\ j' = j2 /\ pc' = IF i2 = 0 /\ j2 = 0 THEN "app" ELSE "rx"
  BY DEF Count
<1> HIDE DEF i1, j1, nsec, i2, j2
<1>4. ~(nsec >= Timeout) => nsec < Timeout
  BY <1>2, BootConstants
<1> QED
  BY <1>1, <1>2, <1>3, <1>4

LEMMA LoopEndKeeps ==
  ASSUME BootInv, LoopEnd(se0), UNCHANGED hostVars
  PROVE  BootInv'
<1>1. pc = "bus" /\ Count
  BY DEF LoopEnd
<1>2. inactivity_timer_nsec < Timeout
  BY <1>1 DEF BootInv, ShapeInv
<1>3. UNCHANGED <<transferVars, memoryVars, requestBootLoaderExit, usbRxBuf, usbTxLen,
                  usbTxBuf, usbMsgPtr, usbMsgLen, usbMsgFlags, usbConfiguration>>
  BY DEF LoopEnd, BusReset, usbVars
<1> QED
  BY <1>1, <1>2, <1>3, CountRanges, LoopTurns DEF BootInv

-----------------------------------------------------------------------------
\* A data packet of a write reaches the program, which counts the bytes down.
LEMMA WriteLenRange ==
  ASSUME TypeOK, NEW d, IsSeq(d)
  PROVE  /\ WriteLen(d) \in 0 .. bytesRemaining
         /\ Len(d) \in Nat
         /\ Len(d) <= bytesRemaining => WriteLen(d) = Len(d)
<1>1. Len(d) \in Nat /\ bytesRemaining \in 0 .. 254
  BY SeqLength DEF TypeOK, BootTypeOK
<1>2. WriteLen(d) = IF Len(d) <= bytesRemaining THEN Len(d) ELSE bytesRemaining
  BY <1>1, MinOfTwo DEF WriteLen
<1> QED
  BY <1>1, <1>2

LEMMA FunctionWriteTypes ==
  ASSUME TypeOK, NEW d, IsSeq(d), FunctionWrite(d)
  PROVE  /\ bytesRemaining' \in 0 .. 254
         /\ bytesRemaining' = bytesRemaining - WriteLen(d)
         /\ currentAddress' \in Nat
         /\ inactivity_timer_nsec' = 0
         /\ UNCHANGED <<isLastPage, currentRequest, requestBootLoaderExit>>
<1>1. WriteLen(d) \in 0 .. bytesRemaining /\ bytesRemaining \in 0 .. 254 /\ currentAddress \in Nat
  BY WriteLenRange DEF TypeOK, BootTypeOK
<1>2. /\ bytesRemaining' = bytesRemaining - WriteLen(d)
      /\ \/ currentAddress' = currentAddress + WriteLen(d)
         \/ currentAddress' = currentAddress + WriteLen(d) + (WriteLen(d) % 2)
      /\ inactivity_timer_nsec' = 0
      /\ UNCHANGED <<isLastPage, currentRequest, requestBootLoaderExit>>
  BY DEF FunctionWrite, TimerRestart
<1>3. /\ bytesRemaining - WriteLen(d) \in 0 .. 254
      /\ currentAddress + WriteLen(d) \in Nat
      /\ currentAddress + WriteLen(d) + (WriteLen(d) % 2) \in Nat
  <2>1. PICK n : n = WriteLen(d)
    OBVIOUS
  <2>2. n \in 0 .. bytesRemaining
    BY <1>1, <2>1
  <2>3. bytesRemaining - n \in 0 .. 254 /\ n \in Nat
    BY <1>1, <2>2
  <2>4. n % 2 \in Nat
    BY <2>3
  <2> QED
    BY <1>1, <2>1, <2>3, <2>4
<1> QED
  BY <1>2, <1>3

LEMMA PollOutKeeps ==
  ASSUME BootInv, PollOut, UNCHANGED hostVars
  PROVE  BootInv'
<1>1. PICK d : d = usbRxBuf.data
  OBVIOUS
<1>2. /\ pc = "rx" /\ pc' = "tx" /\ usbRxBuf.token = "OUT" /\ usbRxBuf' = Free
      /\ UNCHANGED <<usbTxLen, usbTxBuf, usbMsgPtr, usbMsgFlags, usbConfiguration, i, j>>
  BY DEF PollOut, ProcessOut, loopVars
<1>3. IsSeq(d)
  BY <1>1, <1>2 DEF BootInv, ShapeInv
<1>4. CASE usbMsgFlags = "program"
  <2>1. FunctionWrite(d) /\ usbMsgLen' = IF bytesRemaining = WriteLen(d) THEN 0 ELSE usbMsgLen
    BY <1>1, <1>4 DEF PollOut, ProcessOut, FinalPacket
  <2>2. /\ bytesRemaining' \in 0 .. 254
        /\ bytesRemaining' = bytesRemaining - WriteLen(d)
        /\ currentAddress' \in Nat
        /\ inactivity_timer_nsec' = 0
        /\ UNCHANGED <<isLastPage, currentRequest, requestBootLoaderExit>>
    BY <1>3, <2>1, FunctionWriteTypes DEF BootInv
  <2>3. TypeOK'
    <3>1. UsbTypeOK'
      BY <1>2, <2>1 DEF BootInv, TypeOK, BootTypeOK, UsbTypeOK, NoMsg
    <3>2. inactivity_timer_nsec' \in 0 .. Timeout
      BY <2>2, BootConstants
    <3> QED
      BY <1>2, <2>2, <3>1, <3>2 DEF BootInv, TypeOK, BootTypeOK, hostVars
  <2>4. ShapeInv'
    BY <1>2, <1>4, <2>2, BootConstants DEF BootInv, ShapeInv, hostVars, Free, Writes
  <2>5. AnswerInv'
    BY <1>2 DEF BootInv, AnswerInv, hostVars, Free, Unheard
  <2>6. TalkInv'
    <3> SUFFICES ASSUME faults = 0, stage \in {"dataIn", "dataOut", "statusIn"} PROVE TalkInv'
      BY DEF TalkInv, hostVars
    <3>1. ~Unheard /\ usbRxBuf # Free
      BY <1>2 DEF Unheard, Free
    <3>2. /\ stage \in {"dataOut", "statusIn"} /\ Writing /\ toggle = 1
          /\ stage = "statusIn" => Writes(xfer) /\ sent = xfer.len
      BY <3>1 DEF BootInv, TalkInv, Acknowledging
    <3>3. bytesRemaining = xfer.len - sent + Len(d)
      BY <1>1, <1>2, <3>2 DEF Writing
    <3>4. sent \in 0 .. xfer.len /\ xfer.len \in 0 .. 254 /\ Len(d) \in Nat
      BY <1>3, XferKnown, WriteLenRange, HostConstants DEF BootInv, ShapeInv
    <3> DEFINE n == Len(d)
               left == xfer.len - sent
    <3>11. n \in Nat /\ left \in Nat /\ bytesRemaining = left + n /\ (left = 0 <=> sent = xfer.len)
      <4>1. xfer.len - sent \in Nat /\ (xfer.len - sent = 0 <=> sent = xfer.len)
        <5>1. \A l \in 0 .. 254 : \A s \in 0 .. l : l - s \in Nat /\ (l - s = 0 <=> s = l)
          OBVIOUS
        <5> QED
          BY <3>4, <5>1, Zenon
      <4>2. n \in Nat /\ bytesRemaining = left + n
        BY <3>3, <3>4, Zenon
      <4> QED
        BY <4>1, <4>2
    <3> HIDE DEF n, left
    <3>5. Len(d) <= bytesRemaining
      <4>1. n <= bytesRemaining
        BY <3>11
      <4> QED
        BY <4>1 DEF n
    <3>6. WriteLen(d) = Len(d)
      BY <1>3, <3>5, WriteLenRange DEF BootInv
    <3>7. /\ bytesRemaining - Len(d) = xfer.len - sent + 0
          /\ bytesRemaining = Len(d) <=> sent = xfer.len
      <4>1. /\ bytesRemaining - n = left + 0
            /\ bytesRemaining = n <=> left = 0
        BY <3>11
      <4> QED
        BY <3>11, <4>1 DEF n, left
    <3>8. /\ usbMsgFlags = "program" /\ usbMsgLen = NoMsg
          /\ usbTxLen = "NAK" /\ usbTxBuf.toggle = 0
      BY <3>2 DEF Writing
    <3>9. CASE stage = "dataOut"
      <4>1. sent < xfer.len
        BY <3>9 DEF BootInv, ShapeInv
      <4>2. bytesRemaining # Len(d)
        BY <3>4, <3>7, <4>1
      <4>3. usbMsgLen' = NoMsg
        BY <2>1, <3>6, <3>8, <4>2
      <4>4. (bytesRemaining = xfer.len - sent + 0)'
        BY <2>2, <3>6, <3>7, Zenon DEF hostVars
      <4>5. Writing'
        BY <1>2, <3>8, <4>3, <4>4 DEF Writing, Free
      <4> QED
        BY <3>2, <3>9, <4>5 DEF TalkInv, hostVars
    <3>10. CASE stage = "statusIn"
      <4>1. usbMsgLen' = 0
        BY <2>1, <3>2, <3>6, <3>7, <3>10
      <4>2. Acknowledging'
        BY <1>2, <3>8, <4>1 DEF Acknowledging
      <4> QED
        BY <3>2, <3>10, <4>2 DEF TalkInv, hostVars
    <3> QED
      BY <3>2, <3>9, <3>10
  <2> QED
    BY <2>3, <2>4, <2>5, <2>6 DEF BootInv
<1>5. CASE usbMsgFlags # "program"
  <2>1. /\ usbMsgLen' = usbMsgLen
        /\ UNCHANGED <<transferVars, memoryVars, requestBootLoaderExit, inactivity_timer_nsec>>
    BY <1>5 DEF PollOut, ProcessOut
  <2>2. TypeOK'
    BY <1>2, <2>1 DEF BootInv, TypeOK, BootTypeOK, UsbTypeOK, transferVars, hostVars
  <2>3. ShapeInv'
    BY <1>2, <2>1 DEF BootInv, ShapeInv, hostVars, Free, Writes
  <2>4. AnswerInv'
    BY <1>2 DEF BootInv, AnswerInv, hostVars, Free, Unheard
  <2>5. TalkInv'
    BY <1>2, <1>5 DEF BootInv, TalkInv, Writing, Acknowledging, Unheard, Free, hostVars
  <2> QED
    BY <2>2, <2>3, <2>4, <2>5 DEF BootInv
<1> QED
  BY <1>4, <1>5

-----------------------------------------------------------------------------
\* A SETUP packet: what the driver and the program make of it.
Own(t)   == ~t.std /\ t.req \in Paged
Reply(t) == IF t.std THEN DriverReply(t) ELSE FunctionReply(t)

LEMMA ReplyIsSeq ==
  ASSUME NEW t \in UNION Sessions
  PROVE  IsSeq(Reply(t))
<1>1. t.std => (t.req = "GET_DESCRIPTOR" => t.value \in DOMAIN Descriptor)
  BY HostConstants
<1> QED
  BY <1>1, DriverReplyIsSeq, FunctionReplyIsSeq DEF Reply

LEMMA SetupEffect ==
  ASSUME TypeOK, PollSetup, NEW t \in UNION Sessions, t = usbRxBuf.data
  PROVE  /\ pc = "rx" /\ pc' = "tx" /\ usbRxBuf.token = "SETUP" /\ usbRxBuf' = Free
         /\ usbTxBuf' = [usbTxBuf EXCEPT !.toggle = 0] /\ usbTxLen' = "NAK"
         /\ usbMsgPtr' = Reply(t)
         /\ usbMsgFlags' = IF Own(t) THEN "program" ELSE "driver"
         /\ usbMsgLen' = IF ~Own(t) THEN Min({Len(Reply(t)), t.len})
                         ELSE IF t.in THEN t.len ELSE NoMsg
         /\ Own(t) => /\ bytesRemaining' = t.len /\ currentRequest' = t.req
                      /\ currentAddress' = t.addr
         /\ ~Own(t) => UNCHANGED <<bytesRemaining, currentRequest, isLastPage>>
         /\ currentAddress' \in {currentAddress, t.addr}
         /\ requestBootLoaderExit' \in BOOLEAN
         /\ inactivity_timer_nsec' \in {0, inactivity_timer_nsec}
         /\ flash' = flash /\ i' = i /\ j' = j
         /\ t.std \/ ~(t.req = "TRANSMIT" /\ t.sub = "writeByte") => eeprom' = eeprom
         /\ t.req # "SET_CONFIGURATION" \/ ~t.std => usbConfiguration' = usbConfiguration
         /\ Own(t) => isLastPage' = t.last
<1>1. /\ pc = "rx" /\ pc' = "tx" /\ usbRxBuf.token = "SETUP" /\ i' = i /\ j' = j
  BY DEF PollSetup, loopVars
<1>2. CASE t.std
  <2>1. /\ DriverSetup(t) /\ ProcessSetup(t, FALSE, DriverReply(t))
        /\ UNCHANGED <<transferVars, memoryVars, requestBootLoaderExit, inactivity_timer_nsec>>
    BY <1>2 DEF PollSetup
  <2>2. ~Own(t) /\ Reply(t) = DriverReply(t)
    BY <1>2 DEF Own, Reply
  <2>3. requestBootLoaderExit \in BOOLEAN
    BY DEF TypeOK, BootTypeOK
  <2> QED
    BY <1>1, <1>2, <2>1, <2>2, <2>3 DEF ProcessSetup, DriverSetup, transferVars, memoryVars
<1>3. CASE ~t.std
  <2>1. /\ FunctionSetup(t) /\ ProcessSetup(t, t.req \in Paged, FunctionReply(t))
        /\ usbConfiguration' = usbConfiguration
    BY <1>3 DEF PollSetup
  <2>2. (Own(t) <=> t.req \in Paged) /\ Reply(t) = FunctionReply(t)
    BY <1>3 DEF Own, Reply
  <2>3. ProcessSetup(t, Own(t), Reply(t))
    BY <2>1, <2>2, Zenon DEF ProcessSetup
  <2>4. requestBootLoaderExit' \in BOOLEAN
    BY <2>1 DEF FunctionSetup
  <2> QED
    BY <1>1, <1>3, <2>1, <2>2, <2>3, <2>4 DEF ProcessSetup, FunctionSetup, TimerRestart
<1> QED
  BY <1>2, <1>3

LEMMA LengthsFit ==
  ASSUME NEW t \in UNION Sessions
  PROVE  t.len \in Nat /\ t.len < 255
<1>1. t.len \in 0 .. 254
  BY HostConstants
<1> QED
  BY <1>1

\* What a read owes is served in full by the reply or by the count of bytes.
LEMMA SetupServes ==
  ASSUME BootInv, PollSetup, NEW t \in UNION Sessions, t = usbRxBuf.data,
         xfer = t, xfer' = t, got = <<>>, got' = <<>>, ~Writes(t)
  PROVE  Served(Answer(xfer))'
<1>1. /\ usbTxLen' = "NAK" /\ usbMsgPtr' = Reply(t)
      /\ usbMsgFlags' = IF Own(t) THEN "program" ELSE "driver"
      /\ usbMsgLen' = IF ~Own(t) THEN Min({Len(Reply(t)), t.len})
                      ELSE IF t.in THEN t.len ELSE NoMsg
      /\ Own(t) => /\ bytesRemaining' = t.len /\ currentRequest' = t.req
                   /\ currentAddress' = t.addr
  BY SetupEffect DEF BootInv
<1>2. Answer(t)' = Answer(t)
  <2>1. /\ flash' = flash
        /\ t.std \/ ~(t.req = "TRANSMIT" /\ t.sub = "writeByte") => eeprom' = eeprom
        /\ t.req # "SET_CONFIGURATION" \/ ~t.std => usbConfiguration' = usbConfiguration
    BY SetupEffect DEF BootInv
  <2> QED
    BY <2>1, AnswerSame
<1>3. PICK n : n = t.len /\ n \in Nat /\ n < 255
  BY LengthsFit, Zenon
<1>14. ~t.std => t.in
  BY HostConstants DEF Writes
<1>4. IsSeq(Reply(t))
  BY ReplyIsSeq
<1>5. PICK a : a = Answer(t)
  OBVIOUS
<1>6. PICK r : r = Reply(t)
  OBVIOUS
<1>7. IsSeq(a) /\ IsSeq(r) /\ Len(a) \in Nat /\ Len(r) \in Nat /\ Len(<<>>) = 0
  <2>1. IsSeq(a) /\ IsSeq(r)
    BY <1>4, <1>5, <1>6, AnswerIsSeq, Zenon
  <2> QED
    BY <2>1, SeqLength, ShortSeq
<1> DEFINE m == IF Len(r) <= n THEN Len(r) ELSE n
<1>8. m \in Nat /\ m # NoMsg /\ m <= Len(r) /\ Min({Len(r), t.len}) = m
      /\ Min({t.len, Len(r)}) = m
  <2>1. m \in Nat /\ m # NoMsg /\ m <= Len(r) /\ Min({Len(r), n}) = m /\ Min({n, Len(r)}) = m
    <3>1. Min({Len(r), n}) = m /\ Min({n, Len(r)}) = m
      BY <1>3, <1>7, MinOfTwo
    <3>2. m \in Nat /\ m # NoMsg /\ m <= Len(r)
      <4>1. n \in Nat /\ n < 255 /\ Len(r) \in Nat
        BY <1>3, <1>7, Zenon
      <4>2. \A l \in Nat : LET q == IF l <= n THEN l ELSE n
                           IN q \in Nat /\ q # 255 /\ q <= l
        BY <4>1
      <4> QED
        BY <4>1, <4>2 DEF NoMsg
    <3> QED
      BY <3>1, <3>2
  <2> QED
    BY <1>3, <2>1, Zenon
<1>9. ASSUME ~Own(t)
      PROVE  m <= Len(a) /\ (m = Len(a) => \A k \in 1 .. m : a[k] = r[k])
  <2>1. CASE t.std
    <3>1. a = SubSeq(r, 1, m)
      BY <1>5, <1>6, <1>8, <2>1, AnswerOf DEF Reply
    <3> HIDE DEF m
    <3>2. /\ Len(SubSeq(r, 1, m)) = IF 1 <= m THEN m - 1 + 1 ELSE 0
          /\ \A k \in 1 .. m - 1 + 1 : SubSeq(r, 1, m)[k] = r[1 + k - 1]
      BY <1>8, PartSeq
    <3> QED
      BY <1>8, <3>1, <3>2
  <2>2. CASE ~t.std
    <3>1. t.req \notin {"READFLASH", "READEEPROM"}
      BY <1>9, <2>2 DEF Own, Paged
    <3>2. a = r
      BY <1>5, <1>6, <2>2, <3>1, AnswerOf DEF Reply
    <3> QED
      BY <1>8, <3>2
  <2> QED
    BY <2>1, <2>2
<1>10. ASSUME Own(t)
       PROVE  Len(a) = n
  <2>1. t.req \in {"READFLASH", "READEEPROM"}
    BY <1>10 DEF Own, Paged, Writes
  <2>2. DOMAIN a = 1 .. t.len /\ a = [k \in 1 .. t.len |-> a[k]]
    BY <1>5, <2>1, AnswerOf
  <2>3. DOMAIN a = 1 .. n /\ a = [k \in 1 .. n |-> a[k]]
    BY <1>3, <2>2, Zenon
  <2> QED
    BY <1>3, <2>3, FunctionSeq
<1>11. /\ Len(got)' = 0 /\ Pending' = <<>> /\ Len(Pending)' = 0
       /\ (OwnAnswer' <=> Own(t))
  BY <1>1, <1>7 DEF Pending, OwnAnswer, Own
<1>12. Served(a)'
  <2>1. CASE Own(t)
    <3>1. usbMsgLen' = n /\ n # NoMsg /\ Rest' = n
      <4>1. t.in
        BY <1>14, <2>1 DEF Own
      <4>2. usbMsgLen' = n
        BY <1>1, <1>3, <2>1, <4>1, Zenon
      <4>3. n # NoMsg
        BY <1>3 DEF NoMsg
      <4> QED
        BY <4>2, <4>3 DEF Rest
    <3>2. FromMemory'
      <4>1. currentAddress' + bytesRemaining' = t.addr + t.len
        BY <1>1, <2>1, Zenon
      <4> QED
        BY <1>1, <1>3, <2>1, <3>1, <4>1 DEF FromMemory
    <3>3. (Len(got) + Len(Pending) + Rest)' = 0 + 0 + n
      BY <1>11, <3>1, Zenon
    <3>4. (Len(got) + Len(Pending) + Rest <= Len(a))'
      <4>1. 0 + 0 + n <= Len(a)
        BY <1>3, <1>10, <2>1
      <4> QED
        BY <3>3, <4>1, Zenon
    <3>5. InOrder(a)'
      BY <1>11, <2>1 DEF InOrder
    <3> QED
      BY <1>1, <1>11, <2>1, <3>2, <3>4, <3>5, Zenon DEF Served
  <2>2. CASE ~Own(t)
    <3>1. usbMsgLen' = m
      BY <1>1, <1>6, <1>8, <2>2
    <3>2. Rest' = m
      BY <1>8, <3>1 DEF Rest
    <3> HIDE DEF m
    <3>3. (Len(got) + Len(Pending) + Rest)' = 0 + 0 + m
      BY <1>11, <3>2, Zenon
    <3>4. 0 + 0 + m <= Len(a) /\ (0 + 0 + m = Len(a) <=> m = Len(a))
      BY <1>7, <1>8, <1>9, <2>2
    <3>5. ASSUME m = Len(a) PROVE InOrder(a)'
      <4>1. \A k \in 1 .. m : r[k] = a[Len(a) - m + k]
        <5>1. \A k \in 1 .. m : Len(a) - m + k = k
          BY <1>7, <3>5
        <5>2. \A k \in 1 .. m : a[k] = r[k]
          BY <1>9, <2>2, <3>5
        <5> QED
          BY <5>1, <5>2, Zenon
      <4>2. (\A k \in 1 .. Rest : usbMsgPtr[k] = a[Len(a) - Rest + k])'
        BY <1>1, <1>6, <3>2, <4>1, Zenon
      <4>3. (/\ \A k \in 1 .. Len(got) : got[k] = a[k]
             /\ \A k \in 1 .. Len(Pending) : Pending[k] = a[Len(got) + k])'
        BY <1>11
      <4> QED
        BY <4>2, <4>3, Zenon DEF InOrder
    <3> QED
      BY <1>1, <1>11, <2>2, <3>3, <3>4, <3>5, Zenon DEF Served
  <2> QED
    BY <2>1, <2>2
<1>13. Answer(xfer)' = a
  BY <1>2, <1>5, Zenon
<1> QED
  BY <1>12, <1>13, ServedNext

LEMMA PollSetupKeeps ==
  ASSUME BootInv, PollSetup, UNCHANGED hostVars
  PROVE  BootInv'
<1>1. PICK t \in UNION Sessions : t = usbRxBuf.data
  BY DEF PollSetup, BootInv, ShapeInv
<1> DEFINE r == Reply(t)
           m == Min({Len(r), t.len})
<1>2. /\ pc = "rx" /\ pc' = "tx" /\ usbRxBuf.token = "SETUP" /\ usbRxBuf' = Free
      /\ usbTxBuf' = [usbTxBuf EXCEPT !.toggle = 0] /\ usbTxLen' = "NAK"
      /\ usbMsgPtr' = r
      /\ usbMsgFlags' = IF Own(t) THEN "program" ELSE "driver"
      /\ usbMsgLen' = IF ~Own(t) THEN m ELSE IF t.in THEN t.len ELSE NoMsg
  BY <1>1, SetupEffect DEF BootInv
<1>3. /\ Own(t) => /\ bytesRemaining' = t.len /\ currentRequest' = t.req
                   /\ currentAddress' = t.addr /\ isLastPage' = t.last
      /\ ~Own(t) => UNCHANGED <<bytesRemaining, currentRequest, isLastPage>>
      /\ currentAddress' \in {currentAddress, t.addr}
      /\ requestBootLoaderExit' \in BOOLEAN
      /\ inactivity_timer_nsec' \in {0, inactivity_timer_nsec}
      /\ i' = i /\ j' = j
  BY <1>1, SetupEffect DEF BootInv
<1>4. IsSeq(r) /\ Len(r) \in Nat
  BY <1>1, ReplyIsSeq, SeqLength
<1>5. t.len \in Nat /\ t.len < 255
  BY <1>1, LengthsFit
<1>6. m \in Nat /\ m <= Len(r) /\ m <= t.len
  <2>1. \A l \in Nat, n \in Nat : LET q == IF l <= n THEN l ELSE n
                                IN q \in Nat /\ q <= l /\ q <= n
    OBVIOUS
  <2>2. m = IF Len(r) <= t.len THEN Len(r) ELSE t.len
    BY <1>4, <1>5, MinOfTwo
  <2> HIDE DEF m, r
  <2> QED
    BY <1>4, <1>5, <2>1, <2>2
<1> HIDE DEF m, r
<1>7. usbMsgLen' \in 0 .. NoMsg /\ (t.in \/ ~Own(t) => usbMsgLen' # NoMsg)
  <2>1. /\ m \in 0 .. NoMsg /\ m # NoMsg /\ t.len \in 0 .. NoMsg /\ t.len # NoMsg
        /\ NoMsg \in 0 .. NoMsg
    <3>1. \A k, n \in Nat : n < 255 /\ k <= n =>
            k \in 0 .. NoMsg /\ k # NoMsg /\ n \in 0 .. NoMsg /\ n # NoMsg
      BY DEF NoMsg
    <3>2. NoMsg \in 0 .. NoMsg
      BY DEF NoMsg
    <3> QED
      BY <1>5, <1>6, <3>1, <3>2, Zenon
  <2> QED
    BY <1>2, <2>1, Zenon
<1>8. TypeOK'
  <2>1. UsbTypeOK'
    BY <1>2, <1>7 DEF BootInv, TypeOK, BootTypeOK, UsbTypeOK, ShapeInv
  <2>2. inactivity_timer_nsec' \in 0 .. Timeout
    BY <1>3, BootConstants DEF BootInv, TypeOK, BootTypeOK
  <2>3. bytesRemaining' \in 0 .. 254 /\ currentAddress' \in Nat
    <3>1. t.len \in 0 .. 254 /\ t.addr \in Nat
      BY <1>1, HostConstants
    <3> QED
      BY <1>3, <3>1 DEF BootInv, TypeOK, BootTypeOK
  <2>4. currentRequest' \in Paged \cup {"none"} /\ isLastPage' \in BOOLEAN
    <3>1. t.last \in BOOLEAN
      BY <1>1, HostConstants
    <3> QED
      BY <1>3, <3>1 DEF Own, BootInv, TypeOK, BootTypeOK
  <2> QED
    BY <1>2, <1>3, <2>1, <2>2, <2>3, <2>4 DEF BootInv, TypeOK, BootTypeOK, hostVars
<1>9. ShapeInv'
  <2>1. inactivity_timer_nsec' < Timeout
    BY <1>2, <1>3, BootConstants DEF BootInv, ShapeInv
  <2>2. (usbTxBuf = [toggle |-> usbTxBuf.toggle, data |-> usbTxBuf.data])' /\ IsSeq(usbTxBuf.data)'
    BY <1>2 DEF BootInv, ShapeInv
  <2>3. (usbMsgFlags = "driver" /\ usbMsgLen # NoMsg => usbMsgLen <= Len(usbMsgPtr))'
    BY <1>2, <1>6
  <2> QED
    BY <1>2, <1>4, <2>1, <2>2, <2>3 DEF BootInv, ShapeInv, hostVars, Free, Writes
<1>10. usbRxBuf # Free /\ usbRxBuf.token # "OUT" /\ (Unheard <=> xfer = t)
  BY <1>1, <1>2 DEF Free, Unheard
<1>11. AnswerInv'
  <2>1. ASSUME stage \in {"dataIn", "statusOut"}
        PROVE  Served(Answer(xfer))' /\ ~Writes(xfer)
    <3>1. xfer = t /\ got = <<>> /\ ~Writes(xfer)
      BY <1>10, <2>1 DEF BootInv, AnswerInv
    <3> QED
      BY <1>1, <3>1, SetupServes DEF hostVars
  <2> QED
    BY <1>2, <2>1 DEF BootInv, AnswerInv, hostVars, Writes
<1>12. TalkInv'
  <2> SUFFICES ASSUME faults = 0, stage \in {"dataIn", "dataOut", "statusIn"} PROVE TalkInv'
    BY DEF TalkInv, hostVars
  <2>1. usbTxBuf'.toggle = 0
    BY <1>2 DEF BootInv, ShapeInv
  <2>2. CASE stage = "dataIn"
    <3>1. xfer = t /\ ~Writes(t) /\ toggle = 1
      BY <1>10, <2>2 DEF BootInv, TalkInv, AnswerInv
    <3>2. t.in \/ ~Own(t)
      BY <1>1, <3>1, HostConstants DEF Own, Writes
    <3>3. Reading'
      BY <1>2, <1>7, <2>1, <3>1, <3>2 DEF Reading, hostVars
    <3> QED
      BY <1>2, <2>2, <3>3 DEF TalkInv, hostVars
  <2>3. CASE stage = "dataOut"
    <3>1. xfer = t /\ sent = 0 /\ toggle = 1 /\ Writes(t)
      BY <1>10, <2>3 DEF BootInv, TalkInv, Writing, ShapeInv
    <3>2. Own(t) /\ ~t.in
      BY <1>1, <3>1, HostConstants DEF Own, Paged, Writes
    <3>3. usbMsgFlags' = "program" /\ usbMsgLen' = NoMsg /\ bytesRemaining' = t.len
      BY <1>2, <1>3, <3>2
    <3>4. (bytesRemaining = xfer.len - sent + 0)'
      <4>1. t.len = t.len - 0 + 0
        BY <1>5
      <4> QED
        BY <3>1, <3>3, <4>1, Zenon DEF hostVars
    <3>5. Writing'
      BY <1>2, <2>1, <3>3, <3>4 DEF Writing, Free
    <3> QED
      BY <2>3, <3>1, <3>5 DEF TalkInv, hostVars
  <2>4. CASE stage = "statusIn"
    <3>1. xfer = t /\ toggle = 1 /\ ~Writes(t) /\ t.len = 0
      BY <1>10, <2>4 DEF BootInv, TalkInv, Acknowledging
    <3>2. t.in \/ ~Own(t)
      BY <1>1, <3>1, HostConstants DEF Own, Writes
    <3>3. m = 0
      BY <1>6, <3>1
    <3>4. usbMsgLen' = 0
      BY <1>2, <3>1, <3>2, <3>3, Zenon
    <3>5. Acknowledging'
      BY <1>2, <2>1, <3>4 DEF Acknowledging
    <3> QED
      BY <2>4, <3>1, <3>5 DEF TalkInv, hostVars
  <2> QED
    BY <2>2, <2>3, <2>4
<1> QED
  BY <1>8, <1>9, <1>11, <1>12 DEF BootInv

-----------------------------------------------------------------------------
\* The next packet to send: a full one, or the last of the message.
LEMMA WantLenRange ==
  ASSUME TypeOK, TxWanted
  PROVE  /\ usbMsgLen \in Nat /\ usbMsgLen < 255
         /\ WantLen \in Nat /\ WantLen <= usbMsgLen /\ WantLen <= PacketSize
         /\ WantLen < PacketSize => WantLen = usbMsgLen
         /\ usbMsgLen - WantLen \in Nat /\ usbMsgLen - WantLen < 255
         /\ usbMsgLen = 0 => WantLen = 0
<1>1. usbMsgLen \in 0 .. 255 /\ usbMsgLen # 255
  BY DEF TypeOK, BootTypeOK, UsbTypeOK, TxWanted, NoMsg
<1>2. WantLen = IF usbMsgLen <= PacketSize THEN usbMsgLen ELSE PacketSize
  BY <1>1, PacketSizeOK, MinOfTwo DEF WantLen
<1> QED
  BY <1>1, <1>2, PacketSizeOK

LEMMA DeviceReads ==
  ASSUME TypeOK, TxWanted
  PROVE  /\ IsSeq(DeviceRead) /\ Len(DeviceRead) = WantLen
         /\ \A k \in 1 .. WantLen : DeviceRead[k] = usbMsgPtr[k]
<1>1. PICK w : w = WantLen
  OBVIOUS
<1>2. w \in Nat
  BY <1>1, WantLenRange
<1>3. /\ IsSeq(SubSeq(usbMsgPtr, 1, w))
      /\ Len(SubSeq(usbMsgPtr, 1, w)) = IF 1 <= w THEN w - 1 + 1 ELSE 0
      /\ \A k \in 1 .. w - 1 + 1 : SubSeq(usbMsgPtr, 1, w)[k] = usbMsgPtr[1 + k - 1]
  BY <1>2, PartSeq
<1>4. /\ Len(SubSeq(usbMsgPtr, 1, w)) = w
      /\ \A k \in 1 .. w : SubSeq(usbMsgPtr, 1, w)[k] = usbMsgPtr[k]
  BY <1>2, <1>3
<1> QED
  BY <1>1, <1>3, <1>4, Zenon DEF DeviceRead

LEMMA ProgramReads ==
  ASSUME TypeOK, TxWanted, FunctionRead
  PROVE  /\ IsSeq(FunctionReadData) /\ Len(FunctionReadData) = ReadLen
         /\ ReadLen \in Nat /\ ReadLen <= WantLen
         /\ WantLen <= bytesRemaining => ReadLen = WantLen
         /\ \A k \in 1 .. ReadLen : FunctionReadData[k] =
              IF currentRequest \in EepromPaged THEN eeprom[currentAddress + k - 1]
              ELSE flash[currentAddress + k - 1]
         /\ bytesRemaining' \in 0 .. 254 /\ currentAddress' \in Nat
         /\ bytesRemaining' = bytesRemaining - ReadLen
         /\ currentAddress' = currentAddress + ReadLen
         /\ inactivity_timer_nsec' = 0
         /\ UNCHANGED <<isLastPage, currentRequest, requestBootLoaderExit, flash, eeprom>>
<1>1. bytesRemaining \in 0 .. 254 /\ currentAddress \in Nat
  BY DEF TypeOK, BootTypeOK
<1>2. ReadLen = IF WantLen <= bytesRemaining THEN WantLen ELSE bytesRemaining
  BY <1>1, WantLenRange, MinOfTwo DEF ReadLen
<1>3. /\ ReadLen \in Nat /\ ReadLen <= WantLen /\ ReadLen <= bytesRemaining
      /\ WantLen <= bytesRemaining => ReadLen = WantLen
  BY <1>1, <1>2, WantLenRange
<1>4. PICK n : n = ReadLen
  OBVIOUS
<1>5. PICK d : d = FunctionReadData
  OBVIOUS
<1>6. d = [k \in 1 .. n |-> IF currentRequest \in EepromPaged
                            THEN eeprom[currentAddress + k - 1]
                            ELSE flash[currentAddress + k - 1]]
  BY <1>4, <1>5 DEF FunctionReadData
<1>7. IsSeq(d) /\ Len(d) = n
  <2>1. DOMAIN d = 1 .. n /\ d = [k \in 1 .. n |-> d[k]]
    BY <1>6
  <2> QED
    BY <1>3, <1>4, <2>1, FunctionSeq
<1>8. \A k \in 1 .. n : d[k] = IF currentRequest \in EepromPaged
                                THEN eeprom[currentAddress + k - 1]
                                ELSE flash[currentAddress + k - 1]
  BY <1>6
<1>9. /\ bytesRemaining' = bytesRemaining - ReadLen
      /\ currentAddress' = currentAddress + ReadLen
      /\ inactivity_timer_nsec' = 0
      /\ UNCHANGED <<isLastPage, currentRequest, requestBootLoaderExit, flash, eeprom>>
  BY DEF FunctionRead, TimerRestart, memoryVars
<1>10. bytesRemaining - ReadLen \in 0 .. 254 /\ currentAddress + ReadLen \in Nat
  BY <1>1, <1>3
<1> QED
  BY <1>3, <1>4, <1>5, <1>7, <1>8, <1>9, <1>10, Zenon

\* The block is the next part of the answer, and the rest of it stays behind.
LEMMA BlockServes ==
  ASSUME BootInv, TxWanted, NEW a, NEW d, IsSeq(a), a = Answer(xfer), Served(a),
         UNCHANGED <<xfer, got>>, ~Writes(xfer), BuildTxBlock(d),
         \/ usbMsgFlags = "program" /\ WantLen > 0 /\ d = FunctionReadData /\ FunctionRead
         \/ /\ ~(usbMsgFlags = "program" /\ WantLen > 0)
            /\ d = DeviceRead /\ UNCHANGED transferVars
  PROVE  Served(a)'
<1>1. PICK m, w, g, l, r : m = usbMsgLen /\ w = WantLen /\ g = Len(got) /\ l = Len(a) /\ r = m - w
  OBVIOUS
<1>2. m \in Nat /\ w \in Nat /\ w <= m /\ r \in Nat /\ r # NoMsg
  <2>1. r < 255 => r # NoMsg
    BY DEF NoMsg
  <2> QED
    BY <1>1, <2>1, WantLenRange, Zenon DEF BootInv
<1>3. g \in Nat /\ l \in Nat /\ Len(<<>>) = 0
  BY <1>1, SeqLength, ShortSeq DEF BootInv, ShapeInv
<1>4. /\ usbTxLen' = "DATA" /\ usbTxBuf'.data = d /\ usbMsgFlags' = usbMsgFlags
      /\ usbMsgLen' = IF Len(d) < PacketSize THEN NoMsg ELSE r
      /\ usbMsgPtr' = IF usbMsgFlags = "program" THEN usbMsgPtr
                      ELSE SubSeq(usbMsgPtr, w + 1, Len(usbMsgPtr))
  BY <1>1 DEF BuildTxBlock
<1>5. Pending = <<>> /\ Rest = m /\ Pending' = d /\ OwnAnswer' = OwnAnswer
  BY <1>1, <1>4 DEF TxWanted, Pending, Rest, OwnAnswer
<1>6. /\ usbMsgFlags = IF OwnAnswer THEN "program" ELSE "driver"
      /\ OwnAnswer => bytesRemaining = m /\ currentRequest = xfer.req
                      /\ currentAddress + bytesRemaining = xfer.addr + xfer.len
      /\ g + 0 + m <= l
      /\ g + 0 + m = l => InOrder(a)
  BY <1>1, <1>3, <1>5 DEF Served, FromMemory, TxWanted
\* Either way the block is as long as wanted, and what it takes is not kept.
<1>7. /\ IsSeq(d) /\ Len(d) = w
      /\ usbMsgFlags = "program" /\ w > 0 =>
           /\ bytesRemaining' = bytesRemaining - w
           /\ currentAddress' = currentAddress + w
           /\ currentRequest' = currentRequest
           /\ \A k \in 1 .. w : d[k] = IF currentRequest \in EepromPaged
                                        THEN eeprom[currentAddress + k - 1]
                                        ELSE flash[currentAddress + k - 1]
      /\ ~(usbMsgFlags = "program" /\ w > 0) => \A k \in 1 .. w : d[k] = usbMsgPtr[k]
  <2>1. CASE usbMsgFlags = "program" /\ WantLen > 0
    <3>1. d = FunctionReadData /\ FunctionRead
      BY <2>1
    <3>2. WantLen <= bytesRemaining
      <4>1. OwnAnswer
        BY <1>6, <2>1
      <4> QED
        BY <1>1, <1>2, <1>6, <4>1, Zenon
    <3> QED
      BY <1>1, <2>1, <3>1, <3>2, ProgramReads, Zenon DEF BootInv
  <2>2. CASE ~(usbMsgFlags = "program" /\ WantLen > 0)
    BY <1>1, <2>2, DeviceReads, Zenon DEF BootInv
  <2> QED
    BY <2>1, <2>2
<1>8. Rest' = r
  <2>1. w < PacketSize => r = 0
    BY <1>1, <1>2, WantLenRange DEF BootInv
  <2> QED
    BY <1>2, <1>4, <1>7, <2>1 DEF Rest
<1>9. g + w + r = g + 0 + m /\ (Len(got) + Len(Pending) + Rest)' = g + w + r
  <2>1. g + w + r = g + 0 + m
    BY <1>1, <1>2, <1>3
  <2> QED
    BY <1>1, <1>5, <1>7, <1>8, <2>1, Zenon
<1>10. OwnAnswer => FromMemory'
  <2> HAVE OwnAnswer
  <2>1. CASE w > 0
    <3>1. bytesRemaining' = r /\ currentRequest' = xfer.req
      BY <1>1, <1>6, <1>7, <2>1
    <3>2. currentAddress' + bytesRemaining' = xfer.addr + xfer.len
      <4>1. currentAddress \in Nat
        BY DEF BootInv, TypeOK, BootTypeOK
      <4>2. currentAddress + m = xfer.addr + xfer.len
        BY <1>6
      <4>3. (currentAddress + w) + r = currentAddress + m
        BY <1>1, <1>2, <4>1
      <4> QED
        BY <1>6, <1>7, <2>1, <3>1, <4>2, <4>3, Zenon
    <3>3. usbMsgLen' # NoMsg => usbMsgLen' = r
      BY <1>4
    <3> QED
      BY <3>1, <3>2, <3>3 DEF FromMemory
  <2>2. CASE ~(w > 0)
    <3>1. w = 0 /\ 0 < PacketSize
      BY <1>2, <2>2, PacketSizeOK
    <3>2. usbMsgLen' = NoMsg
      BY <1>4, <1>7, <3>1
    <3> QED
      BY <3>2 DEF FromMemory
  <2> QED
    BY <2>1, <2>2
<1>11. ASSUME g + 0 + m = l
       PROVE  InOrder(a)'
  <2>1. InOrder(a)
    BY <1>6, <1>11
  <2>2. (\A k \in 1 .. Len(got) : got[k] = a[k])'
    BY <2>1 DEF InOrder
  <2>3. \A k \in 1 .. w : d[k] = a[g + k]
    <3>1. CASE OwnAnswer
      <4> SUFFICES ASSUME NEW k \in 1 .. w PROVE d[k] = a[g + k]
        OBVIOUS
      <4>1. w > 0
        BY <1>2
      <4>2. d[k] = IF currentRequest \in EepromPaged THEN eeprom[currentAddress + k - 1]
                   ELSE flash[currentAddress + k - 1]
        BY <1>6, <1>7, <3>1, <4>1
      <4>3. PICK t \in UNION Sessions : t = xfer
        BY XferKnown DEF BootInv
      <4>4. PICK n, b : n = t.len /\ b = t.addr
        OBVIOUS
      <4>5. n \in Nat /\ b \in Nat
        <5>1. t.addr \in Nat
          BY HostConstants
        <5> QED
          BY <4>4, <5>1, LengthsFit, Zenon
      <4>6. xfer.req \in {"READFLASH", "READEEPROM"}
        BY <3>1 DEF OwnAnswer, Paged, Writes
      <4>7. a = IF xfer.req = "READEEPROM" THEN [x \in 1 .. n |-> eeprom[b + x - 1]]
                ELSE [x \in 1 .. n |-> flash[b + x - 1]]
        BY <4>3, <4>4, <4>6, AnswerOf
      <4>8. l = n
        <5>1. DOMAIN a = 1 .. n /\ a = [x \in 1 .. n |-> a[x]]
          BY <4>7
        <5> QED
          BY <1>1, <4>5, <5>1, FunctionSeq
      <4>9. currentAddress \in Nat
        BY DEF BootInv, TypeOK, BootTypeOK
      <4>10. currentAddress + m = b + n
        BY <1>6, <3>1, <4>3, <4>4, Zenon
      <4>11. /\ g + k \in 1 .. n
             /\ currentAddress + k - 1 = b + (g + k) - 1
        BY <1>2, <1>3, <1>11, <4>5, <4>8, <4>9, <4>10
      <4>12. currentRequest \in EepromPaged <=> xfer.req = "READEEPROM"
        BY <1>6, <3>1, <4>6 DEF EepromPaged
      <4> QED
        BY <4>2, <4>7, <4>11, <4>12
    <3>2. CASE ~OwnAnswer
      <4>1. \A k \in 1 .. w : d[k] = usbMsgPtr[k]
        BY <1>6, <1>7, <3>2
      <4>2. \A k \in 1 .. m : usbMsgPtr[k] = a[l - m + k]
        BY <1>1, <1>5, <2>1, <3>2, Zenon DEF InOrder
      <4>3. \A k \in 1 .. w : k \in 1 .. m /\ l - m + k = g + k
        BY <1>2, <1>3, <1>11
      <4> QED
        BY <4>1, <4>2, <4>3, Zenon
    <3> QED
      BY <3>1, <3>2
  <2>4. (\A k \in 1 .. Len(Pending) : Pending[k] = a[Len(got) + k])'
    BY <1>1, <1>5, <1>7, <2>3, Zenon
  <2>5. (~OwnAnswer => \A k \in 1 .. Rest : usbMsgPtr[k] = a[Len(a) - Rest + k])'
    <3> SUFFICES ASSUME ~OwnAnswer
                 PROVE  \A k \in 1 .. r : usbMsgPtr'[k] = a[l - r + k]
      BY <1>1, <1>5, <1>8, Zenon
    <3>1. PICK p, n : p = usbMsgPtr /\ n = Len(p)
      OBVIOUS
    <3>2. usbMsgPtr' = SubSeq(p, w + 1, n) /\ m <= n /\ n \in Nat
      <4>1. usbMsgPtr' = SubSeq(p, w + 1, n)
        BY <1>4, <1>6, <3>1
      <4>2. usbMsgLen # NoMsg /\ usbMsgFlags = "driver"
        BY <1>6 DEF TxWanted
      <4>3. usbMsgLen <= Len(usbMsgPtr) /\ IsSeq(usbMsgPtr)
        BY <4>2 DEF BootInv, ShapeInv
      <4> QED
        BY <1>1, <3>1, <4>1, <4>3, SeqLength
    <3>3. \A k \in 1 .. n - (w + 1) + 1 : SubSeq(p, w + 1, n)[k] = p[w + 1 + k - 1]
      BY <1>2, <3>2, PartSeq
    <3>4. \A k \in 1 .. m : p[k] = a[l - m + k]
      BY <1>1, <1>5, <2>1, <3>1, Zenon DEF InOrder
    <3>5. \A k \in 1 .. r : /\ k \in 1 .. n - (w + 1) + 1 /\ w + 1 + k - 1 \in 1 .. m
                            /\ l - m + (w + 1 + k - 1) = l - r + k
      BY <1>1, <1>2, <1>3, <3>2
    <3> QED
      BY <3>2, <3>3, <3>4, <3>5, Zenon
  <2> QED
    BY <2>2, <2>4, <2>5, Zenon DEF InOrder
<1>12. g + w + r <= l
  BY <1>6, <1>9
<1>13. (usbMsgFlags = IF OwnAnswer THEN "program" ELSE "driver")'
  BY <1>4, <1>5, <1>6
<1> QED
  BY <1>1, <1>5, <1>9, <1>10, <1>11, <1>12, <1>13, Zenon DEF Served

LEMMA PollTxKeeps ==
  ASSUME BootInv, PollTx, UNCHANGED hostVars
  PROVE  /\ BootInv'
         /\ Waiting => usbTxLen' = "DATA"
<1>1. pc = "tx" /\ pc' = "bus" /\ i' = i /\ j' = j
  BY DEF PollTx, loopVars
<1>2. inactivity_timer_nsec \in 0 .. Timeout /\ inactivity_timer_nsec < Timeout
  BY <1>1 DEF BootInv, TypeOK, BootTypeOK, ShapeInv
<1>3. ASSUME Waiting, ~TxWanted
      PROVE  usbTxLen = "DATA"
  <2>1. faults = 0 /\ usbRxBuf = Free /\ stage \in {"dataIn", "statusIn"}
    BY <1>3 DEF Waiting
  <2>2. ~Unheard /\ usbRxBuf.token # "OUT"
    BY <2>1 DEF Unheard, Free
  <2>3. Reading \/ Acknowledging
    BY <2>1, <2>2 DEF BootInv, TalkInv
  <2> QED
    BY <1>3, <2>3 DEF TxWanted, Reading, Acknowledging, NoMsg
<1>4. CASE ~TxWanted
  <2>1. UNCHANGED <<usbVars, transferVars, memoryVars, requestBootLoaderExit,
                    inactivity_timer_nsec>>
    BY <1>4 DEF PollTx
  <2>2. BootInv'
    BY <1>1, <1>2, <2>1, LoopTurns DEF BootInv, TypeOK, BootTypeOK, usbVars
  <2> QED
    BY <1>3, <1>4, <2>1, <2>2 DEF usbVars
<1>5. CASE TxWanted
  <2>1. PICK d : /\ BuildTxBlock(d)
                 /\ \/ /\ usbMsgFlags = "program" /\ WantLen > 0
                       /\ d = FunctionReadData /\ FunctionRead
                    \/ /\ ~(usbMsgFlags = "program" /\ WantLen > 0) /\ d = DeviceRead
                       /\ UNCHANGED <<transferVars, memoryVars, requestBootLoaderExit,
                                      inactivity_timer_nsec>>
    BY <1>5 DEF PollTx
  <2>2. PICK m, w : m = usbMsgLen /\ w = WantLen
    OBVIOUS
  <2>3. /\ m \in Nat /\ m < 255 /\ w \in Nat /\ w <= m /\ w <= PacketSize
        /\ m - w \in Nat /\ m - w < 255 /\ (m = 0 => w = 0)
    BY <1>5, <2>2, WantLenRange, Zenon DEF BootInv
  <2>4. /\ IsSeq(d) /\ Len(d) \in Nat /\ Len(d) <= w
        /\ ~(usbMsgFlags = "program" /\ w > 0) => Len(d) = w
    <3>1. CASE usbMsgFlags = "program" /\ WantLen > 0
      <4>1. d = FunctionReadData /\ FunctionRead
        BY <2>1, <3>1
      <4> QED
        BY <1>5, <2>2, <3>1, <4>1, ProgramReads, Zenon DEF BootInv
    <3>2. CASE ~(usbMsgFlags = "program" /\ WantLen > 0)
      <4>1. d = DeviceRead
        BY <2>1, <3>2
      <4>2. Len(d) = w /\ IsSeq(d)
        BY <1>5, <2>2, <4>1, DeviceReads, Zenon DEF BootInv
      <4> QED
        BY <2>3, <4>2
    <3> QED
      BY <3>1, <3>2
  <2>5. /\ usbTxBuf' = [toggle |-> 1 - usbTxBuf.toggle, data |-> d]
        /\ usbTxLen' = "DATA"
        /\ usbMsgLen' = IF Len(d) < PacketSize THEN NoMsg ELSE m - w
        /\ usbMsgPtr' = IF usbMsgFlags = "program" THEN usbMsgPtr
                        ELSE SubSeq(usbMsgPtr, w + 1, Len(usbMsgPtr))
        /\ UNCHANGED <<usbRxBuf, usbMsgFlags, usbConfiguration>>
    BY <2>1, <2>2 DEF BuildTxBlock
  <2>6. /\ inactivity_timer_nsec' \in 0 .. Timeout /\ inactivity_timer_nsec' < Timeout
        /\ bytesRemaining' \in 0 .. 254 /\ currentAddress' \in Nat
        /\ UNCHANGED <<isLastPage, currentRequest, requestBootLoaderExit, flash, eeprom>>
    <3>1. CASE FunctionRead
      <4>1. /\ inactivity_timer_nsec' = 0
            /\ bytesRemaining' \in 0 .. 254 /\ currentAddress' \in Nat
            /\ UNCHANGED <<isLastPage, currentRequest, requestBootLoaderExit, flash, eeprom>>
        BY <1>5, <3>1, ProgramReads DEF BootInv
      <4> QED
        BY <4>1, BootConstants
    <3>2. CASE UNCHANGED <<transferVars, memoryVars, requestBootLoaderExit,
                           inactivity_timer_nsec>>
      BY <1>2, <3>2 DEF BootInv, TypeOK, BootTypeOK, transferVars, memoryVars
    <3> QED
      BY <2>1, <3>1, <3>2
  <2>7. usbMsgLen' \in 0 .. NoMsg /\ (usbMsgLen' = NoMsg => Len(d) < PacketSize)
    <3>1. /\ NoMsg \in 0 .. NoMsg
          /\ \A r \in Nat : r < 255 => r \in 0 .. NoMsg /\ r # NoMsg
      BY DEF NoMsg
    <3> QED
      BY <2>3, <2>5, <3>1, Zenon
  <2>8. TypeOK'
    <3>1. usbTxBuf'.toggle \in {0, 1}
      BY <2>5 DEF BootInv, TypeOK, BootTypeOK, UsbTypeOK
    <3>2. Len(d) <= PacketSize
      BY <2>3, <2>4, PacketSizeOK
    <3>3. Len(usbTxBuf'.data) <= PacketSize
      BY <2>5, <3>2
    <3>4. UsbTypeOK'
      BY <2>5, <2>7, <3>1, <3>3 DEF BootInv, TypeOK, BootTypeOK, UsbTypeOK
    <3> QED
      BY <1>1, <2>6, <3>4 DEF BootInv, TypeOK, BootTypeOK, hostVars
  <2>9. ShapeInv'
    <3>1. CASE usbMsgFlags = "program"
      BY <1>1, <2>4, <2>5, <2>6, <3>1 DEF BootInv, ShapeInv, hostVars, Writes
    <3>2. CASE usbMsgFlags # "program"
      <4>1. PICK p, n : p = usbMsgPtr /\ n = Len(p)
        OBVIOUS
      <4>2. usbMsgFlags = "driver"
        BY <3>2 DEF BootInv, TypeOK, BootTypeOK, UsbTypeOK
      <4>3. n \in Nat /\ m <= n
        BY <1>5, <2>2, <4>1, <4>2, SeqLength DEF BootInv, ShapeInv, TxWanted
      <4>4. /\ IsSeq(SubSeq(p, w + 1, n))
            /\ Len(SubSeq(p, w + 1, n)) = IF w + 1 <= n THEN n - (w + 1) + 1 ELSE 0
        BY <2>3, <4>3, PartSeq
      <4>5. m - w <= Len(SubSeq(p, w + 1, n))
        BY <2>3, <4>3, <4>4
      <4>6. usbMsgPtr' = SubSeq(p, w + 1, n)
        BY <2>5, <3>2, <4>1
      <4>7. IsSeq(usbMsgPtr)' /\ (usbMsgLen # NoMsg => usbMsgLen <= Len(usbMsgPtr))'
        BY <2>5, <4>4, <4>5, <4>6
      <4> QED
        BY <1>1, <2>4, <2>5, <2>6, <4>7 DEF BootInv, ShapeInv, hostVars, Writes
    <3> QED
      BY <3>1, <3>2
  <2>10. Unheard' = Unheard /\ Writes(xfer)' = Writes(xfer)
    BY <2>5 DEF Unheard, Writes, hostVars
  <2>11. AnswerInv'
    <3>1. ASSUME Served(Answer(xfer)), ~Writes(xfer)
          PROVE  Served(Answer(xfer))'
      <4>1. PICK a : a = Answer(xfer)
        OBVIOUS
      <4>2. IsSeq(a) /\ Served(a)
        <5>1. PICK t \in UNION Sessions : t = xfer
          BY XferKnown DEF BootInv
        <5> QED
          BY <3>1, <4>1, <5>1, AnswerIsSeq, Zenon
      <4>3. Served(a)'
        BY <1>5, <2>1, <3>1, <4>1, <4>2, BlockServes DEF hostVars
      <4>4. Answer(xfer)' = a
        BY <2>5, <2>6, <4>1, AnswerKept DEF BootInv, hostVars
      <4> QED
        BY <4>3, <4>4, ServedNext
    <3> QED
      BY <2>5, <2>10, <3>1 DEF BootInv, AnswerInv, hostVars
  <2>12. usbTxLen # "DATA" /\ usbMsgLen # NoMsg /\ usbTxBuf.toggle \in {0, 1}
    BY <1>5 DEF TxWanted, BootInv, TypeOK, BootTypeOK, UsbTypeOK
  <2>13. Reading => Reading'
    <3> HAVE Reading
    <3>1. usbTxBuf.toggle = 1 - toggle /\ toggle \in {0, 1}
      BY <2>12 DEF Reading, BootInv, TypeOK
    <3>2. usbTxBuf'.toggle = toggle'
      BY <2>5, <3>1 DEF hostVars
    <3> QED
      BY <2>5, <2>7, <3>2 DEF Reading
  <2>14. ~Writing
    BY <2>12 DEF Writing
  <2>15. Acknowledging => Acknowledging'
    <3> HAVE Acknowledging
    <3>1. m = 0 /\ usbTxBuf.toggle = 0 /\ usbRxBuf = Free
      BY <2>2, <2>12 DEF Acknowledging
    <3>2. Len(d) = 0
      BY <2>3, <2>4, <3>1
    <3>3. d = <<>> /\ Len(d) < PacketSize
      BY <2>4, <3>2, EmptyOnly, PacketSizeOK
    <3>4. usbTxBuf'.toggle = 1 /\ usbTxBuf'.data = <<>> /\ usbMsgLen' = NoMsg
      BY <2>5, <3>1, <3>3
    <3> QED
      BY <2>5, <3>1, <3>4 DEF Acknowledging
  <2>16. TalkInv'
    BY <2>5, <2>10, <2>13, <2>14, <2>15 DEF BootInv, TalkInv, hostVars
  <2> QED
    BY <2>5, <2>8, <2>9, <2>11, <2>16 DEF BootInv
<1> QED
  BY <1>4, <1>5

-----------------------------------------------------------------------------
LEMMA BootInvInit == Init => BootInv
<1> SUFFICES ASSUME Init PROVE BootInv
  OBVIOUS
<1>1. /\ usbRxBuf = Free /\ usbTxLen = "NAK" /\ usbTxBuf = [toggle |-> 0, data |-> <<>>]
      /\ usbMsgPtr = <<>> /\ usbMsgLen = NoMsg /\ usbMsgFlags = "driver"
      /\ currentAddress = 0 /\ bytesRemaining = 0 /\ isLastPage = FALSE
      /\ currentRequest = "none" /\ requestBootLoaderExit = FALSE
      /\ inactivity_timer_nsec = 0 /\ i = 0 /\ j = 0 /\ pc = "rx"
      /\ stage = "idle" /\ sent = 0 /\ got = <<>> /\ toggle = 1 /\ session \in Sessions
      /\ xfer \in session /\ se0 = FALSE /\ faults = 0 /\ span = {}
  BY DEF Init, BootInit, UsbInit
<1>2. IsSeq(<<>>) /\ Len(<<>>) = 0
  BY ShortSeq
<1>3. UsbTypeOK
  BY <1>1, <1>2, PacketSizeOK DEF UsbTypeOK, NoMsg
<1>4. TypeOK
  <2>1. 0 \in 0 .. Timeout /\ 0 \in 0 .. Wrap - 1 /\ 0 \in 0 .. 254 /\ 0 \in Nat
    BY BootConstants
  <2>2. BootTypeOK
    BY <1>1, <1>3, <2>1 DEF BootTypeOK
  <2> QED
    BY <1>1, <2>1, <2>2 DEF TypeOK
<1>5. ShapeInv
  <2>1. xfer.len \in Nat
    BY <1>1, LengthsFit
  <2> QED
    BY <1>1, <1>2, <2>1, BootConstants DEF ShapeInv, Free
<1>6. AnswerInv /\ TalkInv
  BY <1>1 DEF AnswerInv, TalkInv
<1> QED
  BY <1>4, <1>5, <1>6 DEF BootInv

LEMMA BootInvNext == BootInv /\ [Next]_vars => BootInv'
<1> SUFFICES ASSUME BootInv, [Next]_vars PROVE BootInv'
  OBVIOUS
<1>1. CASE UNCHANGED vars
  BY <1>1, HostPauses DEF vars, hostVars, BootInv, TypeOK
<1>2. CASE Host
  <2>1. ASSUME NEW t \in session, Start(t) PROVE BootInv'
    BY <2>1, StartKeeps
  <2>2. ASSUME NEW lost \in BOOLEAN, SetupStage(lost) PROVE BootInv'
    BY <2>2, SetupStageKeeps
  <2>3. ASSUME NEW lost \in BOOLEAN, OutStage(lost) PROVE BootInv'
    BY <2>3, OutStageKeeps
  <2>4. ASSUME NEW lost \in BOOLEAN, InStage(lost) PROVE BootInv'
    BY <2>4, InStageKeeps
  <2>5. ASSUME NEW lost \in BOOLEAN, StatusIn(lost) PROVE BootInv'
    BY <2>5, StatusInKeeps
  <2>6. CASE GiveUp
    BY <2>6, HostPauses DEF GiveUp, Quiet, BootInv, TypeOK
  <2>7. CASE ResetBus
    BY <2>7, HostPauses DEF ResetBus, Quiet, BootInv, TypeOK
  <2>8. CASE EndReset
    BY <2>8, HostPauses DEF EndReset, Quiet, BootInv, TypeOK
  <2> QED
    BY <1>2, <2>1, <2>2, <2>3, <2>4, <2>5, <2>6, <2>7, <2>8, StatusOutKeeps DEF Host
<1>3. CASE Main
  BY <1>3, PollSetupKeeps, PollOutKeeps, PollNothingKeeps, PollTxKeeps, LoopEndKeeps
    DEF Main, MainStep
<1> QED
  BY <1>1, <1>2, <1>3 DEF Next

-----------------------------------------------------------------------------
(* What holds at every moment of a session, whatever the programmer sends,  *)
(* loses, gives up or resets.                                               *)
THEOREM BootInvariant == Spec => []BootInv
<1> QED
  BY BootInvInit, BootInvNext, PTL DEF Spec

(* No counter of the boot loader leaves its byte, no packet is longer than  *)
(* the buffer, and what the host believes loaded is flash.                  *)
THEOREM BootTypeCorrect == Spec => []TypeOK
<1>1. BootInv => TypeOK
  BY DEF BootInv
<1> QED
  BY <1>1, BootInvariant, PTL

(* A reply that has the length of the answer is the answer, whatever was    *)
(* lost, repeated or given up before: usbProcessRx() and usbBuildTxBlock(). *)
THEOREM AnswersAreExact == Spec => []AnswerIsExact
<1>1. BootInv => AnswerIsExact
  <2> SUFFICES ASSUME BootInv, stage = "statusOut", Len(got) = Len(Answer(xfer))
               PROVE  got = Answer(xfer)
    BY DEF AnswerIsExact
  <2>1. PICK a : a = Answer(xfer)
    OBVIOUS
  <2>2. Served(a) /\ Len(got) = Len(a)
    BY <2>1 DEF BootInv, AnswerInv
  <2>3. IsSeq(a) /\ IsSeq(got)
    <3>1. PICK t \in UNION Sessions : t = xfer
      BY XferKnown DEF BootInv
    <3>2. IsSeq(a)
      BY <2>1, <3>1, AnswerIsSeq, Zenon
    <3> QED
      BY <3>2 DEF BootInv, ShapeInv
  <2>4. Len(a) \in Nat /\ Len(Pending) \in Nat /\ Rest \in Nat
    <3>1. IsSeq(Pending)
      BY ShortSeq DEF Pending, BootInv, ShapeInv
    <3>2. usbMsgLen \in 0 .. 255
      BY DEF BootInv, TypeOK, BootTypeOK, UsbTypeOK, NoMsg
    <3>3. Rest \in Nat
      BY <3>2 DEF Rest
    <3> QED
      BY <2>3, <3>1, <3>3, SeqLength
  <2>5. Len(got) + Len(Pending) + Rest = Len(a)
    BY <2>2, <2>4 DEF Served
  <2>6. \A k \in 1 .. Len(got) : got[k] = a[k]
    BY <2>2, <2>5 DEF Served, InOrder
  <2> QED
    BY <2>1, <2>2, <2>3, <2>6, SeqsEqual
<1> QED
  BY <1>1, BootInvariant, PTL

(* Device and programmer never wait for each other: a poll that finds the   *)
(* host waiting for a packet leaves one ready, as long as no handshake was  *)
(* lost.                                                                    *)
THEOREM DeviceNeverMute == Spec => NeverMute
<1>1. BootInv /\ [Next]_vars =>
        [pc = "tx" /\ pc' = "bus" /\ Waiting => usbTxLen' = "DATA"]_vars
  <2> SUFFICES ASSUME BootInv, Next, pc = "tx", pc' = "bus", Waiting
               PROVE  usbTxLen' = "DATA"
    BY DEF vars
  <2>1. ~Host
    BY DEF Host, Start, SetupStage, OutStage, InStage, StatusIn, StatusOut, GiveUp, ResetBus,
      EndReset, Quiet, bootVars
  <2>2. PollTx /\ UNCHANGED hostVars
    BY <2>1 DEF Next, Main, MainStep, PollSetup, PollOut, PollNothing, LoopEnd
  <2> QED
    BY <2>2, PollTxKeeps
<1> QED
  BY <1>1, BootInvariant, PTL DEF Spec, NeverMute

-----------------------------------------------------------------------------
(* The second part: what is written.  First pages and words: usbFunctionWrite() goes   *)
(* through a packet word by word, and the run of words that a transfer brings fills    *)
(* page after page of the flash, the last one in the page buffer.                      *)

\* Where a page begins.
LEMMA PageDivision ==
  ASSUME NEW a \in Nat
  PROVE  \E q \in Nat, r \in Nat :
           /\ PageOf(a) = PageSize * q /\ a = PageSize * q + r /\ r < PageSize
           /\ a % PageSize = r
<1>1. PageSize \in Nat /\ PageSize > 0
  BY BootConstants
<1>2. PICK p \in Nat : p = PageSize /\ p > 0
  BY <1>1
<1>3. PICK q \in Nat, r \in Nat : q = a \div p /\ a = p * q + r /\ r < p /\ a % p = r
  BY <1>2
<1>4. (a \div p) * p = p * q
  BY <1>3
<1> QED
  BY <1>2, <1>3, <1>4 DEF PageOf

LEMMA PageFacts ==
  ASSUME NEW a \in Nat
  PROVE  /\ PageOf(a) \in Nat /\ PageOf(a) <= a /\ a < PageOf(a) + PageSize
         /\ a % PageSize = a - PageOf(a)
         /\ a % PageSize = 0 <=> PageOf(a) = a
<1>1. PICK p \in Nat : p = PageSize /\ p > 0
  BY BootConstants
<1>2. PICK q \in Nat, r \in Nat :
        PageOf(a) = p * q /\ a = p * q + r /\ r < p /\ a % p = r
  BY <1>1, PageDivision
<1>3. PICK k \in Nat : k = p * q
  OBVIOUS
<1> QED
  BY <1>1, <1>2, <1>3

\* A page's cells are those from its beginning to the next.
LEMMA PageUnique ==
  ASSUME NEW a \in Nat, NEW b \in Nat, PageOf(a) <= b, b < PageOf(a) + PageSize
  PROVE  PageOf(b) = PageOf(a)
<1>1. PICK p \in Nat : p = PageSize /\ p > 0
  BY BootConstants
<1>2. PICK q \in Nat : PageOf(a) = p * q
  BY <1>1, PageDivision
<1>3. PICK k \in Nat, r \in Nat : PageOf(b) = p * k /\ b = p * k + r /\ r < p
  BY <1>1, PageDivision
<1>4. ~(k < q)
  <2> SUFFICES ASSUME k + 1 <= q PROVE FALSE
    OBVIOUS
  <2>1. p * (k + 1) <= p * q /\ p * (k + 1) = p * k + p
    OBVIOUS
  <2> QED
    BY <1>1, <1>2, <1>3, <2>1
<1>5. ~(q < k)
  <2> SUFFICES ASSUME q + 1 <= k PROVE FALSE
    OBVIOUS
  <2>1. p * (q + 1) <= p * k /\ p * (q + 1) = p * q + p
    OBVIOUS
  <2> QED
    BY <1>1, <1>2, <1>3, <2>1
<1>6. k = q
  BY <1>4, <1>5
<1> QED
  BY <1>2, <1>3, <1>6

LEMMA PageOrder ==
  ASSUME NEW a \in Nat, NEW b \in Nat, a <= b
  PROVE  /\ PageOf(a) <= PageOf(b)
         /\ PageOf(a) = PageOf(b) \/ a < PageOf(b)
<1>1. PageSize \in Nat
  BY BootConstants
<1>2. /\ PageOf(a) \in Nat /\ PageOf(a) <= a
      /\ PageOf(b) \in Nat /\ PageOf(b) <= b /\ b < PageOf(b) + PageSize
  BY PageFacts
<1>3. CASE a < PageOf(b)
  BY <1>2, <1>3
<1>4. CASE ~(a < PageOf(b))
  <2>1. PageOf(b) <= a /\ a < PageOf(b) + PageSize
    BY <1>1, <1>2, <1>4
  <2>2. PageOf(a) = PageOf(b)
    BY <2>1, PageUnique
  <2> QED
    BY <1>2, <2>2
<1> QED
  BY <1>3, <1>4

LEMMA PageOfPage ==
  ASSUME NEW a \in Nat
  PROVE  /\ PageOf(PageOf(a)) = PageOf(a)
         /\ PageOf(PageOf(a) + PageSize) = PageOf(a) + PageSize
<1>1. PICK p \in Nat : p = PageSize /\ p > 0
  BY BootConstants
<1>2. PICK k \in Nat : PageOf(a) = k
  BY PageFacts
<1>3. PageOf(k) = k
  <2>1. PageOf(a) <= k /\ k < PageOf(a) + PageSize
    BY <1>1, <1>2
  <2>2. PageOf(k) = PageOf(a)
    BY <2>1, PageUnique
  <2> QED
    BY <1>2, <2>2
<1>4. PICK q \in Nat : k = p * q
  BY <1>1, <1>2, PageDivision
<1>5. PICK m \in Nat, r \in Nat :
        /\ PageOf(k + p) = p * m /\ k + p = p * m + r /\ r < p
  <2>1. k + p \in Nat
    OBVIOUS
  <2> QED
    BY <1>1, <2>1, PageDivision
<1>6. k + p = p * (q + 1)
  BY <1>4
<1>7. m = q + 1
  <2>1. ~(m < q + 1)
    <3> SUFFICES ASSUME m + 1 <= q + 1 PROVE FALSE
      OBVIOUS
    <3>1. p * (m + 1) <= p * (q + 1) /\ p * (m + 1) = p * m + p
      OBVIOUS
    <3> QED
      BY <1>5, <1>6, <3>1
  <2>2. ~(q + 1 < m)
    <3> SUFFICES ASSUME q + 2 <= m PROVE FALSE
      OBVIOUS
    <3>1. p * (q + 2) <= p * m /\ p * (q + 2) = p * (q + 1) + p
      OBVIOUS
    <3> QED
      BY <1>1, <1>5, <1>6, <3>1
  <2> QED
    BY <2>1, <2>2
<1> QED
  BY <1>1, <1>2, <1>3, <1>5, <1>6, <1>7

\* A word lies in one page; the next one in the same, or at the start of the next.
LEMMA WordInPage ==
  ASSUME NEW e \in Nat, e % 2 = 0
  PROVE  /\ e + 1 < PageOf(e) + PageSize /\ PageOf(e + 1) = PageOf(e)
         /\ (e + 2) % PageSize = 0 => e + 2 = PageOf(e) + PageSize /\ PageOf(e + 2) = e + 2
         /\ (e + 2) % PageSize # 0 => e + 2 < PageOf(e) + PageSize /\ PageOf(e + 2) = PageOf(e)
<1>1. PICK p \in Nat : p = PageSize /\ p > 0 /\ p % 2 = 0
  BY BootConstants
<1>2. PICK q \in Nat : PageOf(e) = p * q
  BY <1>1, PageDivision
<1>3. PICK h \in Nat : p = 2 * h
  BY <1>1
<1>4. PICK n \in Nat : n = h * q
  OBVIOUS
<1>5. p * q = 2 * n
  BY <1>3, <1>4
<1>6. PICK k \in Nat : k = PageOf(e) /\ k = 2 * n /\ k <= e /\ e < k + p
  BY <1>1, <1>2, <1>5, PageFacts
<1>7. e + 1 < k + p
  BY <1>3, <1>6
<1>8. PageOf(e + 1) = k
  <2>1. e + 1 \in Nat /\ PageOf(e) <= e + 1 /\ e + 1 < PageOf(e) + PageSize
    BY <1>1, <1>6, <1>7
  <2>2. PageOf(e + 1) = PageOf(e)
    BY <2>1, PageUnique
  <2> QED
    BY <1>6, <2>2
<1>9. CASE e + 2 < k + p
  <2>1. PageOf(e + 2) = k
    <3>1. e + 2 \in Nat /\ PageOf(e) <= e + 2 /\ e + 2 < PageOf(e) + PageSize
      BY <1>1, <1>6, <1>9
    <3>2. PageOf(e + 2) = PageOf(e)
      BY <3>1, PageUnique
    <3> QED
      BY <1>6, <3>2
  <2>2. (e + 2) % PageSize # 0
    <3>1. e + 2 \in Nat /\ k # e + 2
      BY <1>6
    <3>2. (e + 2) % PageSize = 0 <=> PageOf(e + 2) = e + 2
      BY <3>1, PageFacts, Zenon
    <3> QED
      BY <2>1, <3>1, <3>2
  <2> QED
    BY <1>1, <1>6, <1>7, <1>8, <1>9, <2>1, <2>2
<1>10. CASE ~(e + 2 < k + p)
  <2>1. e + 2 = k + p
    BY <1>6, <1>7, <1>10
  <2>2. PageOf(e + 2) = e + 2
    BY <1>1, <1>6, <2>1, PageOfPage
  <2>3. (e + 2) % PageSize = 0
    <3>1. e + 2 \in Nat
      OBVIOUS
    <3> QED
      BY <2>2, <3>1, PageFacts
  <2> QED
    BY <1>1, <1>6, <1>7, <1>8, <2>1, <2>2, <2>3
<1> QED
  BY <1>9, <1>10

\* The flash ends with a page.
LEMMA PageInFlash ==
  ASSUME NEW a \in Nat, a < FlashSize
  PROVE  PageOf(a) + PageSize <= FlashSize
<1>1. PICK p \in Nat, f \in Nat : p = PageSize /\ p > 0 /\ f = FlashSize /\ f % p = 0
  BY BootConstants
<1>2. PICK m \in Nat, r \in Nat :
        PageOf(f) = p * m /\ f = p * m + r /\ r < p /\ f % p = r
  BY <1>1, PageDivision
<1>3. PICK q \in Nat : PageOf(a) = p * q
  BY <1>1, PageDivision
<1>4. f = p * m
  BY <1>1, <1>2
<1>5. p * q <= a
  BY <1>3, PageFacts
<1>6. q + 1 <= m
  <2> SUFFICES ASSUME m <= q PROVE FALSE
    OBVIOUS
  <2>1. p * m <= p * q
    OBVIOUS
  <2> QED
    BY <1>1, <1>4, <1>5, <2>1
<1>7. p * (q + 1) <= p * m /\ p * (q + 1) = p * q + p
  BY <1>6
<1> QED
  BY <1>1, <1>3, <1>4, <1>7

FlashCells == 0 .. FlashSize - 1
PageCells == 0 .. PageSize - 1

\* What the programmer writes is not an erased cell.
LEMMA ImageIsNotBlank == \A a : Image(a) # Blank
<1> SUFFICES ASSUME NEW a, Image(a) = Blank PROVE FALSE
  OBVIOUS
<1>1. Image(a)[1] = "image" /\ Blank[1] = "blank"
  BY DEF Image, Blank
<1> QED
  BY <1>1

\* A run of words from the page at b on up to the word at e has been loaded: its
\* full pages hold the image, the page begun is erased and its words are in the
\* buffer. Of a page that words were left over for ("bad") nothing is said.
Excused(bad, b, a) == bad /\ PageOf(a) = b
Blanked(mem, e) == \A a \in PageOf(e) .. PageOf(e) + PageSize - 1 : mem[a] = Blank
Buffered(buf, e) ==
  \A o \in PageCells : buf[o] = IF PageOf(e) + o < e THEN Image(PageOf(e) + o) ELSE Blank
Loading(mem, buf, bad, b, e) ==
  /\ \A a \in b .. PageOf(e) - 1 : Excused(bad, b, a) \/ mem[a] = Image(a)
  /\ Excused(bad, b, e) \/ /\ e # PageOf(e) => Blanked(mem, e)
                           /\ Buffered(buf, e)

\* What one word does: the flash with the page begun erased, the buffer with the
\* word in it, and whether both are brought together.
ErasedFor(mem, e) == IF AtPageStart(e) THEN Erase(mem, e) ELSE mem

\* What a word leaves in the flash and in the buffer.
LEMMA StoreWordCases ==
  ASSUME NEW s, NEW e, NEW low, NEW high, NEW finish
  PROVE  /\ AtPageStart(e + 2) \/ finish =>
              /\ StoreWord(s, e, low, high, finish).flash =
                   WritePage(ErasedFor(s.flash, e), Fill(s.buf, e, low, high), e)
              /\ StoreWord(s, e, low, high, finish).buf = BlankPage
         /\ ~(AtPageStart(e + 2) \/ finish) =>
              /\ StoreWord(s, e, low, high, finish).flash = ErasedFor(s.flash, e)
              /\ StoreWord(s, e, low, high, finish).buf = Fill(s.buf, e, low, high)
<1> DEFINE mem == ErasedFor(s.flash, e)
           buf == Fill(s.buf, e, low, high)
<1>1. StoreWord(s, e, low, high, finish) =
          IF AtPageStart(e + 2) \/ finish
          THEN [flash |-> WritePage(mem, buf, e), buf |-> BlankPage]
          ELSE [flash |-> mem, buf |-> buf]
  BY Zenon DEF StoreWord, ErasedFor
<1> HIDE DEF mem, buf
<1>2. PICK r : r = StoreWord(s, e, low, high, finish)
  OBVIOUS
<1>3. /\ AtPageStart(e + 2) \/ finish => r.flash = WritePage(mem, buf, e) /\ r.buf = BlankPage
      /\ ~(AtPageStart(e + 2) \/ finish) => r.flash = mem /\ r.buf = buf
  BY <1>1, <1>2
<1> QED
  BY <1>2, <1>3, Zenon DEF mem, buf

\* Which cells the erasing, the writing and the filling touch.
LEMMA ErasedCells ==
  ASSUME NEW m, DOMAIN m = FlashCells, NEW e
  PROVE  /\ DOMAIN ErasedFor(m, e) = FlashCells
         /\ \A c \in FlashCells : PageOf(c) # PageOf(e) => ErasedFor(m, e)[c] = m[c]
         /\ AtPageStart(e) =>
              \A c \in FlashCells : PageOf(c) = PageOf(e) => ErasedFor(m, e)[c] = Blank
         /\ ~AtPageStart(e) => ErasedFor(m, e) = m
  BY DEF ErasedFor, Erase

LEMMA WrittenCells ==
  ASSUME NEW mem, DOMAIN mem = FlashCells, NEW buf, NEW e
  PROVE  /\ DOMAIN WritePage(mem, buf, e) = FlashCells
         /\ \A c \in FlashCells : PageOf(c) # PageOf(e) => WritePage(mem, buf, e)[c] = mem[c]
         /\ \A c \in FlashCells :
              PageOf(c) = PageOf(e) /\ mem[c] = Blank =>
                WritePage(mem, buf, e)[c] = buf[c % PageSize]
<1>1. PICK w : w = WritePage(mem, buf, e)
  OBVIOUS
<1>2. w = [c \in FlashCells |->
             IF PageOf(c) # PageOf(e) \/ buf[c % PageSize] = Blank THEN mem[c]
             ELSE IF mem[c] = Blank THEN buf[c % PageSize] ELSE Junk]
  BY <1>1, Zenon DEF WritePage
<1>3. DOMAIN w = FlashCells
  BY <1>2
<1>4. \A c \in FlashCells : w[c] =
             IF PageOf(c) # PageOf(e) \/ buf[c % PageSize] = Blank THEN mem[c]
             ELSE IF mem[c] = Blank THEN buf[c % PageSize] ELSE Junk
  BY <1>2
<1>5. /\ \A c \in FlashCells : PageOf(c) # PageOf(e) => w[c] = mem[c]
      /\ \A c \in FlashCells : PageOf(c) = PageOf(e) /\ mem[c] = Blank => w[c] = buf[c % PageSize]
  BY <1>4
<1> QED
  BY <1>1, <1>3, <1>5, Zenon

LEMMA FilledCells ==
  ASSUME NEW b, DOMAIN b = PageCells, NEW e \in Nat, e % 2 = 0, NEW low, NEW high
  PROVE  /\ DOMAIN Fill(b, e, low, high) = PageCells
         /\ e - PageOf(e) \in PageCells /\ e - PageOf(e) + 1 \in PageCells
         /\ \A o \in PageCells : o # e - PageOf(e) /\ o # e - PageOf(e) + 1
                                   => Fill(b, e, low, high)[o] = b[o]
         /\ b[e - PageOf(e)] = Blank => Fill(b, e, low, high)[e - PageOf(e)] = low
         /\ b[e - PageOf(e) + 1] = Blank => Fill(b, e, low, high)[e - PageOf(e) + 1] = high
<1>0. PICK buf : buf = Fill(b, e, low, high)
  OBVIOUS
<1>1. PICK x \in Nat : x = e - PageOf(e) /\ x = e % PageSize /\ x + 1 < PageSize
  <2>1. PageOf(e) \in Nat /\ PageOf(e) <= e /\ e % PageSize = e - PageOf(e)
    BY PageFacts
  <2>2. e + 1 < PageOf(e) + PageSize
    BY WordInPage
  <2>3. PageSize \in Nat
    BY BootConstants
  <2> QED
    BY <2>1, <2>2, <2>3
<1>2. buf = [o \in PageCells |->
               IF o \notin {x, x + 1} THEN b[o]
               ELSE IF b[o] # Blank THEN Junk
               ELSE IF o = x THEN low ELSE high]
  BY <1>0, <1>1, Zenon DEF Fill
<1>3. PageSize \in Nat
  BY BootConstants
<1>4. x \in PageCells /\ x + 1 \in PageCells /\ x + 1 # x
  BY <1>1, <1>3 DEF PageCells
<1>5. DOMAIN buf = PageCells
  BY <1>2
<1>6. \A o \in PageCells : o # x /\ o # x + 1 => buf[o] = b[o]
  BY <1>2
<1>7. b[x] = Blank => buf[x] = low
  BY <1>2, <1>4
<1>8. b[x + 1] = Blank => buf[x + 1] = high
  BY <1>2, <1>4
<1> QED
  BY <1>0, <1>1, <1>4, <1>5, <1>6, <1>7, <1>8

\* The memories as a packet finds them.
Memories(s) == DOMAIN s.flash = FlashCells /\ DOMAIN s.buf = PageCells

\* No word touches a page but its own.
LEMMA StoreWordStays ==
  ASSUME NEW s, Memories(s), NEW e \in Nat, e % 2 = 0, NEW low, NEW high, NEW finish
  PROVE  /\ Memories(StoreWord(s, e, low, high, finish))
         /\ \A c \in FlashCells : PageOf(c) # PageOf(e) =>
              StoreWord(s, e, low, high, finish).flash[c] = s.flash[c]
<1> DEFINE mem == ErasedFor(s.flash, e)
           buf == Fill(s.buf, e, low, high)
           r == StoreWord(s, e, low, high, finish)
           w == WritePage(mem, buf, e)
<1>1. /\ DOMAIN mem = FlashCells
      /\ \A c \in FlashCells : PageOf(c) # PageOf(e) => mem[c] = s.flash[c]
  BY ErasedCells DEF Memories
<1>2. DOMAIN buf = PageCells
  BY FilledCells DEF Memories
<1>3. /\ AtPageStart(e + 2) \/ finish => r.flash = w /\ r.buf = BlankPage
      /\ ~(AtPageStart(e + 2) \/ finish) => r.flash = mem /\ r.buf = buf
  BY StoreWordCases, SMT
<1> HIDE DEF mem, buf, r
<1>4. /\ DOMAIN w = FlashCells
      /\ \A c \in FlashCells : PageOf(c) # PageOf(e) => w[c] = mem[c]
  BY <1>1, WrittenCells
<1>5. DOMAIN BlankPage = PageCells
  BY DEF BlankPage, PageCells
<1> HIDE DEF w
<1>6. Memories(r) /\ \A c \in FlashCells : PageOf(c) # PageOf(e) => r.flash[c] = s.flash[c]
  BY <1>1, <1>2, <1>3, <1>4, <1>5, Zenon DEF Memories
<1> QED
  BY <1>6, Zenon DEF r

\* A run, and the place of its next word.
Run(s, bad, b, e) ==
  /\ Memories(s) /\ b \in Nat /\ e \in FlashCells /\ e % 2 = 0 /\ b <= e
  /\ Loading(s.flash, s.buf, bad, b, e)

\* With that word in the buffer, and nothing left over, the flash is blank and
\* the buffer holds the image up to it.
LEMMA WordFilled ==
  ASSUME NEW s, NEW bad, NEW b, NEW e, Run(s, bad, b, e), ~Excused(bad, b, e), NEW high
  PROVE  /\ \A c \in FlashCells : PageOf(c) = PageOf(e) => ErasedFor(s.flash, e)[c] = Blank
         /\ \A o \in PageCells : PageOf(e) + o < e + 1
              => Fill(s.buf, e, Image(e), high)[o] = Image(PageOf(e) + o)
         /\ \A o \in PageCells : PageOf(e) + o = e + 1
              => Fill(s.buf, e, Image(e), high)[o] = high
         /\ \A o \in PageCells : PageOf(e) + o > e + 1
              => Fill(s.buf, e, Image(e), high)[o] = Blank
<1>0. e \in Nat /\ PageSize \in Nat /\ FlashSize \in Nat /\ e % 2 = 0
  BY BootConstants DEF FlashCells, Run
<1>1. PICK g \in Nat : g = PageOf(e) /\ g <= e
  BY <1>0, PageFacts
<1>2. AtPageStart(e) <=> g = e
  BY <1>0, <1>1, PageFacts, Zenon DEF AtPageStart
<1> DEFINE mem == ErasedFor(s.flash, e)
           buf == Fill(s.buf, e, Image(e), high)
<1>3. (e # g => Blanked(s.flash, e)) /\ Buffered(s.buf, e)
  BY <1>1, Zenon DEF Run, Loading
<1>4. \A c \in FlashCells : PageOf(c) = g => mem[c] = Blank
  <2>0. DOMAIN s.flash = FlashCells
    BY Zenon DEF Run, Memories
  <2>1. CASE AtPageStart(e)
    <3>1. \A c \in FlashCells : PageOf(c) = PageOf(e) => mem[c] = Blank
      BY <2>0, <2>1, ErasedCells
    <3> QED
      BY <1>1, <3>1, Zenon
  <2>2. CASE ~AtPageStart(e)
    <3>1. mem = s.flash
      BY <2>2, ErasedCells, Zenon DEF Run, Memories
    <3>2. Blanked(s.flash, e)
      BY <1>2, <1>3, <2>2
    <3> SUFFICES ASSUME NEW c \in FlashCells, PageOf(c) = g PROVE s.flash[c] = Blank
      BY <3>1
    <3>3. c \in Nat /\ PageOf(c) <= c /\ c < PageOf(c) + PageSize
      BY PageFacts DEF FlashCells
    <3>4. c \in PageOf(e) .. PageOf(e) + PageSize - 1
      BY <1>0, <1>1, <3>3
    <3> QED
      BY <3>2, <3>4 DEF Blanked
  <2> QED
    BY <2>1, <2>2
<1>5. PICK x \in Nat : x = e - PageOf(e) /\ x = e - g
  BY <1>0, <1>1
<1>6. /\ x \in PageCells /\ x + 1 \in PageCells
      /\ \A o \in PageCells : o # x /\ o # x + 1 => buf[o] = s.buf[o]
      /\ s.buf[x] = Blank => buf[x] = Image(e)
      /\ s.buf[x + 1] = Blank => buf[x + 1] = high
  <2>1. DOMAIN s.buf = PageCells
    BY Zenon DEF Run, Memories
  <2>2. /\ e - PageOf(e) \in PageCells /\ e - PageOf(e) + 1 \in PageCells
        /\ \A o \in PageCells : o # e - PageOf(e) /\ o # e - PageOf(e) + 1
                                   => buf[o] = s.buf[o]
        /\ s.buf[e - PageOf(e)] = Blank => buf[e - PageOf(e)] = Image(e)
        /\ s.buf[e - PageOf(e) + 1] = Blank => buf[e - PageOf(e) + 1] = high
    BY <1>0, <2>1, FilledCells
  <2> QED
    BY <1>5, <2>2, Zenon
<1> HIDE DEF mem, buf
<1>7. \A o \in PageCells : s.buf[o] = IF g + o < e THEN Image(g + o) ELSE Blank
  BY <1>1, <1>3, Zenon DEF Buffered
<1>8. ASSUME NEW o \in PageCells
      PROVE  /\ g + o < e => o # x /\ o # x + 1
             /\ g + o = e <=> o = x
             /\ g + o = e + 1 <=> o = x + 1
             /\ g + o > e + 1 => o # x /\ o # x + 1 /\ ~(g + o < e)
             /\ g + o < e + 1 => g + o < e \/ g + o = e
             /\ g + o = e => ~(g + o < e)
             /\ g + o = e + 1 => ~(g + o < e)
  BY <1>0, <1>1, <1>5 DEF PageCells
<1>9. ASSUME NEW o \in PageCells
      PROVE  /\ g + o < e + 1 => buf[o] = Image(g + o)
             /\ g + o = e + 1 => buf[o] = high
             /\ g + o > e + 1 => buf[o] = Blank
  <2>1. g + o < e => buf[o] = Image(g + o)
    BY <1>6, <1>7, <1>8, Zenon
  <2>2. g + o = e => buf[o] = Image(g + o)
    BY <1>6, <1>7, <1>8, Zenon
  <2>3. g + o = e + 1 => buf[o] = high
    BY <1>6, <1>7, <1>8, Zenon
  <2>4. g + o > e + 1 => buf[o] = Blank
    BY <1>6, <1>7, <1>8, Zenon
  <2> QED
    BY <1>8, <2>1, <2>2, <2>3, <2>4, Zenon
<1> QED
  BY <1>1, <1>4, <1>9, Zenon DEF mem, buf

\* The pages before the word's are as they were.
LEMMA PagesBefore ==
  ASSUME NEW s, NEW bad, NEW b, NEW e, Run(s, bad, b, e)
  PROVE  \A a \in b .. PageOf(e) - 1 :
           /\ a \in FlashCells /\ PageOf(a) # PageOf(e)
           /\ Excused(bad, b, a) \/ ErasedFor(s.flash, e)[a] = Image(a)
<1>0. e \in Nat /\ e < FlashSize /\ b \in Nat /\ FlashSize \in Nat
  BY BootConstants DEF FlashCells, Run
<1>1. PageOf(e) \in Nat /\ PageOf(e) <= e
  BY <1>0, PageFacts
<1>2. \A c \in FlashCells : PageOf(c) # PageOf(e) => ErasedFor(s.flash, e)[c] = s.flash[c]
  BY ErasedCells, Zenon DEF Run, Memories
<1>3. \A a \in b .. PageOf(e) - 1 : Excused(bad, b, a) \/ s.flash[a] = Image(a)
  BY Zenon DEF Run, Loading
<1> SUFFICES ASSUME NEW a \in b .. PageOf(e) - 1
             PROVE  /\ a \in FlashCells /\ PageOf(a) # PageOf(e)
                    /\ Excused(bad, b, a) \/ ErasedFor(s.flash, e)[a] = Image(a)
  OBVIOUS
<1>4. a \in Nat /\ a < PageOf(e) /\ a \in FlashCells
  BY <1>0, <1>1 DEF FlashCells
<1>5. PageOf(a) <= a /\ PageOf(a) \in Nat
  BY <1>4, PageFacts
<1>6. PageOf(a) # PageOf(e)
  BY <1>1, <1>4, <1>5
<1> QED
  BY <1>2, <1>3, <1>4, <1>6, Zenon

\* The flash when the buffer is written out after a word.
Written(s, e, high) == WritePage(ErasedFor(s.flash, e), Fill(s.buf, e, Image(e), high), e)

\* A page written over blank cells is the buffer.
LEMMA WordWritten ==
  ASSUME NEW s, NEW bad, NEW b, NEW e, NEW high, Run(s, bad, b, e)
  PROVE  /\ \A a \in b .. e : Excused(bad, b, a) \/ Written(s, e, high)[a] = Image(a)
         /\ Excused(bad, b, e + 1) \/ Written(s, e, high)[e + 1] = high
<1> DEFINE mem == ErasedFor(s.flash, e)
           buf == Fill(s.buf, e, Image(e), high)
           w == WritePage(mem, buf, e)
<1>0. /\ e \in Nat /\ e < FlashSize /\ FlashSize \in Nat /\ e % 2 = 0 /\ b \in Nat /\ b <= e
      /\ PageSize \in Nat
  BY BootConstants DEF FlashCells, Run
<1>1. /\ PageOf(e) \in Nat /\ PageOf(e) <= e /\ e + 1 < PageOf(e) + PageSize
      /\ PageOf(e + 1) = PageOf(e)
  BY <1>0, PageFacts, WordInPage
<1>2. PageOf(e) + PageSize <= FlashSize
  BY <1>0, PageInFlash
<1>3. DOMAIN mem = FlashCells
  <2>1. DOMAIN s.flash = FlashCells
    BY Zenon DEF Run, Memories
  <2> QED
    BY <2>1, ErasedCells
<1>4. /\ \A c \in FlashCells : PageOf(c) # PageOf(e) => w[c] = mem[c]
      /\ \A c \in FlashCells : PageOf(c) = PageOf(e) /\ mem[c] = Blank
           => w[c] = buf[c % PageSize]
  BY <1>3, WrittenCells
<1>5. \A a \in b .. PageOf(e) - 1 :
           /\ a \in FlashCells /\ PageOf(a) # PageOf(e)
           /\ Excused(bad, b, a) \/ mem[a] = Image(a)
  BY PagesBefore, Zenon
<1>6. ASSUME NEW a \in PageOf(e) .. e + 1
      PROVE  /\ a \in Nat /\ a \in FlashCells /\ PageOf(a) = PageOf(e)
             /\ a % PageSize = a - PageOf(e) /\ a - PageOf(e) \in PageCells
             /\ PageOf(e) + (a - PageOf(e)) = a
  <2>1. a \in Nat /\ PageOf(e) <= a /\ a < PageOf(e) + PageSize
    BY <1>0, <1>1
  <2>2. PageOf(a) = PageOf(e)
    BY <1>0, <2>1, PageUnique
  <2>3. a % PageSize = a - PageOf(a)
    BY <2>1, PageFacts
  <2>4. a \in FlashCells /\ a - PageOf(e) \in PageCells
    BY <1>0, <1>1, <1>2, <2>1 DEF FlashCells, PageCells
  <2>5. PageOf(e) + (a - PageOf(e)) = a
    BY <1>1, <2>1
  <2> QED
    BY <2>1, <2>2, <2>3, <2>4, <2>5
<1>7. CASE Excused(bad, b, e)
  <2>1. \A a \in PageOf(e) .. e + 1 : Excused(bad, b, a)
    BY <1>6, <1>7 DEF Excused
  <2>2. \A a \in b .. PageOf(e) - 1 : Excused(bad, b, a) \/ w[a] = Image(a)
    BY <1>4, <1>5, Zenon
  <2>3. \A a \in b .. e : a \in b .. PageOf(e) - 1 \/ a \in PageOf(e) .. e + 1
    BY <1>0, <1>1
  <2>4. e + 1 \in PageOf(e) .. e + 1
    BY <1>0, <1>1
  <2> HIDE DEF mem, buf, w
  <2>5. /\ \A a \in b .. e : Excused(bad, b, a) \/ w[a] = Image(a)
        /\ Excused(bad, b, e + 1)
    BY <2>1, <2>2, <2>3, <2>4, Zenon
  <2> QED
    BY <2>5, Zenon DEF mem, buf, w, Written
<1>8. CASE ~Excused(bad, b, e)
  <2>1. /\ \A c \in FlashCells : PageOf(c) = PageOf(e) => mem[c] = Blank
        /\ \A o \in PageCells : PageOf(e) + o < e + 1 => buf[o] = Image(PageOf(e) + o)
        /\ \A o \in PageCells : PageOf(e) + o = e + 1 => buf[o] = high
    BY <1>8, WordFilled, SMT
  <2> HIDE DEF mem, buf, w
  <2>2. ASSUME NEW a \in PageOf(e) .. e + 1
        PROVE  w[a] = buf[a - PageOf(e)]
    BY <1>4, <1>6, <2>1, Zenon
  <2>3. \A a \in PageOf(e) .. e : w[a] = Image(a)
    <3> SUFFICES ASSUME NEW a \in PageOf(e) .. e PROVE w[a] = Image(a)
      OBVIOUS
    <3>1. a \in PageOf(e) .. e + 1 /\ a < e + 1
      BY <1>0, <1>1
    <3>2. buf[a - PageOf(e)] = Image(a)
      BY <1>6, <2>1, <3>1, Zenon
    <3> QED
      BY <2>2, <3>1, <3>2, Zenon
  <2>4. w[e + 1] = high
    <3>1. e + 1 \in PageOf(e) .. e + 1
      BY <1>0, <1>1
    <3>2. buf[(e + 1) - PageOf(e)] = high
      BY <1>6, <2>1, <3>1, Zenon
    <3> QED
      BY <2>2, <3>1, <3>2, Zenon
  <2>5. \A a \in b .. PageOf(e) - 1 : Excused(bad, b, a) \/ w[a] = Image(a)
    BY <1>4, <1>5, Zenon
  <2>6. \A a \in b .. e : a \in b .. PageOf(e) - 1 \/ a \in PageOf(e) .. e
    BY <1>0, <1>1
  <2>7. /\ \A a \in b .. e : Excused(bad, b, a) \/ w[a] = Image(a)
        /\ w[e + 1] = high
    BY <2>3, <2>4, <2>5, <2>6, Zenon
  <2> QED
    BY <2>7, Zenon DEF mem, buf, w, Written
<1> QED
  BY <1>7, <1>8, Zenon

\* At the start of a page the empty buffer holds what it should.
LEMMA BlankIsBuffered ==
  ASSUME NEW e \in Nat, PageOf(e) = e
  PROVE  Buffered(BlankPage, e)
<1>1. PageSize \in Nat
  BY BootConstants
<1>2. \A o \in PageCells : BlankPage[o] = Blank /\ ~(PageOf(e) + o < e)
  BY <1>1 DEF BlankPage, PageCells
<1> QED
  BY <1>2, Zenon DEF Buffered

\* A whole word of the image that does not end the transfer moves the run on.
LEMMA LoadWord ==
  ASSUME NEW s, NEW bad, NEW b, NEW e, Run(s, bad, b, e), NEW finish, ~finish
  PROVE  LET r == StoreWord(s, e, Image(e), Image(e + 1), finish)
         IN Memories(r) /\ Loading(r.flash, r.buf, bad, b, e + 2)
<1> DEFINE high == Image(e + 1)
           mem == ErasedFor(s.flash, e)
           buf == Fill(s.buf, e, Image(e), high)
           w == WritePage(mem, buf, e)
           r == StoreWord(s, e, Image(e), high, finish)
<1>0. /\ e \in Nat /\ e < FlashSize /\ FlashSize \in Nat /\ e % 2 = 0 /\ b \in Nat /\ b <= e
      /\ PageSize \in Nat /\ e + 2 \in Nat /\ Memories(s)
  BY BootConstants DEF FlashCells, Run
<1>1. /\ PageOf(e) \in Nat /\ PageOf(e) <= e
      /\ (e + 2) % PageSize = 0 => e + 2 = PageOf(e) + PageSize /\ PageOf(e + 2) = e + 2
      /\ (e + 2) % PageSize # 0 => e + 2 < PageOf(e) + PageSize /\ PageOf(e + 2) = PageOf(e)
  BY <1>0, PageFacts, WordInPage
<1>2. /\ AtPageStart(e + 2) => r.flash = w /\ r.buf = BlankPage
      /\ ~AtPageStart(e + 2) => r.flash = mem /\ r.buf = buf
  BY StoreWordCases, SMT
<1>3. Memories(r)
  BY <1>0, StoreWordStays
<1>4. /\ \A a \in b .. e : Excused(bad, b, a) \/ w[a] = Image(a)
      /\ Excused(bad, b, e + 1) \/ w[e + 1] = high
  <2>1. PICK h : h = high
    OBVIOUS
  <2>2. /\ \A a \in b .. e : Excused(bad, b, a) \/ Written(s, e, h)[a] = Image(a)
        /\ Excused(bad, b, e + 1) \/ Written(s, e, h)[e + 1] = h
    BY WordWritten, SMT
  <2> QED
    BY <2>1, <2>2, Zenon DEF Written
<1>5. \A a \in b .. PageOf(e) - 1 :
           /\ a \in FlashCells /\ PageOf(a) # PageOf(e)
           /\ Excused(bad, b, a) \/ mem[a] = Image(a)
  BY PagesBefore, Zenon
<1>6. ~Excused(bad, b, e) =>
         /\ \A c \in FlashCells : PageOf(c) = PageOf(e) => mem[c] = Blank
         /\ \A o \in PageCells : PageOf(e) + o < e + 1 => buf[o] = Image(PageOf(e) + o)
         /\ \A o \in PageCells : PageOf(e) + o = e + 1 => buf[o] = high
         /\ \A o \in PageCells : PageOf(e) + o > e + 1 => buf[o] = Blank
  BY WordFilled, SMT
<1>7. high = Image(e + 1)
  OBVIOUS
<1> HIDE DEF mem, buf, w, r, high
<1>8. CASE AtPageStart(e + 2)
  <2>1. (e + 2) % PageSize = 0
    BY <1>8 DEF AtPageStart
  <2>2. PageOf(e + 2) = e + 2
    BY <1>1, <2>1
  <2>3. \A a \in b .. PageOf(e + 2) - 1 : a \in b .. e \/ a = e + 1
    BY <1>0, <2>2
  <2>4. \A a \in b .. PageOf(e + 2) - 1 : Excused(bad, b, a) \/ r.flash[a] = Image(a)
    BY <1>2, <1>4, <1>7, <1>8, <2>3, Zenon
  <2>5. Buffered(r.buf, e + 2)
    BY <1>0, <1>2, <1>8, <2>2, BlankIsBuffered
  <2>6. Loading(r.flash, r.buf, bad, b, e + 2)
    BY <2>2, <2>4, <2>5, Zenon DEF Loading
  <2> QED
    BY <1>3, <2>6, Zenon DEF r, high
<1>9. CASE ~AtPageStart(e + 2)
  <2>1. (e + 2) % PageSize # 0
    BY <1>9 DEF AtPageStart
  <2>2. PageOf(e + 2) = PageOf(e)
    BY <1>1, <2>1
  <2>3. \A a \in b .. PageOf(e + 2) - 1 : Excused(bad, b, a) \/ r.flash[a] = Image(a)
    BY <1>2, <1>5, <1>9, <2>2, Zenon
  <2>4. ASSUME Excused(bad, b, e) PROVE Loading(r.flash, r.buf, bad, b, e + 2)
    <3>1. Excused(bad, b, e + 2)
      BY <2>2, <2>4 DEF Excused
    <3> QED
      BY <2>3, <3>1, Zenon DEF Loading
  <2>5. ASSUME ~Excused(bad, b, e) PROVE Loading(r.flash, r.buf, bad, b, e + 2)
    <3>1. Blanked(r.flash, e + 2)
      <4>1. PageOf(e) + PageSize <= FlashSize
        BY <1>0, PageInFlash
      <4> SUFFICES ASSUME NEW a \in PageOf(e) .. PageOf(e) + PageSize - 1
                   PROVE  mem[a] = Blank
        BY <1>2, <1>9, <2>2 DEF Blanked
      <4>2. a \in Nat /\ PageOf(e) <= a /\ a < PageOf(e) + PageSize /\ a \in FlashCells
        BY <1>0, <1>1, <4>1 DEF FlashCells
      <4>3. PageOf(a) = PageOf(e)
        BY <1>0, <4>2, PageUnique
      <4> QED
        BY <1>6, <2>5, <4>2, <4>3, Zenon
    <3>2. Buffered(r.buf, e + 2)
      <4> SUFFICES ASSUME NEW o \in PageCells
                   PROVE  buf[o] = IF PageOf(e) + o < e + 2 THEN Image(PageOf(e) + o)
                                   ELSE Blank
        BY <1>2, <1>9, <2>2 DEF Buffered
      <4>1. PageOf(e) + o < e + 1 => buf[o] = Image(PageOf(e) + o)
        BY <1>6, <2>5, Zenon
      <4>2. PageOf(e) + o = e + 1 => buf[o] = Image(PageOf(e) + o)
        BY <1>6, <1>7, <2>5, Zenon
      <4>3. PageOf(e) + o > e + 1 => buf[o] = Blank
        BY <1>6, <2>5, Zenon
      <4>4. /\ PageOf(e) + o < e + 2 => PageOf(e) + o < e + 1 \/ PageOf(e) + o = e + 1
            /\ ~(PageOf(e) + o < e + 2) => PageOf(e) + o > e + 1
        BY <1>0, <1>1 DEF PageCells
      <4> QED
        BY <4>1, <4>2, <4>3, <4>4, Zenon
    <3>3. Loading(r.flash, r.buf, bad, b, e + 2)
      BY <2>3, <3>1, <3>2, Zenon DEF Loading
    <3> QED
      BY <3>3
  <2>6. Loading(r.flash, r.buf, bad, b, e + 2)
    BY <2>4, <2>5
  <2> QED
    BY <1>3, <2>6, Zenon DEF r, high
<1> QED
  BY <1>8, <1>9, Zenon

\* Whatever the word, the pages before its own hold the image.
LEMMA AnyWord ==
  ASSUME NEW s, NEW bad, NEW b, NEW e, Run(s, bad, b, e), NEW low, NEW high, NEW finish
  PROVE  LET r == StoreWord(s, e, low, high, finish)
         IN \A a \in b .. PageOf(e) - 1 : Excused(bad, b, a) \/ r.flash[a] = Image(a)
<1> DEFINE r == StoreWord(s, e, low, high, finish)
<1>0. e \in Nat /\ e % 2 = 0 /\ Memories(s)
  BY BootConstants DEF FlashCells, Run
<1>1. \A c \in FlashCells : PageOf(c) # PageOf(e) => r.flash[c] = s.flash[c]
  BY <1>0, StoreWordStays
<1>2. \A a \in b .. PageOf(e) - 1 : a \in FlashCells /\ PageOf(a) # PageOf(e)
  BY PagesBefore, Zenon
<1>3. \A a \in b .. PageOf(e) - 1 : Excused(bad, b, a) \/ s.flash[a] = Image(a)
  BY Zenon DEF Run, Loading
<1> HIDE DEF r
<1>4. \A a \in b .. PageOf(e) - 1 : Excused(bad, b, a) \/ r.flash[a] = Image(a)
  BY <1>1, <1>2, <1>3, Zenon
<1> QED
  BY <1>4, Zenon DEF r

\* Induction over the numbers, for sets.
LEMMA Induction ==
  ASSUME NEW S, 0 \in S, \A n \in Nat : n \in S => n + 1 \in S
  PROVE  \A n \in Nat : n \in S
<1> SUFFICES ASSUME Nat \ S # {} PROVE FALSE
  OBVIOUS
<1>1. PICK n \in Nat \ S : \A m \in Nat \ S : <<m, n>> \notin OpToRel(<, Nat)
  <2>1. \A R, U, V : IsWellFoundedOn(R, U) /\ V \subseteq U /\ V # {}
                       => \E x \in V : \A y \in V : <<y, x>> \notin R
    BY WFMin
  <2> QED
    BY <2>1, NatLessThanWellFounded, Zenon
<1>2. n - 1 \in Nat /\ n - 1 < n
  OBVIOUS
<1>3. <<n - 1, n>> \in OpToRel(<, Nat)
  BY <1>2 DEF OpToRel
<1>4. n - 1 \in S
  BY <1>1, <1>2, <1>3, Zenon
<1>5. n \in S
  BY <1>2, <1>4
<1> QED
  BY <1>5

\* The loop over a packet's words, unrolled.
At(data, n, k) == IF k <= n THEN data[k] ELSE Junk
Words(n) == (n + 1) \div 2
WordStored(s, data, n, last, w) ==
  StoreWord(s, currentAddress + 2 * w - 2, At(data, n, 2 * w - 1), At(data, n, 2 * w),
            last /\ 2 * w >= n)

\* Each word is stored on what the one before has left.
LEMMA StoringSteps ==
  ASSUME NEW data, NEW n \in Nat, NEW last
  PROVE  /\ Storing(data, n, last)[0] = [flash |-> flash, buf |-> pageBuf]
         /\ \A w \in 1 .. Words(n) :
              Storing(data, n, last)[w] =
                WordStored(Storing(data, n, last)[w - 1], data, n, last, w)
<1> DEFINE Start0 == [flash |-> flash, buf |-> pageBuf]
           Step(s, w) == WordStored(s, data, n, last, w)
           Loop(g, m) == g = [w \in 0 .. m |-> IF w = 0 THEN Start0 ELSE Step(g[w - 1], w)]
           S == {m \in Nat : \E g : Loop(g, m)}
<1>0. Words(n) \in Nat
  BY DEF Words
<1>5. \A g, M : Loop(g, M) /\ M \in Nat
        => g[0] = Start0 /\ \A w \in 1 .. M : g[w] = Step(g[w - 1], w)
  <2> HIDE DEF Step, Start0
  <2> QED
    OBVIOUS
<1>6. Storing(data, n, last) = CHOOSE g : Loop(g, Words(n))
  BY Zenon DEF Storing, WordStored, At, Words
<1> HIDE DEF Step, Start0
<1>1. 0 \in S
  <2>1. Loop([w \in 0 .. 0 |-> Start0], 0)
    OBVIOUS
  <2> QED
    BY <2>1
<1>2. ASSUME NEW m \in Nat, m \in S PROVE m + 1 \in S
  <2>1. PICK g : Loop(g, m)
    BY <1>2
  <2>2. PICK h : h = [w \in 0 .. m + 1 |-> IF w = m + 1 THEN Step(g[m], m + 1) ELSE g[w]]
    OBVIOUS
  <2>3. \A w \in 0 .. m + 1 : h[w] = IF w = 0 THEN Start0 ELSE Step(h[w - 1], w)
    <3> SUFFICES ASSUME NEW w \in 0 .. m + 1
                 PROVE  h[w] = IF w = 0 THEN Start0 ELSE Step(h[w - 1], w)
      OBVIOUS
    <3>1. CASE w = m + 1
      BY <2>2, <3>1
    <3>2. CASE w # m + 1
      <4>1. w \in 0 .. m /\ h[w] = g[w] /\ (w # 0 => h[w - 1] = g[w - 1])
        BY <2>2, <3>2
      <4> QED
        BY <2>1, <4>1
    <3> QED
      BY <3>1, <3>2
  <2>4. Loop(h, m + 1)
    BY <2>2, <2>3
  <2> QED
    BY <2>4
<1> HIDE DEF S
<1>3. Words(n) \in S
  BY <1>0, <1>1, <1>2, Induction
<1>4. \E g : Loop(g, Words(n))
  BY <1>3 DEF S
<1> HIDE DEF Loop
<1>7. PICK g : Loop(g, Words(n)) /\ g = Storing(data, n, last)
  BY <1>4, <1>6
<1>8. g[0] = Start0 /\ \A w \in 1 .. Words(n) : g[w] = Step(g[w - 1], w)
  BY <1>0, <1>5, <1>7, Zenon
<1> QED
  BY <1>7, <1>8, Zenon DEF Step, Start0

\* What the device holds before a packet.
PacketReady ==
  /\ DOMAIN flash = FlashCells /\ DOMAIN pageBuf = PageCells
  /\ currentAddress \in Nat /\ currentAddress % 2 = 0

\* The words of a packet are in the packet's bytes, at even addresses.
LEMMA WordPlace ==
  ASSUME NEW n \in Nat, NEW w \in 1 .. Words(n), currentAddress \in Nat, currentAddress % 2 = 0
  PROVE  /\ w \in Nat /\ w - 1 \in Nat /\ 2 * w - 2 \in Nat /\ 2 * w - 2 < n
         /\ currentAddress + 2 * w - 2 \in Nat /\ (currentAddress + 2 * w - 2) % 2 = 0
         /\ currentAddress + 2 * w - 2 \in currentAddress .. currentAddress + n - 1
<1>2. w \in Nat /\ w >= 1 /\ 2 * w <= n + 1
  BY DEF Words
<1>3. PICK h \in Nat : currentAddress = 2 * h
  OBVIOUS
<1>4. currentAddress + 2 * w - 2 = 2 * (h + w - 1) /\ h + w - 1 \in Nat
  BY <1>2, <1>3
<1> QED
  BY <1>2, <1>3, <1>4

\* A packet touches no page but those of its bytes.
LEMMA PacketStays ==
  ASSUME NEW data, NEW n \in Nat, NEW last, PacketReady
  PROVE  /\ Memories(StorePacket(data, n, last))
         /\ \A c \in FlashCells :
              (\A k \in currentAddress .. currentAddress + n - 1 : PageOf(c) # PageOf(k))
                => StorePacket(data, n, last).flash[c] = flash[c]
<1>1. PICK g : g = Storing(data, n, last)
  OBVIOUS
<1>2. /\ g[0] = [flash |-> flash, buf |-> pageBuf]
      /\ \A w \in 1 .. Words(n) : g[w] = WordStored(g[w - 1], data, n, last, w)
  BY <1>1, StoringSteps
<1> DEFINE Far(c) == \A k \in currentAddress .. currentAddress + n - 1 : PageOf(c) # PageOf(k)
           Kept(s) == Memories(s) /\ \A c \in FlashCells : Far(c) => s.flash[c] = flash[c]
           S == {w \in Nat : w <= Words(n) => Kept(g[w])}
<1>3. 0 \in S
  <2>1. g[0].flash = flash /\ g[0].buf = pageBuf
    BY <1>2
  <2>2. Kept(g[0])
    BY <2>1, Zenon DEF PacketReady, Memories
  <2> QED
    BY <2>2
<1>4. ASSUME NEW v \in Nat, v \in S PROVE v + 1 \in S
  <2> SUFFICES ASSUME v + 1 <= Words(n) PROVE Kept(g[v + 1])
    OBVIOUS
  <2> DEFINE w == v + 1
             e == currentAddress + 2 * w - 2
  <2>1. w \in 1 .. Words(n) /\ w - 1 = v /\ Words(n) \in Nat
    BY DEF Words
  <2>2. Kept(g[v])
    BY <1>4, <2>1
  <2>3. /\ e \in Nat /\ e % 2 = 0
        /\ e \in currentAddress .. currentAddress + n - 1
    BY <2>1, WordPlace DEF PacketReady
  <2>4. g[w] = WordStored(g[v], data, n, last, w)
    BY <1>2, <2>1, Zenon
  <2>5. g[w] = StoreWord(g[v], e, At(data, n, 2 * w - 1), At(data, n, 2 * w), last /\ 2 * w >= n)
    BY <2>4, Zenon DEF WordStored
  <2> HIDE DEF w, e
  <2>6. Memories(g[v])
    BY <2>2
  <2>7. /\ Memories(g[w])
        /\ \A c \in FlashCells : PageOf(c) # PageOf(e) => g[w].flash[c] = g[v].flash[c]
    BY <2>3, <2>5, <2>6, StoreWordStays
  <2>8. \A c \in FlashCells : Far(c) => PageOf(c) # PageOf(e)
    BY <2>3, Zenon
  <2>9. Kept(g[w])
    BY <2>2, <2>7, <2>8, Zenon
  <2> QED
    BY <2>9 DEF w
<1> HIDE DEF S
<1>5. Words(n) \in Nat
  BY DEF Words
<1>6. Words(n) \in S
  BY <1>3, <1>4, <1>5, Induction
<1>7. Kept(g[Words(n)])
  BY <1>5, <1>6 DEF S
<1>8. StorePacket(data, n, last) = g[Words(n)]
  BY <1>1, Zenon DEF StorePacket, Words
<1> QED
  BY <1>7, <1>8, Zenon

\* The words of a packet of the image that do not end the transfer.
Whole(n, last) == IF last THEN (n - 1) \div 2 ELSE n \div 2

LEMMA WholeWords ==
  ASSUME NEW data, NEW n \in Nat, n > 0, NEW last \in BOOLEAN, PacketReady,
         NEW bad, NEW b \in Nat, b <= currentAddress, currentAddress + n <= FlashSize,
         \A k \in 1 .. n : data[k] = Image(currentAddress + k - 1),
         Loading(flash, pageBuf, bad, b, currentAddress)
  PROVE  LET s == Storing(data, n, last)[Whole(n, last)]
         IN Memories(s) /\ Loading(s.flash, s.buf, bad, b, currentAddress + 2 * Whole(n, last))
<1>1. PICK g : g = Storing(data, n, last)
  OBVIOUS
<1>2. /\ g[0] = [flash |-> flash, buf |-> pageBuf]
      /\ \A w \in 1 .. Words(n) : g[w] = WordStored(g[w - 1], data, n, last, w)
  BY <1>1, StoringSteps
<1>3. PICK m \in Nat : m = Whole(n, last)
  BY DEF Whole
<1> DEFINE Good0(s, e) == Memories(s) /\ Loading(s.flash, s.buf, bad, b, e)
           S == {w \in Nat : w <= m => Good0(g[w], currentAddress + 2 * w)}
<1>4. 0 \in S
  <2>1. g[0].flash = flash /\ g[0].buf = pageBuf
    BY <1>2
  <2>2. Good0(g[0], currentAddress)
    BY <2>1, Zenon DEF PacketReady, Memories
  <2>3. currentAddress + 2 * 0 = currentAddress
    BY DEF PacketReady
  <2> HIDE DEF Good0
  <2> QED
    BY <2>2, <2>3
<1>5. ASSUME NEW v \in Nat, v \in S PROVE v + 1 \in S
  <2> SUFFICES ASSUME v + 1 <= m PROVE Good0(g[v + 1], currentAddress + 2 * (v + 1))
    OBVIOUS
  <2>1. PICK w \in Nat, e \in Nat : w = v + 1 /\ e = currentAddress + 2 * v
    BY DEF PacketReady
  <2>2. /\ w \in 1 .. Words(n) /\ w - 1 = v
        /\ currentAddress + 2 * w - 2 = e /\ currentAddress + 2 * w = e + 2
        /\ 2 * w - 1 \in 1 .. n /\ 2 * w \in 1 .. n /\ 2 * w <= n /\ 2 * w - 1 <= n
        /\ currentAddress + (2 * w - 1) - 1 = e /\ currentAddress + (2 * w) - 1 = e + 1
        /\ last => ~(2 * w >= n)
        /\ e < FlashSize /\ e % 2 = 0 /\ b <= e
    <3>1. w <= m /\ w >= 1
      BY <2>1
    <3>2. 2 * w <= n /\ (last => 2 * w <= n - 1)
      BY <1>3, <3>1 DEF Whole
    <3>3. w <= Words(n) /\ Words(n) \in Nat
      BY <3>2 DEF Words
    <3>4. PICK h \in Nat : currentAddress = 2 * h
      BY DEF PacketReady
    <3>5. FlashSize \in Nat
      BY BootConstants
    <3> QED
      BY <2>1, <3>1, <3>2, <3>3, <3>4, <3>5
  <2>3. Good0(g[v], e)
    <3>1. v <= m
      OBVIOUS
    <3> HIDE DEF Good0
    <3> QED
      BY <1>5, <2>1, <3>1
  <2>4. Run(g[v], bad, b, e)
    <3>1. e \in FlashCells
      BY <2>2, BootConstants DEF FlashCells
    <3> QED
      BY <2>2, <2>3, <3>1, Zenon DEF Run
  <2>5. At(data, n, 2 * w - 1) = Image(e) /\ At(data, n, 2 * w) = Image(e + 1)
    <3>1. data[2 * w - 1] = Image(e) /\ data[2 * w] = Image(e + 1)
      BY <2>2
    <3> QED
      BY <2>2, <3>1, Zenon DEF At
  <2>6. g[w] = WordStored(g[v], data, n, last, w)
    BY <1>2, <2>2, Zenon
  <2> DEFINE finish == last /\ 2 * w >= n
  <2>7. g[w] = StoreWord(g[v], e, Image(e), Image(e + 1), finish)
    BY <2>2, <2>5, <2>6, Zenon DEF WordStored
  <2>8. ~finish
    BY <2>2
  <2> HIDE DEF finish
  <2>9. Memories(g[w]) /\ Loading(g[w].flash, g[w].buf, bad, b, e + 2)
    BY <2>4, <2>7, <2>8, LoadWord
  <2>10. currentAddress + 2 * (v + 1) = e + 2
    BY <2>1 DEF PacketReady
  <2> QED
    BY <2>1, <2>9, <2>10, Zenon
<1> HIDE DEF S
<1>6. m \in S
  BY <1>4, <1>5, Induction
<1>7. Good0(g[m], currentAddress + 2 * m)
  BY <1>6 DEF S
<1> QED
  BY <1>1, <1>3, <1>7, Zenon

\* The pages before the one an address is in hold the image.
Past(mem, bad, b, f) == \A a \in b .. PageOf(f) - 1 : Excused(bad, b, a) \/ mem[a] = Image(a)
\* All addresses up to one do.
AllPast(mem, bad, b, f) == \A a \in b .. f - 1 : Excused(bad, b, a) \/ mem[a] = Image(a)

\* A packet of the image moves the run on by its bytes; marked as the last, it leaves
\* them all in the flash and the buffer empty.
LEMMA PacketLoads ==
  ASSUME NEW data, NEW n \in Nat, n > 0, NEW last \in BOOLEAN, PacketReady,
         NEW bad, NEW b \in Nat, b <= currentAddress, currentAddress + n <= FlashSize,
         \A k \in 1 .. n : data[k] = Image(currentAddress + k - 1),
         Loading(flash, pageBuf, bad, b, currentAddress)
  PROVE  LET s == StorePacket(data, n, last)
             f == currentAddress + n
         IN /\ Past(s.flash, bad, b, f)
            /\ ~last /\ n % 2 = 0 => Loading(s.flash, s.buf, bad, b, f)
            /\ last => s.buf = BlankPage /\ AllPast(s.flash, bad, b, f)
<1>1. PICK g : g = Storing(data, n, last)
  OBVIOUS
<1>2. \A w \in 1 .. Words(n) : g[w] = WordStored(g[w - 1], data, n, last, w)
  BY <1>1, StoringSteps
<1>3. PICK m \in Nat : m = Whole(n, last)
  BY DEF Whole
<1>4. Memories(g[m]) /\ Loading(g[m].flash, g[m].buf, bad, b, currentAddress + 2 * m)
  BY <1>1, <1>3, WholeWords
<1>5. PICK f \in Nat : f = currentAddress + n
  BY DEF PacketReady
<1>6. PICK s : s = StorePacket(data, n, last) /\ s = g[Words(n)]
  BY <1>1, Zenon DEF StorePacket, Words
<1>7. FlashSize \in Nat
  BY BootConstants
<1>8. PICK e \in Nat : e = currentAddress + 2 * m
  BY DEF PacketReady
<1> DEFINE Done == /\ Past(s.flash, bad, b, f)
                   /\ ~last /\ n % 2 = 0 => Loading(s.flash, s.buf, bad, b, f)
                   /\ last => s.buf = BlankPage /\ AllPast(s.flash, bad, b, f)
<1>9. ASSUME ~last, n % 2 = 0 PROVE Done
  <2>1. Words(n) = m /\ e = f
    BY <1>3, <1>5, <1>8, <1>9 DEF Words, Whole
  <2>2. Loading(s.flash, s.buf, bad, b, f)
    BY <1>4, <1>6, <1>8, <2>1, Zenon
  <2> QED
    BY <1>9, <2>2, Zenon DEF Loading, Past
<1>10. ASSUME last \/ n % 2 # 0 PROVE Done
  <2>1. /\ Words(n) = m + 1 /\ m + 1 \in 1 .. Words(n) /\ (m + 1) - 1 = m
        /\ currentAddress + 2 * (m + 1) - 2 = e
        /\ 2 * (m + 1) - 1 \in 1 .. n /\ 2 * (m + 1) - 1 <= n
        /\ currentAddress + (2 * (m + 1) - 1) - 1 = e
        /\ 2 * (m + 1) >= n
        /\ e < FlashSize /\ b <= e
        /\ n % 2 # 0 => f = e + 1
        /\ n % 2 = 0 => f = e + 2 /\ 2 * (m + 1) \in 1 .. n /\ 2 * (m + 1) <= n
                        /\ currentAddress + 2 * (m + 1) - 1 = e + 1
    <3>1. CASE n % 2 = 0
      <4>1. PICK h \in Nat : n = 2 * h /\ h >= 1
        BY <3>1
      <4>2. m = h - 1
        BY <1>3, <1>10, <3>1, <4>1 DEF Whole
      <4>3. Words(n) = h
        BY <4>1 DEF Words
      <4> QED
        BY <1>5, <1>7, <1>8, <3>1, <4>1, <4>2, <4>3 DEF PacketReady
    <3>2. CASE n % 2 # 0
      <4>1. PICK h \in Nat : n = 2 * h + 1
        BY <3>2
      <4>2. m = h
        BY <1>3, <3>2, <4>1 DEF Whole
      <4>3. Words(n) = h + 1
        BY <4>1 DEF Words
      <4> QED
        BY <1>5, <1>7, <1>8, <3>2, <4>1, <4>2, <4>3 DEF PacketReady
    <3> QED
      BY <3>1, <3>2
  <2>2. e % 2 = 0
    BY <1>8 DEF PacketReady
  <2>3. Run(g[m], bad, b, e)
    <3>1. e \in FlashCells
      BY <1>7, <2>1 DEF FlashCells
    <3> QED
      BY <1>4, <1>8, <2>1, <2>2, <3>1, Zenon DEF Run
  <2>4. At(data, n, 2 * (m + 1) - 1) = Image(e)
    <3>1. data[2 * (m + 1) - 1] = Image(e)
      BY <2>1
    <3> QED
      BY <2>1, <3>1, Zenon DEF At
  <2>10. PICK high : high = At(data, n, 2 * (m + 1))
    OBVIOUS
  <2> DEFINE finish == last /\ 2 * (m + 1) >= n
  <2>5. s = StoreWord(g[m], e, Image(e), high, finish)
    <3>1. g[m + 1] = WordStored(g[m], data, n, last, m + 1)
      BY <1>2, <2>1, Zenon
    <3> QED
      BY <1>6, <2>1, <2>4, <2>10, <3>1, Zenon DEF WordStored
  <2>6. n % 2 = 0 => high = Image(e + 1)
    <3>1. n % 2 = 0 => data[2 * (m + 1)] = Image(e + 1)
      BY <2>1
    <3> QED
      BY <2>1, <2>10, <3>1, Zenon DEF At
  <2>7. last => finish
    BY <2>1
  <2> HIDE DEF finish
  <2>8. ASSUME last PROVE Done
    <3> DEFINE written == Written(g[m], e, high)
    <3>1. s = [flash |-> written, buf |-> BlankPage]
      BY <2>5, <2>7, <2>8, Zenon DEF StoreWord, ErasedFor, Written
    <3>2. /\ \A a \in b .. e : Excused(bad, b, a) \/ written[a] = Image(a)
          /\ Excused(bad, b, e + 1) \/ written[e + 1] = high
      BY <2>3, WordWritten, SMT
    <3> HIDE DEF written
    <3>6. s.flash = written /\ s.buf = BlankPage
      BY <3>1
    <3>3. AllPast(s.flash, bad, b, f)
      <4>1. ASSUME n % 2 = 0 PROVE AllPast(s.flash, bad, b, f)
        <5>1. \A a \in b .. f - 1 : a \in b .. e \/ a = e + 1
          BY <2>1, <4>1
        <5> QED
          BY <2>6, <3>2, <3>6, <4>1, <5>1, Zenon DEF AllPast
      <4>2. ASSUME n % 2 # 0 PROVE AllPast(s.flash, bad, b, f)
        <5>1. \A a \in b .. f - 1 : a \in b .. e
          BY <2>1, <4>2
        <5> QED
          BY <3>2, <3>6, <5>1, Zenon DEF AllPast
      <4> QED
        BY <4>1, <4>2
    <3>4. Past(s.flash, bad, b, f)
      <4>1. \A a \in b .. PageOf(f) - 1 : a \in b .. f - 1
        <5>1. PageOf(f) \in Nat /\ PageOf(f) <= f
          BY PageFacts
        <5> QED
          BY <5>1
      <4> QED
        BY <3>3, <4>1, Zenon DEF Past, AllPast
    <3> QED
      BY <2>8, <3>3, <3>4, <3>6, SMT
  <2>9. ASSUME ~last PROVE Done
    <3>1. n % 2 # 0 /\ f = e + 1
      BY <1>10, <2>1, <2>9
    <3>2. PageOf(f) = PageOf(e)
      BY <2>2, <3>1, WordInPage
    <3>3. \A a \in b .. PageOf(e) - 1 : Excused(bad, b, a) \/ s.flash[a] = Image(a)
      BY <2>3, <2>5, AnyWord
    <3> QED
      BY <2>9, <3>1, <3>2, <3>3, Zenon DEF Past
  <2> QED
    BY <2>8, <2>9
<1> HIDE DEF Done
<1>11. Done
  BY <1>9, <1>10
<1> QED
  BY <1>5, <1>6, <1>11, Zenon DEF Done

-----------------------------------------------------------------------------
(* The invariant.  A cell is confirmed when a write has ended; until then the model    *)
(* has to know what the host has sent, what the device has counted, and how far the    *)
(* run of words has come, also when the transfer before left a page unfinished, and    *)
(* that a packet which waits writes no confirmed cell.                                 *)

Emptied(buf) == \A o \in PageCells : buf[o] = Blank

\* The memories are memories, and a write in progress has taken its cells out of what
\* the host trusts.
MemInv ==
  /\ DOMAIN flash = FlashCells /\ DOMAIN eeprom = 0 .. EepromSize - 1
  /\ DOMAIN pageBuf = PageCells
  /\ confirmed \subseteq Cells("flash", FlashCells) \cup Cells("eeprom", 0 .. EepromSize - 1)
  /\ stage # "idle" => confirmed \cap Endangered(xfer) = {}

\* What a data packet that waits would still change is not trusted; the end of a write
\* is an empty answer.
DeviceCells ==
  IF currentRequest = "WRITEFLASH"
  THEN Cells("flash", PagesOf(currentAddress .. currentAddress + bytesRemaining - 1))
  ELSE Cells("eeprom", currentAddress .. currentAddress + bytesRemaining - 1)
Storer == usbMsgFlags = "program" /\ currentRequest \in {"WRITEFLASH", "WRITEEPROM"}
OutInv ==
  /\ usbRxBuf.token = "OUT" =>
       /\ Storer /\ confirmed \cap DeviceCells = {}
       /\ currentRequest = "WRITEFLASH" => currentAddress % 2 = 0
  /\ Storer => usbMsgLen \in {0, NoMsg}

\* A write that the device has heard of: what it has taken, what waits.
Transferring == stage \in {"dataOut", "statusIn"} /\ Writes(xfer)
Taken == Transferring /\ ~Unheard
Waits == IF usbRxBuf.token = "OUT" THEN Len(usbRxBuf.data) ELSE 0
Undisturbed ==
  /\ bytesRemaining = xfer.len - sent + Waits
  /\ usbRxBuf.token = "OUT" =>
       /\ Waits > 0 /\ Waits <= bytesRemaining
       /\ \A k \in 1 .. Waits : usbRxBuf.data[k] = Image(currentAddress + k - 1)
TakenInv ==
  /\ usbRxBuf.token # "SETUP" /\ Storer
  /\ currentRequest = xfer.req /\ isLastPage = xfer.last
  /\ xfer.req = "WRITEFLASH" => currentAddress % 2 = 0
  /\ bytesRemaining > 0 => currentAddress + bytesRemaining = xfer.addr + xfer.len
  /\ bytesRemaining <= xfer.len /\ bytesRemaining <= xfer.len - sent + Waits
  /\ usbRxBuf.token = "OUT" => Waits = PacketSize \/ bytesRemaining <= Waits
  /\ clean => Undisturbed
WriteInv ==
  /\ Transferring /\ Unheard => stage = "dataOut" /\ sent = 0
  /\ Transferring /\ stage = "statusIn" => sent = xfer.len
  /\ stage = "statusIn" => ~WritesByte(xfer)
  /\ Taken => TakenInv

\* Bytes of the EEPROM. Writing one empties the page buffer.
ByteInv ==
  WritesByte(xfer) /\ stage \in {"dataIn", "statusOut"} =>
    Unheard \/ (eeprom[xfer.addr] = Image(xfer.addr) /\ Emptied(pageBuf))
EepromInv ==
  Taken /\ xfer.req = "WRITEEPROM" =>
    /\ bytesRemaining < xfer.len => Emptied(pageBuf)
    /\ clean => \A a \in xfer.addr .. xfer.addr + xfer.len - bytesRemaining - 1 :
                  eeprom[a] = Image(a)

\* Packets of a transfer given up.
LateInv ==
  /\ usbRxBuf.token = "OUT" /\ ~Transferring =>
       /\ stage \in {"idle", "setup"} /\ span = {}
       /\ currentRequest = "WRITEFLASH" => stale
  /\ usbRxBuf.token = "SETUP" /\ WritesByte(usbRxBuf.data) =>
       span = {} \/ (stage # "idle" /\ WritesByte(xfer))

\* The page that the last write left unfinished.
Filling == Taken /\ xfer.req = "WRITEFLASH"
Disturbs == stage # "idle" /\ (WritesByte(xfer) \/ xfer.req = "WRITEEPROM")
LeftAt(e) ==
  /\ PageOf(e) # e /\ span = PageOf(e) .. e - 1
  /\ e % 2 = 0 /\ ~Filling /\ ~Disturbs => Loading(flash, pageBuf, stale, PageOf(e), e)
SpanInv ==
  /\ span = {} /\ ~stale /\ ~Filling => Emptied(pageBuf)
  /\ span # {} => \E e \in 1 .. FlashSize : LeftAt(e)
  /\ stage # "idle" /\ xfer.req = "WRITEFLASH" /\ span # {} /\ ~Continues(xfer) => stale

\* The pages that a write of flash has filled, and the one it is at.
Good(t) == t.addr % PageSize = 0 \/ Continues(t)
Ended(b, f) ==
  /\ Past(flash, stale, b, f)
  /\ ~xfer.last /\ f % 2 = 0 => Loading(flash, pageBuf, stale, b, f)
  /\ xfer.last => Emptied(pageBuf) /\ AllPast(flash, stale, b, f)
LoadInv ==
  Filling /\ clean /\ Good(xfer) =>
    IF bytesRemaining > 0
    THEN Loading(flash, pageBuf, stale, PageOf(xfer.addr), currentAddress)
    ELSE Ended(PageOf(xfer.addr), xfer.addr + xfer.len)

HoldInv ==
  /\ MemInv /\ ConfirmedHolds /\ OutInv /\ WriteInv
  /\ ByteInv /\ EepromInv /\ LateInv /\ SpanInv /\ LoadInv

-----------------------------------------------------------------------------
(* Every step keeps it.                                                                *)

\* What the invariant looks at.
holdVars == <<usbRxBuf, usbMsgFlags, usbMsgLen, transferVars, memoryVars, stage, xfer,
              sent, span, clean, stale, confirmed>>

LEMMA HoldKept ==
  ASSUME HoldInv, UNCHANGED holdVars
  PROVE  HoldInv'
<1>1. /\ UNCHANGED <<usbRxBuf, usbMsgFlags, usbMsgLen, currentAddress, bytesRemaining,
                     isLastPage, currentRequest, flash, eeprom, pageBuf>>
      /\ UNCHANGED <<stage, xfer, sent, span, clean, stale, confirmed>>
  BY DEF holdVars, transferVars, memoryVars
<1>2. MemInv' /\ ConfirmedHolds'
  BY <1>1 DEF HoldInv, MemInv, ConfirmedHolds
<1>3. Unheard' = Unheard /\ Taken' = Taken /\ Transferring' = Transferring /\ Filling' = Filling
  BY <1>1 DEF Unheard, Taken, Transferring, Filling
<1>4. OutInv' /\ WriteInv'
  BY <1>1, <1>3 DEF HoldInv, OutInv, Storer, DeviceCells, WriteInv, TakenInv, Undisturbed, Waits
<1>5. ByteInv' /\ EepromInv' /\ LateInv'
  BY <1>1, <1>3 DEF HoldInv, ByteInv, EepromInv, LateInv
<1>6. SpanInv'
  <2>1. \A e \in 1 .. FlashSize : LeftAt(e)' = LeftAt(e)
    BY <1>1, <1>3 DEF LeftAt, Disturbs, Loading
  <2> QED
    BY <1>1, <1>3, <2>1 DEF HoldInv, SpanInv, Continues
<1>7. LoadInv'
  BY <1>1, <1>3 DEF HoldInv, LoadInv, Good, Continues, Loading, Ended, Past, AllPast
<1> QED
  BY <1>2, <1>4, <1>5, <1>6, <1>7 DEF HoldInv

\* A run excused for more is still a run.
LEMMA LoadingExcused ==
  ASSUME NEW mem, NEW buf, NEW bad, NEW worse, bad => worse, NEW b, NEW e,
         Loading(mem, buf, bad, b, e)
  PROVE  Loading(mem, buf, worse, b, e)
<1>1. \A a : Excused(bad, b, a) => Excused(worse, b, a)
  BY DEF Excused
<1> QED
  BY <1>1, Zenon DEF Loading

\* The host takes a packet of an answer.
LEMMA InStageHolds ==
  ASSUME HoldInv, NEW lost \in BOOLEAN, InStage(lost)
  PROVE  HoldInv'
<1>1. /\ stage = "dataIn" /\ stage' \in {"dataIn", "statusOut"} /\ usbRxBuf = Free
      /\ UNCHANGED <<usbRxBuf, usbMsgFlags, usbMsgLen, currentAddress, bytesRemaining,
                     isLastPage, currentRequest, flash, eeprom, pageBuf>>
      /\ UNCHANGED <<xfer, sent, span, clean, stale, confirmed>>
  BY DEF InStage, HandleIn, Quiet, bootVars, transferVars, memoryVars
<1>2. ~Taken /\ ~Taken' /\ ~Transferring /\ ~Transferring' /\ ~Filling /\ ~Filling'
  BY <1>1 DEF Taken, Transferring, Filling
<1>3. Unheard' = Unheard /\ (Disturbs' <=> Disturbs)
  BY <1>1 DEF Unheard, Disturbs
<1>4. MemInv' /\ ConfirmedHolds'
  BY <1>1 DEF HoldInv, MemInv, ConfirmedHolds
<1>5. OutInv' /\ WriteInv'
  BY <1>1, <1>2 DEF HoldInv, OutInv, Storer, DeviceCells, WriteInv
<1>6. ByteInv' /\ EepromInv' /\ LateInv'
  BY <1>1, <1>2, <1>3 DEF HoldInv, ByteInv, EepromInv, LateInv, Free
<1>7. SpanInv'
  <2>1. \A e \in 1 .. FlashSize : LeftAt(e) => LeftAt(e)'
    BY <1>1, <1>2, <1>3 DEF LeftAt, Loading
  <2> QED
    BY <1>1, <1>2, <2>1 DEF HoldInv, SpanInv, Continues
<1>8. LoadInv'
  BY <1>2 DEF LoadInv
<1> QED
  BY <1>4, <1>5, <1>6, <1>7, <1>8 DEF HoldInv

\* A transfer starts. It may leave words behind that the last one had in the buffer.
LEMMA StartHolds ==
  ASSUME HoldInv, NEW t \in session, Start(t)
  PROVE  HoldInv'
<1>1. /\ stage = "idle" /\ stage' = "setup" /\ xfer' = t
      /\ UNCHANGED <<usbRxBuf, usbMsgFlags, usbMsgLen, currentAddress, bytesRemaining,
                     isLastPage, currentRequest, flash, eeprom, pageBuf>>
      /\ UNCHANGED span
      /\ confirmed' = confirmed \ Endangered(t)
      /\ stale => stale'
      /\ t.req = "WRITEFLASH" /\ span # {} /\ ~Continues(t) => stale'
  BY DEF Start, Quiet, bootVars, transferVars, memoryVars, usbVars
<1>2. ~Taken /\ ~Taken' /\ ~Transferring /\ ~Transferring' /\ ~Filling /\ ~Filling' /\ ~Disturbs
  BY <1>1 DEF Taken, Transferring, Filling, Disturbs
<1>3. MemInv'
  <2>1. Endangered(xfer)' = Endangered(t)
    BY <1>1 DEF Endangered, WritesByte, RangeOf
  <2> QED
    BY <1>1, <2>1 DEF HoldInv, MemInv
<1>4. ConfirmedHolds'
  BY <1>1 DEF HoldInv, ConfirmedHolds
<1>5. OutInv' /\ WriteInv'
  BY <1>1, <1>2 DEF HoldInv, OutInv, Storer, DeviceCells, WriteInv
<1>6. ByteInv' /\ EepromInv'
  BY <1>1, <1>2 DEF ByteInv, EepromInv
<1>7. LateInv'
  BY <1>1, <1>2 DEF HoldInv, LateInv
<1>8. SpanInv'
  <2>1. ASSUME NEW e \in 1 .. FlashSize, LeftAt(e) PROVE LeftAt(e)'
    <3>1. e % 2 = 0 => Loading(flash, pageBuf, stale, PageOf(e), e)
      BY <1>2, <2>1 DEF LeftAt
    <3>2. e % 2 = 0 => Loading(flash, pageBuf, stale', PageOf(e), e)
      BY <1>1, <3>1, LoadingExcused
    <3>3. e % 2 = 0 => Loading(flash, pageBuf, stale, PageOf(e), e)'
      BY <1>1, <3>2
    <3> QED
      BY <1>1, <2>1, <3>3, Zenon DEF LeftAt
  <2>2. span' # {} => \E e \in 1 .. FlashSize : LeftAt(e)'
    BY <1>1, <2>1 DEF HoldInv, SpanInv
  <2>3. span' = {} /\ ~stale' /\ ~Filling' => Emptied(pageBuf')
    BY <1>1, <1>2 DEF HoldInv, SpanInv
  <2>4. xfer'.req = "WRITEFLASH" /\ span' # {} /\ ~Continues(xfer)' => stale'
    BY <1>1 DEF Continues
  <2> QED
    BY <2>2, <2>3, <2>4 DEF SpanInv
<1>9. LoadInv'
  BY <1>2 DEF LoadInv
<1> QED
  BY <1>3, <1>4, <1>5, <1>6, <1>7, <1>8, <1>9 DEF HoldInv

\* Its SETUP packet is in the device's buffer.
LEMMA SetupStageHolds ==
  ASSUME BootInv, HoldInv, NEW lost \in BOOLEAN, SetupStage(lost)
  PROVE  HoldInv'
<1>1. /\ stage = "setup" /\ usbRxBuf'.token = "SETUP" /\ usbRxBuf'.data = xfer
      /\ UNCHANGED <<usbMsgFlags, usbMsgLen, currentAddress, bytesRemaining,
                     isLastPage, currentRequest, flash, eeprom, pageBuf>>
      /\ UNCHANGED <<xfer, sent, span, clean, stale, confirmed>>
  BY DEF SetupStage, HandleData, Quiet, bootVars, transferVars, memoryVars
<1>2. /\ stage' \in {"setup", "dataOut", "dataIn", "statusIn"}
      /\ stage' = "statusIn" => ~Writes(xfer) /\ xfer.std
      /\ sent = 0
  BY <1>1 DEF SetupStage, BootInv, AnswerInv
<1>3. Unheard' /\ ~Taken /\ ~Taken' /\ ~Filling /\ ~Filling' /\ (Disturbs' <=> Disturbs)
  BY <1>1, <1>2 DEF Unheard, Taken, Transferring, Filling, Disturbs, WritesByte
<1>4. MemInv' /\ ConfirmedHolds'
  BY <1>1 DEF HoldInv, MemInv, ConfirmedHolds
<1>5. OutInv'
  BY <1>1 DEF HoldInv, OutInv, Storer
<1>6. WriteInv'
  <2>1. stage' = "statusIn" => ~WritesByte(xfer)'
    <3>1. xfer.std => xfer.req # "TRANSMIT"
      BY XferKnown, HostConstants DEF BootInv
    <3> QED
      BY <1>1, <1>2, <3>1 DEF WritesByte
  <2>2. Transferring' => stage' = "dataOut" /\ sent' = 0
    BY <1>1, <1>2 DEF Transferring, Writes
  <2> QED
    BY <1>1, <1>3, <2>1, <2>2 DEF WriteInv
<1>7. ByteInv' /\ EepromInv'
  BY <1>3 DEF ByteInv, EepromInv
<1>8. LateInv'
  BY <1>1, <1>2 DEF LateInv, WritesByte
<1>9. SpanInv'
  <2>1. \A e \in 1 .. FlashSize : LeftAt(e) => LeftAt(e)'
    BY <1>1, <1>3 DEF LeftAt, Loading
  <2> QED
    BY <1>1, <1>2, <1>3, <2>1 DEF HoldInv, SpanInv, Continues
<1>10. LoadInv'
  BY <1>3 DEF LoadInv
<1> QED
  BY <1>4, <1>5, <1>6, <1>7, <1>8, <1>9, <1>10 DEF HoldInv

\* The host gives up. What its packet that waits is for, nobody trusts.
LEMMA GiveUpHolds ==
  ASSUME HoldInv, GiveUp
  PROVE  HoldInv'
<1>1. /\ stage # "idle" /\ stage' = "idle" /\ span' = {}
      /\ stale' = (stale \/ xfer.req = "WRITEFLASH" \/ span # {})
      /\ UNCHANGED <<usbRxBuf, usbMsgFlags, usbMsgLen, currentAddress, bytesRemaining,
                     isLastPage, currentRequest, flash, eeprom, pageBuf>>
      /\ UNCHANGED <<xfer, confirmed>>
  BY DEF GiveUp, Quiet, bootVars, transferVars, memoryVars, usbVars
<1>2. ~Taken' /\ ~Transferring' /\ ~Filling'
  BY <1>1 DEF Taken, Transferring, Filling
<1>3. MemInv' /\ ConfirmedHolds'
  BY <1>1 DEF HoldInv, MemInv, ConfirmedHolds
<1>4. OutInv' /\ WriteInv'
  BY <1>1, <1>2 DEF HoldInv, OutInv, Storer, DeviceCells, WriteInv
<1>5. ByteInv' /\ EepromInv'
  BY <1>1, <1>2 DEF ByteInv, EepromInv
<1>6. LateInv'
  <2>1. usbRxBuf.token = "OUT" /\ currentRequest = "WRITEFLASH" => stale'
    <3>1. usbRxBuf.token = "OUT" /\ Transferring => currentRequest = xfer.req
      BY DEF HoldInv, WriteInv, TakenInv, Taken, Unheard
    <3>2. usbRxBuf.token = "OUT" /\ ~Transferring /\ currentRequest = "WRITEFLASH" => stale
      BY DEF HoldInv, LateInv
    <3> QED
      BY <1>1, <3>1, <3>2
  <2> QED
    BY <1>1, <1>2, <2>1 DEF LateInv
<1>7. SpanInv'
  <2>1. ~stale' => Emptied(pageBuf)
    BY <1>1 DEF HoldInv, SpanInv, Filling
  <2> QED
    BY <1>1, <2>1 DEF SpanInv
<1>8. LoadInv'
  BY <1>2 DEF LoadInv
<1> QED
  BY <1>3, <1>4, <1>5, <1>6, <1>7, <1>8 DEF HoldInv

\* The answer to a byte written is complete: the byte is there.
LEMMA StatusOutHolds ==
  ASSUME BootInv, HoldInv, StatusOut
  PROVE  HoldInv'
<1>1. /\ stage = "statusOut" /\ stage' = "idle" /\ usbRxBuf = Free /\ usbRxBuf' = Free
      /\ confirmed' = IF WritesByte(xfer) /\ Len(got) = 1
                      THEN confirmed \cup {<<"eeprom", xfer.addr>>} ELSE confirmed
      /\ span' = IF WritesByte(xfer) THEN {} ELSE span
      /\ UNCHANGED <<usbMsgFlags, usbMsgLen, currentAddress, bytesRemaining,
                     isLastPage, currentRequest, flash, eeprom, pageBuf>>
      /\ UNCHANGED <<xfer, sent, clean, stale>>
  BY DEF StatusOut, HandleData, Quiet, bootVars, transferVars, memoryVars
<1>2. ~Taken /\ ~Taken' /\ ~Transferring' /\ ~Filling /\ ~Filling' /\ ~Disturbs'
  BY <1>1 DEF Taken, Transferring, Filling, Disturbs
<1>3. usbRxBuf.token # "OUT" /\ usbRxBuf.token # "SETUP"
  BY <1>1 DEF Free
<1>4. WritesByte(xfer) => eeprom[xfer.addr] = Image(xfer.addr) /\ Emptied(pageBuf)
  BY <1>1, <1>3 DEF HoldInv, ByteInv, Unheard
<1>5. ~Writes(xfer)
  BY <1>1 DEF BootInv, AnswerInv
<1>6. MemInv'
  <2>1. WritesByte(xfer) => xfer.addr \in 0 .. EepromSize - 1
    BY XferKnown, HostConstants, BootConstants DEF BootInv
  <2>2. confirmed' \subseteq Cells("flash", FlashCells) \cup Cells("eeprom", 0 .. EepromSize - 1)
    BY <1>1, <2>1 DEF HoldInv, MemInv, Cells
  <2> QED
    BY <1>1, <2>2 DEF HoldInv, MemInv
<1>7. ConfirmedHolds'
  BY <1>1, <1>4 DEF HoldInv, ConfirmedHolds
<1>8. OutInv' /\ WriteInv'
  BY <1>1, <1>2, <1>3 DEF HoldInv, OutInv, Storer, WriteInv
<1>9. ByteInv' /\ EepromInv' /\ LateInv'
  BY <1>1, <1>2, <1>3 DEF ByteInv, EepromInv, LateInv
<1>10. SpanInv'
  <2>1. ~WritesByte(xfer) => \A e \in 1 .. FlashSize : LeftAt(e) => LeftAt(e)'
    BY <1>1, <1>2, <1>5 DEF LeftAt, Loading, Disturbs, Writes
  <2> QED
    BY <1>1, <1>2, <1>4, <2>1 DEF HoldInv, SpanInv
<1>11. LoadInv'
  BY <1>2 DEF LoadInv
<1> QED
  BY <1>6, <1>7, <1>8, <1>9, <1>10, <1>11 DEF HoldInv

\* What is known of the transfer.
LEMMA XferFacts ==
  ASSUME ShapeInv
  PROVE  /\ xfer.len \in 0 .. 254 /\ xfer.addr \in Nat /\ xfer.last \in BOOLEAN
         /\ Writes(xfer) => xfer.len > 0 /\ ~xfer.std /\ ~xfer.in
         /\ xfer.req = "WRITEFLASH" => xfer.addr % 2 = 0 /\ xfer.addr + xfer.len <= FlashSize
         /\ xfer.req = "WRITEEPROM" => xfer.addr + xfer.len <= EepromSize
         /\ WritesByte(xfer) =>
              xfer.addr < EepromSize /\ xfer.val = Image(xfer.addr) /\ ~xfer.std
         /\ sent \in 0 .. xfer.len
<1>1. xfer \in UNION Sessions
  BY XferKnown
<1>2. /\ xfer.len \in 0 .. 254 /\ xfer.addr \in Nat /\ xfer.last \in BOOLEAN
      /\ Writes(xfer) => xfer.len > 0 /\ ~xfer.std /\ ~xfer.in
      /\ xfer.req = "WRITEFLASH" => xfer.addr % 2 = 0 /\ xfer.addr + xfer.len <= FlashSize
      /\ xfer.req = "WRITEEPROM" => xfer.addr + xfer.len <= EepromSize
      /\ WritesByte(xfer) => xfer.addr < EepromSize /\ xfer.val = Image(xfer.addr)
      /\ WritesByte(xfer) => ~xfer.std
  BY <1>1, HostConstants DEF Writes, Paged, WritesByte
<1> QED
  BY <1>2 DEF ShapeInv

\* The next packet of a write holds the next bytes of the image.
LEMMA NextDataIs ==
  ASSUME ShapeInv, sent < xfer.len
  PROVE  /\ Len(NextData) = PacketSize \/ Len(NextData) = xfer.len - sent
         /\ Len(NextData) \in 1 .. xfer.len - sent
         /\ \A k \in 1 .. Len(NextData) : NextData[k] = Image(xfer.addr + sent + k - 1)
<1>1. xfer.len \in Nat /\ sent \in Nat /\ PacketSize \in Nat /\ PacketSize > 0
  BY XferFacts, PacketSizeOK
<1> DEFINE n == Min({PacketSize, xfer.len - sent})
<1>2. n \in 1 .. xfer.len - sent /\ (n = PacketSize \/ n = xfer.len - sent)
  BY <1>1, MinOfTwo
<1> HIDE DEF n
<1>3. NextData = [k \in 1 .. n |-> Image(xfer.addr + sent + k - 1)]
  BY DEF NextData, n
<1>4. DOMAIN NextData = 1 .. n /\ NextData = [k \in 1 .. n |-> NextData[k]]
  BY <1>3
<1>5. Len(NextData) = n
  BY <1>2, <1>4, FunctionSeq
<1> QED
  BY <1>2, <1>3, <1>5

\* The host sends a packet of a write, or sends it again.
LEMMA OutStageHolds ==
  ASSUME BootInv, HoldInv, NEW lost \in BOOLEAN, OutStage(lost)
  PROVE  HoldInv'
<1>1. /\ stage = "dataOut" /\ usbRxBuf = Free
      /\ UNCHANGED <<usbMsgFlags, usbMsgLen, currentAddress, bytesRemaining,
                     isLastPage, currentRequest, flash, eeprom, pageBuf>>
      /\ UNCHANGED <<xfer, span, stale, confirmed>>
      /\ clean' = (clean /\ ~lost)
  BY DEF OutStage, HandleData, Quiet, bootVars, transferVars, memoryVars
<1>2. /\ stage' \in {"dataOut", "statusIn"} /\ (stage' = "statusIn" => sent' = xfer.len)
      /\ Writes(xfer) /\ sent < xfer.len
  BY <1>1 DEF OutStage, BootInv, ShapeInv
<1>3. /\ xfer.len \in 0 .. 254 /\ xfer.addr \in Nat /\ sent \in 0 .. xfer.len
  BY XferFacts DEF BootInv
<1>4. PICK d : d = NextData
  OBVIOUS
<1>5. /\ IsSeq(d) /\ d # <<>>
      /\ Len(d) = PacketSize \/ Len(d) = xfer.len - sent
      /\ Len(d) \in 1 .. xfer.len - sent
      /\ \A k \in 1 .. Len(d) : d[k] = Image(xfer.addr + sent + k - 1)
  BY <1>2, <1>4, NextDataSize, NextDataIs DEF BootInv
<1>6. /\ usbRxBuf' = [token |-> "OUT", data |-> d]
      /\ sent' = IF lost THEN sent ELSE sent + Len(d)
  BY <1>4, <1>5 DEF OutStage, HandleData
<1>7. usbRxBuf'.token = "OUT" /\ usbRxBuf'.data = d
  BY <1>6
<1>8. PICK n \in Nat : n = Len(d)
  BY <1>5
<1>9. /\ usbRxBuf.token # "OUT" /\ usbRxBuf.token # "SETUP"
      /\ Transferring /\ ~Unheard /\ Taken /\ Transferring' /\ ~Unheard' /\ Taken'
      /\ Waits = 0 /\ Waits' = n
  BY <1>1, <1>2, <1>7, <1>8 DEF Free, Transferring, Taken, Unheard, Waits, Writes
<1>10. Filling' = Filling /\ Disturbs' = Disturbs
  BY <1>1, <1>2, <1>9 DEF Filling, Disturbs
<1>11. TakenInv
  BY <1>9 DEF HoldInv, WriteInv
<1>12. bytesRemaining \in 0 .. 254 /\ currentAddress \in Nat
  BY DEF BootInv, TypeOK, BootTypeOK
<1>13. /\ n >= 1 /\ n <= xfer.len - sent
       /\ n = PacketSize \/ n = xfer.len - sent
       /\ sent' = IF lost THEN sent ELSE sent + n
       /\ bytesRemaining <= xfer.len - sent
       /\ clean => bytesRemaining = xfer.len - sent
       /\ bytesRemaining > 0 => currentAddress + bytesRemaining = xfer.addr + xfer.len
  <2>1. 1 <= Len(d) /\ Len(d) <= xfer.len - sent
    BY <1>3, <1>5
  <2>2. n >= 1 /\ n <= xfer.len - sent
    BY <1>8, <2>1, Zenon
  <2>3. bytesRemaining <= xfer.len - sent /\ (clean => bytesRemaining = xfer.len - sent)
    BY <1>3, <1>9, <1>11, <1>12 DEF TakenInv, Undisturbed
  <2> QED
    BY <1>5, <1>6, <1>8, <1>11, <2>2, <2>3 DEF TakenInv
<1>14. clean => currentAddress = xfer.addr + sent
  BY <1>2, <1>3, <1>12, <1>13
<1>15. MemInv' /\ ConfirmedHolds'
  BY <1>1, <1>2 DEF HoldInv, MemInv, ConfirmedHolds
<1>16. OutInv'
  <2>1. confirmed \cap DeviceCells = {}
    <3>1. \A a \in currentAddress .. currentAddress + bytesRemaining - 1 : a \in RangeOf(xfer)
      BY <1>3, <1>12, <1>13 DEF RangeOf
    <3>2. confirmed \cap Endangered(xfer) = {}
      BY <1>1 DEF HoldInv, MemInv
    <3>3. currentRequest = xfer.req /\ xfer.req \in {"WRITEFLASH", "WRITEEPROM"}
      BY <1>2, <1>11 DEF TakenInv, Writes
    <3>4. CASE xfer.req = "WRITEFLASH"
      <4>1. Endangered(xfer) = Cells("flash", PagesOf(RangeOf(xfer)))
        BY <3>4 DEF Endangered, WritesByte
      <4>2. DeviceCells \subseteq Endangered(xfer)
        BY <3>1, <3>3, <3>4, <4>1 DEF DeviceCells, Cells, PagesOf
      <4> QED
        BY <3>2, <4>2
    <3>5. CASE xfer.req = "WRITEEPROM"
      <4>1. Endangered(xfer) = Cells("eeprom", RangeOf(xfer))
        BY <3>5 DEF Endangered, WritesByte
      <4>2. DeviceCells \subseteq Endangered(xfer)
        BY <3>1, <3>3, <3>5, <4>1 DEF DeviceCells, Cells
      <4> QED
        BY <3>2, <4>2
    <3> QED
      BY <3>3, <3>4, <3>5
  <2>2. Storer /\ (currentRequest = "WRITEFLASH" => currentAddress % 2 = 0)
    BY <1>11 DEF TakenInv
  <2>3. Storer' = Storer /\ DeviceCells' = DeviceCells
    BY <1>1 DEF Storer, DeviceCells
  <2> QED
    BY <1>1, <2>1, <2>2, <2>3 DEF HoldInv, OutInv
<1>17. WriteInv'
  <2>1. TakenInv'
    <3>1. (/\ usbRxBuf.token # "SETUP" /\ Storer
           /\ currentRequest = xfer.req /\ isLastPage = xfer.last
           /\ xfer.req = "WRITEFLASH" => currentAddress % 2 = 0)'
      BY <1>1, <1>7, <1>11 DEF TakenInv, Storer
    <3>4. bytesRemaining <= xfer.len
      BY <1>11 DEF TakenInv
    <3>2. /\ bytesRemaining' > 0 => currentAddress' + bytesRemaining' = xfer'.addr + xfer'.len
          /\ bytesRemaining' <= xfer'.len /\ bytesRemaining' <= xfer'.len - sent' + n
          /\ n = PacketSize \/ bytesRemaining' <= n
      BY <1>1, <1>3, <1>12, <1>13, <3>4
    <3>3. clean' => Undisturbed'
      <4> SUFFICES ASSUME clean' PROVE Undisturbed'
        OBVIOUS
      <4>1. clean /\ ~lost /\ currentAddress = xfer.addr + sent
        BY <1>1, <1>14
      <4>2. /\ bytesRemaining' = xfer'.len - sent' + n
            /\ n > 0 /\ n <= bytesRemaining'
        BY <1>1, <1>3, <1>12, <1>13, <4>1
      <4>3. \A k \in 1 .. n : d[k] = Image(currentAddress + k - 1)
        BY <1>5, <1>8, <4>1
      <4> QED
        BY <1>1, <1>7, <1>9, <4>2, <4>3 DEF Undisturbed
    <3> QED
      BY <1>9, <3>1, <3>2, <3>3 DEF TakenInv
  <2>2. stage' = "statusIn" => ~WritesByte(xfer)'
    BY <1>1, <1>2 DEF WritesByte, Writes
  <2> QED
    BY <1>1, <1>2, <1>9, <2>1, <2>2 DEF WriteInv
<1>18. ByteInv' /\ EepromInv' /\ LateInv'
  BY <1>1, <1>2, <1>7, <1>9 DEF HoldInv, ByteInv, EepromInv, LateInv
<1>19. SpanInv'
  <2>1. \A e \in 1 .. FlashSize : LeftAt(e) => LeftAt(e)'
    BY <1>1, <1>10 DEF LeftAt, Loading
  <2> QED
    BY <1>1, <1>2, <1>10, <2>1 DEF HoldInv, SpanInv, Continues
<1>20. LoadInv'
  BY <1>1, <1>10 DEF HoldInv, LoadInv, Good, Continues, Loading, Ended, Past, AllPast
<1> QED
  BY <1>15, <1>16, <1>17, <1>18, <1>19, <1>20 DEF HoldInv

\* The device prepares a packet. It never reads where it is asked to write.
LEMMA PollTxHolds ==
  ASSUME BootInv, HoldInv, PollTx, UNCHANGED hostVars
  PROVE  HoldInv'
<1>1. CASE ~TxWanted
  BY <1>1, HoldKept DEF PollTx, holdVars, hostVars, usbVars
<1>2. CASE TxWanted /\ usbMsgFlags = "program" /\ WantLen > 0
  <2>1. /\ usbMsgFlags' = usbMsgFlags /\ usbRxBuf' = usbRxBuf
        /\ UNCHANGED <<isLastPage, currentRequest, flash, eeprom, pageBuf>>
        /\ UNCHANGED <<stage, xfer, sent, span, clean, stale, confirmed>>
    BY <1>2 DEF PollTx, BuildTxBlock, FunctionRead, hostVars, memoryVars
  <2>2. ~Storer
    <3>1. usbMsgLen # NoMsg /\ WantLen # 0
      BY <1>2 DEF TxWanted
    <3>2. usbMsgLen = 0 => WantLen = 0
      BY MinOfTwo, PacketSizeOK DEF WantLen
    <3> QED
      BY <3>1, <3>2 DEF HoldInv, OutInv
  <2>3. /\ usbRxBuf.token # "OUT" /\ ~Taken /\ ~Storer' /\ ~Filling
    BY <2>1, <2>2 DEF HoldInv, OutInv, WriteInv, TakenInv, Filling, Storer
  <2>4. /\ Unheard' = Unheard /\ Taken' = Taken /\ Transferring' = Transferring
        /\ Filling' = Filling
    BY <2>1 DEF Unheard, Taken, Transferring, Filling
  <2>5. MemInv' /\ ConfirmedHolds'
    BY <2>1 DEF HoldInv, MemInv, ConfirmedHolds
  <2>6. OutInv' /\ WriteInv'
    BY <2>1, <2>3, <2>4 DEF HoldInv, OutInv, WriteInv
  <2>7. ByteInv' /\ EepromInv' /\ LateInv'
    BY <2>1, <2>3, <2>4 DEF HoldInv, ByteInv, EepromInv, LateInv
  <2>8. SpanInv'
    <3>1. \A e \in 1 .. FlashSize : LeftAt(e) => LeftAt(e)'
      BY <2>1, <2>4 DEF LeftAt, Disturbs, Loading
    <3> QED
      BY <2>1, <2>4, <3>1 DEF HoldInv, SpanInv, Continues
  <2>9. LoadInv'
    BY <2>3, <2>4 DEF LoadInv
  <2> QED
    BY <2>5, <2>6, <2>7, <2>8, <2>9 DEF HoldInv
<1>3. CASE TxWanted /\ ~(usbMsgFlags = "program" /\ WantLen > 0)
  <2>1. /\ BuildTxBlock(DeviceRead)
        /\ UNCHANGED <<usbRxBuf, usbMsgFlags, transferVars, memoryVars>>
        /\ UNCHANGED <<stage, xfer, sent, span, clean, stale, confirmed>>
    BY <1>3 DEF PollTx, BuildTxBlock, hostVars
  <2>2. Storer => usbMsgLen' = NoMsg
    <3> SUFFICES ASSUME Storer PROVE usbMsgLen' = NoMsg
      OBVIOUS
    <3>1. usbMsgLen = 0
      BY <1>3 DEF HoldInv, OutInv, TxWanted
    <3>2. WantLen = 0
      BY <3>1, MinOfTwo, PacketSizeOK DEF WantLen
    <3>3. Len(DeviceRead) = 0
      BY <3>2, PartSeq DEF DeviceRead
    <3> QED
      BY <2>1, <3>3, PacketSizeOK DEF BuildTxBlock
  <2>3. /\ UNCHANGED <<usbRxBuf, usbMsgFlags, currentAddress, bytesRemaining,
                       isLastPage, currentRequest, flash, eeprom, pageBuf>>
    BY <2>1 DEF transferVars, memoryVars
  <2>4. /\ Unheard' = Unheard /\ Taken' = Taken /\ Transferring' = Transferring
        /\ Filling' = Filling /\ Storer' = Storer
    BY <2>1, <2>3 DEF Unheard, Taken, Transferring, Filling, Storer
  <2>5. MemInv' /\ ConfirmedHolds'
    BY <2>1, <2>3 DEF HoldInv, MemInv, ConfirmedHolds
  <2>6. OutInv'
    BY <2>1, <2>2, <2>3, <2>4 DEF HoldInv, OutInv, DeviceCells
  <2>7. WriteInv'
    BY <2>1, <2>3, <2>4 DEF HoldInv, WriteInv, TakenInv, Undisturbed, Waits
  <2>8. ByteInv' /\ EepromInv' /\ LateInv'
    BY <2>1, <2>3, <2>4 DEF HoldInv, ByteInv, EepromInv, LateInv
  <2>9. SpanInv'
    <3>1. \A e \in 1 .. FlashSize : LeftAt(e) => LeftAt(e)'
      BY <2>1, <2>3, <2>4 DEF LeftAt, Disturbs, Loading
    <3> QED
      BY <2>1, <2>3, <2>4, <3>1 DEF HoldInv, SpanInv, Continues
  <2>10. LoadInv'
    BY <2>1, <2>3, <2>4 DEF HoldInv, LoadInv, Good, Continues, Loading, Ended, Past, AllPast
  <2> QED
    BY <2>5, <2>6, <2>7, <2>8, <2>9, <2>10 DEF HoldInv
<1> QED
  BY <1>1, <1>2, <1>3

\* The buffer after a page is written.
LEMMA EmptiedPage == Emptied(BlankPage) /\ DOMAIN BlankPage = PageCells
  BY DEF Emptied, BlankPage, PageCells

\* A page that no word is left over for can be loaded from its first word on; a page
\* that was left unfinished, from there.
LEMMA FirstLoad ==
  ASSUME BootInv, HoldInv, xfer.req = "WRITEFLASH", stage # "idle", ~Filling, Good(xfer)
  PROVE  Loading(flash, pageBuf, stale, PageOf(xfer.addr), xfer.addr)
<1>1. PICK a \in Nat : a = xfer.addr /\ a % 2 = 0
  BY XferFacts DEF BootInv
<1>2. ~Disturbs
  BY DEF Disturbs, WritesByte
<1>3. ASSUME Continues(xfer)
      PROVE  Loading(flash, pageBuf, stale, PageOf(a), a)
  <2>1. span # {} /\ a - 1 \in span /\ a \notin span
    BY <1>1, <1>3 DEF Continues
  <2>2. PICK e \in 1 .. FlashSize : LeftAt(e)
    BY <2>1 DEF HoldInv, SpanInv
  <2>3. e = a
    <3>1. span = PageOf(e) .. e - 1 /\ e \in Nat
      BY <2>2, BootConstants DEF LeftAt
    <3>2. PageOf(e) \in Nat
      BY <3>1, PageFacts
    <3> QED
      BY <1>1, <2>1, <3>1, <3>2
  <2> QED
    BY <1>1, <1>2, <2>2, <2>3 DEF LeftAt
<1>4. ASSUME ~Continues(xfer), a % PageSize = 0
      PROVE  Loading(flash, pageBuf, stale, PageOf(a), a)
  <2>1. PageOf(a) = a
    BY <1>4, PageFacts
  <2>2. stale \/ Emptied(pageBuf)
    <3>1. span # {} => stale
      BY <1>4 DEF HoldInv, SpanInv
    <3> QED
      BY <3>1 DEF HoldInv, SpanInv
  <2>3. Emptied(pageBuf) => Buffered(pageBuf, a)
    <3>1. \A o \in PageCells : ~(PageOf(a) + o < a)
      BY <2>1, BootConstants DEF PageCells
    <3> QED
      BY <3>1, Zenon DEF Emptied, Buffered
  <2>4. stale => Excused(stale, PageOf(a), a)
    BY DEF Excused
  <2>5. \A c \in PageOf(a) .. PageOf(a) - 1 : FALSE
    BY <2>1
  <2> QED
    BY <2>1, <2>2, <2>3, <2>4, <2>5, Zenon DEF Loading
<1>5. Loading(flash, pageBuf, stale, PageOf(a), a)
  BY <1>1, <1>3, <1>4 DEF Good
<1> QED
  BY <1>1, <1>5

\* A request of the USB standard touches no memory.
LEMMA StandardHolds ==
  ASSUME BootInv, HoldInv, PollSetup, UNCHANGED hostVars, usbRxBuf.data.std
  PROVE  HoldInv'
<1>1. /\ usbRxBuf.token = "SETUP" /\ usbRxBuf'.token = "none" /\ usbMsgFlags' = "driver"
      /\ UNCHANGED <<currentAddress, bytesRemaining, isLastPage, currentRequest,
                     flash, eeprom, pageBuf>>
      /\ UNCHANGED <<stage, xfer, sent, span, clean, stale, confirmed>>
  BY DEF PollSetup, ProcessSetup, Free, hostVars, transferVars, memoryVars
<1>2. ~Transferring /\ ~(WritesByte(xfer) /\ stage \in {"dataIn", "statusOut"})
  <2>1. Unheard => xfer.std
    BY DEF Unheard
  <2>2. Transferring => Unheard
    BY <1>1 DEF HoldInv, WriteInv, TakenInv, Taken
  <2>3. stage \in {"dataIn", "statusOut"} => Unheard
    BY <1>1 DEF BootInv, AnswerInv, Free
  <2> QED
    BY <2>1, <2>2, <2>3, XferFacts DEF BootInv, Transferring
<1>3. /\ ~Transferring' /\ ~Taken /\ ~Taken' /\ ~Filling /\ ~Filling'
      /\ Disturbs' = Disturbs
  BY <1>1, <1>2 DEF Transferring, Taken, Filling, Disturbs
<1>4. MemInv' /\ ConfirmedHolds'
  BY <1>1 DEF HoldInv, MemInv, ConfirmedHolds
<1>5. OutInv'
  BY <1>1 DEF OutInv, Storer
<1>6. WriteInv'
  BY <1>1, <1>3 DEF HoldInv, WriteInv
<1>7. ByteInv' /\ EepromInv' /\ LateInv'
  BY <1>1, <1>2, <1>3 DEF ByteInv, EepromInv, LateInv
<1>8. SpanInv'
  <2>1. \A e \in 1 .. FlashSize : LeftAt(e) => LeftAt(e)'
    BY <1>1, <1>3 DEF LeftAt, Loading
  <2> QED
    BY <1>1, <1>3, <2>1 DEF HoldInv, SpanInv, Continues
<1>9. LoadInv'
  BY <1>3 DEF LoadInv
<1> QED
  BY <1>4, <1>5, <1>6, <1>7, <1>8, <1>9 DEF HoldInv

\* A request to the program begins a transfer, or writes a byte of the EEPROM.
LEMMA RequestHolds ==
  ASSUME BootInv, HoldInv, PollSetup, UNCHANGED hostVars, ~usbRxBuf.data.std
  PROVE  HoldInv'
<1>1. PICK rq : rq = usbRxBuf.data
  OBVIOUS
<1>2. /\ usbRxBuf.token = "SETUP" /\ usbRxBuf'.token = "none"
      /\ FunctionSetup(rq) /\ ProcessSetup(rq, rq.req \in Paged, FunctionReply(rq))
      /\ UNCHANGED <<stage, xfer, sent, span, clean, stale, confirmed>>
  BY <1>1 DEF PollSetup, ProcessSetup, Free, hostVars
<1>3. /\ flash' = flash
      /\ WritesByte(rq) => eeprom' = [eeprom EXCEPT ![rq.addr] = rq.val] /\ pageBuf' = BlankPage
      /\ ~WritesByte(rq) => eeprom' = eeprom /\ pageBuf' = pageBuf
      /\ rq.req \in Paged => /\ bytesRemaining' = rq.len /\ isLastPage' = rq.last
                             /\ currentRequest' = rq.req /\ currentAddress' = rq.addr
  BY <1>2 DEF FunctionSetup, WritesByte
<1>4. rq \in UNION Sessions /\ ~rq.std
  BY <1>1, <1>2 DEF BootInv, ShapeInv
<1>5. WritesByte(rq) => rq.addr \in Nat /\ rq.addr < EepromSize /\ rq.val = Image(rq.addr)
  BY <1>4, HostConstants
<1>6. Storer' => usbMsgLen' = NoMsg
  <2> SUFFICES ASSUME Storer' PROVE usbMsgLen' = NoMsg
    OBVIOUS
  <2>1. rq.req \in Paged /\ rq.req \in {"WRITEFLASH", "WRITEEPROM"}
    BY <1>2, <1>3 DEF Storer, ProcessSetup
  <2>2. ~rq.in
    BY <1>4, <2>1, HostConstants
  <2> QED
    BY <1>2, <2>1, <2>2 DEF ProcessSetup
<1>7. Unheard <=> rq = xfer
  BY <1>1, <1>2 DEF Unheard
<1>8. Transferring => rq = xfer /\ stage = "dataOut" /\ sent = 0
  BY <1>2, <1>7 DEF HoldInv, WriteInv, TakenInv, Taken
<1>9. stage \in {"dataIn", "statusOut"} => rq = xfer
  BY <1>2, <1>7 DEF BootInv, AnswerInv, Free
<1>10. ~Unheard' /\ ~Taken /\ ~Filling
  BY <1>2 DEF Unheard, HoldInv, WriteInv, TakenInv, Filling
<1>11. Transferring' = Transferring /\ Disturbs' = Disturbs /\ Taken' = Transferring
  BY <1>2, <1>10 DEF Transferring, Disturbs, Taken
<1>12. ~(Transferring /\ WritesByte(rq))
  BY <1>8 DEF Transferring, Writes, WritesByte
<1>13. MemInv'
  BY <1>2, <1>3, EmptiedPage DEF HoldInv, MemInv
<1>14. ConfirmedHolds'
  <2> SUFFICES ASSUME NEW c \in confirmed
               PROVE  (IF c[1] = "flash" THEN flash'[c[2]] ELSE eeprom'[c[2]]) = Image(c[2])
    BY <1>2 DEF ConfirmedHolds
  <2>1. (IF c[1] = "flash" THEN flash[c[2]] ELSE eeprom[c[2]]) = Image(c[2])
    BY DEF HoldInv, ConfirmedHolds
  <2>2. c \in Cells("flash", FlashCells) \cup Cells("eeprom", 0 .. EepromSize - 1)
    BY DEF HoldInv, MemInv
  <2>3. c[1] # "flash" => c[2] \in DOMAIN eeprom
    BY <2>2 DEF HoldInv, MemInv, Cells
  <2>4. c[1] # "flash" => eeprom'[c[2]] = Image(c[2])
    BY <1>3, <1>5, <2>1, <2>3
  <2> QED
    BY <1>3, <2>1, <2>4
<1>15. OutInv'
  BY <1>2, <1>6 DEF OutInv
<1>16. ASSUME Transferring PROVE TakenInv'
  <2>1. /\ rq = xfer /\ sent = 0 /\ Writes(rq) /\ rq.req \in Paged
    BY <1>8, <1>16 DEF Transferring, Writes, Paged
  <2>2. /\ usbMsgFlags' = "program" /\ currentRequest' = xfer.req /\ isLastPage' = xfer.last
        /\ bytesRemaining' = xfer.len /\ currentAddress' = xfer.addr
    BY <1>2, <1>3, <2>1 DEF ProcessSetup
  <2>3. Waits' = 0
    BY <1>2 DEF Waits
  <2>4. xfer.len \in Nat /\ xfer.addr \in Nat /\ (xfer.req = "WRITEFLASH" => xfer.addr % 2 = 0)
    BY XferFacts DEF BootInv
  <2>5. Storer'
    BY <2>1, <2>2 DEF Storer, Writes
  <2> QED
    BY <1>2, <2>1, <2>2, <2>3, <2>4, <2>5 DEF TakenInv, Undisturbed
<1>17. WriteInv'
  BY <1>2, <1>10, <1>11, <1>16, <1>8 DEF HoldInv, WriteInv
<1>18. ByteInv'
  <2>1. WritesByte(xfer) /\ rq = xfer => eeprom'[xfer.addr] = Image(xfer.addr) /\ Emptied(pageBuf')
    <3>1. WritesByte(rq) => rq.addr \in DOMAIN eeprom
      BY <1>5, BootConstants DEF HoldInv, MemInv
    <3> QED
      BY <1>3, <1>5, <3>1, EmptiedPage
  <2> QED
    BY <1>2, <1>9, <2>1 DEF ByteInv
<1>19. EepromInv'
  <2> SUFFICES ASSUME Transferring
               PROVE  /\ bytesRemaining' = xfer.len
                      /\ \A a \in xfer.addr .. xfer.addr + xfer.len - bytesRemaining' - 1 : FALSE
    <3>1. xfer.len \in Nat
      BY XferFacts DEF BootInv
    <3> QED
      BY <1>2, <1>11, <3>1 DEF EepromInv
  <2>1. bytesRemaining' = xfer.len
    BY <1>3, <1>8 DEF Transferring, Writes, Paged
  <2>2. xfer.len \in Nat /\ xfer.addr \in Nat
    BY XferFacts DEF BootInv
  <2> QED
    BY <2>1, <2>2
<1>20. LateInv'
  BY <1>2 DEF LateInv
<1>21. SpanInv'
  <2>1. span = {} /\ ~stale => Emptied(pageBuf')
    BY <1>3, <1>10, EmptiedPage DEF HoldInv, SpanInv
  <2>2. span # {} /\ WritesByte(rq) => Disturbs
    BY <1>1, <1>2 DEF HoldInv, LateInv, Disturbs
  <2>3. ASSUME span # {}, NEW e \in 1 .. FlashSize, LeftAt(e) PROVE LeftAt(e)'
    <3>1. ~Disturbs => UNCHANGED <<flash, pageBuf, stale>>
      BY <1>2, <1>3, <2>2, <2>3
    <3>2. ~Disturbs /\ e % 2 = 0 => Loading(flash, pageBuf, stale, PageOf(e), e)
      BY <1>10, <2>3 DEF LeftAt
    <3>3. ~Disturbs' /\ e % 2 = 0 => Loading(flash, pageBuf, stale, PageOf(e), e)'
      BY <1>11, <3>1, <3>2
    <3> QED
      BY <1>2, <2>3, <3>3 DEF LeftAt
  <2> QED
    BY <1>2, <2>1, <2>3 DEF HoldInv, SpanInv, Continues
<1>22. LoadInv'
  <2> SUFFICES ASSUME Transferring, xfer.req = "WRITEFLASH", Good(xfer)
               PROVE  /\ bytesRemaining' > 0 /\ currentAddress' = xfer.addr
                      /\ Loading(flash, pageBuf, stale, PageOf(xfer.addr), xfer.addr)'
    BY <1>2, <1>11 DEF LoadInv, Filling, Good, Continues
  <2>1. bytesRemaining' = xfer.len /\ currentAddress' = xfer.addr
    BY <1>3, <1>8 DEF Paged
  <2>2. xfer.len > 0
    BY XferFacts DEF BootInv, Transferring
  <2>3. Loading(flash, pageBuf, stale, PageOf(xfer.addr), xfer.addr)
    BY <1>10, FirstLoad DEF Transferring
  <2>4. UNCHANGED <<flash, pageBuf, stale, xfer>>
    BY <1>2, <1>3, <1>12
  <2> QED
    BY <2>1, <2>2, <2>3, <2>4
<1> QED
  BY <1>13, <1>14, <1>15, <1>17, <1>18, <1>19, <1>20, <1>21, <1>22 DEF HoldInv

\* The device serves a SETUP packet.
LEMMA PollSetupHolds ==
  ASSUME BootInv, HoldInv, PollSetup, UNCHANGED hostVars
  PROVE  HoldInv'
  BY StandardHolds, RequestHolds

\* What a data packet does besides the memories.
OutStep(d, n) ==
  /\ usbRxBuf.token = "OUT" /\ d = usbRxBuf.data /\ n \in Nat
  /\ n <= bytesRemaining /\ n <= Len(d) /\ (n = Len(d) \/ n = bytesRemaining)
  /\ bytesRemaining \in Nat /\ currentAddress \in Nat
  /\ Storer /\ FunctionWrite(d) /\ WriteLen(d) = n
  /\ usbRxBuf'.token = "none" /\ usbMsgLen' \in {0, usbMsgLen}
  /\ bytesRemaining' = bytesRemaining - n
  /\ UNCHANGED <<usbMsgFlags, isLastPage, currentRequest>>
  /\ UNCHANGED <<stage, xfer, sent, span, clean, stale, confirmed>>

LEMMA OutStepIs ==
  ASSUME BootInv, HoldInv, PollOut, UNCHANGED hostVars
  PROVE  \E d, n : OutStep(d, n)
<1>1. PICK d : d = usbRxBuf.data
  OBVIOUS
<1>2. /\ usbRxBuf.token = "OUT" /\ usbRxBuf'.token = "none" /\ usbMsgFlags' = usbMsgFlags
      /\ UNCHANGED <<stage, xfer, sent, span, clean, stale, confirmed>>
  BY DEF PollOut, ProcessOut, Free, hostVars
<1>3. Storer
  BY <1>2 DEF HoldInv, OutInv
<1>4. FunctionWrite(d) /\ usbMsgLen' \in {0, usbMsgLen}
  BY <1>1, <1>3 DEF PollOut, ProcessOut, Storer
<1>5. IsSeq(d) /\ bytesRemaining \in Nat /\ currentAddress \in Nat
  <2>1. IsSeq(usbRxBuf.data)
    BY <1>2 DEF BootInv, ShapeInv
  <2>2. bytesRemaining \in Nat /\ currentAddress \in Nat
    BY DEF BootInv, TypeOK, BootTypeOK
  <2> QED
    BY <1>1, <2>1, <2>2, Zenon
<1>6. Len(d) \in Nat /\ WriteLen(d) = IF Len(d) <= bytesRemaining THEN Len(d) ELSE bytesRemaining
  <2>1. Len(d) \in Nat
    BY <1>5, SeqLength
  <2> QED
    BY <1>5, <2>1, MinOfTwo DEF WriteLen
<1>7. PICK n \in Nat : n = WriteLen(d)
  BY <1>5, <1>6
<1>8. /\ n <= bytesRemaining /\ n <= Len(d) /\ (n = Len(d) \/ n = bytesRemaining)
  BY <1>5, <1>6, <1>7
<1>9. bytesRemaining' = bytesRemaining - n /\ UNCHANGED <<isLastPage, currentRequest>>
  BY <1>4, <1>7 DEF FunctionWrite
<1>10. OutStep(d, n)
  BY <1>1, <1>2, <1>3, <1>4, <1>5, <1>7, <1>8, <1>9 DEF OutStep
<1> QED
  BY <1>10

\* The count of a write that the device has taken a packet of.
LEMMA OutCounts ==
  ASSUME BootInv, HoldInv, NEW d, NEW n, OutStep(d, n), Transferring
  PROVE  /\ TakenInv /\ xfer.len \in Nat /\ xfer.addr \in Nat /\ sent \in Nat
         /\ bytesRemaining' \in Nat /\ bytesRemaining' <= xfer.len - sent
         /\ bytesRemaining' > 0 =>
              /\ n = PacketSize /\ n % 2 = 0
              /\ currentAddress + n + bytesRemaining' = xfer.addr + xfer.len
         /\ clean => /\ n > 0 /\ n = Len(d) /\ bytesRemaining' = xfer.len - sent
                     /\ \A k \in 1 .. n : d[k] = Image(currentAddress + k - 1)
                     /\ currentAddress + bytesRemaining = xfer.addr + xfer.len
<1>1. TakenInv
  BY DEF HoldInv, WriteInv, Taken, Unheard, OutStep
<1>2. PICK w : w = Len(d)
  OBVIOUS
<1>3. Waits = w
  BY <1>2 DEF Waits, OutStep
<1>4. IsSeq(usbRxBuf.data)
  BY DEF BootInv, ShapeInv, OutStep
<1>5. w \in Nat
  BY <1>2, <1>4, SeqLength DEF OutStep
<1>6. xfer.len \in Nat /\ xfer.addr \in Nat /\ sent \in Nat /\ sent <= xfer.len
  BY XferFacts DEF BootInv
<1>7. /\ n \in Nat /\ n <= bytesRemaining /\ n <= w /\ (n = w \/ n = bytesRemaining)
      /\ bytesRemaining \in Nat /\ currentAddress \in Nat /\ bytesRemaining' = bytesRemaining - n
  BY <1>2 DEF OutStep
<1>8. /\ bytesRemaining <= xfer.len - sent + w
      /\ w = PacketSize \/ bytesRemaining <= w
      /\ bytesRemaining > 0 => currentAddress + bytesRemaining = xfer.addr + xfer.len
      /\ clean => bytesRemaining = xfer.len - sent + w /\ w > 0 /\ w <= bytesRemaining
  BY <1>1, <1>3 DEF TakenInv, Undisturbed, OutStep
<1>9. clean => \A k \in 1 .. w : d[k] = Image(currentAddress + k - 1)
  BY <1>1, <1>3 DEF TakenInv, Undisturbed, OutStep
<1>10. PacketSize \in Nat /\ PacketSize % 2 = 0
  BY PacketSizeOK, BootConstants
<1>11. bytesRemaining' \in Nat /\ bytesRemaining' <= xfer.len - sent
  BY <1>6, <1>7, <1>8, <1>5
<1>12. bytesRemaining' > 0 =>
         /\ n = PacketSize /\ n % 2 = 0
         /\ currentAddress + n + bytesRemaining' = xfer.addr + xfer.len
  <2> SUFFICES ASSUME bytesRemaining' > 0
               PROVE  /\ n = PacketSize
                      /\ currentAddress + n + bytesRemaining' = xfer.addr + xfer.len
    BY <1>10
  <2>1. n < bytesRemaining /\ n = w
    BY <1>7, <1>5
  <2> QED
    BY <1>5, <1>6, <1>7, <1>8, <2>1
<1>13. clean => n > 0 /\ n = w /\ bytesRemaining' = xfer.len - sent
  BY <1>5, <1>6, <1>7, <1>8
<1>14. clean => currentAddress + bytesRemaining = xfer.addr + xfer.len
  BY <1>5, <1>7, <1>8
<1> QED
  BY <1>1, <1>2, <1>6, <1>9, <1>11, <1>12, <1>13, <1>14

\* What holds after the packet whichever memory it was for.
LEMMA OutHolds ==
  ASSUME BootInv, HoldInv, NEW d, NEW n, OutStep(d, n),
         currentRequest = "WRITEFLASH" =>
           currentAddress' = currentAddress + n + (n % 2) /\ eeprom' = eeprom,
         currentRequest # "WRITEFLASH" => currentAddress' = currentAddress + n /\ flash' = flash
  PROVE  OutInv' /\ WriteInv' /\ ByteInv' /\ LateInv'
<1>1. OutInv'
  BY DEF OutInv, OutStep, HoldInv, Storer, NoMsg
<1>2. ~Unheard /\ ~Unheard' /\ Transferring' = Transferring /\ (Taken' <=> Transferring)
  BY DEF OutStep, Unheard, Transferring, Taken
<1>3. ASSUME Transferring PROVE TakenInv'
  <2>1. /\ TakenInv /\ xfer.len \in Nat /\ xfer.addr \in Nat /\ sent \in Nat
        /\ bytesRemaining' \in Nat /\ bytesRemaining' <= xfer.len - sent
        /\ bytesRemaining' > 0 =>
              /\ n % 2 = 0
              /\ currentAddress + n + bytesRemaining' = xfer.addr + xfer.len
        /\ clean => bytesRemaining' = xfer.len - sent
    BY <1>3, OutCounts
  <2>2. Waits' = 0
    BY DEF Waits, OutStep
  <2>3. /\ usbRxBuf'.token # "SETUP" /\ usbRxBuf'.token # "OUT" /\ Storer'
        /\ currentRequest' = xfer'.req /\ isLastPage' = xfer'.last
    BY <2>1 DEF OutStep, Storer, TakenInv
  <2>4. currentAddress \in Nat /\ n \in Nat
    BY DEF OutStep
  <2>5. xfer'.req = "WRITEFLASH" => currentAddress' % 2 = 0
    <3> SUFFICES ASSUME xfer.req = "WRITEFLASH"
                 PROVE  (currentAddress + n + (n % 2)) % 2 = 0
      BY <2>1 DEF OutStep, TakenInv
    <3>1. currentAddress % 2 = 0
      BY <2>1 DEF TakenInv
    <3>2. PICK h \in Nat : currentAddress = 2 * h
      BY <2>4, <3>1
    <3>3. PICK k \in Nat : n = 2 * k \/ n = 2 * k + 1
      BY <2>4
    <3> QED
      BY <3>2, <3>3
  <2>6. bytesRemaining' > 0 => currentAddress' + bytesRemaining' = xfer'.addr + xfer'.len
    BY <2>1, <2>4 DEF OutStep
  <2>8. bytesRemaining' <= xfer'.len
    BY <2>1, <2>4 DEF OutStep, TakenInv
  <2>7. /\ bytesRemaining' <= xfer'.len - sent' + Waits'
        /\ clean' => bytesRemaining' = xfer'.len - sent' + Waits'
    BY <2>1, <2>2 DEF OutStep
  <2> QED
    BY <2>3, <2>5, <2>6, <2>7, <2>8 DEF TakenInv, Undisturbed
<1>4. WriteInv'
  BY <1>2, <1>3 DEF WriteInv, OutStep, HoldInv
<1>5. ByteInv'
  <2>1. stage \notin {"dataIn", "statusOut"}
    <3>1. Transferring => stage \notin {"dataIn", "statusOut"}
      BY DEF Transferring
    <3> QED
      BY <3>1 DEF HoldInv, LateInv, OutStep
  <2> QED
    BY <2>1 DEF ByteInv, OutStep
<1>6. LateInv'
  BY DEF LateInv, OutStep
<1> QED
  BY <1>1, <1>4, <1>5, <1>6

\* A packet for the EEPROM.
LEMMA OutEepromHolds ==
  ASSUME BootInv, HoldInv, NEW d, NEW n, OutStep(d, n), currentRequest = "WRITEEPROM"
  PROVE  HoldInv'
<1>1. /\ eeprom' = [c \in DOMAIN eeprom |->
                      IF c \in currentAddress .. currentAddress + n - 1
                      THEN d[c - currentAddress + 1] ELSE eeprom[c]]
      /\ pageBuf' = IF n > 0 THEN BlankPage ELSE pageBuf
      /\ currentAddress' = currentAddress + n
      /\ flash' = flash
  BY DEF OutStep, FunctionWrite, EepromPaged
<1>2. /\ UNCHANGED <<stage, xfer, sent, span, clean, stale, confirmed>>
      /\ usbRxBuf.token = "OUT" /\ n \in Nat /\ bytesRemaining \in Nat /\ currentAddress \in Nat
      /\ n <= bytesRemaining /\ bytesRemaining' = bytesRemaining - n
  BY DEF OutStep
<1>3. OutInv' /\ WriteInv' /\ ByteInv' /\ LateInv'
  BY <1>1, OutHolds
<1>4. MemInv'
  <2>1. DOMAIN eeprom' = DOMAIN eeprom
    BY <1>1
  <2>2. DOMAIN pageBuf' = PageCells
    BY <1>1, EmptiedPage DEF HoldInv, MemInv
  <2> QED
    BY <1>1, <1>2, <2>1, <2>2 DEF HoldInv, MemInv
<1>5. ConfirmedHolds'
  <2> SUFFICES ASSUME NEW c \in confirmed
               PROVE  (IF c[1] = "flash" THEN flash'[c[2]] ELSE eeprom'[c[2]]) = Image(c[2])
    BY <1>2 DEF ConfirmedHolds
  <2>1. (IF c[1] = "flash" THEN flash[c[2]] ELSE eeprom[c[2]]) = Image(c[2])
    BY DEF HoldInv, ConfirmedHolds
  <2>2. ASSUME c[1] # "flash" PROVE eeprom'[c[2]] = eeprom[c[2]]
    <3>1. PICK a \in 0 .. EepromSize - 1 : c = <<"eeprom", a>>
      BY <2>2 DEF HoldInv, MemInv, Cells
    <3>2. c \notin DeviceCells
      BY <1>2 DEF HoldInv, OutInv
    <3>3. a \notin currentAddress .. currentAddress + bytesRemaining - 1
      BY <3>1, <3>2 DEF DeviceCells, Cells
    <3>4. a \notin currentAddress .. currentAddress + n - 1
      BY <1>2, <3>3
    <3>5. a \in DOMAIN eeprom /\ c[2] = a
      BY <3>1 DEF HoldInv, MemInv
    <3> QED
      BY <1>1, <3>4, <3>5
  <2> QED
    BY <1>1, <2>1, <2>2
<1>6. /\ ~Unheard /\ ~Unheard' /\ Transferring' = Transferring
      /\ Taken' = Taken /\ Taken = Transferring
  BY <1>2 DEF OutStep, Unheard, Transferring, Taken
<1>7. Transferring => xfer.req = "WRITEEPROM"
  BY <1>6 DEF HoldInv, WriteInv, TakenInv
<1>8. ~Filling /\ ~Filling' /\ Disturbs' = Disturbs
  BY <1>2, <1>6, <1>7 DEF Filling, Disturbs
<1>9. EepromInv'
  <2> SUFFICES ASSUME Transferring
               PROVE  /\ bytesRemaining' < xfer.len => Emptied(pageBuf')
                      /\ clean => \A a \in xfer.addr .. xfer.addr + xfer.len - bytesRemaining' - 1 :
                                    eeprom'[a] = Image(a)
    BY <1>2, <1>6 DEF EepromInv
  <2>1. /\ xfer.len \in Nat /\ xfer.addr \in Nat
        /\ bytesRemaining < xfer.len => Emptied(pageBuf)
    BY <1>6, <1>7, OutCounts DEF HoldInv, EepromInv
  <2>2. bytesRemaining' < xfer.len => Emptied(pageBuf')
    <3>1. n = 0 => bytesRemaining' = bytesRemaining /\ pageBuf' = pageBuf
      BY <1>1, <1>2
    <3>2. n # 0 => Emptied(pageBuf')
      BY <1>1, <1>2, EmptiedPage
    <3> QED
      BY <2>1, <3>1, <3>2
  <2>3. ASSUME clean, NEW a \in xfer.addr .. xfer.addr + xfer.len - bytesRemaining' - 1
        PROVE  eeprom'[a] = Image(a)
    <3>1. /\ \A k \in 1 .. n : d[k] = Image(currentAddress + k - 1)
          /\ currentAddress + bytesRemaining = xfer.addr + xfer.len
          /\ \A b \in xfer.addr .. xfer.addr + xfer.len - bytesRemaining - 1 : eeprom[b] = Image(b)
      BY <1>6, <1>7, <2>3, OutCounts DEF HoldInv, EepromInv
    <3>2. a \in DOMAIN eeprom
      <4>1. xfer.addr + xfer.len <= EepromSize
        BY <1>7, XferFacts DEF BootInv
      <4>2. a \in 0 .. EepromSize - 1
        BY <1>2, <2>1, <4>1, BootConstants
      <4> QED
        BY <4>2 DEF HoldInv, MemInv
    <3>3. CASE a \in currentAddress .. currentAddress + n - 1
      <4>1. a - currentAddress + 1 \in 1 .. n /\ currentAddress + (a - currentAddress + 1) - 1 = a
        BY <1>2, <3>3
      <4>2. d[a - currentAddress + 1] = Image(a)
        BY <3>1, <4>1
      <4> QED
        BY <1>1, <3>2, <3>3, <4>2
    <3>4. CASE a \notin currentAddress .. currentAddress + n - 1
      <4>1. a \in xfer.addr .. xfer.addr + xfer.len - bytesRemaining - 1
        BY <1>2, <2>1, <3>1, <3>4
      <4> QED
        BY <1>1, <3>1, <3>2, <3>4, <4>1
    <3> QED
      BY <3>3, <3>4
  <2> QED
    BY <2>2, <2>3
<1>10. SpanInv'
  <2>1. span = {} /\ ~stale => Emptied(pageBuf')
    BY <1>1, <1>8, EmptiedPage DEF HoldInv, SpanInv
  <2>2. span # {} => Disturbs
    <3>1. span # {} => Transferring
      BY <1>2 DEF HoldInv, LateInv
    <3> QED
      BY <1>7, <3>1 DEF Transferring, Disturbs
  <2>3. span # {} => \A e \in 1 .. FlashSize : LeftAt(e) => LeftAt(e)'
    BY <1>2, <1>8, <2>2 DEF LeftAt
  <2> QED
    BY <1>2, <2>1, <2>3 DEF HoldInv, SpanInv, Continues
<1>11. LoadInv'
  BY <1>8 DEF LoadInv
<1> QED
  BY <1>3, <1>4, <1>5, <1>9, <1>10, <1>11 DEF HoldInv

\* A packet for the flash.
LEMMA OutFlashHolds ==
  ASSUME BootInv, HoldInv, NEW d, NEW n, OutStep(d, n), currentRequest = "WRITEFLASH"
  PROVE  HoldInv'
<1> DEFINE last == FinalPacket(d) /\ isLastPage
<1>1. PICK s : s = StorePacket(d, n, last)
  OBVIOUS
<1>2. /\ flash' = s.flash /\ pageBuf' = s.buf /\ eeprom' = eeprom
      /\ currentAddress' = currentAddress + n + (n % 2)
  BY <1>1 DEF OutStep, FunctionWrite, EepromPaged
<1>3. /\ UNCHANGED <<stage, xfer, sent, span, clean, stale, confirmed>>
      /\ usbRxBuf.token = "OUT" /\ n \in Nat /\ bytesRemaining \in Nat /\ currentAddress \in Nat
      /\ n <= bytesRemaining /\ bytesRemaining' = bytesRemaining - n
      /\ FinalPacket(d) <=> bytesRemaining = n
      /\ isLastPage \in BOOLEAN
  BY DEF OutStep, FinalPacket, BootInv, TypeOK, BootTypeOK
<1>4. last \in BOOLEAN /\ (last <=> bytesRemaining = n /\ isLastPage)
  BY <1>3
<1> HIDE DEF last
<1>5. PacketReady
  BY <1>3 DEF HoldInv, MemInv, OutInv, PacketReady
<1>6. OutInv' /\ WriteInv' /\ ByteInv' /\ LateInv'
  BY <1>2, OutHolds
<1>7. /\ Memories(s)
      /\ \A c \in FlashCells :
           (\A k \in currentAddress .. currentAddress + n - 1 : PageOf(c) # PageOf(k))
             => s.flash[c] = flash[c]
  BY <1>1, <1>3, <1>5, PacketStays
<1>8. MemInv'
  BY <1>2, <1>3, <1>7 DEF HoldInv, MemInv, Memories
<1>9. ConfirmedHolds'
  <2> SUFFICES ASSUME NEW c \in confirmed
               PROVE  (IF c[1] = "flash" THEN flash'[c[2]] ELSE eeprom'[c[2]]) = Image(c[2])
    BY <1>3 DEF ConfirmedHolds
  <2>1. (IF c[1] = "flash" THEN flash[c[2]] ELSE eeprom[c[2]]) = Image(c[2])
    BY DEF HoldInv, ConfirmedHolds
  <2>2. ASSUME c[1] = "flash" PROVE flash'[c[2]] = flash[c[2]]
    <3>1. PICK a \in FlashCells : c = <<"flash", a>>
      BY <2>2 DEF HoldInv, MemInv, Cells
    <3>2. c \notin DeviceCells
      BY <1>3 DEF HoldInv, OutInv
    <3>3. a \notin PagesOf(currentAddress .. currentAddress + bytesRemaining - 1)
      BY <3>1, <3>2 DEF DeviceCells, Cells
    <3>4. \A k \in currentAddress .. currentAddress + bytesRemaining - 1 : PageOf(a) # PageOf(k)
      BY <3>3 DEF PagesOf, FlashCells
    <3>5. \A k \in currentAddress .. currentAddress + n - 1 :
            k \in currentAddress .. currentAddress + bytesRemaining - 1
      BY <1>3
    <3>6. s.flash[a] = flash[a]
      BY <1>7, <3>4, <3>5, Zenon
    <3> QED
      BY <1>2, <3>1, <3>6
  <2> QED
    BY <1>2, <2>1, <2>2
<1>10. /\ ~Unheard /\ ~Unheard' /\ Transferring' = Transferring
       /\ Taken' = Taken /\ Taken = Transferring
  BY <1>3 DEF OutStep, Unheard, Transferring, Taken
<1>11. Transferring => xfer.req = "WRITEFLASH"
  BY <1>10 DEF HoldInv, WriteInv, TakenInv
<1>12. Filling = Transferring /\ Filling' = Transferring /\ Disturbs' = Disturbs
  BY <1>3, <1>10, <1>11 DEF Filling, Disturbs, Transferring
<1>13. EepromInv'
  BY <1>3, <1>10, <1>11 DEF EepromInv
<1>14. SpanInv'
  <2>1. ~Transferring => span = {} /\ stale
    BY <1>3 DEF HoldInv, LateInv
  <2>2. Transferring => \A e \in 1 .. FlashSize : LeftAt(e) => LeftAt(e)'
    BY <1>3, <1>12 DEF LeftAt
  <2> QED
    BY <1>3, <1>12, <2>1, <2>2 DEF HoldInv, SpanInv, Continues
<1>15. LoadInv'
  <2> SUFFICES ASSUME Transferring, clean, Good(xfer)
               PROVE  LoadInv'
    BY <1>3, <1>12 DEF LoadInv, Good, Continues
  <2>1. /\ TakenInv /\ xfer.len \in Nat /\ xfer.addr \in Nat
        /\ bytesRemaining' > 0 =>
             /\ n % 2 = 0
             /\ currentAddress + n + bytesRemaining' = xfer.addr + xfer.len
        /\ n > 0 /\ \A k \in 1 .. n : d[k] = Image(currentAddress + k - 1)
        /\ currentAddress + bytesRemaining = xfer.addr + xfer.len
        /\ bytesRemaining' = xfer.len - sent
    BY OutCounts
  <2>2. PICK b \in Nat : b = PageOf(xfer.addr) /\ b <= xfer.addr
    BY <2>1, PageFacts
  <2>3. /\ xfer.addr + xfer.len <= FlashSize /\ xfer.last \in BOOLEAN /\ FlashSize \in Nat
        /\ xfer.addr % 2 = 0
    BY <1>11, XferFacts, BootConstants DEF BootInv
  <2>4. bytesRemaining > 0 /\ bytesRemaining <= xfer.len
    BY <1>3, <2>1 DEF TakenInv
  <2>5. b <= currentAddress /\ currentAddress + n <= FlashSize
    BY <1>3, <2>1, <2>2, <2>3, <2>4
  <2>6. Loading(flash, pageBuf, stale, b, currentAddress)
    BY <1>12, <2>2, <2>4 DEF HoldInv, LoadInv
  <2>10. PICK f \in Nat : f = currentAddress + n
    BY <1>3
  <2>11. PICK bad, l : bad = stale /\ l = last
    OBVIOUS
  <2>12. /\ Past(s.flash, bad, b, f)
         /\ ~l /\ n % 2 = 0 => Loading(s.flash, s.buf, bad, b, f)
         /\ l => s.buf = BlankPage /\ AllPast(s.flash, bad, b, f)
    <3>1. /\ l \in BOOLEAN /\ s = StorePacket(d, n, l) /\ n > 0
          /\ \A k \in 1 .. n : d[k] = Image(currentAddress + k - 1)
          /\ Loading(flash, pageBuf, bad, b, currentAddress)
      BY <1>1, <1>4, <2>1, <2>6, <2>11
    <3>2. LET r == StorePacket(d, n, l)
              g == currentAddress + n
          IN /\ Past(r.flash, bad, b, g)
             /\ ~l /\ n % 2 = 0 => Loading(r.flash, r.buf, bad, b, g)
             /\ l => r.buf = BlankPage /\ AllPast(r.flash, bad, b, g)
      BY <1>3, <1>5, <2>5, <3>1, PacketLoads
    <3> QED
      BY <2>10, <3>1, <3>2
  <2>7. /\ Past(s.flash, stale, b, f)
        /\ ~last /\ n % 2 = 0 => Loading(s.flash, s.buf, stale, b, f)
        /\ last => s.buf = BlankPage /\ AllPast(s.flash, stale, b, f)
    BY <2>11, <2>12
  <2>8. CASE bytesRemaining' > 0
    <3>1. n % 2 = 0 /\ ~last
      BY <1>3, <1>4, <2>1, <2>8
    <3>2. currentAddress' = f
      BY <1>2, <1>3, <2>10, <3>1
    <3>3. Loading(flash', pageBuf', stale', b, currentAddress')
      BY <1>2, <1>3, <2>7, <3>1, <3>2
    <3> QED
      BY <1>3, <2>2, <2>8, <3>3 DEF LoadInv
  <2>9. CASE ~(bytesRemaining' > 0)
    <3>1. bytesRemaining = n /\ f = xfer.addr + xfer.len
      BY <1>3, <2>1, <2>9, <2>10
    <3>2. last = xfer.last
      BY <1>3, <1>4, <2>1, <2>3, <3>1 DEF TakenInv
    <3>3. f % 2 = 0 => n % 2 = 0
      <4>1. PICK h \in Nat : currentAddress = 2 * h
        BY <1>5 DEF PacketReady
      <4> QED
        BY <1>3, <2>10, <4>1
    <3>4. Ended(b, f)'
      BY <1>2, <1>3, <2>7, <3>2, <3>3, EmptiedPage DEF Ended
    <3> QED
      BY <1>3, <2>2, <2>9, <3>1, <3>4 DEF LoadInv
  <2> QED
    BY <2>8, <2>9
<1> QED
  BY <1>6, <1>8, <1>9, <1>13, <1>14, <1>15 DEF HoldInv

\* The device serves a packet of a write.
LEMMA PollOutHolds ==
  ASSUME BootInv, HoldInv, PollOut, UNCHANGED hostVars
  PROVE  HoldInv'
<1>1. PICK d, n : OutStep(d, n)
  BY OutStepIs
<1>2. currentRequest \in {"WRITEFLASH", "WRITEEPROM"}
  BY <1>1 DEF OutStep, Storer
<1> QED
  BY <1>1, <1>2, OutFlashHolds, OutEepromHolds

\* The pages that a run of addresses from the start of a page on has completed.
LEMMA CompleteRun ==
  ASSUME NEW b \in Nat, PageOf(b) = b, NEW f \in Nat, b < f, f <= FlashSize,
         f = xfer.addr + xfer.len
  PROVE  Complete(b .. f - 1) = b .. (IF xfer.last THEN f ELSE PageOf(f)) - 1
<1>1. PICK top \in Nat : top = FlashSize /\ top % PageSize = 0
  BY BootConstants
<1>2. PageOf(f) \in Nat /\ PageOf(f) <= f
  BY PageFacts
<1>3. ASSUME NEW a \in b .. f - 1, NEW c \in PagesOf({a})
      PROVE  c \in Nat /\ PageOf(c) = PageOf(a) /\ b <= c
  <2>1. a \in Nat /\ c \in Nat /\ PageOf(c) = PageOf(a) /\ b <= a
    BY <1>1 DEF PagesOf
  <2>2. b <= PageOf(a)
    BY <2>1, PageOrder
  <2>3. PageOf(c) <= c /\ PageOf(c) \in Nat
    BY <2>1, PageFacts
  <2> QED
    BY <2>1, <2>2, <2>3
<1>4. CASE xfer.last
  <2>1. ASSUME NEW a \in b .. f - 1, NEW c \in PagesOf({a}) PROVE c \in b .. f - 1 \/ c >= f
    BY <1>3
  <2>2. \A a \in b .. f - 1 : a \in Complete(b .. f - 1)
    BY <1>4, <2>1, Zenon DEF Complete
  <2>3. Complete(b .. f - 1) \subseteq b .. f - 1
    BY DEF Complete
  <2> QED
    BY <1>4, <2>2, <2>3
<1>5. CASE ~xfer.last
  <2>1. ASSUME NEW a \in b .. f - 1, a < PageOf(f) PROVE PagesOf({a}) \subseteq b .. f - 1
    <3> SUFFICES ASSUME NEW c \in PagesOf({a}), f <= c PROVE FALSE
      BY <1>3
    <3>1. c \in Nat /\ PageOf(c) = PageOf(a) /\ a \in Nat
      BY <1>3
    <3>2. PageOf(f) <= PageOf(c)
      BY <3>1, PageOrder
    <3>3. PageOf(a) <= a /\ PageOf(a) \in Nat
      BY <3>1, PageFacts
    <3> QED
      BY <1>2, <2>1, <3>1, <3>2, <3>3
  <2>2. ASSUME NEW a \in b .. f - 1, PagesOf({a}) \subseteq b .. f - 1 PROVE a < PageOf(f)
    <3> SUFFICES ASSUME PageOf(f) <= a PROVE FALSE
      BY <1>2
    <3>1. a \in Nat /\ a < f
      OBVIOUS
    <3>2. PageOf(PageOf(f)) <= PageOf(a) /\ PageOf(PageOf(f)) = PageOf(f)
      BY <1>2, <3>1, PageOrder, PageOfPage
    <3>3. PageOf(a) <= PageOf(f) /\ PageOf(a) \in Nat
      BY <3>1, PageOrder, PageFacts
    <3>4. PageOf(a) = PageOf(f)
      BY <1>2, <3>2, <3>3
    <3>5. f # top
      <4>1. f = top => PageOf(f) = f
        BY <1>1, PageFacts
      <4> QED
        BY <3>1, <4>1
    <3>6. f \in PagesOf({a})
      BY <1>1, <3>4, <3>5 DEF PagesOf
    <3> QED
      BY <2>2, <3>6
  <2>3. \A a \in b .. f - 1 : a \in Complete(b .. f - 1) <=> a < PageOf(f)
    BY <1>5, <2>1, <2>2, Zenon DEF Complete
  <2>4. Complete(b .. f - 1) \subseteq b .. f - 1
    BY DEF Complete
  <2>5. Complete(b .. f - 1) = b .. PageOf(f) - 1
    <3>1. PICK g, S : g \in Nat /\ g = PageOf(f) /\ S = Complete(b .. f - 1)
      BY <1>2
    <3>2. S \subseteq b .. f - 1 /\ g <= f /\ \A a \in b .. f - 1 : a \in S <=> a < g
      BY <1>2, <2>3, <2>4, <3>1
    <3>3. \A a : a \in S <=> a \in b .. g - 1
      BY <3>1, <3>2
    <3>4. S = b .. g - 1
      BY <3>3
    <3> QED
      BY <3>1, <3>4
  <2> QED
    BY <1>5, <2>5
<1> QED
  BY <1>4, <1>5

\* The page that a run begins with.
LEMMA FirstOfRun ==
  ASSUME NEW b \in Nat, NEW f \in Nat, b < f
  PROVE  FirstPage(b .. f - 1) = PagesOf({b})
<1>1. b \in b .. f - 1 /\ \A y \in b .. f - 1 : b <= y
  OBVIOUS
<1>2. \A x \in b .. f - 1 : (\A y \in b .. f - 1 : x <= y) => x = b
  BY <1>1
<1>3. Min(b .. f - 1) = b
  <2>1. PICK S : S = b .. f - 1
    OBVIOUS
  <2>2. /\ b \in S /\ \A y \in S : b <= y
        /\ \A x \in S : (\A y \in S : x <= y) => x = b
    BY <1>1, <1>2, <2>1
  <2>3. Min(S) = b
    BY <2>2 DEF Min
  <2> QED
    BY <2>1, <2>3
<1> QED
  BY <1>1, <1>3 DEF FirstPage

\* What the host believes loaded is a run from the start of a page on.
LEMMA LoadedRun ==
  ASSUME BootInv, HoldInv, stage # "idle", xfer.req = "WRITEFLASH", clean
  PROVE  /\ Good(xfer) => Loaded = PageOf(xfer.addr) .. xfer.addr + xfer.len - 1
         /\ ~Good(xfer) => Loaded = {}
<1>1. xfer.addr \in Nat /\ xfer.len \in Nat
  BY XferFacts DEF BootInv
<1>2. PageOf(xfer.addr) \in Nat /\ PageOf(xfer.addr) <= xfer.addr
  BY <1>1, PageFacts
<1>3. RangeOf(xfer) = xfer.addr .. xfer.addr + xfer.len - 1
  BY <1>1 DEF RangeOf
<1>4. CASE xfer.addr % PageSize = 0
  <2>1. PageOf(xfer.addr) = xfer.addr
    BY <1>1, <1>4, PageFacts
  <2>2. Loaded = RangeOf(xfer)
    BY <1>1, <1>4 DEF Loaded
  <2>3. Loaded = PageOf(xfer.addr) .. xfer.addr + xfer.len - 1
    BY <1>3, <2>1, <2>2
  <2>4. Good(xfer)
    BY <1>4 DEF Good
  <2> QED
    BY <2>3, <2>4, Zenon
<1>5. CASE xfer.addr % PageSize # 0 /\ Continues(xfer)
  <2>1. span # {} /\ xfer.addr - 1 \in span /\ xfer.addr \notin span
    BY <1>5 DEF Continues
  <2>2. PICK e \in 1 .. FlashSize : LeftAt(e)
    BY <2>1 DEF HoldInv, SpanInv
  <2>3. span = PageOf(e) .. e - 1 /\ e \in Nat
    BY <2>2, BootConstants DEF LeftAt
  <2>4. PageOf(e) \in Nat
    BY <2>3, PageFacts
  <2>5. e = xfer.addr
    BY <1>1, <2>1, <2>3, <2>4
  <2>6. Loaded = span \cup RangeOf(xfer)
    BY <1>1, <1>5 DEF Loaded
  <2>7. Loaded = PageOf(xfer.addr) .. xfer.addr + xfer.len - 1
    BY <1>1, <1>2, <1>3, <2>3, <2>5, <2>6
  <2>8. Good(xfer)
    BY <1>5 DEF Good
  <2> QED
    BY <2>7, <2>8, Zenon
<1>6. CASE xfer.addr % PageSize # 0 /\ ~Continues(xfer)
  BY <1>1, <1>6 DEF Loaded, Good
<1> QED
  BY <1>4, <1>5, <1>6

\* Pages begin at even addresses.
LEMMA PageIsEven ==
  ASSUME NEW a \in Nat, PageOf(a) = a
  PROVE  a % 2 = 0
<1>1. PICK p \in Nat, h \in Nat : p = PageSize /\ p = 2 * h
  BY BootConstants
<1>2. PICK q \in Nat : a = p * q
  BY <1>1, PageDivision
<1>3. a = 2 * (h * q)
  BY <1>1, <1>2
<1>4. PICK n \in Nat : n = h * q
  OBVIOUS
<1> QED
  BY <1>3, <1>4

\* The end of a write of flash: what the host comes to trust is there, and what it
\* remembers as begun is being loaded.
LEMMA FlashWritten ==
  ASSUME BootInv, HoldInv, stage = "statusIn", xfer.req = "WRITEFLASH", usbRxBuf = Free,
         NEW L, L = Loaded, NEW C, C = Complete(L), NEW worse \in BOOLEAN,
         worse <=> (L = {} \/ (stale /\ C = {}))
  PROVE  /\ \A a \in Trusted : a \in FlashCells /\ flash[a] = Image(a)
         /\ L \ C = {} /\ ~worse => Emptied(pageBuf)
         /\ L \ C # {} =>
              \E e \in 1 .. FlashSize :
                /\ PageOf(e) # e /\ L \ C = PageOf(e) .. e - 1
                /\ e % 2 = 0 => Loading(flash, pageBuf, worse, PageOf(e), e)
<1>1. CASE L = {}
  <2>1. C = {} /\ Trusted = {} /\ worse
    BY <1>1 DEF Complete, Trusted
  <2> QED
    BY <1>1, <2>1
<1>2. CASE L # {}
  <2>1. clean
    BY <1>2 DEF Loaded
  <2>2. Good(xfer) /\ L = PageOf(xfer.addr) .. xfer.addr + xfer.len - 1
    BY <1>2, <2>1, LoadedRun
  <2>3. /\ xfer.addr \in Nat /\ xfer.len \in Nat /\ xfer.len > 0
        /\ xfer.addr + xfer.len <= FlashSize /\ xfer.last \in BOOLEAN
    BY XferFacts DEF BootInv, Writes
  <2>4. PICK b \in Nat : b = PageOf(xfer.addr) /\ b <= xfer.addr /\ PageOf(b) = b
    BY <2>3, PageFacts, PageOfPage
  <2>5. PICK f \in Nat : f = xfer.addr + xfer.len
    BY <2>3
  <2>6. b < f /\ f <= FlashSize /\ L = b .. f - 1 /\ FlashSize \in Nat
    BY <2>2, <2>3, <2>4, <2>5, BootConstants
  <2>7. PageOf(f) \in Nat /\ PageOf(f) <= f /\ b <= PageOf(f)
    BY <2>4, <2>6, PageFacts, PageOrder
  <2>8. C = b .. (IF xfer.last THEN f ELSE PageOf(f)) - 1
    BY <2>4, <2>5, <2>6, CompleteRun
  <2>9. Filling /\ bytesRemaining = 0
    <3>1. Transferring /\ ~Unheard /\ Waits = 0 /\ sent = xfer.len
      BY DEF Transferring, Writes, Unheard, Free, Waits, HoldInv, WriteInv
    <3>2. TakenInv
      BY <3>1 DEF HoldInv, WriteInv, Taken
    <3> QED
      BY <2>1, <2>3, <3>1, <3>2 DEF Filling, Taken, TakenInv, Undisturbed
  <2>10. Ended(b, f)
    BY <2>1, <2>2, <2>4, <2>5, <2>9 DEF HoldInv, LoadInv
  <2>11. \A a \in Trusted : a \in FlashCells /\ flash[a] = Image(a)
    <3> SUFFICES ASSUME NEW a \in Trusted PROVE a \in FlashCells /\ flash[a] = Image(a)
      OBVIOUS
    <3>1. a \in C /\ (stale => a \notin FirstPage(L))
      BY DEF Trusted
    <3>2. a \in FlashCells /\ a \in b .. f - 1
      BY <2>6, <2>7, <2>8, <3>1 DEF FlashCells
    <3>3. FirstPage(L) = PagesOf({b})
      BY <2>6, FirstOfRun
    <3>4. ~Excused(stale, b, a)
      BY <2>4, <3>1, <3>2, <3>3 DEF Excused, PagesOf, FlashCells
    <3>5. flash[a] = Image(a)
      <4>1. CASE xfer.last
        BY <2>10, <3>2, <3>4, <4>1, Zenon DEF Ended, AllPast
      <4>2. CASE ~xfer.last
        <5>1. a \in b .. PageOf(f) - 1
          BY <2>8, <3>1, <4>2
        <5> QED
          BY <2>10, <3>4, <5>1, Zenon DEF Ended, Past
      <4> QED
        BY <4>1, <4>2
    <3> QED
      BY <3>2, <3>5
  <2>12. CASE xfer.last
    <3>1. L \ C = {} /\ Emptied(pageBuf)
      BY <2>6, <2>8, <2>10, <2>12 DEF Ended
    <3> QED
      BY <2>11, <3>1
  <2>13. CASE ~xfer.last /\ PageOf(f) = f
    <3>1. L \ C = {} /\ f # b
      BY <2>6, <2>8, <2>13
    <3>2. f % 2 = 0
      BY <2>13, PageIsEven
    <3>3. Loading(flash, pageBuf, stale, b, f)
      BY <2>10, <2>13, <3>2 DEF Ended
    <3>4. ~Excused(stale, b, f)
      BY <2>13, <3>1 DEF Excused
    <3>5. Buffered(pageBuf, f)
      BY <3>3, <3>4 DEF Loading
    <3>6. Emptied(pageBuf)
      <4>1. \A o \in PageCells : ~(PageOf(f) + o < f)
        BY <2>13, BootConstants DEF PageCells
      <4> QED
        BY <3>5, <4>1, Zenon DEF Emptied, Buffered
    <3> QED
      BY <2>11, <3>1, <3>6
  <2>14. CASE ~xfer.last /\ PageOf(f) # f
    <3>1. L \ C = PageOf(f) .. f - 1
      BY <2>6, <2>7, <2>8, <2>14
    <3>2. f \in 1 .. FlashSize
      BY <2>6
    <3>3. ASSUME f % 2 = 0 PROVE Loading(flash, pageBuf, worse, PageOf(f), f)
      <4>1. Loading(flash, pageBuf, stale, b, f)
        BY <2>10, <2>14, <3>3 DEF Ended
      <4>2. Excused(stale, b, f) => Excused(worse, PageOf(f), f)
        <5>1. PageOf(f) = b => C = {}
          BY <2>8, <2>14
        <5> QED
          BY <5>1 DEF Excused
      <4>3. \A a \in PageOf(f) .. PageOf(f) - 1 : FALSE
        BY <2>7
      <4> QED
        BY <4>1, <4>2, <4>3, Zenon DEF Loading
    <3>4. L \ C # {}
      BY <2>7, <2>14, <3>1
    <3>5. \E e \in 1 .. FlashSize :
            /\ PageOf(e) # e /\ L \ C = PageOf(e) .. e - 1
            /\ e % 2 = 0 => Loading(flash, pageBuf, worse, PageOf(e), e)
      BY <2>14, <3>1, <3>2, <3>3, Zenon
    <3> QED
      BY <2>11, <3>4, <3>5, Zenon
  <2> QED
    BY <2>12, <2>13, <2>14
<1> QED
  BY <1>1, <1>2

\* The host has the answer to a transfer: idle again, it trusts what is there.
LEMMA Settled ==
  ASSUME BootInv, HoldInv, usbRxBuf = Free, UNCHANGED <<usbRxBuf, usbMsgFlags, usbMsgLen,
           currentAddress, bytesRemaining, isLastPage, currentRequest, flash, eeprom, pageBuf>>,
         stage' = "idle",
         \A c \in confirmed' :
           \/ c \in confirmed
           \/ \E a \in FlashCells : c = <<"flash", a>> /\ flash[a] = Image(a)
           \/ \E a \in 0 .. EepromSize - 1 : c = <<"eeprom", a>> /\ eeprom[a] = Image(a),
         span' = {} /\ ~stale' => Emptied(pageBuf),
         span' # {} =>
           \E e \in 1 .. FlashSize :
             /\ PageOf(e) # e /\ span' = PageOf(e) .. e - 1
             /\ e % 2 = 0 => Loading(flash, pageBuf, stale', PageOf(e), e)
  PROVE  HoldInv'
<1>1. ~Taken' /\ ~Transferring' /\ ~Filling' /\ ~Disturbs'
  BY DEF Taken, Transferring, Filling, Disturbs
<1>2. usbRxBuf'.token # "OUT" /\ usbRxBuf'.token # "SETUP"
  BY DEF Free
<1>3. MemInv'
  <2>1. confirmed' \subseteq Cells("flash", FlashCells) \cup Cells("eeprom", 0 .. EepromSize - 1)
    BY DEF HoldInv, MemInv, Cells
  <2> QED
    BY <2>1 DEF HoldInv, MemInv
<1>4. ConfirmedHolds'
  BY DEF HoldInv, ConfirmedHolds
<1>5. OutInv' /\ WriteInv'
  BY <1>1, <1>2 DEF HoldInv, OutInv, Storer, WriteInv
<1>6. ByteInv' /\ EepromInv' /\ LateInv'
  BY <1>1, <1>2 DEF ByteInv, EepromInv, LateInv
<1>7. SpanInv'
  <2>1. \A e : /\ PageOf(e) # e /\ span' = PageOf(e) .. e - 1
               /\ e % 2 = 0 => Loading(flash, pageBuf, stale', PageOf(e), e)
               => LeftAt(e)'
    BY DEF LeftAt
  <2> QED
    BY <1>1, <2>1 DEF SpanInv
<1>8. LoadInv'
  BY <1>1 DEF LoadInv
<1> QED
  BY <1>3, <1>4, <1>5, <1>6, <1>7, <1>8 DEF HoldInv

\* The host takes the answer that ends a write, or loses it.
LEMMA StatusInHolds ==
  ASSUME BootInv, HoldInv, NEW lost \in BOOLEAN, StatusIn(lost)
  PROVE  HoldInv'
<1>1. /\ stage = "statusIn" /\ usbRxBuf = Free
      /\ UNCHANGED <<usbRxBuf, usbMsgFlags, usbMsgLen, currentAddress, bytesRemaining,
                     isLastPage, currentRequest, flash, eeprom, pageBuf>>
      /\ UNCHANGED <<xfer, sent, clean>>
  BY DEF StatusIn, HandleIn, Quiet, bootVars, transferVars, memoryVars
<1>2. CASE lost \/ usbTxBuf.toggle # toggle \/ usbTxBuf.data # <<>>
  <2>1. UNCHANGED <<stage, span, stale, confirmed>>
    BY <1>2 DEF StatusIn
  <2> QED
    BY <1>1, <2>1, HoldKept DEF holdVars, transferVars, memoryVars
<1>3. CASE ~(lost \/ usbTxBuf.toggle # toggle \/ usbTxBuf.data # <<>>)
  <2>1. /\ stage' = "idle"
        /\ xfer.req = "WRITEFLASH" =>
             /\ confirmed' = confirmed \cup Cells("flash", Trusted)
             /\ span' = Loaded \ Complete(Loaded)
             /\ stale' = (Loaded = {} \/ (stale /\ Complete(Loaded) = {}))
        /\ xfer.req = "WRITEEPROM" =>
             /\ confirmed' = IF clean THEN confirmed \cup Cells("eeprom", RangeOf(xfer))
                             ELSE confirmed
             /\ span' = {} /\ stale' = stale
        /\ ~Writes(xfer) => UNCHANGED <<confirmed, span, stale>>
    BY <1>3 DEF StatusIn, Writes
  <2>2. CASE xfer.req = "WRITEFLASH"
    <3>1. PICK L, C : L = Loaded /\ C = Complete(L)
      OBVIOUS
    <3>2. stale' \in BOOLEAN /\ (stale' <=> L = {} \/ (stale /\ C = {}))
      BY <2>1, <2>2, <3>1
    <3>3. /\ \A a \in Trusted : a \in FlashCells /\ flash[a] = Image(a)
          /\ L \ C = {} /\ ~stale' => Emptied(pageBuf)
          /\ L \ C # {} =>
               \E e \in 1 .. FlashSize :
                 /\ PageOf(e) # e /\ L \ C = PageOf(e) .. e - 1
                 /\ e % 2 = 0 => Loading(flash, pageBuf, stale', PageOf(e), e)
      BY <1>1, <2>2, <3>1, <3>2, FlashWritten
    <3>4. span' = L \ C
      BY <2>1, <2>2, <3>1
    <3>5. \A c \in confirmed' : \/ c \in confirmed
                                \/ \E a \in FlashCells : c = <<"flash", a>> /\ flash[a] = Image(a)
      BY <2>1, <2>2, <3>3 DEF Cells
    <3> QED
      BY <1>1, <2>1, <3>3, <3>4, <3>5, Settled
  <2>3. CASE xfer.req = "WRITEEPROM"
    <3>1. /\ xfer.addr \in Nat /\ xfer.len \in Nat /\ xfer.len > 0
          /\ xfer.addr + xfer.len <= EepromSize
      BY <2>3, XferFacts DEF BootInv, Writes
    <3>2. Taken /\ Waits = 0 /\ sent = xfer.len /\ TakenInv
      BY <1>1, <2>3 DEF Taken, Transferring, Writes, Unheard, Free, Waits, HoldInv, WriteInv
    <3>3. bytesRemaining = 0
      <4>1. bytesRemaining <= xfer.len - sent + Waits /\ bytesRemaining \in Nat
        BY <3>2 DEF TakenInv, BootInv, TypeOK, BootTypeOK
      <4> QED
        BY <3>1, <3>2, <4>1
    <3>4. /\ Emptied(pageBuf)
          /\ clean => \A a \in xfer.addr .. xfer.addr + xfer.len - 1 : eeprom[a] = Image(a)
      BY <2>3, <3>1, <3>2, <3>3 DEF HoldInv, EepromInv
    <3>5. \A a \in RangeOf(xfer) : a \in 0 .. EepromSize - 1 /\ (clean => eeprom[a] = Image(a))
      BY <3>1, <3>4, BootConstants DEF RangeOf
    <3>6. \A c \in confirmed' :
            \/ c \in confirmed
            \/ \E a \in 0 .. EepromSize - 1 : c = <<"eeprom", a>> /\ eeprom[a] = Image(a)
      BY <2>1, <2>3, <3>5 DEF Cells
    <3> QED
      BY <1>1, <2>1, <2>3, <3>4, <3>6, Settled
  <2>4. CASE ~Writes(xfer)
    <3>1. ~Disturbs /\ ~Filling
      BY <1>1, <2>4 DEF HoldInv, WriteInv, Disturbs, Filling, Writes
    <3>2. UNCHANGED <<confirmed, span, stale>>
      BY <2>1, <2>4
    <3>3. /\ span' = {} /\ ~stale' => Emptied(pageBuf)
          /\ span' # {} =>
               \E e \in 1 .. FlashSize :
                 /\ PageOf(e) # e /\ span' = PageOf(e) .. e - 1
                 /\ e % 2 = 0 => Loading(flash, pageBuf, stale', PageOf(e), e)
      BY <3>1, <3>2 DEF HoldInv, SpanInv, LeftAt
    <3> QED
      BY <1>1, <2>1, <3>2, <3>3, Settled
  <2> QED
    BY <2>2, <2>3, <2>4 DEF Writes
<1> QED
  BY <1>2, <1>3

\* Before the first transfer nothing is written and nothing trusted.
LEMMA HoldInit == Init => HoldInv
<1> SUFFICES ASSUME Init PROVE HoldInv
  OBVIOUS
<1>1. /\ usbRxBuf = Free /\ usbMsgFlags = "driver" /\ pageBuf = BlankPage
      /\ DOMAIN flash = FlashCells /\ DOMAIN eeprom = 0 .. EepromSize - 1
      /\ stage = "idle" /\ span = {} /\ stale = FALSE /\ confirmed = {}
  BY DEF Init, BootInit, UsbInit, FlashCells
<1>2. ~Taken /\ ~Transferring /\ ~Filling /\ usbRxBuf.token # "OUT" /\ usbRxBuf.token # "SETUP"
  BY <1>1 DEF Taken, Transferring, Filling, Free
<1>3. MemInv /\ ConfirmedHolds
  BY <1>1, EmptiedPage DEF MemInv, ConfirmedHolds
<1>4. OutInv /\ WriteInv /\ ByteInv /\ EepromInv /\ LateInv /\ LoadInv
  BY <1>1, <1>2 DEF OutInv, Storer, WriteInv, ByteInv, EepromInv, LateInv, LoadInv
<1>5. SpanInv
  BY <1>1, EmptiedPage DEF SpanInv
<1> QED
  BY <1>3, <1>4, <1>5 DEF HoldInv

\* Every step keeps the invariant.
LEMMA HoldNext == BootInv /\ HoldInv /\ [Next]_vars => HoldInv'
<1> SUFFICES ASSUME BootInv, HoldInv, [Next]_vars PROVE HoldInv'
  OBVIOUS
<1>1. CASE UNCHANGED vars
  BY <1>1, HoldKept DEF vars, holdVars, usbVars, bootVars, hostVars
<1>2. CASE Host
  <2>1. ASSUME NEW t \in session, Start(t) PROVE HoldInv'
    BY <2>1, StartHolds
  <2>2. ASSUME NEW lost \in BOOLEAN, SetupStage(lost) PROVE HoldInv'
    BY <2>2, SetupStageHolds
  <2>3. ASSUME NEW lost \in BOOLEAN, OutStage(lost) PROVE HoldInv'
    BY <2>3, OutStageHolds
  <2>4. ASSUME NEW lost \in BOOLEAN, InStage(lost) PROVE HoldInv'
    BY <2>4, InStageHolds
  <2>5. ASSUME NEW lost \in BOOLEAN, StatusIn(lost) PROVE HoldInv'
    BY <2>5, StatusInHolds
  <2>6. CASE StatusOut
    BY <2>6, StatusOutHolds
  <2>7. CASE GiveUp
    BY <2>7, GiveUpHolds
  <2>8. CASE ResetBus
    BY <2>8, HoldKept DEF ResetBus, holdVars, usbVars, bootVars, Quiet
  <2>9. CASE EndReset
    BY <2>9, HoldKept DEF EndReset, holdVars, usbVars, bootVars, Quiet
  <2> QED
    BY <1>2, <2>1, <2>2, <2>3, <2>4, <2>5, <2>6, <2>7, <2>8, <2>9 DEF Host
<1>3. CASE Main
  <2>1. UNCHANGED hostVars
    BY <1>3 DEF Main
  <2>2. CASE PollSetup
    BY <2>1, <2>2, PollSetupHolds
  <2>3. CASE PollOut
    BY <2>1, <2>3, PollOutHolds
  <2>4. CASE PollNothing
    BY <2>1, <2>4, HoldKept DEF PollNothing, holdVars, usbVars, hostVars
  <2>5. CASE PollTx
    BY <2>1, <2>5, PollTxHolds
  <2>6. CASE LoopEnd(se0)
    BY <2>1, <2>6, HoldKept DEF LoopEnd, BusReset, holdVars, usbVars, hostVars
  <2> QED
    BY <1>3, <2>2, <2>3, <2>4, <2>5, <2>6 DEF Main, MainStep
<1> QED
  BY <1>1, <1>2, <1>3 DEF Next

(* What the programmer was told is written stays written, whatever is lost, *)
(* repeated, given up, reset or written elsewhere afterwards:               *)
(* usbFunctionWrite(), usbFunctionSetup(), usbPoll().                       *)
THEOREM ConfirmedStaysWritten == Spec => []ConfirmedHolds
<1>1. HoldInv => ConfirmedHolds
  BY DEF HoldInv
<1> QED
  BY <1>1, HoldInit, HoldNext, BootInvariant, PTL DEF Spec
=============================================================================
