---------------------------- MODULE NmeaParser ----------------------------
(* The NMEA parser of the GPS library (TinyGPS.cpp): encode(), which is     *)
(* given the bytes of the receiver one by one, and term_complete(), which   *)
(* acts on every term as soon as its end is seen.  Fields of a sentence are *)
(* written to the pending "_new" copies while it arrives, and copied to the *)
(* fix when its checksum turns out right.                                   *)
(*                                                                          *)
(* A term is one value: a field of a sentence with the second it belongs    *)
(* to, a letter, nothing at all, or Garbage when bytes were lost inside it. *)
(* The checksum is the XOR of the bytes: here the set of the values that    *)
(* occurred an odd number of times, so equal values cancel, and others      *)
(* never collide by chance.  Speed, course, altitude, satellites and        *)
(* dilution are handled like the date and are left out.                     *)
EXTENDS Integers, Sequences, FiniteSets

Empty   == <<>>
Garbage == <<"garbage">>
Invalid == <<"invalid">>             \* the GPS_INVALID_... constants
Comma   == <<",">>

Codes   == <<"GPGGA", "GPRMC", "GNGNS", "GNGSA", "GPGSV", "GLGSV", "OTHER">>
Types   == {Codes[c] : c \in 1 .. 7}
Fields  == {"time", "date", "lat", "lon"}
Slots   == 0 .. 23                   \* tracked_sat_rec

VARIABLES
  parity,       \* _parity
  isChecksum,   \* _is_checksum_term
  type,         \* _sentence_type
  termNumber,   \* _term_number
  dataGood,     \* _gps_data_good
  pending,      \* the _new_ fields
  fix,          \* the fields the getters return
  satIndex,     \* _sat_index
  slot,         \* which constellation wrote each entry of tracked_sat_rec
  overrun       \* an entry outside the table has been written

parserVars == <<parity, isChecksum, type, termNumber, dataGood, pending, fix,
                satIndex, slot, overrun>>

NothingYet == [f \in Fields |-> Invalid]

(* The constructor.  The pending fields are not initialised there; global   *)
(* objects start as zero, which no sentence distinguishes from Invalid.     *)
ParserInit ==
  /\ parity = {} /\ isChecksum = FALSE /\ type = "OTHER" /\ termNumber = 0
  /\ dataGood = FALSE
  /\ pending = NothingYet /\ fix = NothingYet
  /\ satIndex = 0 /\ slot = [s \in Slots |-> "none"] /\ overrun = FALSE

-----------------------------------------------------------------------------
(* The XOR of one more value; an empty term adds nothing.                   *)
Xor(S, T) == (S \ T) \cup (T \ S)
Item(text) == IF text = Empty THEN {} ELSE {text}

(* *Mutant*: '$' does not forget that the last sentence was good.           *)
DollarKeepsGood ==
  /\ parity' = {} /\ isChecksum' = FALSE /\ type' = "OTHER" /\ termNumber' = 0
  /\ UNCHANGED <<dataGood, pending, fix, satIndex, slot, overrun>>

(* '$': a sentence begins, and the one before it is forgotten except for    *)
(* what it left in the pending fields.                                      *)
Dollar ==
  /\ parity' = {} /\ isChecksum' = FALSE /\ type' = "OTHER" /\ termNumber' = 0
  /\ dataGood' = FALSE
  /\ UNCHANGED <<pending, fix, satIndex, slot, overrun>>

-----------------------------------------------------------------------------
(* gpsstrcmp() compares up to the end of the term, so anything that is a    *)
(* prefix of a name matches it; the empty term matches the first.           *)
TypesOf(text) ==
  CASE text = Empty            -> {"GPRMC"}
    [] text = Garbage          -> Types
    [] text = <<"GNRMC">>      -> {"GPRMC"}
    [] text = <<"GPGSA">>      -> {"GNGSA"}
    [] text[1] \in Types       -> {text[1]}
    [] OTHER                   -> {"OTHER"}

(* The label of term_complete()'s switch: the code of the type from bit 5   *)
(* on, OR the number of the term, whose own bits from 5 on change the type. *)
BitOf(n, weight) == (n \div weight) % 2
Or(a, b) == LET bit(w) == IF BitOf(a, w) + BitOf(b, w) > 0 THEN w ELSE 0
            IN bit(4) + bit(2) + bit(1)
CodeOf(t) == CHOOSE c \in 0 .. 6 : Codes[c + 1] = t
LabelType ==
  IF termNumber < 32 THEN type
  ELSE LET code == Or(CodeOf(type), termNumber \div 32)
       IN IF code < 6 THEN Codes[code + 1] ELSE "OTHER"
LabelTerm == termNumber % 32

(* Which field a term of a sentence is, by its number.                      *)
RmcField == <<"time", "status", "lat", "ns", "lon", "ew", "speed", "course", "date">>
GgaField == <<"time", "lat", "ns", "lon", "ew", "quality", "sats", "hdop", "alt">>
GnsField == <<"time", "lat", "ns", "lon", "ew", "mode", "sats">>
FieldAt(t, n) ==
  LET table == CASE t = "GPRMC" -> RmcField [] t = "GPGGA" -> GgaField
                 [] t = "GNGNS" -> GnsField [] OTHER -> <<>>
  IN IF n \in DOMAIN table THEN table[n] ELSE "none"

(* Latitude south and longitude west are the pending value with its sign    *)
(* turned, whatever that value is.  Of a garbled term nothing is known.     *)
Negated(v) == IF v = Invalid THEN v ELSE [v EXCEPT ![3] = -v[3]]
Position(text, f) ==
  IF text[1] = f THEN <<f, text[2], 1>> ELSE <<"nonsense", 0, 1>>
Number(text) == IF text = Garbage THEN <<"nonsense", 0, 1>> ELSE text
Turned(text, letter, f) ==
  LET turned == [pending EXCEPT ![f] = Negated(@)]
  IN CASE text = Garbage   -> {pending, turned}
       [] text[1] = letter -> {turned}
       [] OTHER            -> {pending}

Parsed(text, f) ==
  CASE f \in {"lat", "lon"}   -> {[pending EXCEPT ![f] = Position(text, f)]}
    [] f = "ns"               -> Turned(text, "S", "lat")
    [] f = "ew"               -> Turned(text, "W", "lon")
    [] f \in {"time", "date"} -> {[pending EXCEPT ![f] = Number(text)]}
    [] OTHER                  -> {pending}

(* Valid is what begins with an A, or with anything above the digit 0: a    *)
(* letter is, a number is when it does not begin with a 0.                  *)
Letters == {"A", "V", "N", "S", "E", "W", "M"}
GoodAfter(text, f) ==
  CASE f = "status"  -> IF text = Garbage THEN BOOLEAN ELSE {text[1] = "A"}
    [] f = "quality" -> IF text[1] \in Letters \cup {"1"} THEN {TRUE}
                        ELSE IF text[1] = "0" THEN {FALSE} ELSE BOOLEAN
    [] OTHER         -> {dataGood}

(* A GSV sentence: its number says where its four satellites go; GLONASS    *)
(* has the upper half of the table, cleared by its first sentence.  A       *)
(* number read from another term falls into the table or past its end.      *)
Half(t) == IF t = "GPGSV" THEN 0 .. 11 ELSE 12 .. 23
IndexOfNoOffset(t, msgId) == msgId * 4                       \* *Mutant*
IndexOfFromOne(t, msgId) == IF t = "GLGSV" THEN msgId * 4 + 16 ELSE msgId * 4 + 4 \* *Mutant*
IndexOf(t, msgId) == (IF t = "GLGSV" THEN msgId * 4 + 12 ELSE msgId * 4) % 256
MessageIds(text) == IF text[1] = "number" THEN {(text[2] - 1) % 256} ELSE {0, 11}
Clear(t, msgId) == IF msgId # 0 THEN slot
                   ELSE [s \in Slots |-> IF s \in Half(t) THEN "none" ELSE slot[s]]

(* A satellite of strength 0 loses its record.                              *)
Recorded(text) == CASE text[1] = "snr" -> {type}
                    [] text[1] = "0"   -> {"none"}
                    [] OTHER           -> {type, "none"}

SatelliteTerm(text) ==
  LET at == satIndex + (termNumber - 7) \div 4
  IN CASE LabelTerm = 2 ->
            \E m \in MessageIds(text) :
              /\ satIndex' = IndexOf(type, m) /\ slot' = Clear(type, m)
              /\ UNCHANGED overrun
       [] LabelTerm \in {7, 11, 15, 19} ->
            /\ \E r \in Recorded(text) :
                 slot' = [s \in Slots |-> IF s = at THEN r ELSE slot[s]]
            /\ overrun' = (overrun \/ at \notin Slots)
            /\ UNCHANGED satIndex
       [] OTHER -> UNCHANGED <<satIndex, slot, overrun>>

(* term_complete() on a term of the body.                                   *)
BodyTerm(text) ==
  /\ IF termNumber = 0
     THEN /\ type' \in TypesOf(text)
          /\ UNCHANGED <<dataGood, pending, satIndex, slot, overrun>>
     ELSE /\ UNCHANGED type
          /\ IF type = "OTHER" \/ text = Empty
             THEN UNCHANGED <<dataGood, pending, satIndex, slot, overrun>>
             ELSE IF LabelType \in {"GPGSV", "GLGSV"}
             THEN SatelliteTerm(text) /\ UNCHANGED <<dataGood, pending>>
             ELSE /\ pending' \in Parsed(text, FieldAt(LabelType, LabelTerm))
                  /\ dataGood' \in GoodAfter(text, FieldAt(LabelType, LabelTerm))
                  /\ UNCHANGED <<satIndex, slot, overrun>>
  /\ UNCHANGED fix

(* Which fields a sentence copies when its checksum is right: RMC gives its *)
(* time and date even without a fix.                                        *)
Copied ==
  IF type = "GPRMC" THEN {"time", "date"} \cup
       (IF dataGood THEN {"lat", "lon"} ELSE {})
  ELSE IF type = "GPGGA" /\ dataGood THEN {"time", "lat", "lon"}
  ELSE {}

(* term_complete() on the checksum.                                         *)
CommitUnchecked(right) ==                                    \* *Mutant*
  fix' = [f \in Fields |-> IF f \in Copied THEN pending[f] ELSE fix[f]]
Commit(right) ==
  fix' = [f \in Fields |-> IF right /\ f \in Copied THEN pending[f] ELSE fix[f]]
CheckTerm(right) ==
  /\ Commit(right)
  /\ UNCHANGED <<type, dataGood, pending, satIndex, slot, overrun>>

(* encode() at the end of a term, which is a comma, an asterisk, a carriage *)
(* return or a line feed: the term counts for the parity, unless it is the  *)
(* checksum, and so does a comma.  The text is what the term reads as in    *)
(* the body, sum what it reads as if it is the checksum; encode() returns   *)
(* true when Announced.                                                     *)
ParityAfter(text, end) ==
  Xor(IF isChecksum THEN parity ELSE Xor(parity, Item(text)),
      IF end = "comma" THEN {Comma} ELSE {})
Announced(text, end, sum) == isChecksum /\ sum = ParityAfter(text, end) /\ dataGood
EndTerm(text, end, sum) ==
  /\ parity' = ParityAfter(text, end)
  /\ IF isChecksum THEN CheckTerm(sum = parity') ELSE BodyTerm(text)
  /\ termNumber' = (termNumber + 1) % 256
  /\ isChecksum' = (end = "star")
=============================================================================
