----------------------------- MODULE NmeaProofs -----------------------------
(***************************************************************************)
(* Proofs about NmeaStream for any number of seconds, losses and GSV       *)
(* messages: the types of the parser, the table of satellites, which the   *)
(* parser writes at places it computes from what it is sent, and that a    *)
(* sentence announced without a loss of its own announces its own          *)
(* position.  All of it rests on one fact: from a '$' to the end of its    *)
(* sentence the parser follows the line as long as nothing is lost, in     *)
(* whatever state damaged sentences left it before.                        *)
(***************************************************************************)
EXTENDS NmeaStream, SequenceTheorems, TLAPS

Sky == {"GPGSV", "GLGSV"}
Numbers == 1 .. 9     \* of a sentence about satellites

ParserTypes ==
  /\ type \in Types /\ termNumber \in 0 .. 255
  /\ DOMAIN pending = Fields /\ DOMAIN fix = Fields
  /\ satIndex \in 0 .. 255 /\ isChecksum \in BOOLEAN /\ dataGood \in BOOLEAN

\* What is on the line is a sentence of this second, and where it goes on.
LineInv ==
  /\ talk \in {"fix", "sky"} /\ tracking \in BOOLEAN /\ losses \in Nat
  /\ losses = 0 => ~damaged
  /\ ~damaged \/ wire = Silent => ~broken /\ digits = Unread
  /\ wire # Silent => wire \in Sentences(second, tracking) /\ next \in 1 .. Len(wire) + 2

\* The position of a sentence whose latitude is the third term after the
\* first: what is pending once the next term is number n.
PositionRead(n) ==
  /\ n = 4 => pending.lat = <<"lat", second, 1>>
  /\ n >= 5 => pending.lat = Signed("lat", second)
  /\ n = 6 => pending.lon = <<"lon", second, 1>>
  /\ n >= 7 => pending.lon = Signed("lon", second)

\* Without a loss since its '$', the parser is where the line is, knows the
\* kind of the sentence and has read its fields from their own terms.
FollowInv ==
  ~damaged /\ wire # Silent =>
    /\ termNumber = next - 1
    /\ isChecksum <=> next = Len(wire) + 1
    /\ next = 1 => type = "OTHER"
    /\ next > 1 => type \in TypesOf(wire[1])
    /\ dataGood => wire \in {Rmc(second), Gga(second)}
    /\ wire = Rmc(second) => PositionRead(next - 1)
    /\ wire = Gga(second) => PositionRead(next)

\* Without any loss, a sentence about satellites writes where it should.
Belongs(system, s) ==
  (system = "GPGSV" => s < 4 * Messages["GPGSV"]) /\ (system = "GLGSV" => s >= 12)
TableInv ==
  losses = 0 =>
    /\ InTable => ~overrun
    /\ HalvesApart
    /\ \A t \in Sky, m \in Numbers, sky \in Skies :
         wire = Gsv(t, m, sky) /\ next >= 4 => satIndex = IndexOf(t, m - 1)

NmeaInv == ParserTypes /\ LineInv /\ FollowInv /\ TableInv

-----------------------------------------------------------------------------
\* A sentence about satellites has four terms and four more for each.
LEMMA GsvShape ==
  ASSUME NEW t \in Sky, NEW m \in Nat, NEW sky \in Skies
  PROVE  /\ Len(Gsv(t, m, sky)) = 4 + 4 * Len(sky)
         /\ Len(Gsv(t, m, sky)) \in 4 .. 20
         /\ Gsv(t, m, sky) # Silent
         /\ Gsv(t, m, sky)[1] = <<t>> /\ Gsv(t, m, sky)[3] = <<"number", m>>
         /\ \A k \in 1 .. Len(Gsv(t, m, sky)) :
              Gsv(t, m, sky)[k] # Empty /\ Gsv(t, m, sky)[k][1] = "number"
                => Gsv(t, m, sky)[k][2] \in Nat
<1> DEFINE G == Gsv(t, m, sky)
           N == 4 + 4 * Len(sky)
           S == {G[n] : n \in 1 .. N}
<1>1. sky \in Seq(Strengths) /\ Len(sky) \in 0 .. 4
  <2>1. sky \in Seq(Strengths) /\ Len(sky) <= 4
    BY StreamConstants
  <2>2. Len(sky) \in Nat
    BY <2>1, LenProperties
  <2>3. \A l \in Nat : l <= 4 => l \in 0 .. 4
    OBVIOUS
  <2> QED
    BY <2>1, <2>2, <2>3, Zenon
<1>2. N \in Nat /\ N \in 4 .. 20
  <2>1. \A l \in 0 .. 4 : 4 + 4 * l \in Nat /\ 4 + 4 * l \in 4 .. 20
    OBVIOUS
  <2> QED
    BY <1>1, <2>1, Zenon
<1>3. G \in [1 .. N -> S]
  BY DEF Gsv
<1>4. G \in Seq(S)
  BY <1>2, <1>3, SeqDef
<1>5. Len(G) \in Nat /\ DOMAIN G = 1 .. Len(G)
  BY <1>4, LenProperties
<1>6. DOMAIN G = 1 .. N
  BY <1>3
<1>7. Len(G) = N
  <2>1. \A a, b \in Nat : 1 .. a = 1 .. b => a = b
    <3> SUFFICES ASSUME NEW a \in Nat, NEW b \in Nat, 1 .. a = 1 .. b PROVE a = b
      OBVIOUS
    <3>1. \A x \in Int : (1 <= x /\ x <= a) <=> (1 <= x /\ x <= b)
      OBVIOUS
    <3> QED
      BY <3>1
  <2> QED
    BY <1>2, <1>5, <1>6, <2>1
<1>8. G # Silent
  BY <1>2, <1>7 DEF Silent
<1>9. \A n \in 1 .. 4 : G[n] = << <<t>>, <<"number", Messages[t]>>, <<"number", m>>, <<"view">> >>[n]
  BY <1>2 DEF Gsv
<1>10. G[1] = <<t>> /\ G[2] = <<"number", Messages[t]>> /\ G[3] = <<"number", m>> /\ G[4] = <<"view">>
  BY <1>9
<1>11. ASSUME NEW k \in 1 .. N, k > 4, G[k] # Empty, G[k][1] = "number" PROVE FALSE
  <2>1. (k - 1) \div 4 \in 1 .. Len(sky) /\ (k - 1) % 4 \in 0 .. 3
    BY <1>1, <1>11
  <2>2. PICK i \in 1 .. Len(sky), j \in 1 .. 4 :
          G[k] = << <<"prn", i>>, <<"elev">>, <<"azi">>, sky[i] >>[j]
    BY <1>2, <1>11, <2>1 DEF Gsv
  <2>3. sky[i] \in Strengths
    BY <1>1, ElementOfSeq
  <2>4. CASE j = 4
    <3>1. G[k] = sky[i]
      BY <2>2, <2>4
    <3>2. sky[i] = <<"snr">> \/ sky[i] = <<"0">>
      BY <1>11, <2>3, <3>1 DEF Strengths
    <3> QED
      BY <1>11, <3>1, <3>2
  <2>5. CASE j # 4
    <3>1. G[k] \in {<<"prn", i>>, <<"elev">>, <<"azi">>}
      BY <2>2, <2>5
    <3> QED
      BY <1>11, <3>1
  <2> QED
    BY <2>4, <2>5
<1>12. ASSUME NEW k \in 1 .. N, G[k] # Empty, G[k][1] = "number"
      PROVE  G[k][2] \in Nat
  <2>1. k \in 1 .. 4
    <3>1. ~(k > 4)
      BY <1>11, <1>12
    <3> QED
      BY <1>2, <3>1
  <2>2. G[k] \in {<<t>>, <<"number", Messages[t]>>, <<"number", m>>, <<"view">>}
    <3>1. k = 1 \/ k = 2 \/ k = 3 \/ k = 4
      BY <2>1
    <3> QED
      BY <1>10, <3>1, Zenon
  <2>3. t # "number" /\ Messages[t] \in Nat
    BY StreamConstants DEF Sky
  <2> QED
    BY <1>12, <2>2, <2>3
<1> HIDE DEF G, N
<1>13. N = 4 + 4 * Len(sky)
  BY DEF N
<1> QED
  BY <1>2, <1>7, <1>8, <1>10, <1>12, <1>13 DEF G

\* The terms of the other sentences.
LEMMA RmcTerms ==
  ASSUME NEW s
  PROVE  /\ Len(Rmc(s)) = 13 /\ Rmc(s) # Silent
         /\ Rmc(s)[1] = <<"GNRMC">> /\ Rmc(s)[4] = <<"lat", s>>
         /\ Rmc(s)[5] = South(s) /\ Rmc(s)[6] = <<"lon", s>> /\ Rmc(s)[7] = West(s)
         /\ \A k \in 1 .. 13 : ~(Rmc(s)[k] # Empty /\ Rmc(s)[k][1] = "number")
  BY DEF Rmc, South, West, Empty, Silent

LEMMA RmcVoidTerms ==
  ASSUME NEW s
  PROVE  /\ Len(RmcVoid(s)) = 13 /\ RmcVoid(s) # Silent
         /\ RmcVoid(s)[1] = <<"GPRMC">> /\ RmcVoid(s)[3] = <<"V">>
         /\ \A k \in 1 .. 13 : ~(RmcVoid(s)[k] # Empty /\ RmcVoid(s)[k][1] = "number")
  BY DEF RmcVoid, Empty, Silent

LEMMA GgaTerms ==
  ASSUME NEW s
  PROVE  /\ Len(Gga(s)) = 15 /\ Gga(s) # Silent
         /\ Gga(s)[1] = <<"GPGGA">> /\ Gga(s)[3] = <<"lat", s>>
         /\ Gga(s)[4] = South(s) /\ Gga(s)[5] = <<"lon", s>> /\ Gga(s)[6] = West(s)
         /\ \A k \in 1 .. 15 : ~(Gga(s)[k] # Empty /\ Gga(s)[k][1] = "number")
  BY DEF Gga, South, West, Empty, Silent

LEMMA GgaVoidTerms ==
  ASSUME NEW s
  PROVE  /\ Len(GgaVoid(s)) = 15 /\ GgaVoid(s) # Silent
         /\ GgaVoid(s)[1] = <<"GPGGA">> /\ GgaVoid(s)[7] = <<"0">>
         /\ \A k \in 1 .. 15 : ~(GgaVoid(s)[k] # Empty /\ GgaVoid(s)[k][1] = "number")
  BY DEF GgaVoid, Empty, Silent

LEMMA GnsTerms ==
  ASSUME NEW s
  PROVE  /\ Len(Gns(s)) = 13 /\ Gns(s) # Silent /\ Gns(s)[1] = <<"GNGNS">>
         /\ \A k \in 1 .. 13 : ~(Gns(s)[k] # Empty /\ Gns(s)[k][1] = "number")
  BY DEF Gns, South, West, Empty, Silent

\* What kinds of sentences there are.
IsGsv(w) == \E t \in Sky, m \in Numbers, sky \in Skies :
               m <= Messages[t] /\ w = Gsv(t, m, sky)

LEMMA Kinds ==
  ASSUME NEW s, NEW v, NEW w \in Sentences(s, v)
  PROVE  \/ w = Rmc(s) \/ w = RmcVoid(s) \/ w = Gga(s) \/ w = GgaVoid(s) \/ w = Gns(s)
         \/ IsGsv(w)
<1> SUFFICES ASSUME NEW t \in Sky, NEW m \in 1 .. Messages[t], NEW sky \in Skies,
                    w = Gsv(t, m, sky)
             PROVE  IsGsv(w)
  BY DEF Sentences, Sky
<1>1. Messages[t] \in 1 .. 9
  BY StreamConstants DEF Sky
<1>2. m \in Numbers /\ m <= Messages[t]
  BY <1>1 DEF Numbers
<1> QED
  BY <1>2 DEF IsGsv

LEMMA Shape ==
  ASSUME NEW s, NEW v, NEW w \in Sentences(s, v)
  PROVE  /\ Len(w) \in 4 .. 20 /\ w # Silent
         /\ \A k \in 1 .. Len(w) : w[k] # Empty /\ w[k][1] = "number" => w[k][2] \in Nat
<1>1. CASE w = Rmc(s)
  <2>1. Len(w) = 13 /\ w # Silent
    BY <1>1, RmcTerms
  <2>2. \A k \in 1 .. 13 : ~(w[k] # Empty /\ w[k][1] = "number")
    BY <1>1, RmcTerms
  <2> QED
    BY <2>1, <2>2
<1>2. CASE w = RmcVoid(s)
  <2>1. Len(w) = 13 /\ w # Silent
    BY <1>2, RmcVoidTerms
  <2>2. \A k \in 1 .. 13 : ~(w[k] # Empty /\ w[k][1] = "number")
    BY <1>2, RmcVoidTerms
  <2> QED
    BY <2>1, <2>2
<1>3. CASE w = Gga(s)
  <2>1. Len(w) = 15 /\ w # Silent
    BY <1>3, GgaTerms
  <2>2. \A k \in 1 .. 15 : ~(w[k] # Empty /\ w[k][1] = "number")
    BY <1>3, GgaTerms
  <2> QED
    BY <2>1, <2>2
<1>4. CASE w = GgaVoid(s)
  <2>1. Len(w) = 15 /\ w # Silent
    BY <1>4, GgaVoidTerms
  <2>2. \A k \in 1 .. 15 : ~(w[k] # Empty /\ w[k][1] = "number")
    BY <1>4, GgaVoidTerms
  <2> QED
    BY <2>1, <2>2
<1>5. CASE w = Gns(s)
  <2>1. Len(w) = 13 /\ w # Silent
    BY <1>5, GnsTerms
  <2>2. \A k \in 1 .. 13 : ~(w[k] # Empty /\ w[k][1] = "number")
    BY <1>5, GnsTerms
  <2> QED
    BY <2>1, <2>2
<1>6. CASE IsGsv(w)
  <2>1. PICK t \in Sky, m \in Numbers, sky \in Skies : w = Gsv(t, m, sky)
    BY <1>6 DEF IsGsv
  <2>2. m \in Nat
    BY DEF Numbers
  <2> QED
    BY <2>1, <2>2, GsvShape
<1> QED
  BY <1>1, <1>2, <1>3, <1>4, <1>5, <1>6, Kinds

-----------------------------------------------------------------------------
\* What the first term makes of a sentence.
LEMMA TypesKnown == ASSUME NEW text PROVE TypesOf(text) \subseteq Types
<1>1. {"GPRMC", "GNGSA", "OTHER"} \subseteq Types
  BY DEF Types, Codes
<1> QED
  BY <1>1 DEF TypesOf

LEMMA Names ==
  /\ TypesOf(<<"GNRMC">>) = {"GPRMC"} /\ TypesOf(<<"GPRMC">>) = {"GPRMC"}
  /\ TypesOf(<<"GPGGA">>) = {"GPGGA"} /\ TypesOf(<<"GNGNS">>) = {"GNGNS"}
  /\ \A t \in Sky : TypesOf(<<t>>) = {t}
<1>1. {"GPRMC", "GPGGA", "GNGNS", "GPGSV", "GLGSV"} \subseteq Types
  BY DEF Types, Codes
<1>2. TypesOf(<<"GNRMC">>) = {"GPRMC"}
  <2>1. <<"GNRMC">> # Empty /\ <<"GNRMC">> # Garbage
    BY DEF Empty, Garbage
  <2>2. <<"GNRMC">>[1] \notin Types /\ <<"GNRMC">> # <<"GPGSA">>
    BY DEF Types, Codes
  <2> QED
    BY <2>1, <2>2, Zenon DEF TypesOf
<1>3. ASSUME NEW t \in {"GPRMC", "GPGGA", "GNGNS", "GPGSV", "GLGSV"}
      PROVE  TypesOf(<<t>>) = {t}
  <2>1. <<t>> # Empty /\ <<t>> # Garbage /\ <<t>> # <<"GNRMC">> /\ <<t>> # <<"GPGSA">>
    BY DEF Empty, Garbage
  <2>2. <<t>>[1] = t /\ t \in Types
    BY <1>1
  <2> QED
    BY <2>1, <2>2, Zenon DEF TypesOf
<1> QED
  BY <1>2, <1>3 DEF Sky

\* Which field a term is, as far as the position needs it.
LEMMA RmcFields ==
  /\ FieldAt("GPRMC", 2) = "status" /\ FieldAt("GPRMC", 3) = "lat"
  /\ FieldAt("GPRMC", 4) = "ns" /\ FieldAt("GPRMC", 5) = "lon" /\ FieldAt("GPRMC", 6) = "ew"
  /\ \A k \in 1 .. 19 : k # 2 => FieldAt("GPRMC", k) \notin {"status", "quality"}
  /\ \A k \in 7 .. 19 : FieldAt("GPRMC", k) \notin {"lat", "ns", "lon", "ew"}
  BY DEF FieldAt, RmcField

LEMMA GgaFields ==
  /\ FieldAt("GPGGA", 6) = "quality" /\ FieldAt("GPGGA", 2) = "lat"
  /\ FieldAt("GPGGA", 3) = "ns" /\ FieldAt("GPGGA", 4) = "lon" /\ FieldAt("GPGGA", 5) = "ew"
  /\ \A k \in 1 .. 19 : k # 6 => FieldAt("GPGGA", k) \notin {"status", "quality"}
  /\ \A k \in 6 .. 19 : FieldAt("GPGGA", k) \notin {"lat", "ns", "lon", "ew"}
  BY DEF FieldAt, GgaField

LEMMA GnsFields ==
  \A k \in 1 .. 19 : FieldAt("GNGNS", k) \notin {"status", "quality"}
  BY DEF FieldAt, GnsField

-----------------------------------------------------------------------------
\* What a term does to the pending position.
LEMMA RawRead ==
  ASSUME DOMAIN pending = Fields, NEW f \in {"lat", "lon"}, NEW s,
         pending' \in Parsed(<<f, s>>, f)
  PROVE  /\ pending'[f] = <<f, s, 1>>
         /\ \A g \in {"lat", "lon"} : g # f => pending'[g] = pending[g]
  BY DEF Parsed, Position, Fields

LEMMA SignRead ==
  ASSUME DOMAIN pending = Fields, NEW s,
         NEW f \in {"lat", "lon"}, pending[f] = <<f, s, 1>>,
         \/ f = "lat" /\ pending' \in Parsed(South(s), "ns")
         \/ f = "lon" /\ pending' \in Parsed(West(s), "ew")
  PROVE  /\ pending'[f] = Signed(f, s)
         /\ \A g \in {"lat", "lon"} : g # f => pending'[g] = pending[g]
<1>1. pending[f] # Invalid
  BY DEF Invalid
<1>2. Negated(pending[f]) = <<f, s, -1>>
  BY <1>1 DEF Negated
<1>3. CASE s % 2 = 1
  <2>1. pending' = [pending EXCEPT ![f] = Negated(@)]
    <3>1. South(s) = <<"S">> /\ West(s) = <<"W">>
      BY <1>3 DEF South, West
    <3> QED
      BY <3>1 DEF Parsed, Turned, Garbage
  <2> QED
    BY <1>2, <1>3, <2>1 DEF Signed, Fields
<1>4. CASE s % 2 # 1
  <2>1. pending' = pending
    <3>1. South(s) = <<"N">> /\ West(s) = <<"E">>
      BY <1>4 DEF South, West
    <3> QED
      BY <3>1 DEF Parsed, Turned, Garbage
  <2> QED
    BY <1>4, <2>1 DEF Signed
<1> QED
  BY <1>3, <1>4

LEMMA OtherRead ==
  ASSUME DOMAIN pending = Fields, NEW text, NEW f, f \notin {"lat", "ns", "lon", "ew"},
         pending' \in Parsed(text, f)
  PROVE  pending'.lat = pending.lat /\ pending'.lon = pending.lon
  BY DEF Parsed, Fields

LEMMA AnyRead ==
  ASSUME DOMAIN pending = Fields, NEW text, NEW f, pending' \in Parsed(text, f)
  PROVE  DOMAIN pending' = Fields
  BY DEF Parsed, Turned

LEMMA AnyGood ==
  ASSUME dataGood \in BOOLEAN, NEW text, NEW f, dataGood' \in GoodAfter(text, f)
  PROVE  dataGood' \in BOOLEAN
  BY DEF GoodAfter

-----------------------------------------------------------------------------
\* One term of the body, whatever it is: the types.
LEMMA BodyTypes ==
  ASSUME ParserTypes, NEW text, BodyTerm(text),
         text # Empty /\ text[1] = "number" => text[2] \in Nat
  PROVE  /\ type' \in Types
         /\ DOMAIN pending' = Fields /\ DOMAIN fix' = Fields
         /\ satIndex' \in 0 .. 255 /\ dataGood' \in BOOLEAN
<1>1. fix' = fix /\ DOMAIN fix' = Fields
  BY DEF BodyTerm, ParserTypes
<1>2. CASE termNumber = 0
  BY <1>1, <1>2, TypesKnown DEF BodyTerm, ParserTypes
<1>3. CASE termNumber # 0 /\ (type = "OTHER" \/ text = Empty)
  BY <1>1, <1>3 DEF BodyTerm, ParserTypes
<1>4. CASE termNumber # 0 /\ ~(type = "OTHER" \/ text = Empty) /\ LabelType \in Sky
  <2>1. SatelliteTerm(text) /\ UNCHANGED <<dataGood, pending, type>>
    BY <1>4 DEF BodyTerm, Sky
  <2>2. satIndex' \in 0 .. 255
    <3>1. CASE LabelTerm = 2
      <4>1. PICK n \in MessageIds(text) : satIndex' = IndexOf(type, n)
        BY <2>1, <3>1 DEF SatelliteTerm
      <4>2. n \in Int
        <5>1. CASE text[1] = "number"
          <6>1. PICK k \in Nat : k = text[2]
            BY <1>4, <5>1
          <6>2. (k - 1) % 256 \in Int
            BY <6>1
          <6> QED
            BY <4>1, <5>1, <6>1, <6>2 DEF MessageIds
        <5>2. CASE text[1] # "number"
          BY <4>1, <5>2 DEF MessageIds
        <5> QED
          BY <5>1, <5>2
      <4>3. \A k \in Int : k % 256 \in 0 .. 255
        OBVIOUS
      <4>4. (IF type = "GLGSV" THEN n * 4 + 12 ELSE n * 4) \in Int
        BY <4>2
      <4> QED
        BY <4>1, <4>3, <4>4 DEF IndexOf
    <3>2. CASE LabelTerm # 2
      BY <2>1, <3>2 DEF SatelliteTerm, ParserTypes
    <3> QED
      BY <3>1, <3>2
  <2> QED
    BY <1>1, <2>1, <2>2 DEF ParserTypes
<1>5. CASE termNumber # 0 /\ ~(type = "OTHER" \/ text = Empty) /\ LabelType \notin Sky
  <2>1. PICK f : /\ pending' \in Parsed(text, f) /\ dataGood' \in GoodAfter(text, f)
                 /\ UNCHANGED <<satIndex, type>>
    BY <1>5 DEF BodyTerm, Sky
  <2> QED
    BY <1>1, <2>1, AnyRead, AnyGood DEF ParserTypes
<1> QED
  BY <1>2, <1>3, <1>4, <1>5

\* The end of any term.
LEMMA EndTypes ==
  ASSUME ParserTypes, NEW text, NEW end, NEW sum, EndTerm(text, end, sum),
         text # Empty /\ text[1] = "number" => text[2] \in Nat
  PROVE  ParserTypes'
<1>1. termNumber' \in 0 .. 255
  <2>1. \A k \in 0 .. 255 : (k + 1) % 256 \in 0 .. 255
    OBVIOUS
  <2> QED
    BY <2>1 DEF EndTerm, ParserTypes
<1>2. isChecksum' \in BOOLEAN
  BY DEF EndTerm
<1>3. CASE isChecksum
  BY <1>1, <1>2, <1>3 DEF EndTerm, CheckTerm, Commit, ParserTypes
<1>4. CASE ~isChecksum
  BY <1>1, <1>2, <1>4, BodyTypes DEF EndTerm, ParserTypes
<1> QED
  BY <1>3, <1>4

\* What reaches encode() from the line: the end of a term, and without a
\* loss the term that was sent.
LEMMA EndSeen ==
  ASSUME LineInv, NEW text, NEW end, NEW sum, SendEnd(text, end, sum)
  PROVE  /\ \E read \in {Garbage, Empty, text} : \E seen : EndTerm(read, end, seen)
         /\ ~damaged => /\ EndTerm(text, end, sum)
                        /\ announced' = Announced(text, end, sum)
         /\ ~broken' /\ digits' = Unread
         /\ UNCHANGED <<talk, second, tracking, losses, damaged>>
<1>1. PICK read \in (IF broken THEN {Garbage, Empty} ELSE {text}) :
        LET seen == IF digits # Unread THEN digits
                    ELSE IF broken THEN {Garbage} ELSE sum
        IN /\ EndTerm(read, end, seen)
           /\ announced' = Announced(read, end, seen)
  BY DEF SendEnd
<1>2. /\ ~broken' /\ digits' = Unread
      /\ UNCHANGED <<talk, second, tracking, losses, damaged>>
  BY DEF SendEnd
<1>3. read \in {Garbage, Empty, text}
  OBVIOUS
<1>4. ASSUME ~damaged
      PROVE  /\ EndTerm(text, end, sum)
             /\ announced' = Announced(text, end, sum)
  <2>1. ~broken /\ digits = Unread
    BY <1>4 DEF LineInv
  <2> QED
    BY <1>1, <2>1
<1> QED
  BY <1>1, <1>2, <1>3, <1>4

\* A term, checksum or line feed reaches the parser: types and place.
Sends == SendTerm \/ SendChecksum \/ SendLineFeed

LEMMA SendTypes ==
  ASSUME ParserTypes, LineInv, Sends
  PROVE  ParserTypes' /\ LineInv'
<1>1. wire # Silent /\ Len(wire) \in 4 .. 20
      /\ \A k \in 1 .. Len(wire) : wire[k] # Empty /\ wire[k][1] = "number"
                                    => wire[k][2] \in Nat
  <2>1. wire # Silent
    BY DEF Sends, SendTerm, SendChecksum, SendLineFeed, Silent
  <2> QED
    BY <2>1, Shape DEF LineInv
<1>2. PICK text, end, sum :
        /\ SendEnd(text, end, sum)
        /\ text # Empty /\ text[1] = "number" => text[2] \in Nat
  <2>1. CASE SendTerm
    BY <1>1, <2>1 DEF SendTerm
  <2>2. CASE SendChecksum
    <3>1. Garbage[1] # "number"
      BY DEF Garbage
    <3> QED
      BY <2>2, <3>1 DEF SendChecksum
  <2>3. CASE SendLineFeed
    BY <2>3 DEF SendLineFeed
  <2> QED
    BY <2>1, <2>2, <2>3 DEF Sends
<1>3. PICK read \in {Garbage, Empty, text} : \E seen : EndTerm(read, end, seen)
  BY <1>2, EndSeen
<1>4. read # Empty /\ read[1] = "number" => read[2] \in Nat
  BY <1>2 DEF Garbage
<1>5. ParserTypes'
  <2>1. PICK seen : EndTerm(read, end, seen)
    BY <1>3
  <2> QED
    BY <1>4, <2>1, EndTypes
<1>6. /\ ~broken' /\ digits' = Unread
      /\ UNCHANGED <<talk, second, tracking, losses, damaged>>
  BY <1>2, EndSeen
<1>7. wire' = Silent \/ (wire' = wire /\ next' \in 1 .. Len(wire) + 2)
  <2>1. PICK l \in 4 .. 20 : l = Len(wire)
    BY <1>1
  <2>2. PICK n \in 1 .. l + 2 : n = next
    BY <1>1, <2>1 DEF LineInv
  <2>3. CASE SendLineFeed
    BY <2>3 DEF SendLineFeed
  <2>4. CASE SendTerm \/ SendChecksum
    <3>1. n <= l + 1 /\ next' = n + 1 /\ wire' = wire
      BY <2>1, <2>2, <2>4 DEF SendTerm, SendChecksum
    <3> QED
      BY <2>1, <2>2, <3>1
  <2> QED
    BY <2>3, <2>4 DEF Sends
<1>8. Sentences(second, tracking)' = Sentences(second, tracking)
  BY <1>6 DEF Sentences
<1> QED
  BY <1>1, <1>5, <1>6, <1>7, <1>8 DEF LineInv

-----------------------------------------------------------------------------
\* One term of a sentence that lost nothing, after the first.
LEMMA TermRead ==
  ASSUME ParserTypes, BodyTerm(wire[next]), next \in 2 .. 20, termNumber = next - 1
  PROVE  /\ UNCHANGED <<type, fix>>
         /\ type = "OTHER" \/ type \in Sky \/ wire[next] = Empty =>
              UNCHANGED <<dataGood, pending>>
         /\ type \in {"GPRMC", "GPGGA", "GNGNS"} /\ wire[next] # Empty =>
              /\ pending' \in Parsed(wire[next], FieldAt(type, next - 1))
              /\ dataGood' \in GoodAfter(wire[next], FieldAt(type, next - 1))
         /\ type \notin Sky => UNCHANGED <<satIndex, slot, overrun>>
         /\ type \in Sky /\ wire[next] # Empty => SatelliteTerm(wire[next])
         /\ LabelTerm = next - 1
<1>1. termNumber # 0 /\ LabelType = type /\ LabelTerm = next - 1
  <2>1. \A n \in 2 .. 20 : n - 1 # 0 /\ n - 1 < 32 /\ (n - 1) % 32 = n - 1
    OBVIOUS
  <2> QED
    BY <2>1 DEF LabelType, LabelTerm
<1>2. CASE type = "OTHER" \/ wire[next] = Empty
  BY <1>1, <1>2 DEF BodyTerm, Sky
<1>3. CASE ~(type = "OTHER" \/ wire[next] = Empty) /\ type \in Sky
  BY <1>1, <1>3 DEF BodyTerm, Sky
<1>4. CASE ~(type = "OTHER" \/ wire[next] = Empty) /\ type \notin Sky
  BY <1>1, <1>4 DEF BodyTerm, Sky
<1> QED
  BY <1>2, <1>3, <1>4

\* The position of a sentence is read from its own terms: at is the place of
\* the term among those of a GGA.
LEMMA PositionTerm ==
  ASSUME ParserTypes, NEW at \in Nat, at >= 3, PositionRead(at), second' = second,
         NEW text, NEW f, pending' \in Parsed(text, f) \/ pending' = pending,
         at = 3 => f = "lat" /\ text = <<"lat", second>>,
         at = 4 => f = "ns" /\ text = South(second),
         at = 5 => f = "lon" /\ text = <<"lon", second>>,
         at = 6 => f = "ew" /\ text = West(second),
         at <= 6 => pending' \in Parsed(text, f),
         at > 6 => f \notin {"lat", "ns", "lon", "ew"}
  PROVE  PositionRead(at + 1)'
<1>1. DOMAIN pending = Fields
  BY DEF ParserTypes
<1>2. CASE at = 3
  <2>1. pending'.lat = <<"lat", second, 1>>
    BY <1>1, <1>2, RawRead
  <2> QED
    BY <1>2, <2>1 DEF PositionRead
<1>3. CASE at = 4
  <2>1. pending.lat = <<"lat", second, 1>>
    BY <1>3 DEF PositionRead
  <2>2. pending'.lat = Signed("lat", second)
    BY <1>1, <1>3, <2>1, SignRead
  <2> QED
    BY <1>3, <2>2 DEF PositionRead, Signed
<1>4. CASE at = 5
  <2>1. pending.lat = Signed("lat", second)
    BY <1>4 DEF PositionRead
  <2>2. pending'.lon = <<"lon", second, 1>> /\ pending'.lat = pending.lat
    BY <1>1, <1>4, RawRead
  <2> QED
    BY <1>4, <2>1, <2>2 DEF PositionRead, Signed
<1>5. CASE at = 6
  <2>1. pending.lat = Signed("lat", second) /\ pending.lon = <<"lon", second, 1>>
    BY <1>5 DEF PositionRead
  <2>2. pending'.lon = Signed("lon", second) /\ pending'.lat = pending.lat
    BY <1>1, <1>5, <2>1, SignRead
  <2> QED
    BY <1>5, <2>1, <2>2 DEF PositionRead, Signed
<1>6. CASE at > 6
  <2>1. pending.lat = Signed("lat", second) /\ pending.lon = Signed("lon", second)
    BY <1>6 DEF PositionRead
  <2>2. pending'.lat = pending.lat /\ pending'.lon = pending.lon
    BY <1>1, <1>6, OtherRead
  <2> QED
    BY <1>6, <2>1, <2>2 DEF PositionRead, Signed
<1> QED
  BY <1>2, <1>3, <1>4, <1>5, <1>6

\* What a term of a sentence that lost nothing changes, wherever it is.
LEMMA TermStep ==
  ASSUME ParserTypes, LineInv, FollowInv, SendTerm, ~damaged
  PROVE  /\ wire \in Sentences(second, tracking) /\ Len(wire) \in 4 .. 20
         /\ next \in 1 .. Len(wire) /\ next' = next + 1 /\ wire' = wire
         /\ ~isChecksum /\ termNumber = next - 1 /\ BodyTerm(wire[next])
         /\ second' = second /\ losses' = losses
         /\ termNumber' = next' - 1
         /\ isChecksum' <=> next' = Len(wire) + 1
<1>1. wire # Silent /\ next \in 1 .. Len(wire) /\ next' = next + 1 /\ wire' = wire
  BY DEF SendTerm, Silent
<1>2. wire \in Sentences(second, tracking) /\ Len(wire) \in 4 .. 20
  BY <1>1, Shape DEF LineInv
<1>3. PICK l \in 4 .. 20, n \in 1 .. 20 : l = Len(wire) /\ n = next /\ n <= l
  <2>1. \A l \in 4 .. 20 : \A n \in 1 .. l : n \in 1 .. 20 /\ n <= l
    OBVIOUS
  <2> QED
    BY <1>1, <1>2, <2>1, Zenon
<1>4. ~isChecksum /\ termNumber = n - 1
  BY <1>1, <1>3 DEF FollowInv
<1>5. PICK end : /\ EndTerm(wire[next], end, {Garbage})
                 /\ (end = "star") <=> (next = Len(wire))
  <2>1. SendEnd(wire[next], IF next = Len(wire) THEN "star" ELSE "comma", {Garbage})
    BY DEF SendTerm
  <2> QED
    BY <2>1, EndSeen
<1>6. BodyTerm(wire[next]) /\ termNumber' = n
  <2>1. (n - 1 + 1) % 256 = n
    BY <1>3
  <2> QED
    BY <1>4, <1>5, <2>1 DEF EndTerm
<1>7. isChecksum' <=> next' = Len(wire) + 1
  <2>1. (n = l) <=> (n + 1 = l + 1)
    OBVIOUS
  <2>2. isChecksum' <=> n = l
    BY <1>3, <1>5 DEF EndTerm
  <2> QED
    BY <1>1, <1>3, <2>1, <2>2
<1>8. second' = second /\ losses' = losses
  BY EndSeen DEF SendTerm
<1>9. termNumber = next - 1 /\ termNumber' = next' - 1
  <2>1. n + 1 - 1 = n
    BY <1>3
  <2> QED
    BY <1>1, <1>3, <1>4, <1>6, <2>1
<1> QED
  BY <1>1, <1>2, <1>4, <1>6, <1>7, <1>8, <1>9

LEMMA TermFollows ==
  ASSUME ParserTypes, LineInv, FollowInv, SendTerm
  PROVE  FollowInv'
<1> SUFFICES ASSUME ~damaged' PROVE FollowInv'
  BY DEF FollowInv
<1>1. ~damaged
  BY EndSeen DEF SendTerm
<1>2. /\ wire \in Sentences(second, tracking) /\ Len(wire) \in 4 .. 20
      /\ next \in 1 .. Len(wire) /\ next' = next + 1 /\ wire' = wire
      /\ ~isChecksum /\ termNumber = next - 1 /\ BodyTerm(wire[next])
      /\ second' = second
      /\ termNumber' = next' - 1
      /\ isChecksum' <=> next' = Len(wire) + 1
  BY <1>1, TermStep
<1>3. wire # Silent /\ next' > 1 /\ next \in 1 .. 20
  <2>1. \A l \in 4 .. 20 : \A n \in 1 .. l : n \in 1 .. 20 /\ n + 1 > 1
    OBVIOUS
  <2>2. wire # Silent
    BY <1>2, Shape
  <2> QED
    BY <1>2, <2>1, <2>2
<1>4. type' \in TypesOf(wire[1])
  <2>1. CASE next = 1
    BY <1>2, <2>1 DEF BodyTerm
  <2>2. CASE next # 1
    <3>1. type \in TypesOf(wire[1])
      BY <1>1, <1>2, <1>3, <2>2 DEF FollowInv
    <3>2. next \in 2 .. 20
      BY <1>3, <2>2
    <3> QED
      BY <1>2, <3>1, <3>2, TermRead
  <2> QED
    BY <2>1, <2>2
<1>5. \A n \in Nat : n <= 3 => PositionRead(n)'
  BY DEF PositionRead
<1>6. CASE next = 1
  <2>1. UNCHANGED <<dataGood, pending>>
    BY <1>2, <1>6 DEF BodyTerm
  <2>2. next' = 2 /\ next' - 1 = 1 /\ PositionRead(2)' /\ PositionRead(1)'
    BY <1>2, <1>5, <1>6
  <2>3. dataGood => wire \in {Rmc(second), Gga(second)}
    BY <1>1, <1>3 DEF FollowInv
  <2> QED
    BY <1>1, <1>2, <1>3, <1>4, <2>1, <2>2, <2>3 DEF FollowInv
<1>7. CASE next # 1
  <2>1. next \in 2 .. 20 /\ type \in TypesOf(wire[1])
    BY <1>1, <1>2, <1>3, <1>7 DEF FollowInv
  <2>2. PICK n \in 2 .. 20 : n = next /\ next' = n + 1
    BY <1>2, <2>1
  <2>3. wire = Rmc(second) => PositionRead(next - 1)'
    <3> SUFFICES ASSUME wire = Rmc(second) PROVE PositionRead(n)'
      <4>1. next' - 1 = n
        BY <2>2
      <4> QED
        BY <4>1 DEF PositionRead
    <3>1. type = "GPRMC" /\ n \in 2 .. 13
      <4>1. wire[1] = <<"GNRMC">> /\ Len(wire) = 13
        BY RmcTerms
      <4>2. TypesOf(wire[1]) = {"GPRMC"}
        BY <4>1, Names
      <4>3. n \in 1 .. 13
        BY <1>2, <2>2, <4>1
      <4> QED
        BY <2>1, <2>2, <4>2, <4>3
    <3>2. PositionRead(n - 1)
      BY <1>1, <1>3, <2>2 DEF FollowInv
    <3>3. CASE n <= 3
      BY <1>5, <3>3
    <3>4. CASE n > 3
      <4> DEFINE f == FieldAt("GPRMC", n - 1)
      <4>1. wire[n] = Empty => UNCHANGED pending
        BY <1>2, <2>1, <2>2, TermRead
      <4>2. wire[n] # Empty => pending' \in Parsed(wire[n], f)
        BY <1>2, <2>1, <2>2, <3>1, TermRead
      <4>3. /\ n = 4 => f = "lat" /\ wire[n] = <<"lat", second>> /\ wire[n] # Empty
            /\ n = 5 => f = "ns" /\ wire[n] = South(second) /\ wire[n] # Empty
            /\ n = 6 => f = "lon" /\ wire[n] = <<"lon", second>> /\ wire[n] # Empty
            /\ n = 7 => f = "ew" /\ wire[n] = West(second) /\ wire[n] # Empty
        <5>1. South(second) # Empty /\ West(second) # Empty
              /\ <<"lat", second>> # Empty /\ <<"lon", second>> # Empty
          BY DEF South, West, Empty
        <5>2. /\ n = 4 => f = "lat" /\ wire[n] = <<"lat", second>>
              /\ n = 5 => f = "ns" /\ wire[n] = South(second)
          BY RmcTerms, RmcFields
        <5>3. /\ n = 6 => f = "lon" /\ wire[n] = <<"lon", second>>
              /\ n = 7 => f = "ew" /\ wire[n] = West(second)
          BY RmcTerms, RmcFields
        <5> HIDE DEF f
        <5> QED
          BY <5>1, <5>2, <5>3
      <4>4. n > 7 => f \notin {"lat", "ns", "lon", "ew"}
        BY <3>1, RmcFields
      <4> HIDE DEF f
      <4>5. PICK at \in Nat : at = n - 1 /\ at >= 3 /\ at + 1 = n
        BY <3>4
      <4>6. at <= 6 => n \in {4, 5, 6, 7}
        BY <3>4, <4>5
      <4>7. at <= 6 => pending' \in Parsed(wire[n], f)
        BY <4>2, <4>3, <4>6
      <4>8. /\ at = 3 => f = "lat" /\ wire[n] = <<"lat", second>>
            /\ at = 4 => f = "ns" /\ wire[n] = South(second)
            /\ at = 5 => f = "lon" /\ wire[n] = <<"lon", second>>
            /\ at = 6 => f = "ew" /\ wire[n] = West(second)
            /\ at > 6 => f \notin {"lat", "ns", "lon", "ew"}
        BY <4>3, <4>4, <4>5
      <4>9. PositionRead(at)
        BY <3>2, <4>5
      <4>10. PositionRead(at + 1)'
        BY <1>2, <4>1, <4>2, <4>5, <4>7, <4>8, <4>9, PositionTerm
      <4> QED
        BY <4>5, <4>10
    <3> QED
      BY <3>3, <3>4
  <2>4. wire = Gga(second) => PositionRead(next)'
    <3> SUFFICES ASSUME wire = Gga(second) PROVE PositionRead(n + 1)'
      BY <2>2 DEF PositionRead
    <3>1. type = "GPGGA" /\ n \in 2 .. 15
      <4>1. wire[1] = <<"GPGGA">> /\ Len(wire) = 15
        BY GgaTerms
      <4>2. TypesOf(wire[1]) = {"GPGGA"}
        BY <4>1, Names
      <4>3. n \in 1 .. 15
        BY <1>2, <2>2, <4>1
      <4> QED
        BY <2>1, <2>2, <4>2, <4>3
    <3>2. PositionRead(n)
      BY <1>1, <1>3, <2>2 DEF FollowInv
    <3>3. CASE n = 2
      BY <1>5, <3>3
    <3>4. CASE n >= 3
      <4> DEFINE f == FieldAt("GPGGA", n - 1)
      <4>1. wire[n] = Empty => UNCHANGED pending
        BY <1>2, <2>1, <2>2, TermRead
      <4>2. wire[n] # Empty => pending' \in Parsed(wire[n], f)
        BY <1>2, <2>1, <2>2, <3>1, TermRead
      <4>3. /\ n = 3 => f = "lat" /\ wire[n] = <<"lat", second>> /\ wire[n] # Empty
            /\ n = 4 => f = "ns" /\ wire[n] = South(second) /\ wire[n] # Empty
            /\ n = 5 => f = "lon" /\ wire[n] = <<"lon", second>> /\ wire[n] # Empty
            /\ n = 6 => f = "ew" /\ wire[n] = West(second) /\ wire[n] # Empty
        <5>1. South(second) # Empty /\ West(second) # Empty
              /\ <<"lat", second>> # Empty /\ <<"lon", second>> # Empty
          BY DEF South, West, Empty
        <5>2. /\ n = 3 => f = "lat" /\ wire[n] = <<"lat", second>>
              /\ n = 4 => f = "ns" /\ wire[n] = South(second)
          BY GgaTerms, GgaFields
        <5>3. /\ n = 5 => f = "lon" /\ wire[n] = <<"lon", second>>
              /\ n = 6 => f = "ew" /\ wire[n] = West(second)
          BY GgaTerms, GgaFields
        <5> HIDE DEF f
        <5> QED
          BY <5>1, <5>2, <5>3
      <4>4. n > 6 => f \notin {"lat", "ns", "lon", "ew"}
        BY <3>1, GgaFields
      <4> HIDE DEF f
      <4>5. n <= 6 => pending' \in Parsed(wire[n], f)
        BY <3>4, <4>2, <4>3
      <4>6. PICK at \in Nat : at = n /\ at >= 3
        BY <3>4
      <4>7. PositionRead(at) /\ (at <= 6 => pending' \in Parsed(wire[n], f))
            /\ (pending' \in Parsed(wire[n], f) \/ pending' = pending)
        BY <3>2, <4>1, <4>2, <4>5, <4>6
      <4>8. /\ at = 3 => f = "lat" /\ wire[n] = <<"lat", second>>
            /\ at = 4 => f = "ns" /\ wire[n] = South(second)
            /\ at = 5 => f = "lon" /\ wire[n] = <<"lon", second>>
            /\ at = 6 => f = "ew" /\ wire[n] = West(second)
            /\ at > 6 => f \notin {"lat", "ns", "lon", "ew"}
        BY <4>3, <4>4, <4>6
      <4>9. PositionRead(at + 1)'
        BY <1>2, <4>6, <4>7, <4>8, PositionTerm
      <4> QED
        BY <4>6, <4>9
    <3> QED
      BY <3>1, <3>3, <3>4
  <2>5. dataGood' => wire \in {Rmc(second), Gga(second)}
    <3> SUFFICES ASSUME wire \notin {Rmc(second), Gga(second)} PROVE ~dataGood'
      OBVIOUS
    <3>1. dataGood = FALSE
      BY <1>1, <1>3 DEF FollowInv, ParserTypes
    <3>2. wire[n] = Empty => ~dataGood'
      BY <1>2, <2>1, <2>2, <3>1, TermRead
    <3>3. type \in {"GPRMC", "GPGGA", "GNGNS"} /\ wire[n] # Empty =>
            dataGood' \in GoodAfter(wire[n], FieldAt(type, n - 1))
      BY <1>2, <2>1, <2>2, TermRead
    <3>4. \A f : f \notin {"status", "quality"} /\ dataGood' \in GoodAfter(wire[n], f) => ~dataGood'
      BY <3>1 DEF GoodAfter
    <3>5. CASE wire = RmcVoid(second)
      <4>1. type = "GPRMC"
        BY <2>1, <3>5, RmcVoidTerms, Names
      <4>2. CASE n = 3
        <5>1. wire[n] = <<"V">> /\ FieldAt(type, n - 1) = "status"
          BY <3>5, <4>1, <4>2, RmcVoidTerms, RmcFields
        <5>2. GoodAfter(<<"V">>, "status") = {FALSE}
          BY DEF GoodAfter, Garbage
        <5> QED
          BY <3>2, <3>3, <4>1, <5>1, <5>2
      <4>3. CASE n # 3
        <5>1. n - 1 \in 1 .. 19 /\ n - 1 # 2
          BY <2>2, <4>3
        <5>2. FieldAt(type, n - 1) \notin {"status", "quality"}
          BY <4>1, <5>1, RmcFields
        <5> QED
          BY <3>2, <3>3, <3>4, <4>1, <5>2
      <4> QED
        BY <4>2, <4>3
    <3>6. CASE wire = GgaVoid(second)
      <4>1. type = "GPGGA"
        BY <2>1, <3>6, GgaVoidTerms, Names
      <4>2. CASE n = 7
        <5>1. wire[n] = <<"0">> /\ FieldAt(type, n - 1) = "quality"
          BY <3>6, <4>1, <4>2, GgaVoidTerms, GgaFields
        <5>2. GoodAfter(<<"0">>, "quality") = {FALSE}
          BY DEF GoodAfter, Letters
        <5> QED
          BY <3>2, <3>3, <4>1, <5>1, <5>2
      <4>3. CASE n # 7
        <5>1. n - 1 \in 1 .. 19 /\ n - 1 # 6
          BY <2>2, <4>3
        <5>2. FieldAt(type, n - 1) \notin {"status", "quality"}
          BY <4>1, <5>1, GgaFields
        <5> QED
          BY <3>2, <3>3, <3>4, <4>1, <5>2
      <4> QED
        BY <4>2, <4>3
    <3>7. CASE wire = Gns(second)
      <4>1. type = "GNGNS"
        BY <2>1, <3>7, GnsTerms, Names
      <4>2. n - 1 \in 1 .. 19
        BY <2>2
      <4> QED
        BY <3>2, <3>3, <3>4, <4>1, <4>2, GnsFields
    <3>8. CASE IsGsv(wire)
      <4>1. type \in Sky
        <5>1. PICK t \in Sky, m \in Numbers, sky \in Skies : wire = Gsv(t, m, sky)
          BY <3>8 DEF IsGsv
        <5>2. wire[1] = <<t>>
          BY <5>1, GsvShape DEF Numbers
        <5> QED
          BY <2>1, <5>2, Names
      <4> QED
        BY <1>2, <2>1, <3>1, <4>1, TermRead
    <3> QED
      BY <1>2, <3>5, <3>6, <3>7, <3>8, Kinds
  <2>6. next' # 1
    BY <2>2
  <2> QED
    BY <1>1, <1>2, <1>3, <1>4, <2>3, <2>4, <2>5, <2>6 DEF FollowInv
<1> QED
  BY <1>6, <1>7

\* The end of a sentence that lost nothing.
LEMMA ChecksumStep ==
  ASSUME ParserTypes, LineInv, FollowInv, SendChecksum, ~damaged
  PROVE  /\ wire # Silent /\ Len(wire) \in 4 .. 20 /\ wire' = wire
         /\ next = Len(wire) + 1 /\ next' = next + 1
         /\ isChecksum /\ termNumber = next - 1
         /\ EndTerm(Garbage, "return", ChecksumOf(wire))
         /\ announced' = Announced(Garbage, "return", ChecksumOf(wire))
         /\ ~isChecksum' /\ termNumber' = next' - 1 /\ CheckTerm(ChecksumOf(wire) = parity')
         /\ UNCHANGED <<second, losses, damaged>>
<1>1. /\ wire # Silent /\ next = Len(wire) + 1 /\ next' = next + 1 /\ wire' = wire
      /\ SendEnd(Garbage, "return", ChecksumOf(wire))
  BY DEF SendChecksum
<1>2. Len(wire) \in 4 .. 20
  BY <1>1, Shape DEF LineInv
<1>3. /\ EndTerm(Garbage, "return", ChecksumOf(wire))
      /\ announced' = Announced(Garbage, "return", ChecksumOf(wire))
      /\ UNCHANGED <<second, losses, damaged>>
  BY <1>1, EndSeen
<1>4. isChecksum /\ termNumber = next - 1
  BY <1>1 DEF FollowInv
<1>5. ~isChecksum' /\ CheckTerm(ChecksumOf(wire) = parity')
  BY <1>3, <1>4 DEF EndTerm
<1>6. termNumber' = next' - 1
  <2>1. PICK l \in 4 .. 20 : l = Len(wire)
    BY <1>2
  <2>2. \A k \in 4 .. 20 : (k + 1) % 256 = k + 1 /\ k + 1 - 1 = k /\ k + 1 + 1 - 1 = k + 1
    OBVIOUS
  <2>3. (l + 1) % 256 = l + 1 /\ l + 1 - 1 = l /\ l + 1 + 1 - 1 = l + 1
    BY <2>2, Zenon
  <2>4. termNumber = l /\ next' - 1 = l + 1
    BY <1>1, <1>4, <2>1, <2>3
  <2>5. termNumber' = (termNumber + 1) % 256
    BY <1>3 DEF EndTerm
  <2> QED
    BY <2>3, <2>4, <2>5
<1> QED
  BY <1>1, <1>2, <1>3, <1>4, <1>5, <1>6

LEMMA ChecksumFollows ==
  ASSUME ParserTypes, LineInv, FollowInv, SendChecksum
  PROVE  FollowInv'
<1> SUFFICES ASSUME ~damaged' PROVE FollowInv'
  BY DEF FollowInv
<1>1. ~damaged
  BY EndSeen DEF SendChecksum
<1>2. /\ wire # Silent /\ Len(wire) \in 4 .. 20 /\ wire' = wire
      /\ next = Len(wire) + 1 /\ next' = next + 1
      /\ ~isChecksum' /\ termNumber' = next' - 1
      /\ UNCHANGED <<type, dataGood, pending, second>>
  BY <1>1, ChecksumStep DEF CheckTerm
<1>3. PICK l \in 4 .. 20 : l = Len(wire) /\ next = l + 1 /\ next' = l + 2
  <2>1. PICK l \in 4 .. 20 : l = Len(wire)
    BY <1>2
  <2>2. l + 1 + 1 = l + 2
    BY <2>1
  <2> QED
    BY <1>2, <2>1, <2>2
<1>4. next > 1 /\ next' # 1 /\ ~(next' = Len(wire) + 1)
  BY <1>3
<1>5. type \in TypesOf(wire[1]) /\ (dataGood => wire \in {Rmc(second), Gga(second)})
  BY <1>1, <1>2, <1>4 DEF FollowInv
<1>6. wire = Rmc(second) => PositionRead(next - 1)'
  <2> SUFFICES ASSUME wire = Rmc(second) PROVE PositionRead(next - 1)'
    OBVIOUS
  <2>1. l = 13
    BY <1>3, RmcTerms
  <2>2. PositionRead(next - 1)
    BY <1>1, <1>2 DEF FollowInv
  <2>3. next - 1 >= 7
    BY <1>3, <2>1
  <2>4. pending.lat = Signed("lat", second) /\ pending.lon = Signed("lon", second)
    BY <1>3, <2>1, <2>2, <2>3 DEF PositionRead
  <2>5. (next - 1)' = 14
    BY <1>3, <2>1
  <2> QED
    BY <1>2, <2>4, <2>5 DEF PositionRead, Signed
<1>7. wire = Gga(second) => PositionRead(next)'
  <2> SUFFICES ASSUME wire = Gga(second) PROVE PositionRead(next)'
    OBVIOUS
  <2>1. l = 15
    BY <1>3, GgaTerms
  <2>2. PositionRead(next)
    BY <1>1, <1>2 DEF FollowInv
  <2>3. pending.lat = Signed("lat", second) /\ pending.lon = Signed("lon", second)
    BY <1>3, <2>1, <2>2 DEF PositionRead
  <2>4. next' = 17
    BY <1>3, <2>1
  <2> QED
    BY <1>2, <2>3, <2>4 DEF PositionRead, Signed
<1>8. next' > 1
  BY <1>3
<1> QED
  BY <1>2, <1>4, <1>5, <1>6, <1>7, <1>8 DEF FollowInv

\* What is announced without a loss of its own is the position of the sentence.
LEMMA FreshStep ==
  ASSUME ParserTypes, LineInv, FollowInv, Sends, ~damaged, announced'
  PROVE  fix'.lat = Signed("lat", second) /\ fix'.lon = Signed("lon", second)
<1>1. CASE SendTerm
  <2>1. PICK end : announced' = Announced(wire[next], end, {Garbage})
    BY <1>1, EndSeen DEF SendTerm
  <2>2. ~isChecksum
    BY <1>1, TermStep
  <2> QED
    BY <2>1, <2>2 DEF Announced
<1>2. CASE SendLineFeed
  <2>1. announced' = Announced(Empty, "feed", {Garbage})
    BY <1>2, EndSeen DEF SendLineFeed
  <2>2. ~isChecksum
    <3>1. wire # Silent /\ next = Len(wire) + 2
      BY <1>2 DEF SendLineFeed
    <3>2. Len(wire) \in 4 .. 20
      BY <3>1, Shape DEF LineInv
    <3>3. next # Len(wire) + 1
      BY <3>1, <3>2
    <3> QED
      BY <3>1, <3>3 DEF FollowInv
  <2> QED
    BY <2>1, <2>2 DEF Announced
<1>3. CASE SendChecksum
  <2>1. /\ wire # Silent /\ next = Len(wire) + 1 /\ Len(wire) \in 4 .. 20
        /\ announced' = Announced(Garbage, "return", ChecksumOf(wire))
        /\ EndTerm(Garbage, "return", ChecksumOf(wire))
        /\ CheckTerm(ChecksumOf(wire) = parity')
    BY <1>3, ChecksumStep
  <2>2. dataGood /\ ChecksumOf(wire) = parity'
    BY <2>1 DEF Announced, EndTerm
  <2>3. /\ fix'.lat = (IF "lat" \in Copied THEN pending.lat ELSE fix.lat)
        /\ fix'.lon = (IF "lon" \in Copied THEN pending.lon ELSE fix.lon)
    BY <2>1, <2>2 DEF CheckTerm, Commit, Fields
  <2>4. wire \in {Rmc(second), Gga(second)} /\ type \in TypesOf(wire[1])
    <3>1. next > 1
      <4>1. \A l \in 4 .. 20 : l + 1 > 1
        OBVIOUS
      <4> QED
        BY <2>1, <4>1
    <3> QED
      BY <2>1, <2>2, <3>1 DEF FollowInv
  <2>5. CASE wire = Rmc(second)
    <3>1. next = 14 /\ wire[1] = <<"GNRMC">>
      <4>1. Len(wire) = 13 /\ wire[1] = <<"GNRMC">>
        BY <2>5, RmcTerms
      <4> QED
        BY <2>1, <4>1
    <3>2. type = "GPRMC"
      BY <2>4, <3>1, Names
    <3>3. PositionRead(next - 1)
      BY <2>1, <2>5 DEF FollowInv
    <3>4. pending.lat = Signed("lat", second) /\ pending.lon = Signed("lon", second)
      BY <3>1, <3>3 DEF PositionRead
    <3>5. {"lat", "lon"} \subseteq Copied
      BY <2>2, <3>2 DEF Copied
    <3> QED
      BY <2>3, <3>4, <3>5
  <2>6. CASE wire = Gga(second)
    <3>1. next = 16 /\ wire[1] = <<"GPGGA">>
      <4>1. Len(wire) = 15 /\ wire[1] = <<"GPGGA">>
        BY <2>6, GgaTerms
      <4> QED
        BY <2>1, <4>1
    <3>2. type = "GPGGA"
      BY <2>4, <3>1, Names
    <3>3. PositionRead(next)
      BY <2>1, <2>6 DEF FollowInv
    <3>4. pending.lat = Signed("lat", second) /\ pending.lon = Signed("lon", second)
      BY <3>1, <3>3 DEF PositionRead
    <3>5. {"lat", "lon"} \subseteq Copied
      BY <2>2, <3>2 DEF Copied
    <3> QED
      BY <2>3, <3>4, <3>5
  <2> QED
    BY <2>4, <2>5, <2>6
<1> QED
  BY <1>1, <1>2, <1>3 DEF Sends

-----------------------------------------------------------------------------
\* The table of satellites.  A sentence that is not about satellites is not
\* taken for one, and one that is gives its number and its constellation.
LEMMA NotSky ==
  ASSUME NEW s, NEW v, NEW w \in Sentences(s, v), ~IsGsv(w)
  PROVE  TypesOf(w[1]) \cap Sky = {}
<1>1. w[1] \in {<<"GNRMC">>, <<"GPRMC">>, <<"GPGGA">>, <<"GNGNS">>}
  BY Kinds, RmcTerms, RmcVoidTerms, GgaTerms, GgaVoidTerms, GnsTerms
<1> QED
  BY <1>1, Names DEF Sky

LEMMA SkyTerms ==
  ASSUME NEW t \in Sky, NEW m \in Numbers, NEW sky \in Skies, wire = Gsv(t, m, sky)
  PROVE  /\ TypesOf(wire[1]) = {t} /\ wire[3] # Empty
         /\ MessageIds(wire[3]) = {m - 1}
         /\ \A u \in Sky, k \in Numbers, other \in Skies :
              wire = Gsv(u, k, other) => u = t /\ k = m
<1>1. Numbers \subseteq Nat
  BY DEF Numbers
<1>2. wire[1] = <<t>> /\ wire[3] = <<"number", m>>
  BY <1>1, GsvShape
<1>3. ASSUME NEW u \in Sky, NEW k \in Numbers, NEW other \in Skies,
             wire = Gsv(u, k, other)
      PROVE  u = t /\ k = m
  <2>1. wire[1] = <<u>> /\ wire[3] = <<"number", k>>
    BY <1>1, <1>3, GsvShape
  <2> QED
    BY <1>2, <2>1
<1>4. MessageIds(wire[3]) = {m - 1}
  <2>1. \A k \in Numbers : (k - 1) % 256 = k - 1
    BY DEF Numbers
  <2> QED
    BY <1>2, <2>1 DEF MessageIds
<1>5. TypesOf(wire[1]) = {t} /\ wire[3] # Empty
  BY <1>2, Names DEF Empty
<1> QED
  BY <1>3, <1>4, <1>5

\* Where the four satellites of a sentence go.
LEMMA Places ==
  ASSUME NEW t \in Sky, NEW m \in Numbers, m <= Messages[t], NEW at,
         \E k \in {7, 11, 15, 19} : at = IndexOf(t, m - 1) + (k - 7) \div 4
  PROVE  /\ InTable => at \in Slots
         /\ t = "GPGSV" => at < 4 * Messages[t]
         /\ t = "GLGSV" => at >= 12
<1>1. PICK k \in {7, 11, 15, 19} : at = IndexOf(t, m - 1) + (k - 7) \div 4
  OBVIOUS
<1>2. (k - 7) \div 4 \in 0 .. 3
  BY <1>1
<1>3. Messages[t] \in 1 .. 9
  BY StreamConstants DEF Sky
<1>4. CASE t = "GPGSV"
  <2>1. IndexOf(t, m - 1) = 4 * m - 4
    BY <1>4 DEF IndexOf, Numbers
  <2> QED
    BY <1>1, <1>2, <1>3, <1>4, <2>1 DEF Slots, InTable, Numbers
<1>5. CASE t = "GLGSV"
  <2>1. IndexOf(t, m - 1) = 4 * m + 8
    BY <1>5 DEF IndexOf, Numbers
  <2> QED
    BY <1>1, <1>2, <1>3, <1>5, <2>1 DEF Slots, InTable, Numbers
<1> QED
  BY <1>4, <1>5 DEF Sky

LEMMA TermTable ==
  ASSUME ParserTypes, LineInv, FollowInv, TableInv, SendTerm
  PROVE  TableInv'
<1> SUFFICES ASSUME losses' = 0 PROVE TableInv'
  BY DEF TableInv
<1>1. losses = 0 /\ ~damaged
  <2>1. losses' = losses
    BY EndSeen DEF SendTerm
  <2> QED
    BY <2>1 DEF LineInv
<1>2. /\ wire \in Sentences(second, tracking) /\ Len(wire) \in 4 .. 20
      /\ next \in 1 .. Len(wire) /\ next' = next + 1 /\ wire' = wire
      /\ ~isChecksum /\ termNumber = next - 1 /\ BodyTerm(wire[next])
  BY <1>1, TermStep
<1>3. PICK n \in 1 .. 20 : n = next /\ next' = n + 1 /\ termNumber = n - 1
  <2>1. \A l \in 4 .. 20 : \A k \in 1 .. l : k \in 1 .. 20
    OBVIOUS
  <2> QED
    BY <1>2, <2>1
<1>4. /\ InTable => ~overrun
      /\ \A s \in Slots : Belongs(slot[s], s)
  BY <1>1 DEF TableInv, HalvesApart, Belongs
<1>5. CASE n = 1
  <2>1. UNCHANGED <<slot, overrun>>
    BY <1>2, <1>3, <1>5 DEF BodyTerm
  <2>2. ~(next' >= 4)
    BY <1>3, <1>5
  <2> QED
    BY <1>4, <2>1, <2>2 DEF TableInv, HalvesApart, Belongs
<1>6. CASE n # 1
  <2>1. n \in 2 .. 20 /\ next \in 2 .. 20
    BY <1>3, <1>6
  <2>2. type \in TypesOf(wire[1])
    <3>1. wire # Silent /\ next > 1
      BY <1>2, <2>1, Shape
    <3> QED
      BY <1>1, <3>1 DEF FollowInv
  <2>3. CASE ~IsGsv(wire)
    <3>1. type \notin Sky
      BY <1>2, <2>2, <2>3, NotSky
    <3>2. UNCHANGED <<slot, overrun>>
      BY <1>2, <2>1, <3>1, TermRead
    <3>3. \A t \in Sky, m \in Numbers, sky \in Skies : wire' # Gsv(t, m, sky)
      <4> SUFFICES ASSUME NEW t \in Sky, NEW m \in Numbers, NEW sky \in Skies,
                          wire = Gsv(t, m, sky)
                   PROVE  FALSE
        BY <1>2
      <4>1. t \in TypesOf(wire[1])
        BY SkyTerms
      <4> QED
        BY <1>2, <2>3, <4>1, NotSky
    <3> QED
      BY <1>4, <3>2, <3>3 DEF TableInv, HalvesApart, Belongs
  <2>4. CASE IsGsv(wire)
    <3>1. PICK t \in Sky, m \in Numbers, sky \in Skies :
            m <= Messages[t] /\ wire = Gsv(t, m, sky)
      BY <2>4 DEF IsGsv
    <3>2. /\ TypesOf(wire[1]) = {t} /\ wire[3] # Empty
          /\ MessageIds(wire[3]) = {m - 1}
          /\ \A u \in Sky, k \in Numbers, other \in Skies :
               wire = Gsv(u, k, other) => u = t /\ k = m
      BY <3>1, SkyTerms
    <3>3. type = t
      BY <2>2, <3>2
    <3>4. LabelTerm = n - 1 /\ (wire[n] # Empty => SatelliteTerm(wire[n]))
      BY <1>2, <1>3, <2>1, <3>3, TermRead
    <3>5. n >= 4 => satIndex = IndexOf(t, m - 1)
      BY <1>1, <1>3, <3>1 DEF TableInv
    <3>6. ASSUME UNCHANGED <<satIndex, slot, overrun>>, n # 3 PROVE TableInv'
      <4>1. next' >= 4 => n >= 4
        BY <1>3, <2>1, <3>6
      <4>2. \A u \in Sky, k \in Numbers, other \in Skies :
              wire' = Gsv(u, k, other) /\ next' >= 4 => satIndex' = IndexOf(u, k - 1)
        BY <1>2, <3>2, <3>5, <3>6, <4>1
      <4> QED
        BY <1>4, <3>6, <4>2 DEF TableInv, HalvesApart, Belongs
    <3>7. CASE wire[n] = Empty
      <4>1. UNCHANGED <<satIndex, slot, overrun>>
        BY <1>2, <1>3, <2>1, <3>7 DEF BodyTerm
      <4>2. n # 3
        BY <3>2, <3>7
      <4> QED
        BY <3>6, <4>1, <4>2
    <3>8. CASE n = 3
      <4>1. /\ satIndex' = IndexOf(t, m - 1) /\ slot' = Clear(t, m - 1)
            /\ overrun' = overrun
        <5>1. LabelTerm = 2 /\ SatelliteTerm(wire[3])
          BY <3>2, <3>4, <3>8
        <5> QED
          BY <3>2, <3>3, <5>1 DEF SatelliteTerm
      <4>2. \A s \in Slots : slot'[s] \in {"none", slot[s]}
        BY <4>1 DEF Clear
      <4>3. \A u \in Sky, k \in Numbers, other \in Skies :
              wire' = Gsv(u, k, other) => satIndex' = IndexOf(u, k - 1)
        BY <1>2, <3>2, <4>1
      <4>4. \A s \in Slots : Belongs(slot'[s], s)
        BY <1>4, <4>2 DEF Belongs
      <4> QED
        BY <1>4, <4>1, <4>3, <4>4 DEF TableInv, HalvesApart, Belongs
    <3>9. CASE wire[n] # Empty /\ n - 1 \in {7, 11, 15, 19}
      <4> DEFINE at == satIndex + (termNumber - 7) \div 4
      <4>1. /\ \E r \in Recorded(wire[n]) :
                 slot' = [s \in Slots |-> IF s = at THEN r ELSE slot[s]]
            /\ overrun' = (overrun \/ at \notin Slots)
            /\ satIndex' = satIndex
        BY <3>4, <3>9 DEF SatelliteTerm
      <4>2. /\ InTable => at \in Slots
            /\ t = "GPGSV" => at < 4 * Messages[t]
            /\ t = "GLGSV" => at >= 12
        <5>1. n >= 4
          BY <3>9
        <5>2. at = IndexOf(t, m - 1) + (n - 1 - 7) \div 4
          BY <1>3, <3>5, <5>1
        <5> HIDE DEF at
        <5> QED
          BY <3>1, <3>9, <5>2, Places
      <4>3. Recorded(wire[n]) \subseteq {t, "none"}
        BY <3>3 DEF Recorded
      <4> HIDE DEF at
      <4>4. PICK r \in {t, "none"} : slot' = [s \in Slots |-> IF s = at THEN r ELSE slot[s]]
        BY <4>1, <4>3
      <4>5. Belongs(r, at)
        BY <4>2 DEF Sky, Belongs
      <4>6. \A s \in Slots : Belongs(slot'[s], s)
        BY <1>4, <4>4, <4>5
      <4>7. \A u \in Sky, k \in Numbers, other \in Skies :
              wire' = Gsv(u, k, other) => satIndex' = IndexOf(u, k - 1)
        <5>1. n >= 4
          BY <3>9
        <5> QED
          BY <1>2, <3>2, <3>5, <4>1, <5>1
      <4> QED
        BY <1>4, <4>1, <4>2, <4>6, <4>7 DEF TableInv, HalvesApart, Belongs
    <3>10. CASE wire[n] # Empty /\ n # 3 /\ n - 1 \notin {7, 11, 15, 19}
      <4>1. LabelTerm # 2 /\ LabelTerm \notin {7, 11, 15, 19}
        BY <2>1, <3>4, <3>10
      <4>2. UNCHANGED <<satIndex, slot, overrun>>
        BY <3>4, <3>10, <4>1 DEF SatelliteTerm
      <4> QED
        BY <3>6, <3>10, <4>2
    <3> QED
      BY <3>7, <3>8, <3>9, <3>10
  <2> QED
    BY <2>3, <2>4
<1> QED
  BY <1>5, <1>6

LEMMA EndTable ==
  ASSUME ParserTypes, LineInv, FollowInv, TableInv, SendChecksum \/ SendLineFeed
  PROVE  TableInv'
<1> SUFFICES ASSUME losses' = 0 PROVE TableInv'
  BY DEF TableInv
<1>1. losses = 0 /\ ~damaged
  <2>1. losses' = losses
    BY EndSeen DEF SendChecksum, SendLineFeed
  <2> QED
    BY <2>1 DEF LineInv
<1>2. /\ InTable => ~overrun
      /\ \A s \in Slots : Belongs(slot[s], s)
  BY <1>1 DEF TableInv, HalvesApart, Belongs
<1>3. CASE SendChecksum
  <2>1. /\ wire' = wire /\ next = Len(wire) + 1 /\ Len(wire) \in 4 .. 20
        /\ UNCHANGED <<satIndex, slot, overrun>>
    BY <1>1, <1>3, ChecksumStep DEF CheckTerm
  <2>2. next >= 4
    <3>1. \A l \in 4 .. 20 : l + 1 >= 4
      OBVIOUS
    <3> QED
      BY <2>1, <3>1
  <2> QED
    BY <1>1, <1>2, <2>1, <2>2 DEF TableInv, HalvesApart, Belongs
<1>4. CASE SendLineFeed
  <2>1. /\ wire # Silent /\ next = Len(wire) + 2 /\ wire' = Silent
        /\ EndTerm(Empty, "feed", {Garbage})
    BY <1>1, <1>4, EndSeen DEF SendLineFeed
  <2>2. PICK l \in 4 .. 20 : l = Len(wire)
    BY <2>1, Shape DEF LineInv
  <2>3. ~isChecksum /\ termNumber # 0
    <3>1. next # Len(wire) + 1 /\ next - 1 # 0
      BY <2>1, <2>2
    <3> QED
      BY <1>1, <2>1, <3>1 DEF FollowInv
  <2>4. UNCHANGED <<slot, overrun>>
    BY <2>1, <2>3 DEF EndTerm, BodyTerm
  <2>5. \A t \in Sky, m \in Numbers, sky \in Skies : wire' # Gsv(t, m, sky)
    <3>1. \A m \in Numbers : m \in Nat
      BY DEF Numbers
    <3> QED
      BY <2>1, <3>1, GsvShape
  <2> QED
    BY <1>2, <2>4, <2>5 DEF TableInv, HalvesApart, Belongs
<1> QED
  BY <1>3, <1>4

-----------------------------------------------------------------------------
\* The other actions.
LEMMA DollarKeeps ==
  ASSUME NmeaInv, SendDollar
  PROVE  NmeaInv'
<1>1. /\ wire = Silent /\ wire' \in Sentences(second', tracking')
      /\ tracking' \in BOOLEAN
      /\ next' = 1 /\ damaged' = FALSE /\ digits' = Unread /\ Dollar
      /\ UNCHANGED <<talk, broken, losses>>
  BY DEF SendDollar, NextSecond, NmeaInv, LineInv
<1>2. Len(wire') \in 4 .. 20 /\ wire' # Silent
  BY <1>1, Shape
<1>3. Sentences(second, tracking)' = Sentences(second', tracking')
  BY <1>1 DEF Sentences
<1>4. ParserTypes'
  <2>1. "OTHER" \in Types
    BY DEF Types, Codes
  <2>2. isChecksum' \in BOOLEAN /\ dataGood' \in BOOLEAN
    BY <1>1, Zenon DEF Dollar
  <2>3. type' \in Types /\ termNumber' \in 0 .. 255 /\ UNCHANGED <<pending, fix, satIndex>>
    BY <1>1, <2>1 DEF Dollar
  <2> QED
    BY <2>2, <2>3 DEF NmeaInv, ParserTypes
<1>5. PICK l \in 4 .. 20 : l = Len(wire')
  BY <1>2
<1>6. next' \in 1 .. Len(wire') + 2 /\ next' # Len(wire') + 1 /\ next' - 1 = 0
  BY <1>1, <1>5
<1>7. LineInv'
  BY <1>1, <1>3, <1>6 DEF NmeaInv, LineInv
<1>8. FollowInv'
  <2>1. PositionRead(next)' /\ PositionRead(next - 1)'
    BY <1>1, <1>6 DEF PositionRead
  <2> QED
    BY <1>1, <1>6, <2>1 DEF FollowInv, Dollar
<1>9. TableInv'
  BY <1>1 DEF NmeaInv, TableInv, HalvesApart, Belongs, Dollar
<1> QED
  BY <1>4, <1>7, <1>8, <1>9 DEF NmeaInv

LEMMA LoseKeeps ==
  ASSUME NmeaInv, Lose
  PROVE  NmeaInv'
<1>1. /\ losses' = losses + 1 /\ damaged' = TRUE
      /\ UNCHANGED <<parserVars, talk>>
  BY DEF Lose
<1>2. tracking' \in BOOLEAN
  BY DEF Lose, NextSecond, NmeaInv, LineInv
<1>3. PICK w \in Sentences(second', tracking') :
        /\ wire' = w
        /\ \E n \in (IF w = wire THEN next ELSE 1) .. Len(w) + 2 : next' = n
  BY DEF Lose
<1>4. Sentences(second, tracking)' = Sentences(second', tracking')
  BY <1>1 DEF Sentences
<1>5. w # Silent /\ Len(w) \in 4 .. 20
  BY Shape
<1>6. next' \in 1 .. Len(w) + 2
  <2>1. CASE w = wire
    <3>1. next \in 1 .. Len(w) + 2
      BY <1>5, <2>1 DEF NmeaInv, LineInv
    <3>2. PICK l \in 4 .. 20 : l = Len(w)
      BY <1>5
    <3> QED
      BY <1>3, <2>1, <3>1, <3>2
  <2>2. CASE w # wire
    BY <1>3, <2>2
  <2> QED
    BY <2>1, <2>2
<1>7. losses' \in Nat /\ losses' # 0
  BY <1>1 DEF NmeaInv, LineInv
<1>8. ParserTypes'
  BY <1>1 DEF NmeaInv, ParserTypes, parserVars
<1>9. LineInv'
  BY <1>1, <1>2, <1>3, <1>4, <1>5, <1>6, <1>7 DEF NmeaInv, LineInv
<1>10. FollowInv'
  BY <1>1 DEF FollowInv
<1>11. TableInv'
  BY <1>7 DEF TableInv
<1> QED
  BY <1>8, <1>9, <1>10, <1>11 DEF NmeaInv

LEMMA FeedFollows ==
  ASSUME SendLineFeed
  PROVE  FollowInv'
  BY DEF SendLineFeed, FollowInv

LEMMA NmeaInvInit == Init => NmeaInv
<1> SUFFICES ASSUME Init PROVE NmeaInv
  OBVIOUS
<1>1. "OTHER" \in Types
  BY DEF Types, Codes
<1>2. ParserTypes
  <2>1. satIndex \in 0 .. 255 /\ termNumber \in 0 .. 255
    BY DEF Init, ParserInit
  <2>2. isChecksum \in BOOLEAN /\ dataGood \in BOOLEAN
    BY Zenon DEF Init, ParserInit
  <2>3. type \in Types /\ DOMAIN pending = Fields /\ DOMAIN fix = Fields
    BY <1>1 DEF Init, ParserInit, NothingYet
  <2> QED
    BY <2>1, <2>2, <2>3 DEF ParserTypes
<1>3. LineInv
  BY StreamConstants DEF Init, LineInv
<1>4. FollowInv
  BY DEF Init, FollowInv
<1>5. TableInv
  BY DEF Init, ParserInit, TableInv, HalvesApart, Belongs
<1> QED
  BY <1>2, <1>3, <1>4, <1>5 DEF NmeaInv

LEMMA NmeaInvNext == NmeaInv /\ [Next]_vars => NmeaInv'
<1> SUFFICES ASSUME NmeaInv, [Next]_vars PROVE NmeaInv'
  OBVIOUS
<1>1. CASE Sends
  <2>1. ParserTypes' /\ LineInv'
    BY <1>1, SendTypes DEF NmeaInv
  <2>2. FollowInv'
    BY <1>1, TermFollows, ChecksumFollows, FeedFollows DEF Sends, NmeaInv
  <2>3. TableInv'
    BY <1>1, TermTable, EndTable DEF Sends, NmeaInv
  <2> QED
    BY <2>1, <2>2, <2>3 DEF NmeaInv
<1>2. CASE SendDollar
  BY <1>2, DollarKeeps
<1>3. CASE Lose
  BY <1>3, LoseKeeps
<1>4. CASE UNCHANGED vars
  <2>1. ParserTypes'
    BY <1>4 DEF NmeaInv, ParserTypes, vars, parserVars
  <2>2. LineInv'
    BY <1>4 DEF NmeaInv, LineInv, Sentences, vars, streamVars
  <2>3. FollowInv'
    BY <1>4 DEF NmeaInv, FollowInv, PositionRead, vars, parserVars, streamVars
  <2>4. TableInv'
    BY <1>4 DEF NmeaInv, TableInv, HalvesApart, Belongs, vars, parserVars, streamVars
  <2> QED
    BY <2>1, <2>2, <2>3, <2>4 DEF NmeaInv
<1> QED
  BY <1>1, <1>2, <1>3, <1>4 DEF Next, Sends

(***************************************************************************)
(* The inductive invariant: as long as a sentence loses nothing after its  *)
(* '$', encode() is where the line is and has read the fields of that      *)
(* sentence, and as long as no sentence did, term_complete() writes the    *)
(* satellites where they belong.                                           *)
(***************************************************************************)
THEOREM StreamInvariant == Spec => []NmeaInv
<1> QED
  BY NmeaInvInit, NmeaInvNext, PTL DEF Spec

(***************************************************************************)
(* Types of the parser, and no entry written outside tracked_sat_rec while *)
(* nothing is lost and no system needs more messages than the table has    *)
(* room for: term_complete(), case 2 to 19 of a GSV sentence.              *)
(***************************************************************************)
THEOREM NmeaTypeCorrect == Spec => []TypeOK
<1>1. NmeaInv => TypeOK
  BY DEF NmeaInv, ParserTypes, TableInv, TypeOK
<1> QED
  BY <1>1, StreamInvariant, PTL

(***************************************************************************)
(* Every entry of tracked_sat_rec is written by its own system as long as  *)
(* nothing is lost, but for the entries of GLONASS that a fourth message   *)
(* of GPS takes, whatever sentences come in which order, with how many     *)
(* messages, satellites and strengths each.  term_complete().              *)
(***************************************************************************)
THEOREM HalvesStayApart == Spec => []HalvesApart
<1>1. NmeaInv => HalvesApart
  BY DEF NmeaInv, TableInv, HalvesApart, Belongs
<1> QED
  BY <1>1, StreamInvariant, PTL

(***************************************************************************)
(* A sentence announced by encode() that lost nothing since its '$' leaves *)
(* its own position in the fix, for any number of losses before it and     *)
(* whatever they left in the parser.                                       *)
(***************************************************************************)
THEOREM FreshWhenAnnounced == Spec => AnnouncedIsFresh
<1>1. NmeaInv /\ [Next]_vars =>
        [~damaged /\ announced' =>
           fix'.lat = Signed("lat", second) /\ fix'.lon = Signed("lon", second)]_vars
  <2> SUFFICES ASSUME NmeaInv, Next, ~damaged, announced'
               PROVE  fix'.lat = Signed("lat", second) /\ fix'.lon = Signed("lon", second)
    BY DEF vars
  <2>1. Sends
    BY DEF Next, Sends, SendDollar, Lose
  <2> QED
    BY <2>1, FreshStep DEF NmeaInv
<1> QED
  BY <1>1, StreamInvariant, PTL DEF Spec, AnnouncedIsFresh
=============================================================================
