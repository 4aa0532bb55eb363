---------------------------- MODULE NmeaStream ----------------------------
(* The receiver and the serial line around the NMEA parser: the receiver    *)
(* sends sentences, the serial buffer loses bytes while the sketch is busy  *)
(* elsewhere, and gpsProcess() feeds what arrived to encode(), which        *)
(* announces a fix by returning true (what the sketch does then is in       *)
(* Tracker).                                                                *)
EXTENDS NmeaParser

CONSTANTS Talks,         \* what the receiver may be told to send, see talk
          Seconds,       \* the receiver's clock runs through 1 .. Seconds
          MaxLosses,     \* chunks of bytes lost, for each talk
          Messages,      \* GSV sentences for the satellites of each system
          Skies          \* strengths of the satellites in a GSV sentence

Strengths == {<<"snr">>, <<"0">>, Empty}

ASSUME StreamConstants ==
  /\ Talks \subseteq {"fix", "sky"} /\ MaxLosses \in [Talks -> Nat]
  /\ Seconds \in Nat \ {0} /\ Messages \in [{"GPGSV", "GLGSV"} -> 1 .. 9]
  /\ \A sky \in Skies : sky \in Seq(Strengths) /\ Len(sky) <= 4

VARIABLES
  talk,               \* which sentences the receiver was told to send
  second,             \* the receiver's clock
  tracking,           \* in this second it has a fix
  wire, next,         \* the sentence on the line, and its next term
  broken,             \* bytes of the next term are missing
  digits,             \* the checksum, if only what follows it was lost
  losses,             \* chunks lost
  damaged,            \* one of them since encode() was given a '$'
  announced           \* encode() has just announced a fix

streamVars == <<talk, second, tracking, wire, next, broken, digits, losses,
                damaged, announced>>
vars == <<parserVars, streamVars>>

-----------------------------------------------------------------------------
(* What a receiver sends.  In odd seconds it is in the south and west.  A   *)
(* tracking sentence always carries its position; the course is left out at *)
(* a standstill; without a fix most terms are empty.                        *)
South(s) == IF s % 2 = 1 THEN <<"S">> ELSE <<"N">>
West(s)  == IF s % 2 = 1 THEN <<"W">> ELSE <<"E">>
Rmc(s) == << <<"GNRMC">>, <<"time", s>>, <<"A">>, <<"lat", s>>, South(s),
             <<"lon", s>>, West(s), <<"speed">>, Empty, <<"date", s>>,
             Empty, Empty, <<"A">> >>
RmcVoid(s) == << <<"GPRMC">>, <<"time", s>>, <<"V">>, Empty, Empty, Empty, Empty,
                 Empty, Empty, <<"date", s>>, Empty, Empty, <<"N">> >>
Gga(s) == << <<"GPGGA">>, <<"time", s>>, <<"lat", s>>, South(s), <<"lon", s>>,
             West(s), <<"1">>, <<"sats">>, <<"hdop">>, <<"alt">>, <<"M">>,
             <<"geoid">>, <<"M">>, Empty, Empty >>
GgaVoid(s) == << <<"GPGGA">>, <<"time", s>>, Empty, Empty, Empty, Empty, <<"0">>,
                 <<"0">>, Empty, Empty, <<"M">>, Empty, <<"M">>, Empty, Empty >>
Gns(s) == << <<"GNGNS">>, <<"time", s>>, <<"lat", s>>, South(s), <<"lon", s>>,
             West(s), <<"A", "N">>, <<"sats">>, <<"hdop">>, <<"alt">>, <<"geoid">>,
             Empty, Empty >>

(* A GSV sentence names up to four satellites, each with its elevation,     *)
(* azimuth and strength, which is left out while it is not tracked.         *)
Gsv(t, m, sky) ==
  [n \in 1 .. 4 + 4 * Len(sky) |->
     IF n <= 4
     THEN << <<t>>, <<"number", Messages[t]>>, <<"number", m>>, <<"view">> >>[n]
     ELSE << <<"prn", (n - 1) \div 4>>, <<"elev">>, <<"azi">>, sky[(n - 1) \div 4] >>
            [((n - 1) % 4) + 1] ]

Sentences(s, valid) ==
  IF talk = "sky"
  THEN {RmcVoid(s)} \cup
       UNION {{Gsv(t, m, sky) : m \in 1 .. Messages[t], sky \in Skies} :
                t \in {"GPGSV", "GLGSV"}}
  ELSE IF valid THEN {Rmc(s), Gga(s), Gns(s)} ELSE {RmcVoid(s), GgaVoid(s)}

(* The checksum the receiver computes over the sentence.                    *)
ChecksumOf(w) ==
  {w[n] : n \in {k \in DOMAIN w : /\ w[k] # Empty
                                  /\ Cardinality({j \in DOMAIN w : w[j] = w[k]}) % 2 = 1}}
  \cup (IF Len(w) % 2 = 0 THEN {Comma} ELSE {})

Silent == <<>>
Unread == {<<"unread">>}
Init ==
  /\ ParserInit
  /\ talk \in Talks /\ second = 1 /\ tracking = FALSE
  /\ wire = Silent /\ next = 0 /\ broken = FALSE
  /\ digits = Unread /\ losses = 0 /\ damaged = FALSE /\ announced = FALSE

-----------------------------------------------------------------------------
(* The clock goes on when the sentences of a second have been sent; the     *)
(* table of satellites does not depend on it.                               *)
NextSecond == talk = "fix" /\ second' = (second % Seconds) + 1 /\ tracking' \in BOOLEAN

(* The receiver begins a sentence; '$' reaches encode().                    *)
SendDollar ==
  /\ wire = Silent
  /\ NextSecond \/ UNCHANGED <<second, tracking>>
  /\ wire' \in Sentences(second', tracking')
  /\ next' = 1 /\ damaged' = FALSE /\ digits' = Unread
  /\ Dollar /\ announced' = FALSE
  /\ UNCHANGED <<talk, broken, losses>>

(* The next term and its end reach encode().  A term with bytes missing is  *)
(* garbled, or nothing is left of it.  What follows the two digits of the   *)
(* checksum in the same term does not count.                                *)
SendEnd(text, end, sum) ==
  /\ \E read \in (IF broken THEN {Garbage, Empty} ELSE {text}) :
       LET seen == IF digits # Unread THEN digits
                   ELSE IF broken THEN {Garbage} ELSE sum
       IN /\ EndTerm(read, end, seen)
          /\ announced' = Announced(read, end, seen)
  /\ broken' = FALSE /\ digits' = Unread
  /\ UNCHANGED <<talk, second, tracking, losses, damaged>>

SendTerm ==
  /\ next \in 1 .. Len(wire)
  /\ SendEnd(wire[next], IF next = Len(wire) THEN "star" ELSE "comma", {Garbage})
  /\ next' = next + 1 /\ UNCHANGED wire

(* The checksum and the carriage return, then the line feed.                *)
SendChecksum ==
  /\ wire # Silent /\ next = Len(wire) + 1
  /\ SendEnd(Garbage, "return", ChecksumOf(wire))
  /\ next' = next + 1 /\ UNCHANGED wire

SendLineFeed ==
  /\ wire # Silent /\ next = Len(wire) + 2
  /\ SendEnd(Empty, "feed", {Garbage})
  /\ wire' = Silent /\ next' = 0

(* Bytes are lost: the line goes on at a later term of the same sentence or *)
(* of another one, at its beginning or in its middle; between sentences, a  *)
(* '$' is lost.  A checksum may have been read by then.                     *)
Lose ==
  /\ losses < MaxLosses[talk]
  /\ NextSecond \/ UNCHANGED <<second, tracking>>
  /\ \E w \in Sentences(second', tracking'), cut \in BOOLEAN :
     \E n \in (IF w = wire THEN next ELSE 1) .. Len(w) + 2 :
       /\ wire' = w /\ next' = n /\ broken' = cut
       /\ w # wire \/ n > next \/ cut
  /\ digits' \in IF isChecksum /\ digits = Unread
                 THEN {{Garbage}} \cup (IF broken THEN {} ELSE {ChecksumOf(wire)})
                 ELSE {digits}
  /\ losses' = losses + 1 /\ damaged' = TRUE /\ announced' = FALSE
  /\ UNCHANGED <<parserVars, talk>>

Next == SendDollar \/ SendTerm \/ SendChecksum \/ SendLineFeed \/ Lose
Spec == Init /\ [][Next]_vars

-----------------------------------------------------------------------------
(* Type invariant.  Without a loss an entry outside tracked_sat_rec is only *)
(* written for a system with more messages than the table has room for:     *)
(* TinyGPS.cpp:354 and 358 do not check the index.                          *)
InTable == Messages["GPGSV"] <= 6 /\ Messages["GLGSV"] <= 3
TypeOK ==
  /\ type \in Types /\ termNumber \in 0 .. 255
  /\ DOMAIN pending = Fields /\ DOMAIN fix = Fields
  /\ satIndex \in 0 .. 255 /\ isChecksum \in BOOLEAN /\ dataGood \in BOOLEAN
  /\ losses = 0 /\ InTable => ~overrun

(* The position is one position: latitude and longitude the sketch takes    *)
(* belong to the same second and have the signs of that second, wherever    *)
(* bytes were lost, as long as they were lost once and not in a GGA without *)
(* a fix.  term_complete(), f_get_position().                               *)
Signed(f, s) == <<f, s, IF s % 2 = 1 THEN -1 ELSE 1>>
Whole(lat, lon) == \E s \in 1 .. Seconds : lat = Signed("lat", s) /\ lon = Signed("lon", s)
PositionIsWhole ==
  [][losses < 2 /\ wire # GgaVoid(second) =>
       \/ fix'.lat = fix.lat /\ fix'.lon = fix.lon
       \/ Whole(fix'.lat, fix'.lon)]_vars

(* When encode() announces a sentence that lost nothing since its '$', the  *)
(* position is the one that very sentence carried, whatever the sentences   *)
(* before it lost and left in the parser.  encode(), term_complete().       *)
AnnouncedIsFresh ==
  [][~damaged /\ announced' =>
       fix'.lat = Signed("lat", second) /\ fix'.lon = Signed("lon", second)]_vars

(* The clock of the day statistics only takes times and dates the receiver  *)
(* sent: a sentence that fails its checksum leaves no trace in them.  Two   *)
(* losses are too many: a sentence without a fix that lost an even number   *)
(* of commas passes the checksum, has its date read as something else, and  *)
(* commits the date an earlier damaged sentence left behind.  encode(),     *)
(* term_complete().                                                         *)
DateIsGenuine ==
  losses < 2 /\ fix.date # Invalid =>
    /\ fix.date \in {<<"date", s>> : s \in 1 .. Seconds}
    /\ fix.time \in {<<"time", s>> : s \in 1 .. Seconds}

(* As long as no bytes are lost, GLONASS satellites keep to the upper half  *)
(* of the table, which is what the offset of TinyGPS.cpp:329 is for, and    *)
(* GPS satellites to the entries of their own messages: to the lower half   *)
(* with three messages, with a fourth to the first entries of GLONASS too.  *)
HalvesApart ==
  losses = 0 => \A s \in Slots : /\ slot[s] = "GPGSV" => s < 4 * Messages["GPGSV"]
                                 /\ slot[s] = "GLGSV" => s >= 12
=============================================================================
