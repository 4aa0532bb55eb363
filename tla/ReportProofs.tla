---------------------------- MODULE ReportProofs ----------------------------
(***************************************************************************)
(* Proofs about Report for every fix of 16 bits, every battery, every      *)
(* pressure and any number of restarts: what a frame says is what was      *)
(* measured, temperature is not taken for a place, the calibration never   *)
(* makes a healthy battery weak, the median forgives wild samples, and     *)
(* send() does not report a frame that the modem has not transmitted.      *)
(***************************************************************************)
EXTENDS Report, FiniteSetTheorems, SequenceTheorems, WellFoundedInduction, TLAPS

Messages == {"POSITION", "NO_GPS", "NO_MOTION", "MOTION_ALERT"}
AllFixes == [sat : Nat, spd : Nat, alt : Nat, course : Nat]

\* The fix keeps the widths of its globals. A parked visit finds no altitude and
\* no speed, and puts temperature and pressure into p last of all.
FixInv ==
  /\ fix \in AllFixes /\ fix.alt <= 65535
  /\ stage \in {"sense", "weak", "send"} => msg \in Messages
  /\ stage = "rest" \/ (msg = "NO_MOTION" /\ stage # "over") => fix.spd = 0 /\ fix.alt = 0
  /\ coordinates \in {"none", "position", "weather"}
  /\ coordinates = "weather" => stage = "over"
  /\ WeatherMarked

\* Until a frame is made of it, a fix is as it was received.
TruthInv ==
  /\ stage \in {"rest", "over"} => truth = NoFix
  /\ stage \in {"sense", "weak", "send"} /\ truth # NoFix => fix = truth

\* The calibration of a battery that was never absent is at most what a full
\* one asks for, and what was judged weak was weak on its scale.
ScaleInv ==
  /\ sensorMax \in Nat /\ sensorMax >= 980 /\ sensorMax <= 65535
  /\ batteryPercent \in Nat /\ batteryPercent <= 100
  /\ ~drained => sensorMax <= 1016
  /\ samples # <<>> =>
       /\ Middle(sortedValues) \in Nat /\ Middle(sortedValues) <= 1020
       /\ stage = "weak" => Weak((Middle(sortedValues) * BATT_MAX) \div sensorMax)

\* Every frame tells what was measured.
TellInv == FixInv /\ TruthInv /\ ScaleInv /\ FrameFaithful

-----------------------------------------------------------------------------
\* The compression keeps within its fields, and zero stays zero.
LEMMA Codes ==
  ASSUME NEW v \in Nat
  PROVE  /\ AltCode(v) \in Nat /\ AltCode(v) <= 8191 /\ AltCode(v) <= v
         /\ SpdCode(v) \in Nat /\ SpdCode(v) <= 127
         /\ v = 0 => AltCode(v) = 0 /\ SpdCode(v) = 0
  BY DEF AltCode, SpdCode

\* What a receiver makes of a speed is at most 18 km/h below it.
LEMMA SpeedReads ==
  ASSUME NEW v \in Nat
  PROVE  /\ Expanded(SpdCode(v)) \in Nat
         /\ Expanded(SpdCode(v)) <= v
         /\ v < 544 => v - Expanded(SpdCode(v)) < 18
<1>1. CASE v <= 90
  BY <1>1 DEF SpdCode, Expanded
<1>2. CASE v > 90 /\ v <= 127
  BY <1>2 DEF SpdCode, Expanded
<1>3. CASE v > 127
  <2>1. PICK q \in Nat : q = v \div 16 /\ 16 * q <= v /\ v < 16 * q + 16 /\ q >= 8
    BY <1>3
  <2>2. SpdCode(v) = (IF q + 94 > 126 THEN 127 ELSE q + 94)
    BY <1>3, <2>1 DEF SpdCode
  <2> QED
    BY <1>3, <2>1, <2>2 DEF Expanded
<1> QED
  BY <1>1, <1>2, <1>3

\* A position's altitude is read at most 16 m too low.
LEMMA AltitudeReads ==
  ASSUME NEW a \in Nat, a <= 65535, NEW m \in 0 .. 2, NEW f, f.alt = AltCode(a), f.mode = m
  PROVE  Altitude(f) <= a /\ a - Altitude(f) < 16
<1>1. CASE a <= 4096
  BY <1>1 DEF AltCode, Altitude
<1>2. CASE a > 4096
  <2>1. PICK q \in Nat : q = a \div 16 /\ 16 * q <= a /\ a < 16 * q + 16 /\ q >= 256 /\ q <= 4095
    BY <1>2
  <2>2. AltCode(a) = q + 3840
    BY <1>2, <2>1 DEF AltCode
  <2> QED
    BY <1>2, <2>1, <2>2 DEF Altitude
<1> QED
  BY <1>1, <1>2

\* Nothing is or-ed into a field that nothing runs over into.
LEMMA OrNothing == ASSUME NEW a PROVE Or(a, 0) = a
  BY Zenon DEF Or

\* How the fields of a compressed fix come out of Pack.
LEMMA PackedFields ==
  ASSUME NEW a \in Nat, a <= 8191, NEW v \in Nat, v <= 127, NEW c,
         NEW b \in Nat, b <= 100, NEW m
  PROVE  Pack(a, v, c, b, m) = [alt |-> a, spd |-> v, cap |-> c, bat |-> b, mode |-> m]
<1>1. a % 8192 = a /\ v % 128 = v /\ b % 128 = b /\ v \div 128 = 0
  OBVIOUS
<1>2. Or(a % 8192, v \div 128) = a
  BY <1>1, OrNothing
<1> QED
  BY <1>1, <1>2 DEF Pack, SpeedField

\* The satellites that count.
LEMMA FewerThanEight ==
  ASSUME NEW n \in Nat
  PROVE  Min({8, n}) = IF n < 8 THEN n ELSE 8
<1>1. CASE n < 8
  <2>1. \A y \in {8, n} : n <= y
    BY <1>1
  <2>2. \A x \in {8, n} : (\A y \in {8, n} : x <= y) => x = n
    BY <1>1
  <2> QED
    BY <1>1, <2>1, <2>2 DEF Min
<1>2. CASE ~(n < 8)
  <2>1. \A y \in {8, n} : 8 <= y
    BY <1>2
  <2>2. \A x \in {8, n} : (\A y \in {8, n} : x <= y) => x = 8
    BY <1>2
  <2> QED
    BY <1>2, <2>1, <2>2 DEF Min
<1> QED
  BY <1>1, <1>2

\* What the compression makes of a fix.
LEMMA CompressedFix ==
  ASSUME NEW f \in AllFixes
  PROVE  /\ Compressed(f) \in AllFixes /\ Compressed(f).alt <= f.alt
         /\ f.spd = 0 /\ f.alt = 0 => Compressed(f).spd = 0 /\ Compressed(f).alt = 0
         /\ Compressed(f).sat > 3 <=> f.sat > 3
         /\ f.sat > 3 => /\ Compressed(f).sat \in 4 .. 8
                         /\ Compressed(f).spd = SpdCode(f.spd)
                         /\ Compressed(f).alt = AltCode(f.alt)
<1>1. f.sat \in Nat /\ f.spd \in Nat /\ f.alt \in Nat
  BY DEF AllFixes
<1>2. CASE f.sat > 3
  <2>1. Min({8, f.sat}) \in 4 .. 8
    BY <1>1, <1>2, FewerThanEight
  <2>2. /\ AltCode(f.alt) \in Nat /\ AltCode(f.alt) <= f.alt
        /\ SpdCode(f.spd) \in Nat
        /\ f.spd = 0 => SpdCode(f.spd) = 0
        /\ f.alt = 0 => AltCode(f.alt) = 0
    <3>1. \A v \in Nat : /\ AltCode(v) \in Nat /\ AltCode(v) <= v /\ SpdCode(v) \in Nat
                         /\ v = 0 => AltCode(v) = 0 /\ SpdCode(v) = 0
      BY Codes
    <3> QED
      BY <1>1, <3>1, Zenon
  <2>3. Compressed(f) = [f EXCEPT !.alt = AltCode(f.alt), !.spd = SpdCode(f.spd),
                                  !.sat = Min({8, f.sat})]
    BY <1>2 DEF Compressed
  <2>4. /\ Compressed(f).sat = Min({8, f.sat})
        /\ Compressed(f).spd = SpdCode(f.spd)
        /\ Compressed(f).alt = AltCode(f.alt)
    BY <2>3 DEF AllFixes
  <2>5. Compressed(f) \in AllFixes
    <3>1. PICK x \in Nat, y \in Nat, z \in Nat :
            x = AltCode(f.alt) /\ y = SpdCode(f.spd) /\ z = Min({8, f.sat})
      BY <2>1, <2>2
    <3>2. Compressed(f) = [f EXCEPT !.alt = x, !.spd = y, !.sat = z]
      BY <2>3, <3>1
    <3> QED
      BY <3>2 DEF AllFixes
  <2>6. Compressed(f).sat \in 4 .. 8 /\ Compressed(f).sat > 3
    BY <2>1, <2>4
  <2>7. /\ Compressed(f).alt <= f.alt
        /\ f.spd = 0 /\ f.alt = 0 => Compressed(f).spd = 0 /\ Compressed(f).alt = 0
    BY <2>2, <2>4
  <2> QED
    BY <1>2, <2>4, <2>5, <2>6, <2>7, Zenon
<1>3. CASE ~(f.sat > 3)
  <2>1. Compressed(f) = f
    BY <1>3 DEF Compressed
  <2> QED
    BY <1>1, <1>3, <2>1
<1> QED
  BY <1>2, <1>3

\* The kinds of message, as a receiver tells them apart.
LEMMA Modes ==
  ASSUME NEW m \in Messages \cup {"WEAK_BAT"}, NEW n \in Nat
  PROVE  /\ Mode(m, n) \in 0 .. 7
         /\ Mode(m, n) = 4 <=> m = "NO_MOTION"
         /\ m # "POSITION" => Mode(m, n) >= 4
         /\ m = "POSITION" /\ n \in 4 .. 8 => Mode(m, n) \in 0 .. 2
<1>1. CASE m = "POSITION"
  BY <1>1 DEF Mode
<1>2. CASE m # "POSITION"
  BY <1>2 DEF Mode, ModeOf, Messages
<1> QED
  BY <1>1, <1>2

-----------------------------------------------------------------------------
\* What one message does to the fix, and what its frame says of it.
LEMMA SendSigFoxTells ==
  ASSUME FixInv, NEW m \in Messages \cup {"WEAK_BAT"}, SendSigFox(m),
         m = "NO_MOTION" => fix.spd = 0 /\ fix.alt = 0,
         coordinates # "weather"
  PROVE  /\ fix' \in AllFixes /\ fix'.alt <= 65535
         /\ fix.spd = 0 /\ fix.alt = 0 => fix'.spd = 0 /\ fix'.alt = 0
         /\ coordinates' \in {"none", "position", "weather"}
         /\ coordinates' = "weather" <=> m = "NO_MOTION"
         /\ WeatherMarked'
<1>1. /\ fix' = Compressed(fix) /\ coordinates' = CoordinatesFor(m)
      /\ \/ frame' = NoFrame
         \/ \E position \in {0, 5} :
              frame' = [made |-> TRUE, of |-> m, holds |-> CoordinatesFor(m),
                        cpx |-> FrameOf(m, position),
                        shows |-> truth, battery |-> batteryPercent]
  BY DEF SendSigFox
<1>2. fix \in AllFixes /\ fix.alt <= 65535 /\ fix.alt \in Nat
  BY DEF FixInv, AllFixes
<1>3. /\ fix' \in AllFixes /\ fix'.alt <= fix.alt
      /\ fix.spd = 0 /\ fix.alt = 0 => fix'.spd = 0 /\ fix'.alt = 0
  <2>1. PICK f \in AllFixes : f = fix
    BY <1>2
  <2>2. /\ Compressed(f) \in AllFixes /\ Compressed(f).alt <= f.alt
        /\ f.spd = 0 /\ f.alt = 0 => Compressed(f).spd = 0 /\ Compressed(f).alt = 0
    BY CompressedFix
  <2>3. fix' = Compressed(f)
    BY <1>1, <2>1, Zenon
  <2> QED
    BY <2>1, <2>2, <2>3, Zenon
<1>4. PICK a, b : a = fix'.alt /\ b = fix.alt
  OBVIOUS
<1>5. fix'.alt <= 65535
  <2>1. a \in Nat /\ b \in Nat /\ a <= b /\ b <= 65535
    BY <1>2, <1>3, <1>4 DEF AllFixes
  <2> QED
    BY <1>4, <2>1
<1>6. /\ coordinates' \in {"none", "position", "weather"}
      /\ coordinates' = "weather" <=> m = "NO_MOTION"
      /\ CoordinatesFor(m) = "weather" <=> m = "NO_MOTION"
  BY <1>1 DEF CoordinatesFor, FixInv
<1>7. WeatherMarked'
  <2>1. CASE frame' = NoFrame
    BY <2>1 DEF WeatherMarked, NoFrame
  <2>2. ASSUME NEW position \in {0, 5},
               frame' = [made |-> TRUE, of |-> m, holds |-> CoordinatesFor(m),
                         cpx |-> FrameOf(m, position),
                         shows |-> truth, battery |-> batteryPercent]
        PROVE  WeatherMarked'
    <3>1. HeldAs(FrameOf(m, position)) = "weather" <=> m = "NO_MOTION"
      <4>1. PICK mode, cap : mode = Mode(m, Compressed(fix).sat)
                             /\ cap = Cap(Compressed(fix).sat, Compressed(fix).course, position)
        OBVIOUS
      <4>2. FrameOf(m, position)
              = Pack(Compressed(fix).alt, Compressed(fix).spd, cap, batteryPercent, mode)
        BY <4>1 DEF FrameOf
      <4>3. mode = 4 <=> m = "NO_MOTION"
        <5>1. Compressed(fix).sat \in Nat
          BY <1>2, CompressedFix DEF AllFixes
        <5> QED
          BY <4>1, <5>1, Modes
      <4>4. FrameOf(m, position).mode = mode
        BY <4>2 DEF Pack
      <4>5. CASE m = "NO_MOTION"
        <5>1. Compressed(fix).alt = 0 /\ Compressed(fix).spd = 0
          BY <1>2, <4>5, CompressedFix
        <5>2. Or(0 % 8192, 0 \div 128) = 0
          BY OrNothing
        <5>3. FrameOf(m, position).alt = 0
          BY <4>2, <5>1, <5>2 DEF Pack
        <5> QED
          BY <4>3, <4>4, <4>5, <5>3 DEF HeldAs
      <4>6. CASE m # "NO_MOTION"
        BY <4>3, <4>4, <4>6 DEF HeldAs
      <4> QED
        BY <4>5, <4>6
    <3> QED
      BY <1>6, <2>2, <3>1 DEF WeatherMarked
  <2> QED
    BY <1>1, <2>1, <2>2
<1> QED
  BY <1>3, <1>5, <1>6, <1>7

\* The regular message, kept back or sent.
LEMMA RegularKeeps ==
  ASSUME FixInv, SendRegular
  PROVE  FixInv'
<1>1. msg \in Messages /\ msg' = msg /\ stage' = "over" /\ stage = "send"
  BY DEF SendRegular, FixInv
<1>2. CASE gated
  BY <1>1, <1>2 DEF SendRegular, FixInv, WeatherMarked, NoFrame
<1>3. CASE ~gated
  <2>1. SendSigFox(msg)
    BY <1>3 DEF SendRegular
  <2>2. /\ fix' \in AllFixes /\ fix'.alt <= 65535
        /\ coordinates' \in {"none", "position", "weather"}
        /\ WeatherMarked'
    BY <1>1, <2>1, SendSigFoxTells DEF FixInv
  <2> QED
    BY <1>1, <2>2 DEF FixInv
<1> QED
  BY <1>2, <1>3

\* The message of a weak battery.
LEMMA WeakKeeps ==
  ASSUME FixInv, SendWeak
  PROVE  FixInv'
<1>1. msg \in Messages /\ msg' = msg /\ stage' = "send" /\ stage = "weak"
  BY DEF SendWeak, FixInv
<1>2. SendSigFox("WEAK_BAT")
  BY DEF SendWeak
<1>3. /\ fix' \in AllFixes /\ fix'.alt <= 65535
      /\ fix.spd = 0 /\ fix.alt = 0 => fix'.spd = 0 /\ fix'.alt = 0
      /\ coordinates' \in {"none", "position", "weather"}
      /\ coordinates' # "weather"
      /\ WeatherMarked'
  BY <1>1, <1>2, SendSigFoxTells DEF FixInv
<1> QED
  BY <1>1, <1>3 DEF FixInv

\* The steps between messages.
LEMMA QuietKeeps ==
  ASSUME FixInv, Visit \/ Measure \/ Over \/ LibraryStep \/ LineStep \/ Reboot
  PROVE  FixInv'
<1>1. CASE Visit
  <2>1. WeatherMarked' /\ stage' = "sense" /\ msg' \in Messages /\ stage = "rest"
    BY <1>1 DEF Visit, WeatherMarked, NoFrame, Messages
  <2>2. CASE TakeFix /\ msg' # "NO_MOTION"
    <3>1. fix' \in AllFixes /\ fix'.alt <= 65535 /\ coordinates' = "position"
      BY <2>2, ReportConstants DEF TakeFix, AllFixes
    <3> QED
      BY <2>1, <2>2, <3>1 DEF FixInv
  <2>3. CASE UNCHANGED <<fix, truth, coordinates>>
    BY <2>1, <2>3 DEF FixInv
  <2> QED
    BY <1>1, <2>2, <2>3 DEF Visit
<1>2. CASE Measure
  BY <1>2 DEF Measure, FixInv, WeatherMarked
<1>3. CASE Over
  <2>1. fix' = [fix EXCEPT !.spd = 0, !.alt = 0] /\ fix \in AllFixes
    BY <1>3 DEF Over, FixOver, FixInv
  <2>2. fix' \in AllFixes /\ fix'.alt = 0 /\ fix'.spd = 0
    BY <2>1 DEF AllFixes
  <2> QED
    BY <1>3, <2>2 DEF Over, FixInv, WeatherMarked, NoFrame
<1>4. CASE LibraryStep \/ LineStep
  BY <1>4 DEF LibraryStep, LineStep, SketchWaits, FixInv, WeatherMarked, NoFrame
<1>5. CASE Reboot
  BY <1>5 DEF Reboot, FixInv, WeatherMarked, NoFrame, NoFix, AllFixes
<1> QED
  BY <1>1, <1>2, <1>3, <1>4, <1>5

LEMMA FixInvInit == Init => FixInv
  BY DEF Init, FixInv, WeatherMarked, NoFrame, NoFix, AllFixes

LEMMA FixInvNext == FixInv /\ [Next]_vars => FixInv'
<1> SUFFICES ASSUME FixInv, [Next]_vars PROVE FixInv'
  OBVIOUS
<1>1. CASE SendRegular
  BY <1>1, RegularKeeps
<1>2. CASE SendWeak
  BY <1>2, WeakKeeps
<1>3. CASE Visit \/ Measure \/ Over \/ LibraryStep \/ LineStep \/ Reboot
  BY <1>3, QuietKeeps
<1>4. CASE UNCHANGED vars
  BY <1>4 DEF vars, reportVars, FixInv, WeatherMarked
<1> QED
  BY <1>1, <1>2, <1>3, <1>4 DEF Next

-----------------------------------------------------------------------------
(* Temperature and pressure are never taken for a place, nor a place for    *)
(* them, whatever fixes, batteries and aircraft came before: sendSigFox().  *)
THEOREM WeatherIsMarked == Spec => []WeatherMarked
<1>1. FixInv => WeatherMarked
  BY DEF FixInv
<1> QED
  BY <1>1, FixInvInit, FixInvNext, PTL DEF Spec

-----------------------------------------------------------------------------
\* What a receiver reads in a frame that holds a compressed fix.
LEMMA PackReads ==
  ASSUME NEW a \in Nat, a <= 65535, NEW v \in Nat, NEW cap,
         NEW b \in Nat, b <= 100, NEW mode \in 0 .. 7, NEW x, x = Pack(AltCode(a), SpdCode(v), cap, b, mode)
  PROVE  /\ x.bat = b /\ x.mode = mode /\ x.cap = cap
         /\ x.alt \in Nat /\ x.spd \in Nat /\ x.spd <= 127
         /\ Speed(x) <= v
         /\ v < 544 => v - Speed(x) < 18
         /\ mode < 3 => Altitude(x) <= a /\ a - Altitude(x) < 16
<1>1. PICK p \in Nat : p = AltCode(a) /\ p <= 8191
  <2>1. AltCode(a) \in Nat /\ AltCode(a) <= 8191
    BY Codes, SMT
  <2> QED
    BY <2>1
<1>2. PICK q \in Nat : q = SpdCode(v) /\ q <= 127
  <2>1. SpdCode(v) \in Nat /\ SpdCode(v) <= 127
    BY Codes, SMT
  <2> QED
    BY <2>1
<1>3. x = [alt |-> p, spd |-> q, cap |-> cap, bat |-> b, mode |-> mode]
  <2>1. x = Pack(p, q, cap, b, mode)
    BY <1>1, <1>2
  <2> QED
    BY <1>1, <1>2, <2>1, PackedFields, SMT
<1>4. x.alt = p /\ x.spd = q /\ x.cap = cap /\ x.bat = b /\ x.mode = mode
  BY <1>3
<1>5. Speed(x) = Expanded(q)
  BY <1>4 DEF Speed
<1>6. Speed(x) <= v /\ (v < 544 => v - Speed(x) < 18)
  BY <1>2, <1>5, SpeedReads
<1>7. ASSUME mode < 3 PROVE Altitude(x) <= a /\ a - Altitude(x) < 16
  <2>1. mode \in 0 .. 2
    BY <1>7
  <2> QED
    BY <1>1, <1>4, <2>1, AltitudeReads
<1> QED
  BY <1>1, <1>2, <1>4, <1>6, <1>7

\* What the wider masks of the README make of the fields.
LEMMA ShownReads ==
  ASSUME NEW x, NEW v \in Nat, NEW b \in Nat, x.bat = b,
         x.alt \in Nat, x.spd \in Nat, x.spd <= 127, x.cap \in Nat,
         Speed(x) <= v, v < 544 => v - Speed(x) < 18
  PROVE  /\ ShownBattery(x) = b <=> x.cap % 2 = 0
         /\ v < 544 => (v - ShownSpeed(x) \in 0 .. 17 <=> x.alt % 2 = 0)
<1>1. PICK p \in Nat, q \in Nat, cap \in Nat : p = x.alt /\ q = x.spd /\ q <= 127 /\ cap = x.cap
  OBVIOUS
<1>2. ShownBattery(x) = b <=> x.cap % 2 = 0
  <2>1. ShownBattery(x) = b + 128 * (cap % 2)
    BY <1>1 DEF ShownBattery
  <2>2. PICK bit \in 0 .. 1 : bit = cap % 2
    OBVIOUS
  <2> QED
    BY <1>1, <2>1, <2>2
<1>3. v < 544 => (v - ShownSpeed(x) \in 0 .. 17 <=> x.alt % 2 = 0)
  <2>1. ShownSpeed(x) = Expanded(q + 128 * (p % 2))
    BY <1>1 DEF ShownSpeed
  <2>2. CASE p % 2 = 0
    <3>1. ShownSpeed(x) = Speed(x)
      BY <1>1, <2>1, <2>2 DEF Speed
    <3>2. Speed(x) \in Int
      BY <1>1 DEF Speed, Expanded
    <3>3. PICK z \in Int : z = Speed(x) /\ z = ShownSpeed(x)
      BY <3>1, <3>2
    <3>4. v < 544 => v - z \in 0 .. 17
      BY <3>3
    <3> QED
      BY <1>1, <2>2, <3>3, <3>4
  <2>3. CASE p % 2 # 0
    <3>1. p % 2 = 1
      BY <2>3
    <3>2. ShownSpeed(x) = (q + 34) * 16
      BY <1>1, <2>1, <3>1 DEF Expanded
    <3> QED
      BY <1>1, <2>3, <3>2
  <2> QED
    BY <2>2, <2>3
<1> QED
  BY <1>2, <1>3

\* The frame of a visit's fix.
LEMMA FrameReads ==
  ASSUME NEW f \in AllFixes, f.sat > 3, f.alt <= 65535, fix = f,
         NEW b \in Nat, b <= 100, batteryPercent = b,
         NEW m \in Messages \cup {"WEAK_BAT"}, NEW position,
         NEW x, x = FrameOf(m, position)
  PROVE  /\ x.bat = b
         /\ ShownBattery(x) = b <=> x.cap % 2 = 0
         /\ x.mode < 3 <=> m = "POSITION"
         /\ Speed(x) <= f.spd
         /\ f.spd < 544 => f.spd - Speed(x) < 18
         /\ f.spd < 544 => (f.spd - ShownSpeed(x) \in 0 .. 17 <=> x.alt % 2 = 0)
         /\ m = "POSITION" => Altitude(x) <= f.alt /\ f.alt - Altitude(x) < 16
<1>1. PICK a \in Nat, v \in Nat : a <= 65535 /\ a = f.alt /\ v = f.spd
  BY DEF AllFixes
<1>2. PICK c : c = Compressed(f)
  OBVIOUS
<1>3. PICK n \in 4 .. 8 : n = c.sat
  BY <1>2, CompressedFix
<1>4. c.spd = SpdCode(v) /\ c.alt = AltCode(a)
  BY <1>1, <1>2, CompressedFix
<1>5. PICK mode, cap : mode = Mode(m, n) /\ cap = Cap(c.sat, c.course, position)
  OBVIOUS
<1>6. mode \in 0 .. 7 /\ (mode < 3 <=> m = "POSITION")
  <2>1. n \in Nat
    OBVIOUS
  <2> QED
    BY <1>5, <2>1, Modes
<1>7. x = Pack(AltCode(a), SpdCode(v), cap, b, mode)
  BY <1>2, <1>3, <1>4, <1>5 DEF FrameOf
<1>8. cap \in Nat
  <2>1. PICK course \in Nat : course = c.course
    <3>1. c.course = f.course
      BY <1>2 DEF Compressed, AllFixes
    <3> QED
      BY <3>1 DEF AllFixes
  <2>2. cap = (course \div 90) % 4
    BY <1>3, <1>5, <2>1 DEF Cap
  <2> QED
    BY <2>2
<1>9. /\ x.bat = b /\ x.mode = mode /\ x.cap = cap
      /\ x.alt \in Nat /\ x.spd \in Nat /\ x.spd <= 127
      /\ Speed(x) <= v
      /\ v < 544 => v - Speed(x) < 18
      /\ mode < 3 => Altitude(x) <= a /\ a - Altitude(x) < 16
  <2>1. mode \in 0 .. 7
    BY <1>6
  <2> QED
    BY <1>1, <1>7, <2>1, PackReads, SMTT(60)
<1>10. /\ ShownBattery(x) = b <=> x.cap % 2 = 0
       /\ v < 544 => (v - ShownSpeed(x) \in 0 .. 17 <=> x.alt % 2 = 0)
  BY <1>8, <1>9, ShownReads
<1> QED
  BY <1>1, <1>6, <1>9, <1>10

-----------------------------------------------------------------------------
\* The scale of a measurement: no further than a full battery asks for, and
\* never down.
LEMMA CalibrateRange ==
  ASSUME NEW s \in Nat, s <= 65535, s >= 980, sensorMax = s,
         NEW v \in Nat, v <= 1020
  PROVE  /\ Calibrate(v) \in Nat /\ Calibrate(v) <= 65535 /\ Calibrate(v) >= 980
         /\ v >= 4 /\ s <= 1016 => Calibrate(v) <= 1016
<1>1. v >= 4 => (v + 65536 - 4) % 65536 = v - 4
  OBVIOUS
<1>2. (v + 65536 - 4) % 65536 \in Nat /\ (v + 65536 - 4) % 65536 <= 65535
  OBVIOUS
<1> QED
  BY <1>1, <1>2 DEF Calibrate

\* What a battery is, in percent.
LEMMA PercentRange ==
  ASSUME NEW bat \in Nat
  PROVE  Percent(bat) \in Nat /\ Percent(bat) <= 100
<1>1. PICK lo, hi : /\ lo = (IF bat < 3570 THEN bat ELSE 3570)
                    /\ hi = (IF bat > 4200 THEN bat ELSE 4200)
  OBVIOUS
<1>2. /\ lo \in Nat /\ hi \in Nat /\ hi - lo > 0
      /\ bat - lo >= 0 /\ bat - lo <= hi - lo
  BY <1>1
<1>3. \A n \in Nat, d \in Nat : d > 0 /\ n <= d =>
        (n * 100) \div d \in Nat /\ (n * 100) \div d <= 100
  OBVIOUS
<1>4. PICK n \in Nat, d \in Nat : n = bat - lo /\ d = hi - lo /\ d > 0 /\ n <= d
  BY <1>2
<1>5. Percent(bat) = (n * 100) \div d
  BY <1>1, <1>4 DEF Percent, BATT_MIN, BATT_MAX
<1> QED
  BY <1>3, <1>4, <1>5

\* A battery well above the limit is not weak on any scale it can have.
LEMMA HealthyOnScale ==
  ASSUME NEW v \in Nat, NEW c \in Nat, c >= 980
  PROVE  /\ (v * BATT_MAX) \div c \in Nat
         /\ v >= 864 /\ c <= 1016 => ~Weak((v * BATT_MAX) \div c)
<1>1. PICK n \in Nat : n = v * BATT_MAX /\ (v >= 864 => n >= 3628800)
  BY DEF BATT_MAX
<1>2. n \div c \in Nat
  OBVIOUS
<1>3. n >= 3570 * c => n \div c >= 3570
  OBVIOUS
<1>4. v >= 864 /\ c <= 1016 => n >= 3570 * c
  BY <1>1
<1> QED
  BY <1>1, <1>2, <1>3, <1>4 DEF Weak, BATT_MIN

-----------------------------------------------------------------------------
\* A frame made of a fix as it was received tells that fix.
LEMMA SendSigFoxFaithful ==
  ASSUME FixInv, TruthInv, ScaleInv, stage \in {"weak", "send"},
         NEW m \in Messages \cup {"WEAK_BAT"}, SendSigFox(m)
  PROVE  FrameFaithful'
<1>1. CASE frame' = NoFrame
  BY <1>1 DEF FrameFaithful, NoFrame
<1>2. ASSUME NEW position \in {0, 5},
             frame' = [made |-> TRUE, of |-> m, holds |-> CoordinatesFor(m),
                       cpx |-> FrameOf(m, position),
                       shows |-> truth, battery |-> batteryPercent]
      PROVE  FrameFaithful'
  <2> SUFFICES ASSUME fix'.sat > 3 PROVE FrameFaithful'
    BY DEF FrameFaithful
  <2>1. PICK f \in AllFixes : f = fix /\ f.alt <= 65535
    BY DEF FixInv
  <2>2. fix' = Compressed(f)
    BY <2>1 DEF SendSigFox
  <2>3. f.sat > 3
    BY <2>2, CompressedFix
  <2>4. PICK b \in Nat : b = batteryPercent /\ b <= 100
    BY DEF ScaleInv
  <2>5. PICK x : x = FrameOf(m, position)
    OBVIOUS
  <2>6. /\ x.bat = b
        /\ ShownBattery(x) = b <=> x.cap % 2 = 0
        /\ x.mode < 3 <=> m = "POSITION"
        /\ Speed(x) <= f.spd
        /\ f.spd < 544 => f.spd - Speed(x) < 18
        /\ f.spd < 544 => (f.spd - ShownSpeed(x) \in 0 .. 17 <=> x.alt % 2 = 0)
        /\ m = "POSITION" => Altitude(x) <= f.alt /\ f.alt - Altitude(x) < 16
    BY <2>1, <2>3, <2>4, <2>5, FrameReads
  <2>7. truth # NoFix => truth = f
    BY <2>1 DEF TruthInv
  <2>8. frame'.cpx = x /\ frame'.shows = truth /\ frame'.of = m /\ frame'.battery = b
    BY <1>2, <2>4, <2>5
  <2> QED
    BY <2>6, <2>7, <2>8 DEF FrameFaithful
<1> QED
  BY <1>1, <1>2 DEF SendSigFox

\* A message leaves the scale alone, and forgets what it was measured with.
LEMMA MessagesTell ==
  ASSUME TellInv, SendWeak \/ SendRegular
  PROVE  TruthInv' /\ ScaleInv' /\ FrameFaithful'
<1>1. truth' = NoFix /\ TruthInv'
  BY DEF SendWeak, SendRegular, TruthInv
<1>2. ScaleInv'
  BY DEF TellInv, SendWeak, SendRegular, ForgetSamples, ScaleInv
<1>3. CASE SendWeak
  BY <1>1, <1>2, <1>3, SendSigFoxFaithful DEF SendWeak, TellInv
<1>4. CASE SendRegular
  <2>1. CASE gated
    BY <1>1, <1>2, <1>4, <2>1 DEF SendRegular, FrameFaithful, NoFrame
  <2>2. CASE ~gated
    <3>1. SendSigFox(msg) /\ stage = "send" /\ msg \in Messages
      BY <1>4, <2>2 DEF SendRegular, TellInv, FixInv
    <3> QED
      BY <1>1, <1>2, <3>1, SendSigFoxFaithful DEF TellInv
  <2> QED
    BY <2>1, <2>2
<1> QED
  BY <1>3, <1>4

-----------------------------------------------------------------------------
LEMMA Induction ==
  ASSUME NEW S, 0 \in S, \A n \in Nat : n \in S => n + 1 \in S
  PROVE  \A n \in Nat : n \in S
<1> SUFFICES ASSUME Nat \ S # {} PROVE FALSE
  OBVIOUS
<1>1. PICK n \in Nat \ S : \A m \in Nat \ S : <<m, n>> \notin OpToRel(<, Nat)
  <2>1. \A R, U, V : IsWellFoundedOn(R, U) /\ V \subseteq U /\ V # {}
                       => \E x \in V : \A y \in V : <<y, x>> \notin R
    BY WFMin
  <2> QED
    BY <2>1, NatLessThanWellFounded, Zenon
<1>2. n - 1 \in Nat /\ n - 1 < n
  OBVIOUS
<1>3. <<n - 1, n>> \in OpToRel(<, Nat)
  BY <1>2 DEF OpToRel
<1>4. n - 1 \in S
  BY <1>1, <1>2, <1>3, Zenon
<1>5. n \in S
  BY <1>2, <1>4
<1> QED
  BY <1>5

\* The loop over the samples, unrolled.
LEMMA SortingSteps ==
  ASSUME NEW taken
  PROVE  /\ Sorting(taken)[0] = <<>>
         /\ \A n \in 1 .. NumReads :
              Sorting(taken)[n] = Insert(Sorting(taken)[n - 1], taken[n])
<1> DEFINE Loop(g, m) == g = [n \in 0 .. m |-> IF n = 0 THEN <<>> ELSE Insert(g[n - 1], taken[n])]
           S == {m \in Nat : \E g : Loop(g, m)}
<1>1. 0 \in S
  <2>1. Loop([n \in 0 .. 0 |-> <<>>], 0)
    OBVIOUS
  <2> QED
    BY <2>1
<1>2. ASSUME NEW m \in Nat, m \in S PROVE m + 1 \in S
  <2>1. PICK g : Loop(g, m)
    BY <1>2
  <2>2. PICK h : h = [n \in 0 .. m + 1 |-> IF n = m + 1 THEN Insert(g[m], taken[m + 1]) ELSE g[n]]
    OBVIOUS
  <2>3. \A n \in 0 .. m + 1 : h[n] = IF n = 0 THEN <<>> ELSE Insert(h[n - 1], taken[n])
    <3> SUFFICES ASSUME NEW n \in 0 .. m + 1
                 PROVE  h[n] = IF n = 0 THEN <<>> ELSE Insert(h[n - 1], taken[n])
      OBVIOUS
    <3>1. CASE n = m + 1
      BY <2>2, <3>1
    <3>2. CASE n # m + 1
      <4>1. n \in 0 .. m /\ h[n] = g[n] /\ (n # 0 => h[n - 1] = g[n - 1])
        BY <2>2, <3>2
      <4> QED
        BY <2>1, <4>1
    <3> QED
      BY <3>1, <3>2
  <2>4. Loop(h, m + 1)
    BY <2>2, <2>3
  <2> QED
    BY <2>4
<1> HIDE DEF S
<1>3. NumReads \in S
  BY <1>1, <1>2, Induction, BatteryConstants
<1>4. \E g : Loop(g, NumReads)
  BY <1>3 DEF S
<1>5. Loop(Sorting(taken), NumReads)
  BY <1>4 DEF Sorting
<1> QED
  BY <1>5, BatteryConstants

\* A set of natural numbers has a smallest one.
LEMMA MinIsLeast ==
  ASSUME NEW T, T \subseteq Nat, T # {}
  PROVE  Min(T) \in T /\ \A y \in T : Min(T) <= y
<1>1. PICK x \in T : \A y \in T : <<y, x>> \notin OpToRel(<, Nat)
  <2>1. \A R, U, V : IsWellFoundedOn(R, U) /\ V \subseteq U /\ V # {}
                       => \E u \in V : \A y \in V : <<y, u>> \notin R
    BY WFMin
  <2> QED
    BY <2>1, NatLessThanWellFounded, Zenon
<1>2. \A y \in T : ~(y < x)
  <2> SUFFICES ASSUME NEW y \in T, y < x PROVE FALSE
    OBVIOUS
  <2>1. <<y, x>> \in OpToRel(<, Nat)
    BY DEF OpToRel
  <2> QED
    BY <1>1, <2>1
<1>3. x \in T /\ \A y \in T : x <= y
  BY <1>2
<1> QED
  BY <1>3 DEF Min

Ascending(s) == \A a, b \in 1 .. Len(s) : a <= b => s[a] <= s[b]

\* The loop over j stops between the samples that are not above v and those
\* that are not below it.
LEMMA InsertPlace ==
  ASSUME NEW s \in Seq(Nat), Ascending(s), NEW v \in Nat
  PROVE  /\ InsertAfter(s, v) \in 0 .. Len(s)
         /\ \A a \in 1 .. InsertAfter(s, v) : s[a] <= v
         /\ \A a \in InsertAfter(s, v) + 1 .. Len(s) : v <= s[a]
<1> DEFINE Between == {k \in 1 .. Len(s) - 1 : s[k] <= v /\ s[k + 1] >= v}
<1>0. Len(s) \in Nat /\ \A a \in 1 .. Len(s) : s[a] \in Nat
  OBVIOUS
<1>1. CASE s = <<>> \/ v < s[1]
  <2>1. InsertAfter(s, v) = 0
    BY <1>1 DEF InsertAfter
  <2>2. \A a \in 1 .. Len(s) : v <= s[a]
    BY <1>0, <1>1 DEF Ascending
  <2> QED
    BY <1>0, <2>1, <2>2
<1>2. CASE ~(s = <<>> \/ v < s[1]) /\ Between # {}
  <2>1. InsertAfter(s, v) = Min(Between)
    BY <1>2 DEF InsertAfter
  <2>2. Between \subseteq Nat
    BY <1>0
  <2>3. Min(Between) \in Between
    BY <1>2, <2>2, MinIsLeast, Zenon
  <2>4. PICK k \in 1 .. Len(s) - 1 : k = InsertAfter(s, v) /\ s[k] <= v /\ v <= s[k + 1]
    BY <2>1, <2>3
  <2>5. k \in 1 .. Len(s) /\ k + 1 \in 1 .. Len(s)
    BY <1>0
  <2>6. ASSUME NEW a \in 1 .. k PROVE s[a] <= v
    <3>1. a \in 1 .. Len(s) /\ a <= k
      BY <1>0
    <3>2. s[a] <= s[k]
      BY <2>5, <3>1, Zenon DEF Ascending
    <3>3. s[a] \in Nat /\ s[k] \in Nat
      BY <1>0, <2>5, <3>1, Zenon
    <3> QED
      BY <2>4, <3>2, <3>3
  <2>7. ASSUME NEW a \in k + 1 .. Len(s) PROVE v <= s[a]
    <3>1. a \in 1 .. Len(s) /\ k + 1 <= a
      BY <1>0
    <3>2. s[k + 1] <= s[a]
      BY <2>5, <3>1, Zenon DEF Ascending
    <3>3. s[a] \in Nat /\ s[k + 1] \in Nat
      BY <1>0, <2>5, <3>1, Zenon
    <3> QED
      BY <2>4, <3>2, <3>3
  <2>8. k \in 0 .. Len(s)
    BY <1>0
  <2> QED
    BY <2>4, <2>6, <2>7, <2>8, Zenon
<1>3. CASE ~(s = <<>> \/ v < s[1]) /\ Between = {}
  <2>1. InsertAfter(s, v) = Len(s)
    BY <1>3, Zenon DEF InsertAfter
  <2> DEFINE Low == {n \in Nat : n + 1 \in 1 .. Len(s) => s[n + 1] <= v}
  <2>2. 0 \in Low
    BY <1>0, <1>3
  <2>3. ASSUME NEW n \in Nat, n \in Low PROVE n + 1 \in Low
    <3> SUFFICES ASSUME n + 2 \in 1 .. Len(s), ~(s[n + 2] <= v) PROVE FALSE
      OBVIOUS
    <3>1. s[n + 1] <= v /\ s[(n + 1) + 1] >= v /\ n + 1 \in 1 .. Len(s) - 1
      BY <1>0, <2>3
    <3> QED
      BY <1>3, <3>1
  <2> HIDE DEF Low
  <2>4. \A n \in Nat : n \in Low
    BY <2>2, <2>3, Induction
  <2>5. \A a \in 1 .. Len(s) : s[a] <= v
    <3> SUFFICES ASSUME NEW a \in 1 .. Len(s) PROVE s[a] <= v
      OBVIOUS
    <3>1. a - 1 \in Nat /\ (a - 1) + 1 = a
      OBVIOUS
    <3> QED
      BY <2>4, <3>1 DEF Low
  <2> QED
    BY <1>0, <2>1, <2>5
<1> QED
  BY <1>1, <1>2, <1>3

\* A sample between the first k and the others.
LEMMA Spliced ==
  ASSUME NEW s \in Seq(Nat), NEW k \in 0 .. Len(s), NEW v \in Nat
  PROVE  /\ InsertAt(s, k + 1, v) \in Seq(Nat)
         /\ Len(InsertAt(s, k + 1, v)) = Len(s) + 1
         /\ \A a \in 1 .. k : InsertAt(s, k + 1, v)[a] = s[a]
         /\ InsertAt(s, k + 1, v)[k + 1] = v
         /\ \A a \in k + 2 .. Len(s) + 1 : InsertAt(s, k + 1, v)[a] = s[a - 1]
<1>0. PICK m \in Nat : m = Len(s) /\ k <= m
  OBVIOUS
<1> DEFINE low == SubSeq(s, 1, k)
           one == <<v>>
           high == SubSeq(s, k + 1, m)
           front == low \o one
           t == front \o high
<1>1. \A a \in 1 .. m : s[a] \in Nat
  BY <1>0
<1>2. low \in Seq(Nat) /\ Len(low) = k /\ \A a \in 1 .. k : low[a] = s[a]
  <2>1. \A a \in 1 .. k : s[a] \in Nat
    BY <1>1
  <2>2. /\ low \in Seq(Nat)
        /\ Len(low) = IF 1 <= k THEN k - 1 + 1 ELSE 0
        /\ \A a \in 1 .. k - 1 + 1 : low[a] = s[1 + a - 1]
    BY <2>1, SubSeqProperties
  <2> HIDE DEF low
  <2>3. k - 1 + 1 = k /\ \A a \in 1 .. k : 1 + a - 1 = a
    OBVIOUS
  <2> QED
    BY <2>2, <2>3
<1>3. high \in Seq(Nat) /\ Len(high) = m - k /\ \A a \in 1 .. m - k : high[a] = s[k + a]
  <2>1. \A a \in k + 1 .. m : s[a] \in Nat
    BY <1>1
  <2>2. /\ high \in Seq(Nat)
        /\ Len(high) = IF k + 1 <= m THEN m - (k + 1) + 1 ELSE 0
        /\ \A a \in 1 .. m - (k + 1) + 1 : high[a] = s[(k + 1) + a - 1]
    BY <2>1, SubSeqProperties
  <2> HIDE DEF high
  <2>3. m - (k + 1) + 1 = m - k /\ \A a \in 1 .. m - k : (k + 1) + a - 1 = k + a
    BY <1>0
  <2> QED
    BY <1>0, <2>2, <2>3
<1>4. one \in Seq(Nat) /\ Len(one) = 1 /\ one[1] = v
  OBVIOUS
<1> HIDE DEF low, high, one
<1>5. /\ front \in Seq(Nat) /\ Len(front) = Len(low) + Len(one)
      /\ \A a \in 1 .. Len(low) + Len(one) :
           front[a] = IF a <= Len(low) THEN low[a] ELSE one[a - Len(low)]
  BY <1>2, <1>4, ConcatProperties
<1> HIDE DEF front
<1>6. Len(front) = k + 1 /\ \A a \in 1 .. k + 1 : front[a] = IF a <= k THEN s[a] ELSE v
  <2>1. \A a \in 1 .. k + 1 : front[a] = IF a <= k THEN low[a] ELSE one[a - k]
    BY <1>2, <1>4, <1>5
  <2>2. ASSUME NEW a \in 1 .. k + 1
        PROVE  front[a] = IF a <= k THEN s[a] ELSE v
    <3>1. CASE a <= k
      BY <1>2, <2>1, <3>1
    <3>2. CASE ~(a <= k)
      <4>1. a - k = 1
        BY <3>2
      <4> QED
        BY <1>4, <2>1, <3>2, <4>1
    <3> QED
      BY <3>1, <3>2
  <2> QED
    BY <1>2, <1>4, <1>5, <2>2
<1>7. /\ t \in Seq(Nat) /\ Len(t) = Len(front) + Len(high)
      /\ \A a \in 1 .. Len(front) + Len(high) :
           t[a] = IF a <= Len(front) THEN front[a] ELSE high[a - Len(front)]
  <2>1. front \in Seq(Nat) /\ high \in Seq(Nat)
    BY <1>3, <1>5
  <2> QED
    BY <2>1, ConcatProperties
<1>8. InsertAt(s, k + 1, v) = t
  <2>1. (k + 1) - 1 = k
    OBVIOUS
  <2> QED
    BY <1>0, <2>1 DEF InsertAt, front, low, one, high
<1> HIDE DEF t
<1>9. Len(t) = m + 1
  BY <1>3, <1>6, <1>7
<1>10. ASSUME NEW a \in 1 .. m + 1
       PROVE  t[a] = IF a <= k THEN s[a] ELSE IF a = k + 1 THEN v ELSE s[a - 1]
  <2>1. t[a] = IF a <= k + 1 THEN front[a] ELSE high[a - (k + 1)]
    BY <1>3, <1>6, <1>7
  <2>2. a > k + 1 => a - (k + 1) \in 1 .. m - k /\ k + (a - (k + 1)) = a - 1
    BY <1>0
  <2>3. a > k + 1 => high[a - (k + 1)] = s[a - 1]
    BY <1>3, <2>2
  <2> QED
    BY <1>6, <2>1, <2>3
<1>11. \A a \in 1 .. k : t[a] = s[a]
  BY <1>0, <1>10
<1>12. t[k + 1] = v
  BY <1>0, <1>10
<1>13. \A a \in k + 2 .. Len(s) + 1 : t[a] = s[a - 1]
  BY <1>0, <1>10
<1> QED
  BY <1>0, <1>7, <1>8, <1>9, <1>11, <1>12, <1>13

\* A sample in its place.
LEMMA InsertKeeps ==
  ASSUME NEW s \in Seq(Nat), Ascending(s), NEW v \in Nat, NEW m \in Nat, m = Len(s)
  PROVE  \E k \in 0 .. m :
           /\ Insert(s, v) \in Seq(Nat) /\ Ascending(Insert(s, v))
           /\ Len(Insert(s, v)) = m + 1
           /\ \A a \in 1 .. k : Insert(s, v)[a] = s[a]
           /\ Insert(s, v)[k + 1] = v
           /\ \A a \in k + 2 .. m + 1 : Insert(s, v)[a] = s[a - 1]
<1>1. PICK k \in 0 .. m : k = InsertAfter(s, v)
  BY InsertPlace
<1>2. /\ \A a \in 1 .. k : s[a] <= v
      /\ \A a \in k + 1 .. m : v <= s[a]
  BY <1>1, InsertPlace
<1>3. PICK t : t = Insert(s, v)
  OBVIOUS
<1>4. t = InsertAt(s, k + 1, v)
  BY <1>1, <1>3 DEF Insert
<1>5. /\ t \in Seq(Nat) /\ Len(t) = m + 1
      /\ \A a \in 1 .. k : t[a] = s[a]
      /\ t[k + 1] = v
      /\ \A a \in k + 2 .. m + 1 : t[a] = s[a - 1]
  BY <1>4, Spliced
<1>6. Ascending(t)
  <2> SUFFICES ASSUME NEW a \in 1 .. m + 1, NEW b \in 1 .. m + 1, a <= b
               PROVE  t[a] <= t[b]
    BY <1>5 DEF Ascending
  <2>1. /\ a <= k => t[a] = s[a]
        /\ a = k + 1 => t[a] = v
        /\ a > k + 1 => t[a] = s[a - 1]
        /\ b <= k => t[b] = s[b]
        /\ b = k + 1 => t[b] = v
        /\ b > k + 1 => t[b] = s[b - 1]
    <3>1. /\ a <= k => a \in 1 .. k
          /\ b <= k => b \in 1 .. k
          /\ a > k + 1 => a \in k + 2 .. m + 1
          /\ b > k + 1 => b \in k + 2 .. m + 1
      OBVIOUS
    <3> QED
      BY <1>5, <3>1, Zenon
  <2>2. \A c \in 1 .. m : s[c] \in Nat
    OBVIOUS
  <2>3. \A c, d \in 1 .. m : c <= d => s[c] <= s[d]
    BY DEF Ascending
  <2>4. CASE b <= k
    BY <2>1, <2>2, <2>3, <2>4
  <2>5. CASE b = k + 1
    BY <1>2, <2>1, <2>2, <2>5
  <2>6. CASE b > k + 1
    <3>1. t[b] = s[b - 1] /\ b - 1 \in k + 1 .. m
      BY <2>1, <2>6
    <3>2. v <= s[b - 1]
      BY <1>2, <3>1
    <3>3. CASE a <= k
      BY <2>1, <2>3, <3>1, <3>3
    <3>4. CASE a = k + 1
      BY <2>1, <3>1, <3>2, <3>4
    <3>5. CASE a > k + 1
      <4>1. t[a] = s[a - 1] /\ a - 1 \in 1 .. m /\ a - 1 <= b - 1
        BY <2>1, <3>5
      <4>2. b - 1 \in 1 .. m
        BY <3>1
      <4>3. s[a - 1] <= s[b - 1]
        BY <2>3, <4>1, <4>2, Zenon
      <4> QED
        BY <3>1, <4>1, <4>3, Zenon
    <3> QED
      BY <3>3, <3>4, <3>5
  <2> QED
    BY <2>4, <2>5, <2>6
<1> QED
  BY <1>1, <1>3, <1>5, <1>6

\* The first n places of s hold the first n samples, each once.
Arranged(taken, s, n, p) ==
  /\ s \in Seq(Nat) /\ Ascending(s) /\ Len(s) = n
  /\ p \in [1 .. n -> 1 .. n]
  /\ \A a, b \in 1 .. n : p[a] = p[b] => a = b
  /\ \A a \in 1 .. n : s[a] = taken[p[a]]

LEMMA InsertArranges ==
  ASSUME NEW taken, NEW n \in Nat, taken[n + 1] \in Nat,
         NEW s, NEW p, Arranged(taken, s, n, p)
  PROVE  \E q : Arranged(taken, Insert(s, taken[n + 1]), n + 1, q)
<1>1. PICK v \in Nat : v = taken[n + 1]
  OBVIOUS
<1>2. s \in Seq(Nat) /\ Ascending(s) /\ Len(s) = n
  BY DEF Arranged
<1>3. PICK k \in 0 .. n :
        /\ Insert(s, v) \in Seq(Nat) /\ Ascending(Insert(s, v))
        /\ Len(Insert(s, v)) = n + 1
        /\ \A a \in 1 .. k : Insert(s, v)[a] = s[a]
        /\ Insert(s, v)[k + 1] = v
        /\ \A a \in k + 2 .. n + 1 : Insert(s, v)[a] = s[a - 1]
  <2>1. n = Len(s)
    BY <1>2
  <2> QED
    BY <1>2, <2>1, InsertKeeps, Zenon
<1>4. PICK t : t = Insert(s, v)
  OBVIOUS
<1>5. PICK q : q = [a \in 1 .. n + 1 |-> IF a <= k THEN p[a] ELSE IF a = k + 1 THEN n + 1 ELSE p[a - 1]]
  OBVIOUS
<1>6. /\ \A a \in 1 .. n : p[a] \in 1 .. n /\ s[a] = taken[p[a]]
      /\ \A a, b \in 1 .. n : p[a] = p[b] => a = b
  BY DEF Arranged
<1>7. ASSUME NEW a \in 1 .. n + 1
      PROVE  q[a] \in 1 .. n + 1 /\ t[a] = taken[q[a]]
  <2>1. CASE a <= k
    BY <1>3, <1>4, <1>5, <1>6, <2>1
  <2>2. CASE a = k + 1
    BY <1>1, <1>3, <1>4, <1>5, <2>2
  <2>3. CASE a > k + 1
    <3>1. a - 1 \in 1 .. n /\ a \in k + 2 .. n + 1 /\ q[a] = p[a - 1]
      BY <1>5, <2>3
    <3> QED
      BY <1>3, <1>4, <1>6, <3>1
  <2> QED
    BY <2>1, <2>2, <2>3
<1>8. ASSUME NEW a \in 1 .. n + 1, NEW b \in 1 .. n + 1, q[a] = q[b]
      PROVE  a = b
  <2>1. \A c \in 1 .. n + 1 : c <= k => c \in 1 .. n /\ q[c] = p[c]
    BY <1>5
  <2>2. \A c \in 1 .. n + 1 : c > k + 1 => c - 1 \in 1 .. n /\ q[c] = p[c - 1]
    BY <1>5
  <2>3. q[k + 1] = n + 1
    BY <1>5
  <2>4. \A c \in 1 .. n : p[c] # n + 1
    BY <1>6
  <2> QED
    BY <1>6, <1>8, <2>1, <2>2, <2>3, <2>4
<1>9. q \in [1 .. n + 1 -> 1 .. n + 1]
  BY <1>5, <1>7
<1>10. Arranged(taken, t, n + 1, q)
  BY <1>3, <1>4, <1>7, <1>8, <1>9 DEF Arranged
<1> QED
  BY <1>1, <1>4, <1>10

\* The array is the samples in ascending order.
LEMMA SortedArranged ==
  ASSUME NEW taken \in Windows
  PROVE  \E p : Arranged(taken, Sorted(taken), NumReads, p)
<1> DEFINE S == {n \in Nat : n <= NumReads => \E p : Arranged(taken, Sorting(taken)[n], n, p)}
<1>1. 0 \in S
  <2>1. <<>> \in Seq(Nat) /\ Len(<<>>) = 0
    OBVIOUS
  <2>2. Ascending(<<>>)
    BY <2>1 DEF Ascending
  <2>3. Arranged(taken, <<>>, 0, [a \in 1 .. 0 |-> a])
    BY <2>1, <2>2 DEF Arranged
  <2> QED
    BY <2>3, SortingSteps
<1>2. ASSUME NEW n \in Nat, n \in S PROVE n + 1 \in S
  <2> SUFFICES ASSUME n + 1 <= NumReads
               PROVE  \E p : Arranged(taken, Sorting(taken)[n + 1], n + 1, p)
    OBVIOUS
  <2>1. n <= NumReads /\ n + 1 \in 1 .. NumReads /\ (n + 1) - 1 = n
    BY BatteryConstants
  <2>2. PICK p : Arranged(taken, Sorting(taken)[n], n, p)
    BY <1>2, <2>1
  <2>3. taken[n + 1] \in Nat
    <3>1. taken \in [1 .. NumReads -> 0 .. 255]
      BY BatteryConstants
    <3>2. taken[n + 1] \in 0 .. 255
      BY <2>1, <3>1
    <3> QED
      BY <3>2
  <2>4. \E q : Arranged(taken, Insert(Sorting(taken)[n], taken[n + 1]), n + 1, q)
    BY <2>2, <2>3, InsertArranges
  <2>5. Sorting(taken)[n + 1] = Insert(Sorting(taken)[n], taken[n + 1])
    BY <2>1, SortingSteps
  <2> QED
    BY <2>4, <2>5
<1> HIDE DEF S
<1>3. NumReads \in S
  BY <1>1, <1>2, Induction, BatteryConstants
<1> QED
  BY <1>3, BatteryConstants DEF S, Sorted

\* The sum over the middle samples, unrolled.
LEMMA SummingSteps ==
  ASSUME NEW sorted
  PROVE  /\ Summing(sorted)[0] = 0
         /\ \A n \in 1 .. 2 * Half :
              Summing(sorted)[n] = Summing(sorted)[n - 1] + sorted[NumReads \div 2 - Half + n]
<1> DEFINE Term(n) == sorted[NumReads \div 2 - Half + n]
           Loop(g, m) == g = [n \in 0 .. m |-> IF n = 0 THEN 0 ELSE g[n - 1] + Term(n)]
           S == {m \in Nat : \E g : Loop(g, m)}
<1>0. Half \in Nat /\ 2 * Half \in Nat
  BY BatteryConstants
<1>5. \A g : Loop(g, 2 * Half) => g[0] = 0 /\ \A n \in 1 .. 2 * Half : g[n] = g[n - 1] + Term(n)
  <2> HIDE DEF Term
  <2> QED
    BY <1>0
<1>6. Summing(sorted) = CHOOSE g : Loop(g, 2 * Half)
  BY DEF Summing
<1> HIDE DEF Term
<1>1. 0 \in S
  <2>1. Loop([n \in 0 .. 0 |-> 0], 0)
    OBVIOUS
  <2> QED
    BY <2>1
<1>2. ASSUME NEW m \in Nat, m \in S PROVE m + 1 \in S
  <2>1. PICK g : Loop(g, m)
    BY <1>2
  <2>2. PICK h : h = [n \in 0 .. m + 1 |-> IF n = m + 1 THEN g[m] + Term(m + 1) ELSE g[n]]
    OBVIOUS
  <2>3. \A n \in 0 .. m + 1 : h[n] = IF n = 0 THEN 0 ELSE h[n - 1] + Term(n)
    <3> SUFFICES ASSUME NEW n \in 0 .. m + 1
                 PROVE  h[n] = IF n = 0 THEN 0 ELSE h[n - 1] + Term(n)
      OBVIOUS
    <3>1. CASE n = m + 1
      BY <2>2, <3>1
    <3>2. CASE n # m + 1
      <4>1. n \in 0 .. m /\ h[n] = g[n] /\ (n # 0 => h[n - 1] = g[n - 1])
        BY <2>2, <3>2
      <4> QED
        BY <2>1, <4>1
    <3> QED
      BY <3>1, <3>2
  <2>4. Loop(h, m + 1)
    BY <2>2, <2>3
  <2> QED
    BY <2>4
<1> HIDE DEF S
<1>3. 2 * Half \in S
  BY <1>0, <1>1, <1>2, Induction
<1>4. \E g : Loop(g, 2 * Half)
  BY <1>3 DEF S
<1> HIDE DEF Loop
<1>7. PICK g : Loop(g, 2 * Half) /\ g = Summing(sorted)
  BY <1>4, <1>6
<1>8. g[0] = 0 /\ \A n \in 1 .. 2 * Half : g[n] = g[n - 1] + Term(n)
  BY <1>5, <1>7
<1> QED
  BY <1>7, <1>8 DEF Term

\* The sum of values between low and high.
LEMMA SumWithin ==
  ASSUME NEW sorted, NEW low \in Nat, NEW high \in Nat,
         \A n \in 1 .. 2 * Half : sorted[NumReads \div 2 - Half + n] \in low .. high
  PROVE  /\ Summing(sorted)[2 * Half] \in Nat
         /\ (2 * Half) * low <= Summing(sorted)[2 * Half]
         /\ Summing(sorted)[2 * Half] <= (2 * Half) * high
<1>0. Half \in Nat /\ 2 * Half \in Nat
  BY BatteryConstants
<1>1. PICK g : g = Summing(sorted)
  OBVIOUS
<1> DEFINE Term(n) == sorted[NumReads \div 2 - Half + n]
           S == {n \in Nat : n <= 2 * Half => g[n] \in Nat /\ n * low <= g[n] /\ g[n] <= n * high}
<1>2. g[0] = 0 /\ \A n \in 1 .. 2 * Half : g[n] = g[n - 1] + Term(n)
  BY <1>1, SummingSteps
<1>3. \A n \in 1 .. 2 * Half : Term(n) \in low .. high
  OBVIOUS
<1> HIDE DEF Term
<1>4. 0 \in S
  BY <1>2
<1>5. ASSUME NEW n \in Nat, n \in S PROVE n + 1 \in S
  <2> SUFFICES ASSUME n + 1 <= 2 * Half
               PROVE  g[n + 1] \in Nat /\ (n + 1) * low <= g[n + 1] /\ g[n + 1] <= (n + 1) * high
    OBVIOUS
  <2>1. n + 1 \in 1 .. 2 * Half /\ (n + 1) - 1 = n /\ n <= 2 * Half
    BY <1>0
  <2>2. g[n + 1] = g[n] + Term(n + 1)
    BY <1>2, <2>1
  <2>3. PICK v \in Nat : v = Term(n + 1) /\ low <= v /\ v <= high
    BY <1>3, <2>1
  <2>4. PICK x \in Nat : x = g[n] /\ n * low <= x /\ x <= n * high
    BY <1>5, <2>1
  <2>5. (n + 1) * low = n * low + low /\ (n + 1) * high = n * high + high
    OBVIOUS
  <2>6. n * low \in Nat /\ n * high \in Nat
    OBVIOUS
  <2> QED
    BY <2>2, <2>3, <2>4, <2>5, <2>6
<1> HIDE DEF S
<1>6. 2 * Half \in S
  BY <1>0, <1>4, <1>5, Induction
<1>7. g[2 * Half] \in Nat /\ (2 * Half) * low <= g[2 * Half] /\ g[2 * Half] <= (2 * Half) * high
  BY <1>0, <1>6 DEF S
<1> QED
  BY <1>1, <1>7

LEMMA Quotient ==
  ASSUME NEW h \in Nat \ {0}, NEW x \in Nat, NEW a \in Nat, NEW b \in Nat,
         h * a <= x, x <= h * b
  PROVE  x \div h \in a .. b
<1>1. PICK q \in Nat, r \in Nat : q = x \div h /\ x = h * q + r /\ r < h
  OBVIOUS
<1>2. q >= a
  <2> SUFFICES ASSUME q + 1 <= a PROVE FALSE
    OBVIOUS
  <2>1. h * (q + 1) <= h * a
    OBVIOUS
  <2>2. h * (q + 1) = h * q + h
    OBVIOUS
  <2> QED
    BY <1>1, <2>1, <2>2
<1>3. q <= b
  <2> SUFFICES ASSUME b + 1 <= q PROVE FALSE
    OBVIOUS
  <2>1. h * (b + 1) <= h * q
    OBVIOUS
  <2>2. h * (b + 1) = h * b + h
    OBVIOUS
  <2> QED
    BY <1>1, <2>1, <2>2
<1> QED
  BY <1>1, <1>2, <1>3

\* What is measured from values between low and high.
LEMMA MiddleOf ==
  ASSUME NEW sorted, NEW low \in Nat, NEW high \in Nat,
         \A n \in 1 .. 2 * Half : sorted[NumReads \div 2 - Half + n] \in low .. high
  PROVE  Middle(sorted) \in 4 * low .. 4 * high
<1>1. PICK x \in Nat : x = Summing(sorted)[2 * Half]
                       /\ (2 * Half) * low <= x /\ x <= (2 * Half) * high
  BY SumWithin
<1>2. Half \in Nat \ {0}
  BY BatteryConstants
<1>3. Half * (4 * low) = 2 * ((2 * Half) * low) /\ Half * (4 * high) = 2 * ((2 * Half) * high)
  BY <1>2
<1>4. (2 * Half) * low \in Nat /\ (2 * Half) * high \in Nat
  BY <1>2
<1>5. Half * (4 * low) <= 2 * x /\ 2 * x <= Half * (4 * high)
  BY <1>1, <1>3, <1>4
<1>6. (2 * x) \div Half \in 4 * low .. 4 * high
  <2>1. 2 * x \in Nat /\ 4 * low \in Nat /\ 4 * high \in Nat
    OBVIOUS
  <2> QED
    BY <1>2, <1>5, <2>1, Quotient
<1> QED
  BY <1>1, <1>6 DEF Middle

\* Places that all hold samples of W are no more than W has.
LEMMA PlacesCount ==
  ASSUME NEW n \in Nat, NEW p \in [1 .. n -> 1 .. n],
         \A a, b \in 1 .. n : p[a] = p[b] => a = b,
         NEW W \in SUBSET (1 .. n), NEW a \in 1 .. n, NEW b \in 1 .. n, a <= b,
         \A c \in a .. b : p[c] \in W
  PROVE  Cardinality(W) \in Nat /\ b - a + 1 <= Cardinality(W)
<1>1. IsFiniteSet(1 .. n)
  BY FS_Interval
<1>2. IsFiniteSet(W)
  BY <1>1, FS_Subset
<1>3. PICK f : f = [c \in a .. b |-> p[c]]
  OBVIOUS
<1>4. f \in Injection(a .. b, W)
  <2>1. a .. b \subseteq 1 .. n
    OBVIOUS
  <2>2. f \in [a .. b -> W]
    BY <1>3
  <2>3. \A c, d \in a .. b : f[c] = f[d] => c = d
    BY <1>3, <2>1
  <2>4. DOMAIN f = a .. b
    BY <1>3
  <2>5. IsInjective(f)
    BY <2>3, <2>4, Zenon DEF IsInjective
  <2> QED
    BY <2>2, <2>5, Zenon DEF Injection
<1>5. Cardinality(a .. b) <= Cardinality(W)
  BY <1>2, <1>4, FS_Injection
<1>6. Cardinality(a .. b) = b - a + 1
  BY FS_Interval
<1>7. Cardinality(W) \in Nat
  BY <1>2, FS_CardinalityType
<1> QED
  BY <1>5, <1>6, <1>7

\* The middle samples lie between low and high if few of them all do not.
LEMMA MiddleSamples ==
  ASSUME NEW taken \in Windows, NEW low \in Nat, NEW high \in Nat,
         Cardinality({i \in 1 .. NumReads : ~(taken[i] \in low .. high)}) <= NumReads \div 2 - Half,
         NEW n \in 1 .. 2 * Half
  PROVE  Sorted(taken)[NumReads \div 2 - Half + n] \in low .. high
<1>1. PICK s, p : s = Sorted(taken) /\ Arranged(taken, s, NumReads, p)
  BY SortedArranged
<1>2. PICK m \in Nat, h \in Nat : /\ NumReads = m /\ Half = h /\ h > 0
                                  /\ h <= m \div 2 /\ m % 2 = 0
  BY BatteryConstants
<1>3. PICK q \in 1 .. m : q = m \div 2 - h + n
  BY <1>2
<1>4. /\ Ascending(s) /\ Len(s) = m /\ p \in [1 .. m -> 1 .. m]
      /\ \A a, b \in 1 .. m : p[a] = p[b] => a = b
      /\ \A a \in 1 .. m : s[a] = taken[p[a]]
      /\ \A a \in 1 .. m : s[a] \in Nat
  <2>1. Arranged(taken, s, m, p)
    BY <1>1, <1>2
  <2>2. s \in Seq(Nat) /\ Len(s) = m
    BY <2>1 DEF Arranged
  <2>3. \A a \in 1 .. m : s[a] \in Nat
    BY <2>2
  <2> QED
    BY <2>1, <2>3 DEF Arranged
<1>5. \A a, b \in 1 .. m : a <= b => s[a] <= s[b]
  BY <1>4 DEF Ascending
<1>6. PICK W \in SUBSET (1 .. m) : W = {i \in 1 .. m : ~(taken[i] \in low .. high)}
  OBVIOUS
<1>7. Cardinality(W) <= m \div 2 - h
  BY <1>2, <1>6
<1>8. CASE s[q] > high
  <2>1. \A c \in q .. m : p[c] \in W
    <3> SUFFICES ASSUME NEW c \in q .. m PROVE p[c] \in W
      OBVIOUS
    <3>1. c \in 1 .. m /\ p[c] \in 1 .. m
      BY <1>4
    <3>2. s[c] > high
      BY <1>4, <1>5, <1>8, <3>1
    <3>3. taken[p[c]] > high /\ taken[p[c]] \in Nat
      BY <1>4, <3>1, <3>2
    <3> QED
      BY <1>6, <3>1, <3>3
  <2>2. m \in 1 .. m /\ q <= m
    OBVIOUS
  <2>3. Cardinality(W) \in Nat /\ m - q + 1 <= Cardinality(W)
    BY <1>4, <2>1, <2>2, PlacesCount
  <2> QED
    BY <1>2, <1>3, <1>7, <2>3
<1>9. CASE s[q] < low
  <2>1. \A c \in 1 .. q : p[c] \in W
    <3> SUFFICES ASSUME NEW c \in 1 .. q PROVE p[c] \in W
      OBVIOUS
    <3>1. c \in 1 .. m /\ p[c] \in 1 .. m
      BY <1>4
    <3>2. s[c] < low
      BY <1>4, <1>5, <1>9, <3>1
    <3>3. taken[p[c]] < low /\ taken[p[c]] \in Nat
      BY <1>4, <3>1, <3>2
    <3> QED
      BY <1>6, <3>1, <3>3
  <2>2. 1 \in 1 .. m /\ 1 <= q
    OBVIOUS
  <2>3. Cardinality(W) \in Nat /\ q - 1 + 1 <= Cardinality(W)
    BY <1>4, <2>1, <2>2, PlacesCount
  <2> QED
    BY <1>2, <1>3, <1>7, <2>3
<1>10. s[q] \in Nat
  BY <1>4
<1> QED
  BY <1>1, <1>2, <1>3, <1>8, <1>9, <1>10

\* A measurement is a number of 10 bits.
LEMMA TenBits ==
  ASSUME NEW taken \in Windows
  PROVE  Middle(Sorted(taken)) \in 0 .. 1020
<1>1. PICK s, p : s = Sorted(taken) /\ Arranged(taken, s, NumReads, p)
  BY SortedArranged
<1>2. PICK m \in Nat, h \in Nat : /\ NumReads = m /\ Half = h /\ h > 0
                                  /\ h <= m \div 2 /\ m % 2 = 0
  BY BatteryConstants
<1>3. \A n \in 1 .. 2 * h : m \div 2 - h + n \in 1 .. m
  BY <1>2
<1>4. \A a \in 1 .. m : taken[a] \in 0 .. 255
  <2>1. taken \in [1 .. m -> 0 .. 255]
    BY <1>2, BatteryConstants
  <2> QED
    BY <2>1
<1>5. \A a \in 1 .. m : s[a] \in 0 .. 255
  BY <1>1, <1>2, <1>4 DEF Arranged
<1>6. \A n \in 1 .. 2 * Half : s[NumReads \div 2 - Half + n] \in 0 .. 255
  BY <1>2, <1>3, <1>5
<1>7. Middle(s) \in 4 * 0 .. 4 * 255
  <2>1. 0 \in Nat /\ 255 \in Nat
    OBVIOUS
  <2> QED
    BY <1>6, <2>1, MiddleOf, Zenon
<1>8. 4 * 0 = 0 /\ 4 * 255 = 1020
  OBVIOUS
<1> QED
  BY <1>1, <1>7, <1>8, Zenon

-----------------------------------------------------------------------------
\* A measurement.
LEMMA MeasureTells ==
  ASSUME TellInv, Measure
  PROVE  TruthInv' /\ ScaleInv' /\ FrameFaithful'
<1>1. TruthInv' /\ FrameFaithful'
  BY DEF Measure, TellInv, TruthInv, FrameFaithful
<1>2. PICK taken \in Windows : Sense(taken)
        /\ stage' = IF Weak(Bat(Middle(Sorted(taken)))) THEN "weak" ELSE "send"
  BY DEF Measure
<1>3. PICK v \in Nat : v = Middle(Sorted(taken)) /\ v <= 1020
  BY TenBits
<1>4. PICK s \in Nat : s = sensorMax /\ s >= 980 /\ s <= 65535 /\ (~drained => s <= 1016)
  BY DEF TellInv, ScaleInv
<1>5. PICK c : c = Calibrate(v)
  OBVIOUS
<1>6. /\ c \in Nat /\ c >= 980 /\ c <= 65535
      /\ v >= 4 /\ s <= 1016 => c <= 1016
  BY <1>3, <1>4, <1>5, CalibrateRange
<1>7. /\ sensorMax' = c
      /\ batteryPercent' = Percent((v * BATT_MAX) \div c)
      /\ drained' = (drained \/ v < 4)
      /\ sortedValues' = Sorted(taken)
  BY <1>2, <1>3, <1>5 DEF Sense, Bat
<1>8. (v * BATT_MAX) \div c \in Nat
  BY <1>6, HealthyOnScale
<1>9. PICK p \in Nat : p = batteryPercent' /\ p <= 100
  BY <1>7, <1>8, PercentRange
<1>10. stage' = "weak" => Weak((v * BATT_MAX) \div c)
  BY <1>2, <1>3, <1>5 DEF Bat
<1>11. ~drained' => c <= 1016
  <2>1. ~drained' => ~drained /\ ~(v < 4)
    BY <1>7, Zenon
  <2>2. ~(v < 4) => v >= 4
    OBVIOUS
  <2> QED
    BY <1>4, <1>6, <2>1, <2>2
<1>12. Middle(sortedValues') = v
  BY <1>3, <1>7
<1>13. ScaleInv'
  BY <1>3, <1>6, <1>7, <1>9, <1>10, <1>11, <1>12 DEF ScaleInv
<1> QED
  BY <1>1, <1>13

\* The other steps.
LEMMA QuietTells ==
  ASSUME TellInv, Visit \/ Over \/ LibraryStep \/ LineStep \/ Reboot
  PROVE  TruthInv' /\ ScaleInv' /\ FrameFaithful'
<1>1. FrameFaithful'
  BY DEF Visit, Over, LibraryStep, LineStep, SketchWaits, Reboot, FrameFaithful, NoFrame
<1>2. CASE Visit
  <2>1. TruthInv'
    BY <1>2 DEF Visit, TakeFix, TellInv, TruthInv
  <2>2. ScaleInv'
    BY <1>2 DEF Visit, batteryVars, TellInv, ScaleInv
  <2> QED
    BY <1>1, <2>1, <2>2
<1>3. CASE Over
  BY <1>1, <1>3 DEF Over, batteryVars, TellInv, TruthInv, ScaleInv
<1>4. CASE LibraryStep \/ LineStep
  BY <1>1, <1>4 DEF LibraryStep, LineStep, SketchWaits, batteryVars, TellInv, TruthInv, ScaleInv
<1>5. CASE Reboot
  BY <1>1, <1>5 DEF Reboot, TellInv, TruthInv, ScaleInv
<1> QED
  BY <1>2, <1>3, <1>4, <1>5

LEMMA TellInvInit == Init => TellInv
<1> SUFFICES ASSUME Init PROVE TellInv
  OBVIOUS
<1>1. FixInv
  BY FixInvInit
<1> QED
  BY <1>1 DEF Init, BatteryInit, TellInv, TruthInv, ScaleInv, FrameFaithful, NoFrame

LEMMA TellInvNext == TellInv /\ [Next]_vars => TellInv'
<1> SUFFICES ASSUME TellInv, [Next]_vars PROVE TellInv'
  OBVIOUS
<1>1. FixInv'
  BY FixInvNext DEF TellInv
<1>2. CASE UNCHANGED vars
  BY <1>1, <1>2 DEF vars, reportVars, batteryVars, TellInv, TruthInv, ScaleInv, FrameFaithful
<1>3. CASE SendWeak \/ SendRegular
  BY <1>1, <1>3, MessagesTell DEF TellInv
<1>4. CASE Measure
  BY <1>1, <1>4, MeasureTells DEF TellInv
<1>5. CASE Visit \/ Over \/ LibraryStep \/ LineStep \/ Reboot
  BY <1>1, <1>5, QuietTells DEF TellInv
<1> QED
  BY <1>2, <1>3, <1>4, <1>5 DEF Next

-----------------------------------------------------------------------------
(* What holds at every moment, in any order of reports, resets and late     *)
(* answers.                                                                 *)
THEOREM ReportInvariant == Spec => []TellInv
<1>1. TellInv /\ [Next]_vars => TellInv'
  BY TellInvNext
<1> QED
  BY <1>1, TellInvInit, PTL DEF Spec

(* The first frame of a visit tells battery, kind, speed to 18 km/h and     *)
(* altitude to 16 m, for every fix of 16 bits: makePayload(), sendSigFox(). *)
THEOREM FramesAreFaithful == Spec => []FrameFaithful
<1>1. TellInv => FrameFaithful
  BY DEF TellInv
<1> QED
  BY <1>1, ReportInvariant, PTL

(* No history of measurements makes a battery of 864 or more weak, but for  *)
(* one without any battery: batterySense().                                 *)
THEOREM HealthyIsNotWeak == Spec => []HealthyNotWeak
<1>1. TellInv => HealthyNotWeak
  <2> SUFFICES ASSUME TellInv, stage = "weak", samples # <<>>, ~drained,
                      ~(Middle(sortedValues) < 864)
               PROVE  FALSE
    BY DEF HealthyNotWeak
  <2>1. PICK v \in Nat, c \in Nat :
          /\ v = Middle(sortedValues) /\ c = sensorMax
          /\ c >= 980 /\ c <= 1016 /\ v >= 864 /\ Weak((v * BATT_MAX) \div c)
    BY DEF TellInv, ScaleInv
  <2> QED
    BY <2>1, HealthyOnScale
<1> QED
  BY <1>1, ReportInvariant, PTL

-----------------------------------------------------------------------------
\* While the samples of a measurement are there, the array is what the loop
\* over them makes of them.
SampledInv == samples # <<>> => samples \in Windows /\ sortedValues = Sorted(samples)

LEMMA SampledInvNext == SampledInv /\ [Next]_vars => SampledInv'
<1> SUFFICES ASSUME SampledInv, [Next]_vars PROVE SampledInv'
  OBVIOUS
<1>1. CASE UNCHANGED vars
  BY <1>1 DEF vars, batteryVars, SampledInv
<1>2. CASE Measure
  <2>1. PICK taken \in Windows : Sense(taken)
    BY <1>2 DEF Measure
  <2> QED
    BY <2>1 DEF Sense, SampledInv
<1>3. CASE SendWeak \/ SendRegular
  BY <1>3 DEF SendWeak, SendRegular, ForgetSamples, SampledInv
<1>4. CASE Visit \/ Over \/ LibraryStep \/ LineStep
  BY <1>4 DEF Visit, Over, LibraryStep, LineStep, SketchWaits, batteryVars, SampledInv
<1>5. CASE Reboot
  BY <1>5 DEF Reboot, SampledInv
<1> QED
  BY <1>1, <1>2, <1>3, <1>4, <1>5 DEF Next

(* The middle of the samples lies within the others when fewer than half of *)
(* them, less the part that is summed, are wild, for every NUM_READS and    *)
(* every order they come in: batterySense().                                *)
THEOREM SpikesAreIgnored == Spec => []SpikesIgnored
<1>1. Init => SampledInv
  BY DEF Init, BatteryInit, SampledInv
<1>2. SampledInv => SpikesIgnored
  <2> SUFFICES ASSUME SampledInv, samples # <<>>,
                      NEW low \in ToSet(samples), NEW high \in ToSet(samples),
                      Cardinality({i \in DOMAIN samples : ~(samples[i] \in low .. high)})
                        <= NumReads \div 2 - Half
               PROVE  Middle(sortedValues) \in 4 * low .. 4 * high
    BY Zenon DEF SpikesIgnored
  <2>1. PICK taken \in Windows : taken = samples /\ sortedValues = Sorted(taken)
    BY DEF SampledInv
  <2>2. taken \in [1 .. NumReads -> 0 .. 255]
    BY BatteryConstants
  <2>3. DOMAIN taken = 1 .. NumReads /\ \A i \in DOMAIN taken : taken[i] \in Nat
    <3>1. 0 .. 255 \subseteq Nat
      OBVIOUS
    <3>2. DOMAIN taken = 1 .. NumReads
      BY <2>2, Zenon
    <3>3. \A i \in 1 .. NumReads : taken[i] \in 0 .. 255
      BY <2>2, Zenon
    <3> QED
      BY <3>1, <3>2, <3>3, Zenon
  <2>4. low \in Nat /\ high \in Nat
    BY <2>1, <2>3, Zenon DEF ToSet
  <2>5. Cardinality({i \in 1 .. NumReads : ~(taken[i] \in low .. high)}) <= NumReads \div 2 - Half
    BY <2>1, <2>3, Zenon
  <2>6. \A n \in 1 .. 2 * Half : Sorted(taken)[NumReads \div 2 - Half + n] \in low .. high
    BY <2>4, <2>5, MiddleSamples, Zenon
  <2>7. Middle(Sorted(taken)) \in 4 * low .. 4 * high
    BY <2>4, <2>6, MiddleOf, Zenon
  <2> QED
    BY <2>1, <2>7, Zenon
<1>3. SampledInv /\ [Next]_vars => SampledInv'
  BY SampledInvNext
<1> QED
  BY <1>1, <1>2, <1>3, PTL DEF Spec

-----------------------------------------------------------------------------
\* The line to the modem, byte for byte.
Sent == OK \o SENT       \* a frame that was accepted and transmitted
Known == KO \o ID        \* an old answer before the identifier

\* What an answer that was already on its way can leave before a new one: nothing
\* that begins with it, and no letter O in its last but one place.
Leftover(T) ==
  /\ T \in Seq(Byte) /\ Len(T) <= 8
  /\ Len(T) > 3 => ~(T[1] = "K" /\ T[2] = "O" /\ T[3] = Semicolon)
  /\ Len(T) = 8 => T[7] # "O"

-----------------------------------------------------------------------------
\* The parts of a concatenation.
LEMMA Joined ==
  ASSUME NEW s \in Seq(Byte), NEW t \in Seq(Byte)
  PROVE  /\ Len(s) \in Nat /\ Len(t) \in Nat
         /\ s \o t \in Seq(Byte) /\ Len(s \o t) = Len(s) + Len(t)
         /\ \A i \in 1 .. Len(s) : (s \o t)[i] = s[i]
         /\ \A i \in 1 .. Len(t) : (s \o t)[Len(s) + i] = t[i]
<1>1. Len(s) \in Nat /\ Len(t) \in Nat
  OBVIOUS
<1>2. /\ s \o t \in Seq(Byte) /\ Len(s \o t) = Len(s) + Len(t)
      /\ \A i \in 1 .. Len(s) + Len(t) :
           (s \o t)[i] = IF i <= Len(s) THEN s[i] ELSE t[i - Len(s)]
  BY ConcatProperties
<1>3. \A i \in 1 .. Len(s) : (s \o t)[i] = s[i]
  BY <1>1, <1>2
<1>4. ASSUME NEW i \in 1 .. Len(t) PROVE (s \o t)[Len(s) + i] = t[i]
  <2>1. /\ Len(s) + i \in 1 .. Len(s) + Len(t) /\ ~(Len(s) + i <= Len(s))
        /\ (Len(s) + i) - Len(s) = i
    BY <1>1
  <2> QED
    BY <1>2, <2>1
<1> QED
  BY <1>1, <1>2, <1>3, <1>4

\* A concatenation of three.
LEMMA Regrouped ==
  ASSUME NEW s \in Seq(Byte), NEW t \in Seq(Byte), NEW u \in Seq(Byte)
  PROVE  (s \o t) \o u = s \o (t \o u)
  BY ConcatAssociative

\* A part of a sequence.
LEMMA Slice ==
  ASSUME NEW s, NEW a \in Int, NEW b \in Int, \A i \in a .. b : s[i] \in Byte
  PROVE  /\ SubSeq(s, a, b) \in Seq(Byte)
         /\ Len(SubSeq(s, a, b)) = IF a <= b THEN b - a + 1 ELSE 0
         /\ \A i \in 1 .. b - a + 1 : SubSeq(s, a, b)[i] = s[a + i - 1]
  BY SubSeqProperties

\* The semicolon is no other byte.
LEMMA Letters == Semicolon \notin {"K", "O", "S", "E", "N", "T", "x"}
  BY Zenon DEF Semicolon

\* The words of the modem.
LEMMA Words ==
  /\ KO \in Seq(Byte) /\ Len(KO) = 3 /\ KO[1] = "K" /\ KO[2] = "O" /\ KO[3] = Semicolon
  /\ OK \in Seq(Byte) /\ Len(OK) = 3 /\ OK[1] = "O" /\ OK[2] = "K" /\ OK[3] = Semicolon
  /\ SENT \in Seq(Byte) /\ Len(SENT) = 5
  /\ SENT[1] = "S" /\ SENT[2] = "E" /\ SENT[3] = "N" /\ SENT[4] = "T" /\ SENT[5] = Semicolon
  /\ <<>> \in Seq(Byte) /\ Len(<<>>) = 0
  BY DEF KO, OK, SENT, Byte

LEMMA IdentifierWord ==
  /\ ID \in Seq(Byte) /\ Len(ID) = 7
  /\ PlainIdentifier => /\ ID[1] # Semicolon /\ ID[2] # Semicolon
                        /\ ID[3] # Semicolon /\ ID[4] # Semicolon
  /\ ID[5] = "O" /\ ID[6] = "K" /\ ID[7] = Semicolon
<1>2. Identifier \in Seq(Byte) /\ Len(Identifier) = 4
  BY LinkConstants
<1>4. /\ Len(ID) = 4 + 3 /\ ID \in Seq(Byte)
      /\ \A i \in 1 .. 4 : ID[i] = Identifier[i]
      /\ \A i \in 1 .. 3 : ID[4 + i] = OK[i]
  <2>1. /\ Len(ID) = Len(Identifier) + Len(OK) /\ ID \in Seq(Byte)
        /\ \A i \in 1 .. Len(Identifier) : ID[i] = Identifier[i]
        /\ \A i \in 1 .. Len(OK) : ID[Len(Identifier) + i] = OK[i]
    BY <1>2, Joined, Words, Zenon DEF ID
  <2>2. Len(OK) = 3
    BY Words, Zenon
  <2> QED
    BY <1>2, <2>1, <2>2, Zenon
<1>5. ID[4 + 1] = OK[1] /\ ID[4 + 2] = OK[2] /\ ID[4 + 3] = OK[3]
  BY <1>4
<1>6. ID[5] = OK[1] /\ ID[6] = OK[2] /\ ID[7] = OK[3]
  BY <1>5
<1>7. PlainIdentifier => /\ ID[1] # Semicolon /\ ID[2] # Semicolon
                         /\ ID[3] # Semicolon /\ ID[4] # Semicolon
  BY <1>4 DEF PlainIdentifier
<1> QED
  BY <1>4, <1>6, <1>7, Words, Letters

\* How many faults are tolerated.
LEMMA ToleratedIs ==
  /\ 0 <= Tolerated /\ 1 <= Tolerated /\ ~(3 <= Tolerated)
  /\ 2 <= Tolerated => PlainIdentifier
  /\ \A n \in Nat : n <= Tolerated => n \in {0, 1, 2}
  BY DEF Tolerated

LEMMA SentWord ==
  /\ Sent \in Seq(Byte) /\ Len(Sent) = 8
  /\ Sent[1] = "O" /\ Sent[2] = "K" /\ Sent[3] = Semicolon /\ Sent[4] = "S"
  /\ Sent[5] = "E" /\ Sent[6] = "N" /\ Sent[7] = "T" /\ Sent[8] = Semicolon
<1>1. /\ Len(Sent) = 3 + 5 /\ Sent \in Seq(Byte)
      /\ \A i \in 1 .. 3 : Sent[i] = OK[i]
      /\ \A i \in 1 .. 5 : Sent[3 + i] = SENT[i]
  <2>1. /\ Len(Sent) = Len(OK) + Len(SENT) /\ Sent \in Seq(Byte)
        /\ \A i \in 1 .. Len(OK) : Sent[i] = OK[i]
        /\ \A i \in 1 .. Len(SENT) : Sent[Len(OK) + i] = SENT[i]
    BY Joined, Words, Zenon DEF Sent
  <2>2. Len(OK) = 3 /\ Len(SENT) = 5
    BY Words, Zenon
  <2> QED
    BY <2>1, <2>2, Zenon
<1>2. /\ Sent[3 + 1] = SENT[1] /\ Sent[3 + 2] = SENT[2] /\ Sent[3 + 3] = SENT[3]
      /\ Sent[3 + 4] = SENT[4] /\ Sent[3 + 5] = SENT[5]
  BY <1>1
<1>3. /\ Sent[4] = SENT[1] /\ Sent[5] = SENT[2] /\ Sent[6] = SENT[3]
      /\ Sent[7] = SENT[4] /\ Sent[8] = SENT[5]
  BY <1>2
<1>4. Sent[1] = OK[1] /\ Sent[2] = OK[2] /\ Sent[3] = OK[3]
  BY <1>1
<1> QED
  BY <1>1, <1>3, <1>4, Words, Letters

LEMMA KnownWord ==
  /\ Known \in Seq(Byte) /\ Len(Known) = 10 /\ Known[1] = "K"
  /\ (PlainIdentifier => Known[7] # Semicolon) /\ Known[8] = "O" /\ Known[9] = "K" /\ Known[10] = Semicolon
<1>1. /\ Len(Known) = 3 + 7 /\ Known \in Seq(Byte)
      /\ \A i \in 1 .. 3 : Known[i] = KO[i]
      /\ \A i \in 1 .. 7 : Known[3 + i] = ID[i]
  <2>1. /\ Len(Known) = Len(KO) + Len(ID) /\ Known \in Seq(Byte)
        /\ \A i \in 1 .. Len(KO) : Known[i] = KO[i]
        /\ \A i \in 1 .. Len(ID) : Known[Len(KO) + i] = ID[i]
    BY Joined, Words, IdentifierWord, Zenon DEF Known
  <2>2. Len(KO) = 3 /\ Len(ID) = 7
    BY Words, IdentifierWord, Zenon
  <2> QED
    BY <2>1, <2>2, Zenon
<1>2. Known[3 + 4] = ID[4] /\ Known[3 + 5] = ID[5] /\ Known[3 + 6] = ID[6] /\ Known[3 + 7] = ID[7]
  BY <1>1
<1>3. Known[7] = ID[4] /\ Known[8] = ID[5] /\ Known[9] = ID[6] /\ Known[10] = ID[7]
  BY <1>2
<1>4. Known[1] = KO[1]
  BY <1>1
<1> QED
  BY <1>1, <1>3, <1>4, Words, Letters, IdentifierWord

LEMMA Lengths ==
  /\ Len(<<>>) = 0 /\ Len(KO) = 3 /\ Len(OK) = 3 /\ Len(SENT) = 5
  /\ Len(ID) = 7 /\ Len(Sent) = 8 /\ Len(Known) = 10
  BY Words, IdentifierWord, SentWord, KnownWord, Zenon

\* What is short cannot pass for more than an answer.
LEMMA ShortIsLeft ==
  ASSUME NEW T \in Seq(Byte), Len(T) <= 3 PROVE Leftover(T)
<1>1. Len(T) \in Nat
  OBVIOUS
<1> QED
  BY <1>1 DEF Leftover

LEMMA EmptyIsLeft == Leftover(<<>>)
<1>1. Len(<<>>) = 0 /\ <<>> \in Seq(Byte)
  BY Lengths, Words, Zenon
<1>2. 0 <= 3
  OBVIOUS
<1> QED
  BY <1>1, <1>2, ShortIsLeft, Zenon

\* The end of any one answer is harmless when no byte of the identifier is a ';'.
LEMMA EndIsLeft ==
  ASSUME PlainIdentifier,
         NEW s \in Seq(Byte), NEW t \in Seq(Byte), s \o t \in {<<>>, KO, ID, Sent, SENT}
  PROVE  Leftover(t)
<1> DEFINE X == s \o t
<1>1. PICK m \in Nat, n \in Nat : m = Len(s) /\ n = Len(t) /\ Len(X) = m + n
  BY Joined
<1>2. \A i \in 1 .. n : X[m + i] = t[i]
  BY <1>1, Joined
<1>3. n >= 1 => t[1] = X[m + 1]
  BY <1>1, <1>2
<1>4. n >= 7 => t[7] = X[m + 7]
  BY <1>1, <1>2
<1> HIDE DEF X
<1>5. CASE X \in {<<>>, KO}
  <2>1. Len(X) = 0 \/ Len(X) = 3
    BY <1>5, Words, Zenon
  <2>2. n <= 3
    BY <1>1, <2>1
  <2> QED
    BY <1>1, <2>2, ShortIsLeft
<1>6. CASE X = ID
  <2>1. m + n = 7
    BY <1>1, <1>6, IdentifierWord
  <2>2. n > 3 => t[3] # Semicolon
    <3>1. n > 3 => t[3] = X[m + 3]
      BY <1>1, <1>2
    <3>2. n > 3 => m + 3 \in {3, 4, 5, 6}
      BY <2>1
    <3> QED
      BY <1>6, <3>1, <3>2, IdentifierWord, Letters
  <2>5. n <= 8 /\ n # 8
    BY <2>1
  <2>3. Len(t) <= 8 /\ Len(t) # 8
    BY <1>1, <2>5, Zenon
  <2>4. Len(t) > 3 => t[3] # Semicolon
    BY <1>1, <2>2, Zenon
  <2> QED
    BY <2>3, <2>4, Zenon DEF Leftover
<1>7. CASE X = Sent
  <2>1. m + n = 8
    BY <1>1, <1>7, SentWord
  <2>2. n = 7 => t[2] = Semicolon
    <3>1. n = 7 => t[2] = X[m + 2]
      BY <1>1, <1>2
    <3>2. n = 7 => m + 2 = 3
      BY <2>1
    <3> QED
      BY <1>7, <3>1, <3>2, SentWord
  <2>3. n > 3 /\ n # 7 => t[1] # "K"
    <3>1. n > 3 /\ n # 7 => m + 1 \in {1, 3, 4, 5}
      BY <2>1
    <3> QED
      BY <1>3, <1>7, <3>1, SentWord, Letters
  <2>4. n = 8 => t[7] # "O"
    <3>1. n = 8 => m + 7 = 7
      BY <2>1
    <3> QED
      BY <1>4, <1>7, <3>1, SentWord
  <2>5. n <= 8
    BY <2>1
  <2> QED
    BY <1>1, <2>2, <2>3, <2>4, <2>5, Letters DEF Leftover
<1>8. CASE X = SENT
  <2>1. m + n = 5
    BY <1>1, <1>8, Words, Letters
  <2>2. n > 3 => t[1] # "K"
    <3>1. n > 3 => m + 1 \in {1, 2}
      BY <2>1
    <3> QED
      BY <1>3, <1>8, <3>1, Words, Letters
  <2>5. n <= 8 /\ n # 8
    BY <2>1
  <2>3. Len(t) <= 8 /\ Len(t) # 8
    BY <1>1, <2>5, Zenon
  <2>4. Len(t) > 3 => t[1] # "K"
    BY <1>1, <2>2, Zenon
  <2> QED
    BY <2>3, <2>4, Zenon DEF Leftover
<1> QED
  BY <1>5, <1>6, <1>7, <1>8 DEF X

\* A window that closed too late swallows five bytes, and what is left is still harmless.
LEMMA FiveLess ==
  ASSUME NEW T, Leftover(T), NEW r, r = T \o KO, Len(r) > 4
  PROVE  SubSeq(r, 6, Len(r)) \in Seq(Byte) /\ Leftover(SubSeq(r, 6, Len(r)))
<1>0. T \in Seq(Byte) /\ KO \in Seq(Byte) /\ Len(KO) = 3
  BY Words DEF Leftover
<1>1. PICK n \in Nat : n = Len(T)
  BY <1>0
<1>2. /\ r \in Seq(Byte) /\ Len(r) = n + 3
      /\ \A i \in 1 .. n : r[i] = T[i]
      /\ \A i \in 1 .. 3 : r[n + i] = KO[i]
  <2>1. /\ r \in Seq(Byte) /\ Len(r) = Len(T) + Len(KO)
        /\ \A i \in 1 .. Len(T) : r[i] = T[i]
        /\ \A i \in 1 .. Len(KO) : r[Len(T) + i] = KO[i]
    BY <1>0, Joined, Zenon
  <2> QED
    BY <1>0, <1>1, <2>1, Zenon
<1>3. n > 1 /\ n <= 8
  BY <1>1, <1>2 DEF Leftover
<1>4. PICK c : c = SubSeq(r, 6, Len(r))
  OBVIOUS
<1>5. /\ c \in Seq(Byte)
      /\ Len(c) = IF 6 <= n + 3 THEN n + 3 - 6 + 1 ELSE 0
      /\ \A i \in 1 .. n - 2 : c[i] = r[5 + i]
  <2>1. PICK k \in Int : k = Len(r) /\ k = n + 3
    BY <1>2
  <2>2. PICK b \in Int : b = 6
    OBVIOUS
  <2>3. \A i \in b .. k : r[i] \in Byte
    BY <1>2, <2>1, <2>2
  <2>4. /\ SubSeq(r, b, k) \in Seq(Byte)
        /\ Len(SubSeq(r, b, k)) = IF b <= k THEN k - b + 1 ELSE 0
        /\ \A i \in 1 .. k - b + 1 : SubSeq(r, b, k)[i] = r[b + i - 1]
    BY <2>3, Slice
  <2>5. c = SubSeq(r, b, k)
    BY <1>4, <2>1, <2>2
  <2>6. \A i \in 1 .. k - b + 1 : c[i] = r[b + i - 1]
    BY <2>4, <2>5, Zenon
  <2>7. \A i \in 1 .. n - 2 : i \in 1 .. k - b + 1 /\ b + i - 1 = 5 + i
    BY <2>1, <2>2
  <2>8. \A i \in 1 .. n - 2 : c[i] = r[5 + i]
    BY <2>6, <2>7
  <2>9. c \in Seq(Byte) /\ Len(c) = IF b <= k THEN k - b + 1 ELSE 0
    BY <2>4, <2>5, Zenon
  <2>10. Len(c) = IF 6 <= n + 3 THEN n + 3 - 6 + 1 ELSE 0
    BY <2>1, <2>2, <2>9
  <2> QED
    BY <2>8, <2>9, <2>10, Zenon
<1>6. Len(c) <= 6 /\ (Len(c) > 3 => n \in {6, 7, 8})
  BY <1>3, <1>5
<1>7. n \in {6, 7, 8} => c[1] = r[6] /\ c[2] = r[7] /\ c[3] = r[8]
  <2>1. n \in {6, 7, 8} => /\ 1 \in 1 .. n - 2 /\ 2 \in 1 .. n - 2 /\ 3 \in 1 .. n - 2
                           /\ 5 + 1 = 6 /\ 5 + 2 = 7 /\ 5 + 3 = 8
    OBVIOUS
  <2>2. \A i \in 1 .. n - 2 : c[i] = r[5 + i]
    BY <1>5
  <2> QED
    BY <2>1, <2>2
<1>8. n = 6 => r[7] = KO[1]
  BY <1>2
<1>9. n = 7 => r[8] = KO[1]
  BY <1>2
<1>10. n = 8 => r[7] = T[7]
  BY <1>2
<1>11. n = 8 => T[7] # "O"
  BY <1>1 DEF Leftover
<1>12. Len(c) > 3 => ~(c[1] = "K" /\ c[2] = "O" /\ c[3] = Semicolon)
  BY <1>6, <1>7, <1>8, <1>9, <1>10, <1>11, Words, Letters, Zenon
<1>13. Len(c) <= 8 /\ Len(c) # 8
  BY <1>5, <1>6
<1>14. Leftover(c)
  BY <1>5, <1>12, <1>13 DEF Leftover
<1> QED
  BY <1>4, <1>5, <1>14

\* When the answer to begin() stands alone in the buffer but another is on its way,
\* that other one is the answer, too.
LEMMA AnswerTwice ==
  ASSUME NEW T, Leftover(T), NEW w \in Seq(Byte), w # <<>>, KO \o w = T \o KO
  PROVE  w = KO
<1>0. T \in Seq(Byte) /\ KO \in Seq(Byte) /\ Len(KO) = 3
  BY Words DEF Leftover
<1>1. PICK n \in Nat : n = Len(T)
  BY <1>0
<1>2. PICK X : X = T \o KO
  OBVIOUS
<1>3. /\ Len(X) = n + 3
      /\ \A i \in 1 .. n : X[i] = T[i]
      /\ \A i \in 1 .. 3 : X[n + i] = KO[i]
  <2>1. /\ Len(X) = Len(T) + Len(KO)
        /\ \A i \in 1 .. Len(T) : X[i] = T[i]
        /\ \A i \in 1 .. Len(KO) : X[Len(T) + i] = KO[i]
    BY <1>0, <1>2, Joined, Zenon
  <2> QED
    BY <1>0, <1>1, <2>1, Zenon
<1>4. /\ Len(X) = 3 + Len(w) /\ Len(w) \in Nat
      /\ \A i \in 1 .. 3 : X[i] = KO[i]
      /\ \A i \in 1 .. Len(w) : X[3 + i] = w[i]
  <2>1. X = KO \o w
    BY <1>2
  <2>2. /\ Len(KO \o w) = Len(KO) + Len(w) /\ Len(w) \in Nat
        /\ \A i \in 1 .. Len(KO) : (KO \o w)[i] = KO[i]
        /\ \A i \in 1 .. Len(w) : (KO \o w)[Len(KO) + i] = w[i]
    BY <1>0, Joined, Zenon
  <2> QED
    BY <1>0, <2>1, <2>2, Zenon
<1>5. Len(w) = n /\ n # 0
  BY <1>3, <1>4
<1>6. X[1] = KO[1] /\ X[2] = KO[2] /\ X[3] = KO[3]
  BY <1>4
<1>7. n # 1
  <2>1. n = 1 => X[2] = KO[1]
    BY <1>3
  <2> QED
    BY <1>6, <2>1, Words, Zenon
<1>8. n # 2
  <2>1. n = 2 => X[3] = KO[1]
    BY <1>3
  <2> QED
    BY <1>6, <2>1, Words, Letters, Zenon
<1>9. ~(n > 3)
  <2>1. n > 3 => T[1] = X[1] /\ T[2] = X[2] /\ T[3] = X[3]
    BY <1>3
  <2> QED
    BY <1>1, <1>6, <2>1, Words, Zenon DEF Leftover
<1>10. n = 3
  BY <1>5, <1>7, <1>8, <1>9
<1>11. \A i \in 1 .. 3 : w[i] = KO[i]
  BY <1>3, <1>4, <1>5, <1>10
<1> QED
  BY <1>0, <1>5, <1>10, <1>11, SeqEqual

\* Reading up to the first ';' that counts takes off what is in front of it.
LEMMA Dropped ==
  ASSUME rx \in Seq(Byte), wire \in Seq(Byte), NEW X, rx \o wire = X,
         NEW m \in Nat \ {0}, NEW e \in m .. Len(X), X[e] = Semicolon,
         \A k \in m .. e - 1 : X[k] # Semicolon,
         Ends(m) # {}
  PROVE  /\ DropTo(Min(Ends(m))) \in Seq(Byte)
         /\ Len(DropTo(Min(Ends(m))) \o wire) = Len(X) - e
         /\ \A i \in 1 .. Len(X) - e : (DropTo(Min(Ends(m))) \o wire)[i] = X[e + i]
         /\ Head(rx) = X[1]
<1>1. PICK a \in Nat, b \in Nat : a = Len(rx) /\ b = Len(wire) /\ Len(X) = a + b
  BY Joined
<1>2. /\ \A i \in 1 .. a : X[i] = rx[i]
      /\ \A i \in 1 .. b : X[a + i] = wire[i]
  BY <1>1, Joined
<1>3. PICK d : d = Min(Ends(m))
  OBVIOUS
<1>4. d \in Ends(m) /\ \A y \in Ends(m) : d <= y
  <2>1. Ends(m) \subseteq Nat
    BY <1>1 DEF Ends
  <2> QED
    BY <1>3, <2>1, MinIsLeast
<1>5. d \in m .. a /\ rx[d] = Semicolon
  BY <1>1, <1>4 DEF Ends
<1>6. d = e
  <2>1. X[d] = Semicolon
    BY <1>2, <1>5
  <2>2. d >= e
    BY <1>1, <1>5, <2>1
  <2>3. e \in m .. a
    BY <1>1, <1>5, <2>2
  <2>4. rx[e] = Semicolon
    BY <1>2, <2>3
  <2>5. e \in Ends(m)
    BY <1>1, <2>3, <2>4 DEF Ends
  <2> QED
    BY <1>4, <1>5, <2>2, <2>5
<1>7. PICK c : c = SubSeq(rx, e + 1, a)
  OBVIOUS
<1>8. c = DropTo(Min(Ends(m)))
  BY <1>1, <1>3, <1>6, <1>7 DEF DropTo
<1>9. c \in Seq(Byte) /\ Len(c) = a - e /\ \A i \in 1 .. a - e : c[i] = X[e + i]
  <2>1. \A i \in e + 1 .. a : rx[i] \in Byte
    BY <1>1, <1>5
  <2>2. /\ c \in Seq(Byte)
        /\ Len(c) = IF e + 1 <= a THEN a - (e + 1) + 1 ELSE 0
        /\ \A i \in 1 .. a - (e + 1) + 1 : c[i] = rx[(e + 1) + i - 1]
    BY <1>7, <2>1, SubSeqProperties
  <2>3. e <= a
    BY <1>5, <1>6
  <2>4. Len(c) = a - e
    BY <2>2, <2>3
  <2>5. ASSUME NEW i \in 1 .. a - e PROVE c[i] = X[e + i]
    <3>1. i \in 1 .. a - (e + 1) + 1 /\ (e + 1) + i - 1 = e + i /\ e + i \in 1 .. a
      BY <2>3
    <3> QED
      BY <1>2, <2>2, <3>1
  <2> QED
    BY <2>2, <2>4, <2>5
<1>10. /\ Len(c \o wire) = (a - e) + b
       /\ \A i \in 1 .. a - e : (c \o wire)[i] = c[i]
       /\ \A i \in 1 .. b : (c \o wire)[(a - e) + i] = wire[i]
  <2>1. c \in Seq(Byte) /\ Len(c) = a - e /\ Len(wire) = b
    BY <1>1, <1>9, Zenon
  <2>2. /\ Len(c \o wire) = Len(c) + Len(wire)
        /\ \A i \in 1 .. Len(c) : (c \o wire)[i] = c[i]
        /\ \A i \in 1 .. Len(wire) : (c \o wire)[Len(c) + i] = wire[i]
    BY <2>1, Joined, Zenon
  <2> QED
    BY <2>1, <2>2, Zenon
<1>11. ASSUME NEW i \in 1 .. Len(X) - e PROVE (c \o wire)[i] = X[e + i]
  <2>1. CASE i <= a - e
    BY <1>9, <1>10, <2>1
  <2>2. CASE ~(i <= a - e)
    <3>1. PICK j \in 1 .. b : i = (a - e) + j
      <4>1. i - (a - e) \in 1 .. b /\ i = (a - e) + (i - (a - e))
        BY <1>1, <1>5, <1>6, <2>2
      <4> QED
        BY <4>1
    <3>2. e + i = a + j
      BY <3>1
    <3> QED
      BY <1>2, <1>10, <3>1, <3>2
  <2> QED
    BY <2>1, <2>2
<1>12. Head(rx) = X[1]
  <2>1. rx # <<>> /\ 1 \in 1 .. a
    BY <1>1, <1>5
  <2>2. Head(rx) = rx[1]
    BY <2>1
  <2> QED
    BY <1>2, <2>1, <2>2
<1>13. Len(c \o wire) = Len(X) - e
  BY <1>1, <1>10
<1> QED
  BY <1>8, <1>9, <1>11, <1>12, <1>13

\* The same when the whole answer is read.
LEMMA AllRead ==
  ASSUME rx \in Seq(Byte), wire \in Seq(Byte), NEW X, rx \o wire = X,
         NEW m \in Nat \ {0}, Len(X) >= m, X[Len(X)] = Semicolon,
         \A k \in m .. Len(X) - 1 : X[k] # Semicolon,
         Ends(m) # {}
  PROVE  /\ DropTo(Min(Ends(m))) \in Seq(Byte)
         /\ DropTo(Min(Ends(m))) \o wire = <<>>
         /\ Head(rx) = X[1]
<1>1. PICK e \in Nat : e = Len(X) /\ e \in m .. Len(X)
  BY Joined
<1>2. PICK c : c = DropTo(Min(Ends(m)))
  OBVIOUS
<1>3. c \in Seq(Byte) /\ Len(c \o wire) = 0 /\ Head(rx) = X[1]
  <2>1. X[e] = Semicolon /\ \A k \in m .. e - 1 : X[k] # Semicolon
    BY <1>1
  <2>2. c \in Seq(Byte) /\ Len(c \o wire) = Len(X) - e /\ Head(rx) = X[1]
    BY <1>1, <1>2, <2>1, Dropped, Zenon
  <2> QED
    BY <1>1, <2>2
<1>4. c \o wire = <<>>
  <2>1. c \o wire \in Seq(Byte)
    BY <1>3, Joined
  <2> QED
    BY <1>3, <2>1
<1> QED
  BY <1>2, <1>3, <1>4

-----------------------------------------------------------------------------
\* What is on its way or already received.
Stream == rx \o wire

\* An old command, or what is left of it, and a text that the modem makes of it.
Whole(o, t) ==
  \/ o = <<>> /\ t = <<>>
  \/ o = <<"NUL">> /\ t = KO
  \/ o = <<"SFID">> /\ t = ID
  \/ o = <<"SFM">> /\ t \in {KO, Sent}
  \/ o = <<"SENT">> /\ t = SENT
Old == {<<>>, <<"NUL">>, <<"SFID">>, <<"SFM">>, <<"SENT">>}

\* After one fault begin() finds what one old answer can leave, complete or not,
Harmless(o) == o \in Old /\ \A t : Whole(o, t) => Leftover(Stream \o t)
AtBegin == Harmless(owed)

\* and behind it, in time or not, its own answer.
AtWindow ==
  \/ \E o : owed = Append(o, "NUL") /\ Harmless(o)
  \/ owed = <<>> /\ \E T : Leftover(T) /\ Stream = T \o KO

\* Without a fault there is nothing but the answer to the call.
FirstTry ==
  /\ at = "begin" => Stream = <<>> /\ owed = <<>>
  /\ at = "window" => \/ Stream = <<>> /\ owed = <<"NUL">>
                      \/ Stream = KO /\ owed = <<>>

\* Once the modem is found, the line holds what the call that waits asked for, and,
\* after two faults, the answer to one more begin() in front of the identifier.
SyncedGetID ==
  \/ Stream = <<>> /\ owed = <<"SFID">>
  \/ Stream = ID /\ owed = <<>>
  \/ faults > 1 /\ \/ Stream = <<>> /\ owed = <<"NUL", "SFID">>
                   \/ Stream = KO /\ owed = <<"SFID">>
                   \/ Stream = Known /\ owed = <<>>
SyncedAnswer ==
  \/ Stream = <<>> /\ owed = <<"SFM">>
  \/ Stream = OK /\ owed = <<"SENT">>
  \/ Stream = Sent /\ owed = <<>> /\ onAir
  \/ Stream = KO /\ owed = <<>>
SyncedSent ==
  \/ Stream = <<>> /\ owed = <<"SENT">>
  \/ Stream = SENT /\ owed = <<>> /\ onAir
Synced ==
  /\ at = "getID" => SyncedGetID
  /\ at = "idle" => Stream = <<>> /\ owed = <<>> /\ (result = "true" => onAir)
  /\ at = "answer" => SyncedAnswer
  /\ at = "sent" => SyncedSent
  /\ at = "undefined" => Stream = <<>> /\ owed = <<>>
  /\ at # "idle" => result = "none"

LineInv ==
  /\ rx \in Seq(Byte) /\ wire \in Seq(Byte) /\ owed \in Seq(Command) /\ faults \in Nat
  /\ at \in {"begin", "window", "getID", "idle", "answer", "sent", "undefined"}
  /\ at \in {"begin", "window"} => ~found /\ result = "none"
  /\ at = "getID" \/ (faults = 0 /\ at \notin {"begin", "window"}) => found
LinkInv ==
  /\ LineInv
  /\ faults = 0 => FirstTry
  /\ PlainIdentifier /\ faults = 1 /\ at = "begin" => AtBegin
  /\ PlainIdentifier /\ faults = 1 /\ at = "window" => AtWindow
  /\ found /\ faults <= Tolerated => Synced

\* begin() adds its command.
LEMMA BeginKeeps == LinkInv /\ Begin => LinkInv'
<1> SUFFICES ASSUME LinkInv, Begin PROVE LinkInv'
  OBVIOUS
<1>1. at = "begin" /\ at' = "window" /\ ~found /\ ~found' /\ faults' = faults
  BY DEF LinkInv, LineInv, Begin
<1>2. Stream' = Stream /\ owed' = Append(owed, "NUL")
  BY DEF Begin, Stream
<1>3. LineInv'
  <2>1. "NUL" \in Command
    BY DEF Command
  <2>2. owed' \in Seq(Command)
    BY <1>2, <2>1, AppendProperties DEF LinkInv, LineInv
  <2> QED
    BY <2>2 DEF LinkInv, LineInv, Begin
<1>4. faults' = 0 => FirstTry'
  BY <1>1, <1>2 DEF LinkInv, FirstTry
<1>5. PlainIdentifier /\ faults' = 1 => AtWindow'
  <2> SUFFICES ASSUME PlainIdentifier, faults = 1 PROVE AtWindow'
    BY <1>1
  <2>1. Harmless(owed)
    BY <1>1 DEF LinkInv, AtBegin
  <2>2. (\A t : Whole(owed, t) => Leftover(Stream' \o t)) /\ owed \in Old
    BY <1>2, <2>1 DEF Harmless
  <2> QED
    BY <1>2, <2>2 DEF AtWindow, Harmless
<1> QED
  BY <1>1, <1>3, <1>4, <1>5 DEF LinkInv

\* The bytes of an answer arrive one after the other.
LEMMA ArriveKeepsStream ==
  ASSUME LinkInv, Arrive
  PROVE  Stream' = Stream /\ rx' \in Seq(Byte) /\ wire' \in Seq(Byte)
<1>1. rx \in Seq(Byte) /\ wire \in Seq(Byte)
  BY DEF LinkInv, LineInv
<1>2. PICK n \in 1 .. Len(wire) :
        rx' = rx \o SubSeq(wire, 1, n) /\ wire' = SubSeq(wire, n + 1, Len(wire))
  BY DEF Arrive
<1>3. PICK u, v : u = SubSeq(wire, 1, n) /\ v = SubSeq(wire, n + 1, Len(wire))
  OBVIOUS
<1>4. u \in Seq(Byte) /\ v \in Seq(Byte)
  BY <1>1, <1>3
<1>5. u \o v = wire
  <2>1. SubSeq(wire, 1, n) \o SubSeq(wire, n + 1, Len(wire)) = SubSeq(wire, 1, Len(wire))
    <3>1. 1 \in 1 .. Len(wire) + 1 /\ n \in 1 - 1 .. Len(wire) /\ Len(wire) \in n .. Len(wire)
      BY <1>1
    <3> QED
      BY <1>1, <3>1, ConcatAdjacentSubSeq
  <2>2. SubSeq(wire, 1, Len(wire)) = wire
    BY <1>1, SubSeqFull
  <2> QED
    BY <1>3, <2>1, <2>2
<1>6. (rx \o u) \o v = rx \o (u \o v)
  BY <1>1, <1>4, Regrouped, Zenon
<1>7. rx \o u \in Seq(Byte)
  BY <1>1, <1>4, Joined
<1> QED
  BY <1>2, <1>3, <1>4, <1>5, <1>6, <1>7 DEF Stream

LEMMA ArriveKeeps == LinkInv /\ Arrive => LinkInv'
<1> SUFFICES ASSUME LinkInv, Arrive PROVE LinkInv'
  OBVIOUS
<1>1. Stream' = Stream /\ rx' \in Seq(Byte) /\ wire' \in Seq(Byte)
  BY ArriveKeepsStream
<1>2. UNCHANGED <<at, found, result, owed, onAir, faults>>
  BY DEF Arrive
<1>3. LineInv'
  BY <1>1, <1>2 DEF LinkInv, LineInv
<1>4. FirstTry' = FirstTry
  BY <1>1, <1>2 DEF FirstTry
<1>5. Synced' = Synced
  BY <1>1, <1>2 DEF Synced, SyncedGetID, SyncedAnswer, SyncedSent
<1>6. AtBegin' = AtBegin
  BY <1>1, <1>2 DEF AtBegin, Harmless
<1>7. AtWindow' = AtWindow
  BY <1>1, <1>2 DEF AtWindow, Harmless
<1> QED
  BY <1>2, <1>3, <1>4, <1>5, <1>6, <1>7, Zenon DEF LinkInv

\* The old commands differ, and so do the texts made of them.
LEMMA OldDiffer ==
  /\ <<>> \notin {<<"NUL">>, <<"SFID">>, <<"SFM">>, <<"SENT">>}
  /\ <<"NUL">> \notin {<<"SFID">>, <<"SFM">>, <<"SENT">>}
  /\ <<"SFID">> \notin {<<"SFM">>, <<"SENT">>}
  /\ <<"SFM">> # <<"SENT">>
  OBVIOUS

LEMMA WholeIs ==
  ASSUME NEW t
  PROVE  /\ Whole(<<>>, t) <=> t = <<>>
         /\ Whole(<<"NUL">>, t) <=> t = KO
         /\ Whole(<<"SFID">>, t) <=> t = ID
         /\ Whole(<<"SFM">>, t) <=> t \in {KO, Sent}
         /\ Whole(<<"SENT">>, t) <=> t = SENT
  BY OldDiffer, Zenon DEF Whole

\* What the modem answers, and what it owes after that, is what was to come.
LEMMA AnswersAre ==
  /\ Answers("NUL") = {<<KO, <<>>>>}
  /\ Answers("SFID") = {<<ID, <<>>>>}
  /\ Answers("SFM") = {<<OK, <<"SENT">>>>, <<KO, <<>>>>}
  /\ Answers("SENT") = {<<SENT, <<>>>>}
  BY DEF Answers

LEMMA AnswerKinds ==
  ASSUME NEW c, NEW a \in Answers(c)
  PROVE  \/ a[1] = KO /\ a[2] = <<>>
         \/ a[1] = ID /\ a[2] = <<>>
         \/ a[1] = OK /\ a[2] \in {<<"SENT">>, <<"old SENT">>}
         \/ a[1] = SENT /\ a[2] = <<>>
<1>1. \A x, y : a = <<x, y>> => a[1] = x /\ a[2] = y
  OBVIOUS
<1>6. Answers("old SFM") = {<<OK, <<"old SENT">>>>, <<KO, <<>>>>}
  BY DEF Answers
<1>7. c \notin {"NUL", "SFID", "SFM", "old SFM"} => Answers(c) = {<<SENT, <<>>>>}
  BY DEF Answers
<1>8. \/ a = <<KO, <<>>>> \/ a = <<ID, <<>>>> \/ a = <<OK, <<"SENT">>>>
      \/ a = <<OK, <<"old SENT">>>> \/ a = <<SENT, <<>>>>
  BY <1>6, <1>7, AnswersAre, Zenon
<1> QED
  BY <1>1, <1>8, Zenon

LEMMA AnswerBytes ==
  ASSUME NEW c, NEW a \in Answers(c)
  PROVE  a[1] \in Seq(Byte)
<1>1. a[1] = KO \/ a[1] = ID \/ a[1] = OK \/ a[1] = SENT
  BY AnswerKinds, Zenon
<1> QED
  BY <1>1, Words, IdentifierWord, Zenon

LEMMA AnswerCommands ==
  ASSUME NEW c, NEW a \in Answers(c)
  PROVE  a[2] \in Seq(Command)
<1>1. a[2] = <<>> \/ a[2] = <<"SENT">> \/ a[2] = <<"old SENT">>
  BY AnswerKinds, Zenon
<1>2. <<>> \in Seq(Command) /\ <<"SENT">> \in Seq(Command) /\ <<"old SENT">> \in Seq(Command)
  BY DEF Command
<1> QED
  BY <1>1, <1>2, Zenon

\* The same of the one command that is left.
LEMMA AnswersTo ==
  ASSUME NEW a, NEW w, NEW r, w = a[1], r = a[2]
  PROVE  /\ a \in Answers("NUL") => w = KO /\ r = <<>>
         /\ a \in Answers("SFID") => w = ID /\ r = <<>>
         /\ a \in Answers("SFM") => (w = OK /\ r = <<"SENT">>) \/ (w = KO /\ r = <<>>)
         /\ a \in Answers("SENT") => w = SENT /\ r = <<>>
  BY AnswersAre

LEMMA AnswerWhole ==
  ASSUME NEW o \in Old, o # <<>>, NEW a \in Answers(Head(o)), NEW w, NEW r, w = a[1], r = a[2]
  PROVE  /\ r \in Old /\ Tail(o) = <<>>
         /\ \A t : Whole(r, t) => Whole(o, w \o t)
<1>1. KO \o <<>> = KO /\ ID \o <<>> = ID /\ SENT \o <<>> = SENT
  BY Words, IdentifierWord, ConcatEmptySeq, Zenon
<1>2. CASE o = <<"NUL">>
  <2>1. Head(o) = "NUL" /\ Tail(o) = <<>>
    BY <1>2
  <2>2. w = KO /\ r = <<>>
    BY <2>1, AnswersTo
  <2> QED
    BY <1>1, <1>2, <2>1, <2>2, WholeIs, Zenon DEF Old
<1>3. CASE o = <<"SFID">>
  <2>1. Head(o) = "SFID" /\ Tail(o) = <<>>
    BY <1>3
  <2>2. w = ID /\ r = <<>>
    BY <2>1, AnswersTo
  <2> QED
    BY <1>1, <1>3, <2>1, <2>2, WholeIs, Zenon DEF Old
<1>4. CASE o = <<"SFM">>
  <2>1. Head(o) = "SFM" /\ Tail(o) = <<>>
    BY <1>4
  <2>2. (w = OK /\ r = <<"SENT">>) \/ (w = KO /\ r = <<>>)
    BY <2>1, AnswersTo
  <2> QED
    BY <1>1, <1>4, <2>1, <2>2, WholeIs, Zenon DEF Old, Sent
<1>5. CASE o = <<"SENT">>
  <2>1. Head(o) = "SENT" /\ Tail(o) = <<>>
    BY <1>5
  <2>2. w = SENT /\ r = <<>>
    BY <2>1, AnswersTo
  <2> QED
    BY <1>1, <1>5, <2>1, <2>2, WholeIs, Zenon DEF Old
<1> QED
  BY <1>2, <1>3, <1>4, <1>5, Zenon DEF Old

LEMMA WholeBytes ==
  ASSUME NEW o, NEW t, Whole(o, t) PROVE t \in Seq(Byte)
  BY Words, Letters, IdentifierWord, SentWord DEF Whole

LEMMA AnswerHarmless ==
  ASSUME rx \in Seq(Byte), wire \in Seq(Byte), NEW o \in Old, o # <<>>, Harmless(o),
         NEW a \in Answers(Head(o)), NEW w \in Seq(Byte), NEW r,
         w = a[1], r = a[2], Stream' = Stream \o w
  PROVE  Harmless(r)'
<1>1. Stream \in Seq(Byte)
  BY Joined DEF Stream
<1>2. r \in Old /\ \A t : Whole(r, t) => Whole(o, w \o t)
  BY AnswerWhole
<1>3. ASSUME NEW t, Whole(r, t) PROVE Leftover(Stream' \o t)
  <2>1. Leftover(Stream \o (w \o t))
    BY <1>2, <1>3 DEF Harmless
  <2>2. t \in Seq(Byte)
    BY <1>3, WholeBytes
  <2>3. (Stream \o w) \o t = Stream \o (w \o t)
    BY <1>1, <2>2, Regrouped, Zenon
  <2> QED
    BY <2>1, <2>3
<1> QED
  BY <1>2, <1>3 DEF Harmless

LEMMA AnswerKeeps == LinkInv /\ Answer => LinkInv'
<1> SUFFICES ASSUME LinkInv, Answer PROVE LinkInv'
  OBVIOUS
<1>0. rx \in Seq(Byte) /\ wire \in Seq(Byte) /\ owed # <<>>
  BY DEF LinkInv, LineInv, Answer
<1>1. PICK a \in Answers(Head(owed)) : wire' = wire \o a[1] /\ owed' = a[2] \o Tail(owed)
  BY DEF Answer
<1>2. PICK w, r : /\ a \in Answers(Head(owed)) /\ w = a[1] /\ r = a[2]
                 /\ wire' = wire \o w /\ owed' = r \o Tail(owed)
  BY <1>1
<1>3. w \in Seq(Byte)
  BY <1>2, AnswerBytes
<1>4. UNCHANGED <<at, found, result, rx, faults>> /\ onAir' = (onAir \/ Head(owed) = "SENT")
  BY DEF Answer, libVars
<1>5. wire' \in Seq(Byte)
  BY <1>0, <1>2, <1>3, Joined
<1>6. Stream' = Stream \o w /\ Stream \in Seq(Byte)
  <2>1. Stream' = rx \o (wire \o w) /\ Stream = rx \o wire
    BY <1>2, <1>4 DEF Stream
  <2>2. rx \o wire \in Seq(Byte)
    BY <1>0, Joined, Zenon
  <2>3. (rx \o wire) \o w = rx \o (wire \o w)
    BY <1>0, <1>3, Regrouped, Zenon
  <2> QED
    BY <2>1, <2>2, <2>3, Zenon
<1>7. Stream = <<>> => Stream' = w
  BY <1>3, <1>6, ConcatEmptySeq
<1>8. LineInv'
  <2>1. owed \in Seq(Command) /\ Tail(owed) \in Seq(Command)
    BY <1>0, HeadTailProperties DEF LinkInv, LineInv
  <2>2. r \in Seq(Command)
    BY <1>2, AnswerCommands
  <2>3. owed' \in Seq(Command)
    BY <1>2, <2>1, <2>2, ConcatProperties
  <2> QED
    BY <1>4, <1>5, <2>3 DEF LinkInv, LineInv
<1>9. owed = <<"NUL">> => w = KO /\ owed' = <<>>
  <2>1. owed = <<"NUL">> => Head(owed) = "NUL" /\ Tail(owed) = <<>>
    OBVIOUS
  <2>2. owed = <<"NUL">> => w = KO /\ r = <<>>
    BY <1>2, <2>1, AnswersTo
  <2> QED
    BY <1>2, <2>1, <2>2
<1>19. r \in Seq(Command)
  BY <1>2, AnswerCommands
<1>10. faults' = 0 => FirstTry'
  BY <1>0, <1>4, <1>7, <1>9 DEF LinkInv, FirstTry
<1>11. ASSUME NEW o, Harmless(o), o # <<>>, Head(owed) = Head(o) PROVE Harmless(r)'
  BY <1>0, <1>2, <1>3, <1>6, <1>11, AnswerHarmless DEF Harmless
<1>12. PlainIdentifier /\ faults' = 1 /\ at' = "begin" => AtBegin'
  <2> SUFFICES ASSUME PlainIdentifier, faults = 1, at = "begin" PROVE AtBegin'
    BY <1>4
  <2>1. Harmless(owed) /\ owed \in Old
    BY DEF LinkInv, AtBegin, Harmless
  <2>2. Tail(owed) = <<>> /\ r \in Old
    BY <1>0, <1>2, <2>1, AnswerWhole
  <2>3. r \o <<>> = r
    BY <1>19, ConcatEmptySeq, Zenon
  <2>5. owed' = r
    BY <1>2, <2>2, <2>3, Zenon
  <2>4. Harmless(r)'
    BY <1>0, <1>11, <2>1
  <2> QED
    BY <2>4, <2>5, Zenon DEF AtBegin, Harmless
<1>13. PlainIdentifier /\ faults' = 1 /\ at' = "window" => AtWindow'
  <2> SUFFICES ASSUME PlainIdentifier, faults = 1, at = "window" PROVE AtWindow'
    BY <1>4
  <2>1. PICK o : owed = Append(o, "NUL") /\ Harmless(o)
    BY <1>0 DEF LinkInv, AtWindow
  <2>2. CASE o = <<>>
    <3>1. owed = <<"NUL">>
      BY <2>1, <2>2
    <3>2. Leftover(Stream)
      <4>1. Leftover(Stream \o <<>>)
        BY <2>1, <2>2 DEF Harmless, Whole
      <4> QED
        BY <1>6, <4>1, ConcatEmptySeq
    <3>3. Stream' = Stream \o KO /\ owed' = <<>>
      BY <1>6, <1>9, <3>1
    <3> QED
      BY <3>2, <3>3 DEF AtWindow
  <2>3. CASE o # <<>>
    <3>1. o \in Old
      BY <2>1 DEF Harmless
    <3>2. Head(owed) = Head(o) /\ Tail(owed) = <<"NUL">>
      <4>1. o \in Seq(Command) /\ Tail(o) = <<>>
        <5>1. /\ <<"NUL">> \in Seq(Command) /\ Tail(<<"NUL">>) = <<>>
              /\ <<"SFID">> \in Seq(Command) /\ Tail(<<"SFID">>) = <<>>
              /\ <<"SFM">> \in Seq(Command) /\ Tail(<<"SFM">>) = <<>>
              /\ <<"SENT">> \in Seq(Command) /\ Tail(<<"SENT">>) = <<>>
          BY DEF Command
        <5> QED
          BY <2>3, <3>1, <5>1, Zenon DEF Old
      <4>2. Head(Append(o, "NUL")) = Head(o) /\ Tail(Append(o, "NUL")) = Append(Tail(o), "NUL")
        BY <2>3, <4>1, HeadTailAppend
      <4>3. Append(<<>>, "NUL") = <<"NUL">>
        OBVIOUS
      <4> QED
        BY <2>1, <4>1, <4>2, <4>3, Zenon
    <3>3. Harmless(r)'
      BY <1>11, <2>1, <2>3, <3>2
    <3>4. r \in Old
      BY <3>3 DEF Harmless
    <3>5. owed' = Append(r, "NUL")
      <4>1. "NUL" \in Command
        BY DEF Command
      <4>2. Append(r, "NUL") = r \o <<"NUL">>
        BY <1>19, <4>1, AppendIsConcat
      <4> QED
        BY <1>2, <3>2, <4>2, Zenon
    <3> QED
      BY <3>3, <3>5 DEF AtWindow
  <2> QED
    BY <2>2, <2>3
<1>14. owed = <<"SFID">> => w = ID /\ owed' = <<>>
  <2>1. owed = <<"SFID">> => Head(owed) = "SFID" /\ Tail(owed) = <<>>
    OBVIOUS
  <2>2. owed = <<"SFID">> => w = ID /\ r = <<>>
    BY <1>2, <2>1, AnswersTo
  <2> QED
    BY <1>2, <2>1, <2>2
<1>15. owed = <<"SFM">> => (w = OK /\ owed' = <<"SENT">>) \/ (w = KO /\ owed' = <<>>)
  <2>1. owed = <<"SFM">> => Head(owed) = "SFM" /\ Tail(owed) = <<>>
    OBVIOUS
  <2>2. owed = <<"SFM">> => (w = OK /\ r = <<"SENT">>) \/ (w = KO /\ r = <<>>)
    BY <1>2, <2>1, AnswersTo
  <2> QED
    BY <1>2, <2>1, <2>2
<1>16. owed = <<"SENT">> => w = SENT /\ owed' = <<>> /\ onAir'
  <2>1. owed = <<"SENT">> => Head(owed) = "SENT" /\ Tail(owed) = <<>>
    OBVIOUS
  <2>2. owed = <<"SENT">> => w = SENT /\ r = <<>>
    BY <1>2, <2>1, AnswersTo
  <2>3. owed = <<"SENT">> => onAir'
    BY <1>4, <2>1, Zenon
  <2> QED
    BY <1>2, <2>1, <2>2, <2>3
<1>17. owed = <<"NUL", "SFID">> => w = KO /\ owed' = <<"SFID">>
  <2>1. owed = <<"NUL", "SFID">> => Head(owed) = "NUL" /\ Tail(owed) = <<"SFID">>
    OBVIOUS
  <2>2. owed = <<"NUL", "SFID">> => w = KO /\ r = <<>>
    BY <1>2, <2>1, AnswersTo
  <2>3. <<>> \o <<"SFID">> = <<"SFID">>
    OBVIOUS
  <2> QED
    BY <1>2, <2>1, <2>2, <2>3, Zenon
<1>18. found' /\ faults' <= Tolerated => Synced'
  <2> SUFFICES ASSUME found, faults <= Tolerated PROVE Synced'
    BY <1>4
  <2>0. Synced
    BY DEF LinkInv
  <2>1. CASE at = "getID"
    <3>1. SyncedGetID'
      BY <1>0, <1>4, <1>6, <1>7, <1>9, <1>14, <1>17, <2>0, <2>1 DEF Synced, SyncedGetID, Known
    <3> QED
      BY <1>4, <2>0, <2>1, <3>1 DEF Synced
  <2>2. CASE at = "idle"
    BY <1>0, <2>0, <2>2 DEF Synced
  <2>3. CASE at = "answer"
    <3>1. SyncedAnswer'
      BY <1>0, <1>4, <1>6, <1>7, <1>15, <1>16, <2>0, <2>3 DEF Synced, SyncedAnswer, Sent
    <3> QED
      BY <1>4, <2>0, <2>3, <3>1 DEF Synced
  <2>4. CASE at = "sent"
    <3>1. SyncedSent'
      BY <1>0, <1>4, <1>6, <1>7, <1>16, <2>0, <2>4 DEF Synced, SyncedSent
    <3> QED
      BY <1>4, <2>0, <2>4, <3>1 DEF Synced
  <2>5. CASE at \in {"begin", "window"}
    BY <2>5 DEF LinkInv, LineInv
  <2>6. CASE at = "undefined"
    BY <1>0, <2>0, <2>6 DEF Synced
  <2> QED
    BY <2>1, <2>2, <2>3, <2>4, <2>5, <2>6 DEF LinkInv, LineInv
<1> QED
  BY <1>8, <1>10, <1>12, <1>13, <1>18 DEF LinkInv

\* Without a fault, what is to come is one answer.
LEMMA OneAnswer ==
  ASSUME LinkInv, faults = 0
  PROVE  owed \in Old /\ \A t : Whole(owed, t) => Stream \o t \in {<<>>, KO, ID, Sent, SENT}
<1> DEFINE Goal == owed \in Old /\ \A t : Whole(owed, t) => Stream \o t \in {<<>>, KO, ID, Sent, SENT}
<1>1. ASSUME Stream = <<>>, owed \in Old PROVE Goal
  <2>1. \A t : Whole(owed, t) => Stream \o t = t
    BY <1>1, WholeBytes, ConcatEmptySeq
  <2> QED
    BY <1>1, <2>1 DEF Whole
<1>2. ASSUME Stream \in {KO, ID, Sent, SENT}, owed = <<>> PROVE Goal
  <2>1. Stream \in Seq(Byte)
    BY <1>2, Words, Letters, IdentifierWord, SentWord
  <2>2. Stream \o <<>> = Stream
    BY <2>1, ConcatEmptySeq
  <2> QED
    BY <1>2, <2>2 DEF Whole, Old
<1>3. ASSUME Stream = OK, owed = <<"SENT">> PROVE Goal
  BY <1>3 DEF Whole, Old, Sent
<1>4. CASE at \in {"begin", "window"}
  BY <1>1, <1>2, <1>4 DEF LinkInv, FirstTry, Old
<1>5. CASE at \notin {"begin", "window"}
  <2>1. Synced
    BY <1>5, ToleratedIs DEF LinkInv, LineInv
  <2>2. at \in {"getID", "idle", "answer", "sent", "undefined"}
    BY <1>5 DEF LinkInv, LineInv
  <2> QED
    BY <1>1, <1>2, <1>3, <2>1, <2>2 DEF Synced, SyncedGetID, SyncedAnswer, SyncedSent, Old
<1> QED
  BY <1>4, <1>5

\* Its end, which the next call finds when the buffer is emptied too early.
LEMMA EndIsHarmless ==
  ASSUME PlainIdentifier, LinkInv, faults = 0, Stream' = wire, owed' = owed PROVE AtBegin'
<1>1. rx \in Seq(Byte) /\ wire \in Seq(Byte)
  BY DEF LinkInv, LineInv
<1>2. ASSUME NEW t, Whole(owed, t) PROVE Leftover(wire \o t)
  <2>1. t \in Seq(Byte)
    BY <1>2, WholeBytes
  <2>2. (rx \o wire) \o t = rx \o (wire \o t)
    BY <1>1, <2>1, Regrouped, Zenon
  <2>3. rx \o (wire \o t) \in {<<>>, KO, ID, Sent, SENT}
    BY <1>2, <2>2, OneAnswer DEF Stream
  <2>4. wire \o t \in Seq(Byte)
    BY <1>1, <2>1, Joined
  <2> QED
    BY <1>1, <2>3, <2>4, EndIsLeft
<1>3. owed' \in Old /\ \A t : Whole(owed', t) => Leftover(Stream' \o t)
  BY <1>2, OneAnswer
<1> QED
  BY <1>3 DEF AtBegin, Harmless

LEMMA RestartKeeps == LinkInv /\ Restart => LinkInv'
<1> SUFFICES ASSUME LinkInv, Restart PROVE LinkInv'
  OBVIOUS
<1>1. /\ at' = "begin" /\ rx' = <<>> /\ found' = FALSE /\ faults' = faults + 1
      /\ UNCHANGED <<wire, owed>>
  BY DEF Restart, modemVars
<1>2. Stream' = wire
  <2>1. <<>> \o wire = wire
    BY ConcatEmptySeq, Zenon DEF LinkInv, LineInv
  <2> QED
    BY <1>1, <2>1 DEF Stream
<1>3. LineInv'
  <2>1. <<>> \in Seq(Byte)
    BY Words, Zenon
  <2> QED
    BY <1>1, <2>1 DEF LinkInv, LineInv, Restart
<1>4. PlainIdentifier /\ faults' = 1 => AtBegin'
  BY <1>1, <1>2, EndIsHarmless DEF LinkInv, LineInv
<1>5. faults' # 0
  BY <1>1 DEF LinkInv, LineInv
<1> QED
  BY <1>1, <1>3, <1>4, <1>5 DEF LinkInv


\* What is left in the buffer is bytes.
LEMMA BufferBytes ==
  ASSUME rx \in Seq(Byte), NEW n \in Nat \ {0}
  PROVE  SubSeq(rx, n, Len(rx)) \in Seq(Byte)
<1>1. \A i \in n .. Len(rx) : rx[i] \in Byte
  OBVIOUS
<1> QED
  BY <1>1, SubSeqProperties

\* What is left when a line was read.
LEMMA DroppedBytes ==
  ASSUME rx \in Seq(Byte), NEW m \in Nat, Ends(m) # {}
  PROVE  DropTo(Min(Ends(m))) \in Seq(Byte)
<1>1. PICK d : d = Min(Ends(m))
  OBVIOUS
<1>2. Ends(m) \subseteq Nat
  BY DEF Ends
<1>3. d \in Nat /\ d + 1 \in Nat \ {0}
  BY <1>1, <1>2, MinIsLeast
<1> QED
  BY <1>1, <1>3, BufferBytes DEF DropTo

\* The window of begin() closes: nothing was missing,
LEMMA ClosedInTime ==
  ASSUME LinkInv, WindowClose, owed = <<>>, wire = <<>>, LineInv'
  PROVE  LinkInv'
<1>1. /\ rx \in Seq(Byte) /\ at = "window" /\ ~found /\ result = "none"
      /\ faults' = faults /\ wire' = <<>> /\ result' = "none" /\ faults \in Nat
  <2>1. owed \o wire = <<>>
    BY ConcatEmptySeq DEF LinkInv, LineInv
  <2> QED
    BY <2>1 DEF LinkInv, LineInv, WindowClose
<1>2. Stream = rx
  BY <1>1, ConcatEmptySeq DEF Stream
<1>3. Stream' = rx'
  BY <1>1, ConcatEmptySeq DEF Stream, LineInv
<1>4. CASE rx = KO
  <2>1. rx' = <<>> /\ at' = "getID" /\ found' /\ owed' = <<"SFID">>
    BY <1>4, Words, Letters DEF WindowClose
  <2>2. Synced'
    BY <1>1, <1>3, <2>1 DEF Synced, SyncedGetID
  <2> QED
    BY <2>1, <2>2 DEF LinkInv, FirstTry
<1>5. CASE rx # KO
  <2>1. at' \in {"begin", "idle"} /\ ~found' /\ owed' = <<>>
    BY <1>1, <1>5 DEF WindowClose, TryAgain
  <2>2. faults # 0
    BY <1>1, <1>2, <1>5 DEF LinkInv, FirstTry
  <2>3. ASSUME PlainIdentifier, faults = 1 PROVE AtBegin'
    <3>1. PICK T : Leftover(T) /\ rx = T \o KO
      <4>1. \A o : owed = Append(o, "NUL") => ~Harmless(o)
        BY DEF Harmless, Old
      <4> QED
        BY <1>1, <1>2, <2>3, <4>1 DEF LinkInv, AtWindow
    <3>2. Leftover(rx')
      <4>1. CASE Len(rx) > 4
        BY <3>1, <4>1, FiveLess DEF WindowClose
      <4>2. CASE ~(Len(rx) > 4)
        <5>1. rx' = <<>>
          BY <4>2 DEF WindowClose
        <5> QED
          BY <5>1, EmptyIsLeft
      <4> QED
        BY <4>1, <4>2
    <3>3. Stream' \o <<>> = rx'
      BY <1>3, <3>2, ConcatEmptySeq DEF Leftover
    <3> QED
      BY <2>1, <3>2, <3>3 DEF AtBegin, Harmless, Whole, Old
  <2> QED
    BY <1>1, <2>1, <2>2, <2>3 DEF LinkInv
<1> QED
  BY <1>4, <1>5

\* something was missing for the first time,
LEMMA FirstLate ==
  ASSUME LinkInv, WindowClose, owed # <<>> \/ wire # <<>>, faults = 0
  PROVE  /\ rx # KO /\ Stream' = wire /\ owed' = owed
         /\ rx' = <<>> /\ ~found'
<1>1. rx \in Seq(Byte) /\ wire \in Seq(Byte) /\ at = "window" /\ ~found
  BY DEF LinkInv, LineInv, WindowClose
<1>2. Stream = <<>> \/ (Stream = KO /\ owed = <<>>)
  BY <1>1 DEF LinkInv, FirstTry
<1>3. Len(rx) \in Nat /\ Len(wire) \in Nat /\ Len(Stream) = Len(rx) + Len(wire)
  BY <1>1, Joined DEF Stream
<1>4. Len(rx) <= 3
  <2>1. Len(Stream) = 0 \/ Len(Stream) = 3
    BY <1>2, Lengths, Zenon
  <2> QED
    BY <1>3, <2>1
<1>5. rx # KO
  <2> SUFFICES ASSUME rx = KO PROVE FALSE
    OBVIOUS
  <2>1. Len(Stream) = 0 \/ (Len(Stream) = 3 /\ owed = <<>>)
    BY <1>2, Lengths, Zenon
  <2>2. Len(rx) = 3
    BY Lengths, Zenon
  <2>3. owed = <<>> /\ Len(wire) = 0
    BY <1>3, <2>1, <2>2
  <2>4. wire = <<>>
    BY <1>1, <2>3
  <2> QED
    BY <2>3, <2>4
<1>6. rx' = <<>> /\ wire' = wire /\ owed' = owed /\ ~found'
  BY <1>1, <1>4, <1>5 DEF WindowClose, TryAgain
<1>7. Stream' = wire
  BY <1>1, <1>6, ConcatEmptySeq DEF Stream
<1> QED
  BY <1>5, <1>6, <1>7

\* or once more: the modem is found by the answer to an earlier begin().
LEMMA SecondLate ==
  ASSUME PlainIdentifier, LinkInv, WindowClose, owed # <<>> \/ wire # <<>>,
         faults = 1, faults' = 2, found'
  PROVE  Synced'
<1>1. rx \in Seq(Byte) /\ wire \in Seq(Byte) /\ at = "window" /\ ~found /\ result = "none"
  BY DEF LinkInv, LineInv, WindowClose
<1>2. rx = KO
  BY <1>1 DEF WindowClose, TryAgain
<1>3. /\ rx' = <<>> /\ wire' = wire /\ at' = "getID" /\ owed' = Append(owed, "SFID")
      /\ result' = "none"
  BY <1>1, <1>2, Words, Letters DEF WindowClose
<1>4. Stream' = wire
  BY <1>1, <1>3, ConcatEmptySeq DEF Stream
<1>5. ASSUME NEW o, owed = Append(o, "NUL"), Harmless(o)
      PROVE  Stream' = <<>> /\ owed' = <<"NUL", "SFID">>
  <2>1. PICK t : Whole(o, t)
    BY <1>5 DEF Harmless, Old, Whole
  <2>2. t \in Seq(Byte) /\ Leftover((KO \o wire) \o t)
    BY <1>2, <1>5, <2>1, WholeBytes DEF Harmless, Stream
  <2>3. PICK u : u = KO \o wire
    OBVIOUS
  <2>4. /\ u \in Seq(Byte) /\ Len(u) = 3 + Len(wire) /\ Len(wire) \in Nat
        /\ \A i \in 1 .. 3 : u[i] = KO[i]
    <3>1. /\ KO \o wire \in Seq(Byte) /\ Len(KO \o wire) = Len(KO) + Len(wire)
          /\ Len(wire) \in Nat /\ \A i \in 1 .. Len(KO) : (KO \o wire)[i] = KO[i]
      BY <1>1, Joined, Words, Zenon
    <3> QED
      BY <2>3, <3>1, Lengths, Zenon
  <2>5. /\ Len(u \o t) = Len(u) + Len(t) /\ Len(t) \in Nat
        /\ \A i \in 1 .. Len(u) : (u \o t)[i] = u[i]
    BY <2>2, <2>4, Joined
  <2>6. (u \o t)[1] = "K" /\ (u \o t)[2] = "O" /\ (u \o t)[3] = Semicolon
    BY <2>4, <2>5, Words, Letters
  <2>7. ~(Len(u \o t) > 3)
    BY <2>2, <2>3, <2>6 DEF Leftover
  <2>8. Len(wire) = 0 /\ Len(t) = 0
    BY <2>4, <2>5, <2>7
  <2>9. wire = <<>>
    BY <1>1, <2>8
  <2>10. o = <<>>
    <3>2. Len(t) # 3 /\ Len(t) # 5 /\ Len(t) # 7 /\ Len(t) # 8
      BY <2>8
    <3>1. t # KO /\ t # ID /\ t # Sent /\ t # SENT
      BY <3>2, Lengths, Zenon
    <3> QED
      BY <2>1, <3>1, Zenon DEF Whole
  <2>11. owed' = <<"NUL", "SFID">>
    <3>1. Append(<<>>, "NUL") = <<"NUL">>
      OBVIOUS
    <3>2. PICK p, q : p = Append(<<"NUL">>, "SFID") /\ q = <<"NUL", "SFID">>
      OBVIOUS
    <3>3. <<"NUL">> \in Seq(Command) /\ "SFID" \in Command
      BY DEF Command
    <3>4. p \in Seq(Command) /\ Len(p) = 2 /\ p[1] = "NUL" /\ p[2] = "SFID"
      BY <3>2, <3>3, AppendProperties
    <3>5. q \in Seq(Command) /\ Len(q) = 2 /\ q[1] = "NUL" /\ q[2] = "SFID"
      BY <3>2 DEF Command
    <3>6. \A i \in 1 .. 2 : p[i] = q[i]
      <4>1. \A i \in 1 .. 2 : i = 1 \/ i = 2
        OBVIOUS
      <4> QED
        BY <3>4, <3>5, <4>1, Zenon
    <3>7. p = q
      BY <3>4, <3>5, <3>6, SeqEqual
    <3> QED
      BY <1>3, <1>5, <2>10, <3>1, <3>2, <3>7, Zenon
  <2> QED
    BY <1>4, <2>9, <2>11
<1>6. ASSUME NEW T, owed = <<>>, Leftover(T), Stream = T \o KO
      PROVE  Stream' = KO /\ owed' = <<"SFID">>
  <2>1. wire # <<>>
    BY <1>6
  <2>2. wire = KO
    BY <1>1, <1>2, <1>6, <2>1, AnswerTwice DEF Stream
  <2> QED
    BY <1>3, <1>4, <1>6, <2>2
<1>7. AtWindow
  BY <1>1 DEF LinkInv
<1>8. SyncedGetID'
  BY <1>5, <1>6, <1>7 DEF AtWindow, SyncedGetID
<1> QED
  BY <1>3, <1>8 DEF Synced

LEMMA CloseKeeps == LinkInv /\ WindowClose => LinkInv'
<1> SUFFICES ASSUME LinkInv, WindowClose PROVE LinkInv'
  OBVIOUS
<1>1. /\ rx \in Seq(Byte) /\ wire \in Seq(Byte) /\ owed \in Seq(Command) /\ faults \in Nat
      /\ at = "window" /\ ~found /\ result = "none"
  BY DEF LinkInv, LineInv, WindowClose
<1>2. owed \o wire = <<>> <=> owed = <<>> /\ wire = <<>>
  <2>1. owed \in Seq(Command \cup Byte) /\ wire \in Seq(Command \cup Byte)
    BY <1>1, SeqMonotonic
  <2> QED
    BY <2>1, ConcatEqualIffEmpty
<1>3. rx' \in Seq(Byte)
  BY <1>1, Words, Letters, BufferBytes DEF WindowClose
<1>4. owed' \in Seq(Command)
  <2>1. "SFID" \in Command
    BY DEF Command
  <2>2. Append(owed, "SFID") \in Seq(Command)
    BY <1>1, <2>1, AppendProperties
  <2> QED
    BY <1>1, <2>2 DEF WindowClose, TryAgain
<1>5. /\ wire' = wire /\ faults' \in Nat /\ result' = "none"
      /\ at' \in {"begin", "idle", "getID"} /\ (at' = "getID" <=> found') /\ (found' <=> rx = KO)
  BY <1>1 DEF WindowClose, TryAgain
<1>6. CASE owed = <<>> /\ wire = <<>>
  <2>1. faults' = faults
    BY <1>2, <1>6 DEF WindowClose
  <2>2. faults = 0 => rx = KO
    BY <1>1, <1>6, ConcatEmptySeq DEF LinkInv, FirstTry, Stream
  <2>3. LineInv'
    BY <1>1, <1>3, <1>4, <1>5, <2>1, <2>2 DEF LineInv
  <2> QED
    BY <1>6, <2>3, ClosedInTime
<1>7. CASE owed # <<>> \/ wire # <<>>
  <2>1. faults' = faults + 1
    BY <1>2, <1>7 DEF WindowClose
  <2>2. LineInv'
    BY <1>1, <1>3, <1>4, <1>5, <2>1 DEF LineInv
  <2>3. CASE faults = 0
    <3>1. (PlainIdentifier => AtBegin') /\ ~found'
      BY <1>7, <2>3, FirstLate, EndIsHarmless
    <3> QED
      BY <1>5, <2>1, <2>2, <2>3, <3>1 DEF LinkInv
  <2>4. CASE faults = 1
    BY <1>5, <1>7, <2>1, <2>2, <2>4, SecondLate, ToleratedIs DEF LinkInv
  <2>5. CASE faults > 1
    BY <1>1, <2>1, <2>2, <2>5, ToleratedIs DEF LinkInv
  <2> QED
    BY <1>1, <2>3, <2>4, <2>5
<1> QED
  BY <1>6, <1>7

\* getID() takes the identifier, and an old answer in front of it with it.
LEMMA GetIDKeeps == LinkInv /\ GetID => LinkInv'
<1> SUFFICES ASSUME LinkInv, GetID PROVE LinkInv'
  OBVIOUS
<1>1. /\ rx \in Seq(Byte) /\ wire \in Seq(Byte) /\ owed \in Seq(Command) /\ faults \in Nat
      /\ at = "getID" /\ found /\ Ends(7) # {}
  BY DEF LinkInv, LineInv, GetID
<1>2. PICK c : c = DropTo(Min(Ends(7)))
  OBVIOUS
<1>3. /\ rx' = c /\ wire' = wire /\ owed' = owed /\ onAir' = onAir
      /\ at' \in {"idle", "undefined"} /\ UNCHANGED <<found, result, faults>>
  BY <1>2 DEF GetID, After, modemVars
<1>4. c \in Seq(Byte)
  BY <1>1, <1>2, DroppedBytes
<1>5. LineInv'
  BY <1>1, <1>3, <1>4 DEF LinkInv, LineInv
<1>6. ASSUME faults <= Tolerated PROVE Synced'
  <2>6. 7 \in Nat \ {0}
    OBVIOUS
  <2>1. Len(Stream) \in Nat /\ Len(Stream) >= 7
    <3>1. PICK k \in 7 .. Len(rx) : TRUE
      BY <1>1 DEF Ends
    <3>2. Len(Stream) = Len(rx) + Len(wire) /\ Len(rx) \in Nat /\ Len(wire) \in Nat
      BY <1>1, Joined DEF Stream
    <3> QED
      BY <3>1, <3>2
  <2>2. SyncedGetID /\ result = "none"
    BY <1>1, <1>6 DEF LinkInv, Synced
  <2>3. Stream \in {ID, Known} /\ owed = <<>>
    <3>3. PICK n \in Nat : n = Len(Stream) /\ n >= 7
      BY <2>1, Zenon
    <3>4. n # 0 /\ n # 3
      BY <3>3
    <3>2. Len(Stream) # 0 /\ Len(Stream) # 3
      BY <3>3, <3>4, Zenon
    <3>1. Stream # <<>> /\ Stream # KO
      BY <3>2, Lengths, Zenon
    <3> QED
      BY <2>2, <3>1, Zenon DEF SyncedGetID
  <2>4. c \o wire = <<>>
    <3>5. Stream # <<>>
      BY <2>1
    <3>1. CASE Stream = ID
      <4>1. Len(ID) >= 7 /\ ID[Len(ID)] = Semicolon /\ \A k \in 7 .. Len(ID) - 1 : ID[k] # Semicolon
        BY IdentifierWord
      <4> QED
        BY <1>1, <1>2, <2>6, <3>1, <4>1, AllRead, Zenon DEF Stream
    <3>2. CASE Stream = Known
      <4>1. Len(Known) >= 7 /\ Known[Len(Known)] = Semicolon
        BY KnownWord
      <4>3. PlainIdentifier
        <5>1. Stream # ID
          <6>1. PICK m, n : m = Len(ID) /\ n = Len(Known) /\ m = 7 /\ n = 10
            BY Lengths, Zenon
          <6>2. Len(ID) # Len(Known)
            BY <6>1
          <6> QED
            BY <3>2, <6>2, Zenon
        <5>2. faults > 1
          BY <2>3, <5>1, <3>5, <2>2 DEF SyncedGetID
        <5> QED
          BY <1>1, <1>6, <5>2, ToleratedIs
      <4>2. \A k \in 7 .. Len(Known) - 1 : Known[k] # Semicolon
        <5>1. \A k \in 7 .. Len(Known) - 1 : k = 7 \/ k = 8 \/ k = 9
          BY Lengths
        <5> QED
          BY <4>3, <5>1, KnownWord, Letters, Zenon
      <4> QED
        BY <1>1, <1>2, <2>6, <3>2, <4>1, <4>2, AllRead, Zenon DEF Stream
    <3> QED
      BY <2>3, <3>1, <3>2
  <2>5. Stream' = <<>>
    BY <1>3, <2>4 DEF Stream
  <2> QED
    BY <1>3, <2>2, <2>3, <2>5 DEF Synced
<1> QED
  BY <1>1, <1>3, <1>5, <1>6 DEF LinkInv, FirstTry

\* A frame is written when no answer is left.
LEMMA SendFrameKeeps == LinkInv /\ SendFrame => LinkInv'
<1> SUFFICES ASSUME LinkInv, SendFrame PROVE LinkInv'
  OBVIOUS
<1>1. /\ rx \in Seq(Byte) /\ wire \in Seq(Byte) /\ owed \in Seq(Command) /\ faults \in Nat
      /\ at = "idle"
  BY DEF LinkInv, LineInv, SendFrame
<1>2. PICK d : d = [k \in DOMAIN owed |-> Older(owed[k])] /\ owed' = Append(d, "SFM")
  BY DEF SendFrame
<1>3. /\ at' = "answer" /\ result' = "none" /\ UNCHANGED <<rx, found, wire, faults>>
  BY DEF SendFrame
<1>4. d \in Seq(Command)
  <2>1. PICK n \in Nat : n = Len(owed) /\ DOMAIN owed = 1 .. n
    BY <1>1, LenProperties
  <2>2. \A k \in 1 .. n : Older(owed[k]) \in Command
    <3>1. \A k \in 1 .. n : owed[k] \in Command
      BY <1>1, <2>1
    <3> QED
      BY <3>1 DEF Older, Command
  <2>3. d \in [1 .. n -> Command]
    BY <1>2, <2>1, <2>2
  <2> QED
    BY <2>3
<1>5. owed' \in Seq(Command)
  <2>1. "SFM" \in Command
    BY DEF Command
  <2> QED
    BY <1>2, <1>4, <2>1, AppendProperties
<1>6. LineInv'
  BY <1>1, <1>3, <1>5 DEF LinkInv, LineInv
<1>7. ASSUME found, faults <= Tolerated PROVE Synced'
  <2>1. Stream = <<>> /\ owed = <<>>
    BY <1>1, <1>7 DEF LinkInv, Synced
  <2>2. d = <<>>
    BY <1>2, <2>1
  <2>3. owed' = <<"SFM">>
    BY <1>2, <2>2
  <2>4. Stream' = <<>>
    BY <1>3, <2>1 DEF Stream
  <2> QED
    BY <1>3, <2>3, <2>4 DEF Synced, SyncedAnswer
<1> QED
  BY <1>3, <1>6, <1>7 DEF LinkInv, FirstTry

\* send() reads its own answers.
LEMMA ReturnSynced ==
  ASSUME LinkInv, NextReturn, found, faults <= Tolerated PROVE Synced'
<1>1. /\ rx \in Seq(Byte) /\ wire \in Seq(Byte) /\ at \in {"answer", "sent"} /\ Ends(2) # {}
      /\ Synced /\ result = "none"
  BY DEF LinkInv, LineInv, NextReturn, Synced
<1>2. PICK c : c = DropTo(Min(Ends(2)))
  OBVIOUS
<1>3. /\ rx' = c /\ wire' = wire /\ owed' = owed /\ onAir' = onAir
  BY <1>2 DEF NextReturn, modemVars
<1>4. Stream' = c \o wire
  BY <1>3 DEF Stream
<1>5. Stream # <<>>
  <2>1. PICK k \in 2 .. Len(rx) : TRUE
    BY <1>1 DEF Ends
  <2>2. Len(Stream) = Len(rx) + Len(wire) /\ Len(rx) \in Nat /\ Len(wire) \in Nat
    BY <1>1, Joined DEF Stream
  <2> QED
    BY <2>1, <2>2
<1>6. Stream \in {OK, KO} => Stream' = <<>> /\ Head(rx) = Stream[1]
  <2>1. ASSUME NEW X \in {OK, KO}
        PROVE  /\ Len(X) >= 2 /\ X[Len(X)] = Semicolon
               /\ \A k \in 2 .. Len(X) - 1 : X[k] # Semicolon
    <3>1. Len(X) = 3 /\ X[3] = Semicolon /\ X[2] # Semicolon
      BY <2>1, Words, Letters, Zenon
    <3>2. \A k \in 2 .. Len(X) - 1 : k = 2
      BY <3>1
    <3>3. Len(X) >= 2
      BY <3>1
    <3> QED
      BY <3>1, <3>2, <3>3, Zenon
  <2>2. 2 \in Nat \ {0}
    OBVIOUS
  <2> QED
    BY <1>1, <1>2, <1>4, <2>1, <2>2, AllRead, Zenon DEF Stream
<1>7. Stream = SENT => Stream' = <<>>
  <2>1. Len(SENT) >= 2 /\ SENT[Len(SENT)] = Semicolon
    BY Words, Letters
  <2>2. \A k \in 2 .. Len(SENT) - 1 : SENT[k] # Semicolon
    <3>1. \A k \in 2 .. 4 : k \in {2, 3, 4}
      OBVIOUS
    <3> QED
      BY <3>1, Words, Letters
  <2>3. 2 \in Nat \ {0}
    OBVIOUS
  <2> QED
    BY <1>1, <1>2, <1>4, <2>1, <2>2, <2>3, AllRead, Zenon DEF Stream
<1>8. Stream = Sent => Stream' = SENT /\ Head(rx) = "O"
  <2> SUFFICES ASSUME Stream = Sent PROVE Stream' = SENT /\ Head(rx) = "O"
    OBVIOUS
  <2>1. 2 \in Nat \ {0} /\ 3 \in 2 .. Len(Sent) /\ \A k \in 2 .. 3 - 1 : k = 2
    BY Lengths
  <2>8. Sent[3] = Semicolon /\ \A k \in 2 .. 3 - 1 : Sent[k] # Semicolon
    BY <2>1, SentWord, Letters, Zenon
  <2>9. rx \o wire = Sent
    BY DEF Stream
  <2>10. PICK e \in 2 .. Len(Sent) : e = 3
    BY <2>1
  <2>11. Sent[e] = Semicolon /\ \A k \in 2 .. e - 1 : Sent[k] # Semicolon
    BY <2>8, <2>10, Zenon
  <2>13. /\ DropTo(Min(Ends(2))) \in Seq(Byte)
         /\ Len(DropTo(Min(Ends(2))) \o wire) = Len(Sent) - e
         /\ \A i \in 1 .. Len(Sent) - e : (DropTo(Min(Ends(2))) \o wire)[i] = Sent[e + i]
         /\ Head(rx) = Sent[1]
    <3>1. rx \in Seq(Byte) /\ wire \in Seq(Byte) /\ Ends(2) # {}
      BY <1>1
    <3> QED
      BY <2>1, <2>9, <2>11, <3>1, Dropped, ZenonT(60)
  <2>12. /\ c \in Seq(Byte) /\ Len(c \o wire) = Len(Sent) - e
         /\ \A i \in 1 .. Len(Sent) - e : (c \o wire)[i] = Sent[e + i]
         /\ Head(rx) = Sent[1]
    BY <1>2, <2>13, Zenon
  <2>2. /\ c \in Seq(Byte) /\ Len(c \o wire) = Len(Sent) - 3
        /\ \A i \in 1 .. Len(Sent) - 3 : (c \o wire)[i] = Sent[3 + i]
        /\ Head(rx) = Sent[1]
    BY <2>10, <2>12, Zenon
  <2>3. Len(Stream') = 5 /\ Stream' \in Seq(Byte)
    BY <1>1, <1>4, <2>2, Joined, SentWord
  <2>4. \A i \in 1 .. 5 : Stream'[i] = Sent[3 + i]
    <3>1. Len(Sent) - 3 = 5
      BY Lengths
    <3> QED
      BY <1>4, <2>2, <3>1, Zenon
  <2>5. /\ Stream'[1] = Sent[4] /\ Stream'[2] = Sent[5] /\ Stream'[3] = Sent[6]
        /\ Stream'[4] = Sent[7] /\ Stream'[5] = Sent[8]
    BY <2>4
  <2>6. \A i \in 1 .. 5 : Stream'[i] = SENT[i]
    <3>1. \A i \in 1 .. 5 : i \in {1, 2, 3, 4, 5}
      OBVIOUS
    <3> QED
      BY <2>5, <3>1, SentWord, Words, Letters
  <2>7. Stream' = SENT
    BY <2>3, <2>6, SeqEqual, Words, Letters
  <2> QED
    BY <2>2, <2>7, SentWord
<1>9. CASE at = "answer"
  <2>1. SyncedAnswer
    BY <1>1, <1>9 DEF Synced
  <2>2. CASE Stream = OK /\ owed = <<"SENT">>
    <3>1. Head(rx) = "O" /\ Stream' = <<>>
      BY <1>6, <2>2, Words, Letters
    <3>2. at' = "sent" /\ result' = "none"
      BY <1>1, <1>9, <3>1 DEF NextReturn
    <3> QED
      BY <1>3, <2>2, <3>1, <3>2 DEF Synced, SyncedSent
  <2>3. CASE Stream = Sent /\ owed = <<>> /\ onAir
    <3>1. at' = "sent" /\ result' = "none"
      BY <1>1, <1>8, <1>9, <2>3 DEF NextReturn
    <3> QED
      BY <1>3, <1>8, <2>3, <3>1 DEF Synced, SyncedSent
  <2>4. CASE Stream = KO /\ owed = <<>>
    <3>1. Head(rx) = "K" /\ Stream' = <<>>
      BY <1>6, <2>4, Words, Letters
    <3>2. at' = "idle" /\ result' = "false"
      BY <1>9, <3>1 DEF NextReturn
    <3> QED
      BY <1>3, <2>4, <3>1, <3>2 DEF Synced
  <2> QED
    BY <1>5, <2>1, <2>2, <2>3, <2>4 DEF SyncedAnswer
<1>10. CASE at = "sent"
  <2>1. Stream = SENT /\ owed = <<>> /\ onAir
    BY <1>1, <1>5, <1>10 DEF Synced, SyncedSent
  <2>2. at' = "idle"
    BY <1>10 DEF NextReturn
  <2> QED
    BY <1>3, <1>7, <2>1, <2>2 DEF Synced
<1> QED
  BY <1>1, <1>9, <1>10

LEMMA NextReturnKeeps == LinkInv /\ NextReturn => LinkInv'
<1> SUFFICES ASSUME LinkInv, NextReturn PROVE LinkInv'
  OBVIOUS
<1>1. /\ rx \in Seq(Byte) /\ at \in {"answer", "sent"} /\ Ends(2) # {} /\ faults \in Nat
  BY DEF LinkInv, LineInv, NextReturn
<1>2. rx' = DropTo(Min(Ends(2)))
  BY DEF NextReturn
<1>3. rx' \in Seq(Byte)
  BY <1>1, <1>2, DroppedBytes
<1>4. at' \in {"sent", "idle"} /\ UNCHANGED <<found, faults, wire, owed>>
  BY DEF NextReturn, modemVars
<1>5. LineInv'
  BY <1>1, <1>3, <1>4 DEF LinkInv, LineInv
<1>6. found' /\ faults' <= Tolerated => Synced'
  BY <1>4, ReturnSynced
<1> QED
  BY <1>4, <1>5, <1>6 DEF LinkInv, FirstTry

-----------------------------------------------------------------------------
\* The line of a program that begins is empty.
LEMMA LinkInvInit == Init => LinkInv
<1> SUFFICES ASSUME Init PROVE LinkInv
  OBVIOUS
<1>1. /\ at = "begin" /\ rx = <<>> /\ wire = <<>> /\ owed = <<>>
      /\ found = FALSE /\ result = "none" /\ faults = 0
  BY DEF Init, LinkInit
<1>2. LineInv
  BY <1>1 DEF LineInv
<1>3. Stream = <<>>
  BY <1>1 DEF Stream
<1> QED
  BY <1>1, <1>2, <1>3 DEF LinkInv, FirstTry

\* What the link keeps while the program does other things,
LEMMA QuietLine == LinkInv /\ UNCHANGED linkVars => LinkInv'
<1> SUFFICES ASSUME LinkInv, UNCHANGED linkVars PROVE LinkInv'
  OBVIOUS
<1>1. UNCHANGED <<at, rx, found, result, wire, owed, onAir, faults>>
  BY DEF linkVars, libVars, modemVars
<1>2. Stream' = Stream
  BY <1>1 DEF Stream
<1>3. AtBegin' = AtBegin /\ AtWindow' = AtWindow
  <2>1. \A o : Harmless(o) <=> Harmless(o)'
    BY <1>2 DEF Harmless
  <2> QED
    BY <1>1, <1>2, <2>1 DEF AtBegin, AtWindow
<1>4. LineInv' /\ FirstTry' = FirstTry
  BY <1>1, <1>2 DEF LinkInv, LineInv, FirstTry
<1>5. Synced' = Synced
  BY <1>1, <1>2 DEF Synced, SyncedGetID, SyncedAnswer, SyncedSent
<1> QED
  BY <1>1, <1>3, <1>4, <1>5 DEF LinkInv

\* and when a visit is over.
LEMMA OverKeeps == LinkInv /\ Over => LinkInv'
<1> SUFFICES ASSUME LinkInv, Over PROVE LinkInv'
  OBVIOUS
<1>1. /\ at = "idle" /\ result' = "none"
      /\ UNCHANGED <<at, rx, found, wire, owed, faults>>
  BY DEF Over
<1>2. Stream' = Stream
  BY <1>1 DEF Stream
<1>3. LineInv'
  BY <1>1 DEF LinkInv, LineInv
<1>4. found /\ faults <= Tolerated => Synced'
  BY <1>1, <1>2 DEF LinkInv, Synced
<1> QED
  BY <1>1, <1>3, <1>4 DEF LinkInv, FirstTry

LEMMA LinkInvNext == LinkInv /\ [Next]_vars => LinkInv'
<1> SUFFICES ASSUME LinkInv, [Next]_vars PROVE LinkInv'
  OBVIOUS
<1>1. CASE UNCHANGED vars
  BY <1>1, QuietLine DEF vars
<1>2. CASE Visit \/ Measure
  BY <1>2, QuietLine DEF Visit, Measure
<1>3. CASE SendWeak \/ SendRegular
  <2>1. UNCHANGED linkVars \/ \E m : SendSigFox(m)
    BY <1>3 DEF SendWeak, SendRegular
  <2>2. UNCHANGED linkVars \/ SendFrame
    BY <2>1 DEF SendSigFox
  <2> QED
    BY <2>2, QuietLine, SendFrameKeeps
<1>4. CASE Over
  BY <1>4, OverKeeps
<1>5. CASE LibraryStep
  BY <1>5, BeginKeeps, CloseKeeps, GetIDKeeps, NextReturnKeeps, QuietLine
  DEF LibraryStep, Library, Astray
<1>6. CASE LineStep
  BY <1>6, AnswerKeeps, ArriveKeeps DEF LineStep, Line
<1>7. CASE Reboot
  BY <1>7, RestartKeeps DEF Reboot
<1> QED
  BY <1>1, <1>2, <1>3, <1>4, <1>5, <1>6, <1>7 DEF Next

(* send() returns true only when the modem has transmitted this very frame, *)
(* whatever one late window or restart has left on the line, and whatever   *)
(* two have left when no byte of the identifier is a ';', however long the  *)
(* modem takes: begin(), getID(), send(), _nextReturn().                    *)
THEOREM TrueMeansSent == Spec => []SendTrueMeansSent
<1>1. LinkInv => SendTrueMeansSent
  BY DEF LinkInv, LineInv, Synced, SendTrueMeansSent
<1>2. LinkInv /\ [Next]_vars => LinkInv'
  BY LinkInvNext
<1> QED
  BY <1>1, <1>2, LinkInvInit, PTL DEF Spec

-----------------------------------------------------------------------------
\* What is or-ed together stays in 13 bits: a sum of weights, summed in any order,
\* is the sum of its parts.
Part(w, s) == IF w \in s THEN w ELSE 0
Total(s) ==
  Part(1, s) + Part(2, s) + Part(4, s) + Part(8, s) + Part(16, s) + Part(32, s) + Part(64, s)
  + Part(128, s) + Part(256, s) + Part(512, s) + Part(1024, s) + Part(2048, s) + Part(4096, s)

LEMMA TotalLess ==
  ASSUME NEW s \in SUBSET Weights
  PROVE  /\ Total(s) \in Nat /\ Total(s) <= 8191
         /\ s = {} => Total(s) = 0
         /\ \A x \in s : x \in Nat /\ x > 0 /\ Total(s) = x + Total(s \ {x})
<1>1. Total(s) \in Nat /\ Total(s) <= 8191 /\ (s = {} => Total(s) = 0)
  BY DEF Total, Part
<1>2. ASSUME NEW x \in s PROVE x \in Nat /\ x > 0 /\ Total(s) = x + Total(s \ {x})
  <2>1. x \in Weights /\ x \in Nat /\ x > 0
    BY DEF Weights
  <2>2. PICK t : t = s \ {x}
    OBVIOUS
  <2>3. \A w \in Weights : Part(w, s) = IF w = x THEN Part(w, t) + x ELSE Part(w, t)
    BY <2>1, <2>2 DEF Part, Weights
  <2>4. \A w \in Weights : Part(w, t) \in Nat
    BY DEF Part, Weights
  <2>5. Total(s) = x + Total(t)
    BY <2>1, <2>3, <2>4, SMTT(60) DEF Total, Weights
  <2> QED
    BY <2>1, <2>2, <2>5
<1> QED
  BY <1>1, <1>2

\* The sum of any set of weights.
LEMMA SumOfWeights ==
  ASSUME NEW B \in SUBSET Weights
  PROVE  SumSet(B) \in Nat /\ SumSet(B) <= 8191
<1> DEFINE Pick(s) == CHOOSE x \in s : TRUE
           Fold(h) == h = [s \in SUBSET B |->
                             IF s = {} THEN 0 ELSE Pick(s) + h[s \ {Pick(s)}]]
<1>1. \E h : Fold(h)
  <2>1. PICK h : h = [s \in SUBSET B |-> Total(s)]
    OBVIOUS
  <2>2. ASSUME NEW s \in SUBSET B
        PROVE  h[s] = IF s = {} THEN 0 ELSE Pick(s) + h[s \ {Pick(s)}]
    <3>1. h[s] = Total(s) /\ s \in SUBSET Weights
      BY <2>1
    <3>2. CASE s = {}
      BY <3>1, <3>2, TotalLess
    <3>3. CASE s # {}
      <4>1. PICK x : x = Pick(s)
        OBVIOUS
      <4>2. x \in s
        BY <3>3, <4>1
      <4>3. h[s \ {x}] = Total(s \ {x})
        BY <2>1
      <4>4. Total(s) = x + Total(s \ {x})
        BY <3>1, <4>2, TotalLess
      <4> QED
        BY <3>1, <3>3, <4>1, <4>3, <4>4
    <3> QED
      BY <3>2, <3>3
  <2>3. h = [s \in SUBSET B |-> IF s = {} THEN 0 ELSE Pick(s) + h[s \ {Pick(s)}]]
    BY <2>1, <2>2, Zenon
  <2> QED
    BY <2>3
<1>2. PICK h : Fold(h) /\ SumSet(B) = h[B]
  <2>1. Fold(CHOOSE h : Fold(h))
    BY <1>1, Zenon
  <2>2. SumSet(B) = (CHOOSE h : Fold(h))[B]
    BY DEF SumSet, FoldSet, MapThenFoldSet
  <2> QED
    BY <2>1, <2>2, Zenon
<1> DEFINE S == {n \in Nat : \A s \in SUBSET B : Total(s) <= n => h[s] = Total(s)}
<1>3. ASSUME NEW s \in SUBSET B, s # {}
      PROVE  \E x \in s : h[s] = x + h[s \ {x}]
  <2>1. PICK x : x = Pick(s) /\ x \in s
    BY <1>3
  <2> QED
    BY <1>2, <1>3, <2>1, Zenon
<1>4. h[{}] = 0 /\ Total({}) = 0
  <2>1. h[{}] = 0
    BY <1>2, Zenon
  <2> QED
    BY <2>1, TotalLess
<1> HIDE DEF Fold
<1>5. 0 \in S
  <2>1. ASSUME NEW s \in SUBSET B, Total(s) <= 0 PROVE s = {}
    <3> SUFFICES ASSUME NEW x \in s PROVE FALSE
      OBVIOUS
    <3>1. s \in SUBSET Weights /\ s \ {x} \in SUBSET Weights
      OBVIOUS
    <3>2. x \in Nat /\ x > 0 /\ Total(s) = x + Total(s \ {x})
      BY <3>1, TotalLess
    <3>3. Total(s \ {x}) \in Nat
      BY <3>1, TotalLess
    <3>4. PICK a \in Nat, b \in Nat : a = x /\ b = Total(s \ {x})
      BY <3>2, <3>3
    <3> QED
      BY <2>1, <3>2, <3>4
  <2> QED
    BY <1>4, <2>1
<1>6. ASSUME NEW n \in Nat, n \in S PROVE n + 1 \in S
  <2>1. ASSUME NEW s \in SUBSET B, Total(s) <= n + 1 PROVE h[s] = Total(s)
    <3>1. CASE s = {}
      BY <1>4, <3>1
    <3>2. CASE s # {}
      <4>1. PICK x \in s : h[s] = x + h[s \ {x}]
        BY <1>3, <3>2
      <4>2. x \in Nat /\ x > 0 /\ Total(s) = x + Total(s \ {x}) /\ Total(s \ {x}) \in Nat
        BY TotalLess
      <4>3. Total(s \ {x}) <= n
        BY <2>1, <4>2
      <4>4. h[s \ {x}] = Total(s \ {x})
        BY <1>6, <4>3
      <4> QED
        BY <4>1, <4>2, <4>4
    <3> QED
      BY <3>1, <3>2
  <2> QED
    BY <2>1
<1>7. \A n \in Nat : n \in S
  BY <1>5, <1>6, Induction
<1>8. Total(B) \in Nat /\ Total(B) <= 8191
  BY TotalLess
<1>9. h[B] = Total(B)
  BY <1>7, <1>8
<1> QED
  BY <1>2, <1>8, <1>9

\* Alone or overrun, a field of the frame keeps its width.
LEMMA PackWidth ==
  ASSUME NEW a \in Nat, NEW v \in Nat, NEW c, NEW b, NEW m
  PROVE  /\ Pack(a, v, c, b, m).spd \in Nat /\ Pack(a, v, c, b, m).spd < 128
         /\ Pack(a, v, c, b, m).alt \in Nat /\ Pack(a, v, c, b, m).alt < 8192
<1>1. v % 128 \in Nat /\ v % 128 < 128 /\ a % 8192 \in Nat /\ a % 8192 <= 8191
  OBVIOUS
<1>2. Or(a % 8192, v \div 128) \in Nat /\ Or(a % 8192, v \div 128) <= 8191
  <2>1. PICK p, q : p = a % 8192 /\ q = v \div 128
    OBVIOUS
  <2>2. Bits(p) \cup Bits(q) \in SUBSET Weights
    BY DEF Bits
  <2>3. PICK n \in Nat : n = SumSet(Bits(p) \cup Bits(q)) /\ n <= 8191
    BY <2>2, SumOfWeights
  <2>4. p \in Nat /\ p <= 8191
    BY <1>1, <2>1
  <2>5. Or(p, q) = p \/ Or(p, q) = n
    <3>1. n = SumSet(Bits(p) \cup Bits(q))
      BY <2>3
    <3>2. q = 0 => Or(p, q) = p
      BY Zenon DEF Or
    <3>3. q # 0 => Or(p, q) = SumSet(Bits(p) \cup Bits(q))
      BY Zenon DEF Or
    <3> QED
      BY <3>1, <3>2, <3>3, Zenon
  <2> QED
    BY <2>1, <2>3, <2>4, <2>5
<1>3. PICK n \in Nat : n = Or(a % 8192, v \div 128) /\ n <= 8191
  BY <1>2
<1> QED
  BY <1>1, <1>3 DEF Pack, SpeedField

-----------------------------------------------------------------------------
\* What the types rest on besides: the calls of begin() are counted, and only a
\* packed frame is made.
FieldsFit(x) == x.spd \in Nat /\ x.spd < 128 /\ x.alt \in Nat /\ x.alt < 8192
TypeInv ==
  /\ attempt \in 0 .. Attempts
  /\ at \in {"begin", "window", "getID", "answer", "sent", "idle", "undefined"}
  /\ at = "begin" => attempt < Attempts
  /\ result \in {"none", "true", "false"} /\ found \in BOOLEAN /\ onAir \in BOOLEAN
  /\ stage \in {"rest", "sense", "weak", "send", "over"}
  /\ frame.made => FieldsFit(frame.cpx)

LEMMA TypeInvInit == Init => TypeInv
<1> SUFFICES ASSUME Init PROVE TypeInv
  OBVIOUS
<1>1. /\ at = "begin" /\ attempt = 0 /\ found = FALSE /\ result = "none"
      /\ onAir \in BOOLEAN /\ stage = "rest" /\ frame = NoFrame
  BY DEF Init, LinkInit
<1>2. attempt \in 0 .. Attempts /\ attempt < Attempts
  BY <1>1, LinkConstants
<1>3. ~frame.made
  BY <1>1 DEF NoFrame
<1> QED
  BY <1>1, <1>2, <1>3 DEF TypeInv

\* A frame of any fix fits, compressed or not.
LEMMA FrameFits ==
  ASSUME FixInv, NEW m, NEW position PROVE FieldsFit(FrameOf(m, position))
<1>1. PICK c : c = Compressed(fix) /\ c \in AllFixes
  BY CompressedFix DEF FixInv
<1>2. PICK a \in Nat, v \in Nat : a = c.alt /\ v = c.spd
  BY <1>1 DEF AllFixes
<1>3. PICK cap, mode : cap = Cap(c.sat, c.course, position) /\ mode = Mode(m, c.sat)
  OBVIOUS
<1>4. FrameOf(m, position) = Pack(a, v, cap, batteryPercent, mode)
  BY <1>1, <1>2, <1>3, Zenon DEF FrameOf
<1> QED
  BY <1>4, PackWidth DEF FieldsFit

\* A frame is made and written, or neither.
LEMMA SendTypes ==
  ASSUME FixInv, TypeInv, NEW m, SendSigFox(m), stage' \in {"send", "over"} PROVE TypeInv'
<1>1. (frame' = NoFrame /\ UNCHANGED linkVars) \/ SendFrame
  BY DEF SendSigFox
<1>2. frame'.made => FieldsFit(frame'.cpx)
  <2>1. PICK press, position :
          \/ frame' = NoFrame
          \/ frame' = [made |-> TRUE, of |-> m, holds |-> CoordinatesFor(m),
                       cpx |-> FrameOf(m, position),
                       shows |-> truth, battery |-> batteryPercent]
    BY DEF SendSigFox
  <2>2. CASE frame' = NoFrame
    BY <2>2 DEF NoFrame
  <2>3. CASE frame' = [made |-> TRUE, of |-> m, holds |-> CoordinatesFor(m),
                       cpx |-> FrameOf(m, position),
                       shows |-> truth, battery |-> batteryPercent]
    <3>1. frame'.cpx = FrameOf(m, position)
      BY <2>3
    <3> QED
      BY <3>1, FrameFits
  <2> QED
    BY <2>1, <2>2, <2>3
<1>3. CASE UNCHANGED linkVars
  BY <1>2, <1>3 DEF TypeInv, linkVars, libVars, modemVars
<1>4. CASE SendFrame
  <2>1. UNCHANGED <<attempt, found>> /\ at' = "answer" /\ result' = "none" /\ onAir' = FALSE
    BY <1>4 DEF SendFrame
  <2> QED
    BY <1>2, <2>1 DEF TypeInv
<1> QED
  BY <1>1, <1>3, <1>4

LEMMA LibraryTypes == ASSUME TypeInv, LibraryStep PROVE TypeInv'
<1>1. frame' = NoFrame /\ stage' = stage
  BY DEF LibraryStep, SketchWaits
<1>2. ~frame'.made
  BY <1>1 DEF NoFrame
<1>3. CASE Begin
  <2>1. attempt < Attempts /\ attempt \in Nat /\ attempt' = attempt + 1 /\ Attempts \in Nat
    BY <1>3, LinkConstants DEF Begin, TypeInv
  <2>2. attempt' \in 0 .. Attempts
    BY <2>1
  <2> QED
    BY <1>1, <1>2, <1>3, <2>2 DEF Begin, TypeInv
<1>4. CASE WindowClose
  <2>1. /\ UNCHANGED <<attempt, result, onAir>>
        /\ \/ at' = "getID" /\ found' = TRUE
           \/ at' = (IF attempt < Attempts THEN "begin" ELSE "idle") /\ found' = found
    BY <1>4 DEF WindowClose, TryAgain
  <2> QED
    BY <1>1, <1>2, <2>1 DEF TypeInv
<1>5. CASE GetID
  <2>1. UNCHANGED <<attempt, found, result, onAir>> /\ at' \in {"idle", "undefined"}
    BY <1>5 DEF GetID, After, modemVars
  <2> QED
    BY <1>1, <1>2, <2>1 DEF TypeInv
<1>6. CASE NextReturn
  <2>1. /\ UNCHANGED <<attempt, found, onAir>> /\ at' \in {"sent", "idle"}
        /\ result' \in {result, "true", "false"}
    BY <1>6 DEF NextReturn, modemVars
  <2> QED
    BY <1>1, <1>2, <2>1 DEF TypeInv
<1>7. CASE Astray
  <2>1. UNCHANGED <<at, attempt, found, result, onAir>>
    BY <1>7 DEF Astray, linkVars, libVars, modemVars
  <2> QED
    BY <1>1, <1>2, <2>1 DEF TypeInv
<1> QED
  BY <1>3, <1>4, <1>5, <1>6, <1>7 DEF LibraryStep, Library

LEMMA LineTypes == ASSUME TypeInv, LineStep PROVE TypeInv'
<1>1. frame' = NoFrame /\ stage' = stage
  BY DEF LineStep, SketchWaits
<1>2. ~frame'.made
  BY <1>1 DEF NoFrame
<1>3. UNCHANGED <<at, attempt, found, result>>
  BY DEF LineStep, Line, Answer, Arrive, libVars
<1>4. onAir' \in BOOLEAN
  <2>1. onAir' = onAir \/ onAir' = (onAir \/ Head(owed) = "SENT")
    BY DEF LineStep, Line, Answer, Arrive
  <2> QED
    BY <2>1, Zenon DEF TypeInv
<1> QED
  BY <1>1, <1>2, <1>3, <1>4 DEF TypeInv

LEMMA TypeInvNext == FixInv /\ TypeInv /\ [Next]_vars => TypeInv'
<1> SUFFICES ASSUME FixInv, TypeInv, [Next]_vars PROVE TypeInv'
  OBVIOUS
<1>1. CASE UNCHANGED vars
  BY <1>1 DEF vars, linkVars, libVars, modemVars, reportVars, TypeInv
<1>2. CASE Visit \/ Measure
  <2>1. UNCHANGED linkVars /\ stage' \in {"sense", "weak", "send"}
    BY <1>2 DEF Visit, Measure
  <2>2. frame' = NoFrame \/ frame' = frame
    BY <1>2 DEF Visit, Measure
  <2> QED
    BY <2>1, <2>2 DEF TypeInv, linkVars, libVars, modemVars, NoFrame
<1>3. CASE SendWeak
  <2>1. SendSigFox("WEAK_BAT") /\ stage' = "send"
    BY <1>3 DEF SendWeak
  <2> QED
    BY <2>1, SendTypes
<1>4. CASE SendRegular
  <2>1. stage' = "over" /\ (SendSigFox(msg) \/ (frame' = NoFrame /\ UNCHANGED linkVars))
    BY <1>4 DEF SendRegular
  <2>2. CASE SendSigFox(msg)
    BY <2>1, <2>2, SendTypes
  <2>3. CASE frame' = NoFrame /\ UNCHANGED linkVars
    BY <2>1, <2>3 DEF TypeInv, linkVars, libVars, modemVars, NoFrame
  <2> QED
    BY <2>1, <2>2, <2>3
<1>5. CASE Over
  BY <1>5 DEF Over, TypeInv, NoFrame
<1>6. CASE LibraryStep
  BY <1>6, LibraryTypes
<1>7. CASE LineStep
  BY <1>7, LineTypes
<1>8. CASE Reboot
  <2>1. /\ at' = "begin" /\ attempt' = 0 /\ found' = FALSE /\ result' = "none"
        /\ onAir' = onAir /\ stage' = "rest" /\ frame' = NoFrame
    BY <1>8 DEF Reboot, Restart, modemVars
  <2>2. attempt' \in 0 .. Attempts /\ attempt' < Attempts
    BY <2>1, LinkConstants
  <2>3. ~frame'.made
    BY <2>1 DEF NoFrame
  <2> QED
    BY <2>1, <2>2, <2>3 DEF TypeInv
<1> QED
  BY <1>1, <1>2, <1>3, <1>4, <1>5, <1>6, <1>7, <1>8 DEF Next

\* Few commands.
LEMMA FewCommands ==
  /\ Len(<<>>) <= 2 /\ Len(<<"SFID">>) <= 2 /\ Len(<<"NUL", "SFID">>) <= 2
  /\ Len(<<"SFM">>) <= 2 /\ Len(<<"SENT">>) <= 2
<1>1. Len(<<>>) = 0 /\ Len(<<"SFID">>) = 1 /\ Len(<<"SFM">>) = 1 /\ Len(<<"SENT">>) = 1
  OBVIOUS
<1>2. Len(<<"NUL", "SFID">>) = 2
  OBVIOUS
<1>3. 0 <= 2 /\ 1 <= 2 /\ 2 <= 2
  OBVIOUS
<1> QED
  BY <1>1, <1>2, <1>3, Zenon

\* A modem in step with the library owes at most two answers.
LEMMA FewOwed == LinkInv /\ found /\ faults <= Tolerated => Len(owed) <= 2
<1> SUFFICES ASSUME LinkInv, found, faults <= Tolerated PROVE Len(owed) <= 2
  OBVIOUS
<1>1. Synced /\ at \in {"getID", "idle", "answer", "sent", "undefined"}
  BY DEF LinkInv, LineInv
<1>2. CASE at = "getID"
  <2>1. SyncedGetID
    BY <1>1, <1>2 DEF Synced
  <2>2. owed = <<"SFID">> \/ owed = <<>> \/ owed = <<"NUL", "SFID">>
    BY <2>1 DEF SyncedGetID
  <2> QED
    BY <2>2, FewCommands, Zenon
<1>3. CASE at \in {"idle", "undefined"}
  <2>1. owed = <<>>
    BY <1>1, <1>3 DEF Synced
  <2> QED
    BY <2>1, FewCommands, Zenon
<1>4. CASE at = "answer"
  <2>1. SyncedAnswer
    BY <1>1, <1>4 DEF Synced
  <2>2. owed = <<"SFM">> \/ owed = <<"SENT">> \/ owed = <<>>
    BY <2>1 DEF SyncedAnswer
  <2> QED
    BY <2>2, FewCommands, Zenon
<1>5. CASE at = "sent"
  <2>1. SyncedSent
    BY <1>1, <1>5 DEF Synced
  <2>2. owed = <<"SENT">> \/ owed = <<>>
    BY <2>1 DEF SyncedSent
  <2> QED
    BY <2>2, FewCommands, Zenon
<1> QED
  BY <1>1, <1>2, <1>3, <1>4, <1>5

(* Every variable keeps its type, the calibration its 16 bits and the       *)
(* fields of a frame theirs, and a modem that was found owes at most two    *)
(* answers, for every number of attempts and of faults.                     *)
THEOREM ReportTypeCorrect == Spec => []TypeOK
<1>1. TellInv /\ LinkInv /\ TypeInv => TypeOK
  <2> SUFFICES ASSUME TellInv, LinkInv, TypeInv PROVE TypeOK
    OBVIOUS
  <2>1. LinkTypeOK
    BY FewOwed DEF LinkInv, LineInv, TypeInv, LinkTypeOK
  <2>2. BatteryTypeOK
    BY DEF TellInv, ScaleInv, BatteryTypeOK
  <2>3. coordinates \in {"none", "position", "weather"}
    BY DEF TellInv, FixInv
  <2> QED
    BY <2>1, <2>2, <2>3 DEF TypeInv, FieldsFit, TypeOK
<1>2. FixInv /\ TypeInv /\ [Next]_vars => TypeInv'
  BY TypeInvNext
<1>3. TellInv => FixInv
  BY DEF TellInv
<1>4. LinkInv /\ [Next]_vars => LinkInv'
  BY LinkInvNext
<1> QED
  BY <1>1, <1>2, <1>3, <1>4, TypeInvInit, LinkInvInit, ReportInvariant, PTL DEF Spec
=============================================================================
