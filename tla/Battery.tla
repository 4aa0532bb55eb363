------------------------------ MODULE Battery ------------------------------
(* batterySense() of battery.ino: samples kept sorted as they arrive, the   *)
(* middle ones summed, the calibration that remembers the fullest battery.  *)
(* Percent and Weak are those of Sensors.                                   *)
EXTENDS Sensors, Sequences, SequencesExt, FiniteSetsExt

CONSTANTS NumReads,    \* NUM_READS, 100
          Half,        \* samples summed on each side of the middle, 4
          Windows      \* what the samples of a measurement may be

ASSUME BatteryConstants ==
  /\ Half \in Nat \ {0} /\ NumReads \in Nat /\ NumReads % 2 = 0
  /\ Half <= NumReads \div 2
  /\ Windows \subseteq [1 .. NumReads -> 0 .. 255]

VARIABLES
  samples,             \* ghost: the samples in the order they came
  sortedValues,        \* what the insertion makes of them
  sensorMax,
  batteryPercent,
  drained              \* ghost: a measurement since boot found no battery

batteryVars == <<samples, sortedValues, sensorMax, batteryPercent, drained>>

(* initSense() reads the calibration from EEPROM and sets its default.      *)
BatteryInit ==
  /\ samples = <<>> /\ sortedValues = <<>>
  /\ sensorMax = 980 /\ batteryPercent = 0 /\ drained = FALSE

-----------------------------------------------------------------------------
(* *Mutant*: the samples are kept in the order they come.                   *)
InsertAtEnd(s, v) == Len(s)

(* Where a sample goes: first, between two neighbours, or last.             *)
InsertAfter(s, v) ==
  LET between == {k \in 1 .. Len(s) - 1 : s[k] <= v /\ s[k + 1] >= v}
  IN IF s = <<>> \/ v < s[1] THEN 0
     ELSE IF between # {} THEN Min(between) ELSE Len(s)

(* The loop over the samples: the array after the first n of them.          *)
Insert(s, v) == InsertAt(s, InsertAfter(s, v) + 1, v)
Sorting(taken) ==
  LET after[n \in 0 .. NumReads] ==
        IF n = 0 THEN <<>> ELSE Insert(after[n - 1], taken[n])
  IN after
Sorted(taken) == Sorting(taken)[NumReads]

(* The sum of the middle samples, scaled to the 10 bits of analogRead().    *)
Summing(sorted) ==
  LET sum[n \in 0 .. 2 * Half] ==
        IF n = 0 THEN 0 ELSE sum[n - 1] + sorted[NumReads \div 2 - Half + n]
  IN sum
Middle(sorted) == (2 * Summing(sorted)[2 * Half]) \div Half

(* *Mutant*: the margin is forgotten.                                       *)
CalibrateTight(value) == IF value + 4 > sensorMax THEN value + 4 ELSE sensorMax

(* 16 mV are taken off, in 16 bits without a sign.                          *)
Calibrate(value) ==
  LET batteryComp == (value + 65536 - 4) % 65536
  IN IF batteryComp > sensorMax THEN batteryComp ELSE sensorMax

(* The voltage, on the scale of the calibration as it is after this         *)
(* measurement.                                                             *)
Bat(value) == (value * BATT_MAX) \div Calibrate(value)

(* A measurement from its first sample to its last; Weak(Bat(...)) is what  *)
(* it returns.                                                              *)
Sense(taken) ==
  LET value == Middle(Sorted(taken))
  IN /\ samples' = taken /\ sortedValues' = Sorted(taken)
     /\ sensorMax' = Calibrate(value)
     /\ batteryPercent' = Percent(Bat(value))
     /\ drained' = (drained \/ value < 4)

-----------------------------------------------------------------------------
BatteryTypeOK ==
  /\ sensorMax \in Nat /\ sensorMax >= 980 /\ sensorMax <= 65535
  /\ batteryPercent \in 0 .. 100

(* The measurement forgives wild samples: as long as fewer than half of     *)
(* them, less the part that is summed, are wrong, the result lies within    *)
(* the others, whatever order they came in.  batterySense()'s insertion.    *)
SpikesIgnored ==
  samples # <<>> =>
    \A low, high \in ToSet(samples) :
      LET within(i) == samples[i] \in low .. high
      IN Cardinality({i \in DOMAIN samples : ~within(i)}) <= NumReads \div 2 - Half
           => Middle(sortedValues) \in 4 * low .. 4 * high
=============================================================================
