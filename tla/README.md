# A verification of the HidnSeek tracker

HidnSeek is a GPS tracker for animals and things: an ATmega328 that sleeps most
of its life, watches an accelerometer, looks for a GPS position when it has been
moved, and reports over the Sigfox network. This directory holds TLA+ models of
its firmware, its boot loader and the libraries that carry state, the TLC
instances that check them, and proofs checked by TLAPS.

Paths: `S/` stands for
`src/arduino/libraries/HidnSeek/Examples/HidnSeek_v3_28/`, the main sketch; file
names without a directory (`accel.ino`, `gps.ino`, ...) are files of `S/`, and
`ino:` is `S/HidnSeek_v3_28.ino`. `DOG/` is the sketch beside it,
`HidnSeek_v3_28_DOG/`, and `dog:` its `.ino`.

## 1. Inventory

The main sketch is one thread without interrupt handlers of its own, so what
makes it hard is not interleaving but history: some forty global variables
survive from one search, message or night to the next, the same loop is entered
from four places, and power, modem, receiver and clock fail or lie independently.
Concurrency comes from below and beside it: the watchdog interrupt that ends a
sleep, the USB interrupt of the boot loader, the button interrupt of the DOG
sketch, the serial line to the modem and to the receiver.

| Component | State | Operations | Talks to | What makes it correct |
|---|---|---|---|---|
| control loop (`ino:73-236`) | `detectMotion`, `loopGPS`, `noSat`, `syncSat`, `countNoMotion`, `i`, `waitLoop`, `sleepDuration` | boot, tick, check, `powerDownLoop` | everything below, by calls and globals | searches and waits end; messages follow each other as the owner expects; the radio is used sparingly |
| accelerometer and accelDance (`accel.ino`) | `seq`, `accelPosition`, last axes | `initMems`, `accelStatus` | sport mode, supply, statistics, GPS power | only the dance switches power or sport mode |
| sport mode (`ino:75-80`, `accel.ino:90-98`) | `forceSport`, `limitSport` | toggle, limit | GPS power, sleep loop | it ends |
| battery (`battery.ino`) | samples, `sensorMax`, `batteryPercent` | `batterySense`, `calibrate`, `shutdownSys` | GPS pin, supply latch, statistics, radio | spikes do not count; a weak battery, and no other, is reported and the supply released |
| GPS receiver (`gps.ino:16-103`) | `GPSactive`, the pin `rstPin`, last fix | `gpsInit`, `gpsStandby`, `gpsProcess` | serial line, NMEA parser | off while parked; reported fixes are fresh |
| payload, airplane mode (`gps.ino:144-168`, `sigfox.ino`) | `airPlaneSpeed`, `airPlanePress`, `alt`, `spd`, `sat`, `p` | `makePayload`, `sendSigFox` | modem, barometer, statistics | silence in an aircraft; the frame tells what was measured |
| day statistics (`eeprom.ino`) | EEPROM bytes 0..31, `today`, `MsgCount`, `day` | `stepMsg`, `saveEEprom`, `dumpEEprom` | calendar of `ino:98-110`, GPS date | counts are the messages sent, over power losses too |
| modem link (`HidnSeek.cpp`) | serial line, lines not yet read | `begin`, `getID`, `send`, `_nextReturn` | Sigfox modem | an answer is taken for that of its own command |
| NMEA parser (`TinyGPS.cpp`) | term buffer, `_new_*` and committed fields, satellite tables | `encode`, getters | `gpsProcess` | commits only what was sent together |
| sleep library (`LowPower.cpp`) | power, ADC, timer 2, watchdog registers | `idle`, `powerDown` and their kin, the watchdog handler | every sketch, all interrupts | sleeps end; registers come back |
| boot loader (`USBaspLoader/main.c`) | address, bytes remaining, page buffer, flash, EEPROM, the counters | SET-UP, read, write, main loop | USB driver | memory holds what was sent; it leaves when told or idle |
| USB driver (`usbdrv.c`) | receive and transmit buffer, toggles, address | set-up, data, status, reset | host by interrupt, boot loader by callbacks | answers belong to their request; nobody waits for ever |
| DOG sketch (`DOG/`) | as the control loop, the centre of the fence, the button | button interrupt, fence | as the control loop | the fence stays, an escape and the button are reported |
| backend decoder (`S/README.md`) | none | unpacks `cpx` | frames | shows what was packed |

The accelerometer and barometer drivers, two small examples, and the schematics,
PDFs and drivers for PCs complete the repository. `PROJECT.json` lists every
component with its status.

Hard behaviours: power may go at any instruction, inside a sequence of EEPROM
writes too; the modem or the barometer may never answer; `millis()` stands still
during sleep, so time is counted in turns of a loop whose length changes under
way; the loop counter is folded, zeroed and compared with a bound that depends on
the previous search; a fix is compressed in place by the first message that uses
it; the date comes from two clocks that disagree; packets, handshakes, lines and
characters get lost; interrupts come between any two instructions. The list
`hazards` of `PROJECT.json` gives each of them with its line and its property.

## 2. Modules

| Module | What it is |
|---|---|
| `Sensors`, `Payload` | pure operators: orientation and dance, battery percentage; compression of altitude and speed, the test for an aircraft |
| `Tracker` | the control loop with everything it drives: the core of the project |
| `MotionProtocol` | what the owner is promised: phases off, hung, search, watch, parked, and which message each may owe |
| `TrackerTime` | `Tracker` with clocks for the radio interval and the sport mode |
| `TrackerWitness` | `Tracker` with witnesses of the fix as received and of the last orientations |
| `DayCounter` | the day statistics, EEPROM write by EEPROM write, against a world that knows the true date and count |
| `Frame` | pure operators: the packing of `cpx`, its fields as `decodPayload` cuts them out, and what the decoder of `S/README.md` shows |
| `Battery` | the window of samples, its sort, the median and the calibration |
| `ModemLink` | the HidnSeek library, the serial line and the modem |
| `Report` | one visit from fix to answer: composes `Frame`, `Battery` and `ModemLink` |
| `NmeaParser`, `NmeaStream` | TinyGPS term by term; the receiver and a line that loses bytes |
| `UsbDriver`, `BootLoader`, `BootHost` | the driver's buffers and handlers; the loader's requests and loop; the programmer, the bus and what both promise |
| `LowPower` | the sleep functions of five processors against interrupts |
| `DogTracker` | the DOG sketch with its button interrupt |
| `TrackerProofs` | proofs about `Tracker`, and that it implements `MotionProtocol` |
| `HistoryProofs` | proofs about `TrackerTime` and `TrackerWitness`, on top of those |
| `DayCounterProofs`, `LowPowerProofs`, `DogProofs`, `ReportProofs`, `NmeaProofs`, `BootProofs` | proofs about `DayCounter`, `LowPower`, `DogTracker`, `Report`, `NmeaStream` and `BootHost` |
| `MC...` | instances for TLC |

**Tracker.** `pc` is the place of the program: the top of `while (1)` (`tick`),
before `gpsProcess` (`gps`), before the tests of the fix (`check`), then inside
`powerDownLoop`: `battery`, `weak` (in `shutdownSys`), `send`, `record` (after the
message), `sleep`; and `off` and `hung`. `msg` is the argument of
`powerDownLoop`. An action is the code from one place to the next, all its calls
included. The three calls of `accelStatus` share the operator `AccelStatus`.
`AccelStatus` is parameterised with a reading (`error`, `still`, or a move to an
orientation) instead of three axes and their thresholds; `MsgCount < 90` and the
answer of `gpsInit` are arbitrary, which is right for every history of the
statistics and the receiver. `MeasureBattery` takes any voltage of `Volts`.
`WakeUp` includes the dispatch of `main()`: when the verdict asks for another
message the code enters `powerDownLoop` without a tick in between, because
`start` has just been set and a position is only looked for when
`detectMotion == 1`. `gpsPower` is what the pin really drives, distinct from the
flag `GPSactive`; `gpio` is false after the power-off dance has made the ports
inputs, where a supply the latch does not control (USB, a bench supply) keeps the
program running. Without driven ports no frame reaches the modem, so a message
then can only be suppressed or hang.

`PowerLoss` is enabled everywhere. `Boot` takes any board of `Boards`: each of
accelerometer, barometer and modem answers or does not. `Stuck` and `BootStuck`
are the waits without timeout of `_nextReturn`, `getID` and the barometer.

**MotionProtocol** forgets batteries, receivers and counters. `Implements` is the
refinement: `Phase`, `Owed` and `Motions` map the state of `Tracker`. It says that a regular
message is handled once per visit of `powerDownLoop`, that `NO_MOTION` is owed
only after a wait that saw at most `MotionMin` moves outside the sport mode, that
the alert comes only from the first move of a parked wait, and that a search
begins only on enough motion or in sport mode.

**TrackerTime** adds history variables. A tick counts 4 s, a turn of the sleep
loop its `sleepDuration`, everything else nothing, so the clocks never run ahead
of the code's.

**DayCounter** is separate because the loop uses none of its results but
`MsgCount < 90`. `stepMsg` is cut at its EEPROM writes. `GpsDate` gives the true
date or the one TinyGPS had before; `Record` may advance the calendar past
midnight, as `ino:98-102` does. `date`, `sent`, `lostDays`, `right` and `outage`
belong to the world: they say which counts an accident may have reached, and the
property `CountExact` says that all others are exact.

**Report, Battery, Frame, ModemLink.** `Report` is the data path that `Tracker`
abstracts: `TakeFix` is the fix as `gpsProcess` leaves it in `alt`, `spd`, `sat`;
`Measure` is `batterySense` over a window of samples; `SendWeak` and `SendRegular`
are the two calls of `sendSigFox` in a visit. Compression works in place, so the second message of a
visit packs what the first one left, as in the code; `FrameFaithful` speaks of the
first. `cpx` is a record of its fields, and a value wider than its field is or-ed
into the next one. `Speed`, `Altitude` and `HeldAs` read the fields with the widths of
`decodPayload` (`gps.ino:170-178`) and undo the steps of `makePayload` as `S/README.md:42-43` and `:58` do;
`ShownSpeed` and `ShownBattery` are the decoder of `S/README.md` as it stands, whose masks are one bit too wide. The library is at one of its waits at a time; every read of
the serial line is a step, and `Line` is the modem and the line: it
answers in its own time, accepts or refuses, and its bytes arrive one after the
other; `Restart` is the reset button, which restarts the program and not the modem. The identifier is any four bytes, and one of them may be the `;`
that ends an answer, which is why `getID` counts to six first (`HidnSeek.cpp:164`). `getID` stores
what it reads in `response[8]` without a bound; the ninth byte may do anything
(`After`, `Astray`: the place `undefined`), and nothing is claimed of what follows.

**NmeaParser, NmeaStream.** A character matters only as part of a term, so a step
of the line is `$`, a term with its comma or star, the checksum with its carriage return, or the line
feed, each of which ends a term for `encode`. Sentences have all their terms, a GGA without a fix
its repeated `0` and `M` too, and a GSV up to four satellites. `Lose` takes bytes away anywhere, within a term, over many, or
over the end of a sentence and the start of another, of the next second too; `broken` says that the next term has
lost some of its own, `digits` that the two digits of a checksum were read before what follows
them got lost, and `damaged` that something was lost since the last `$`. `announced` is what `encode` returned for the byte just read;
what `gpsProcess` makes of it is in `Tracker`. A garbled term may read as anything. What is valid
is decided as in the code, by the first character of the status or the quality, so a letter in the
place of the quality is a fix. `_parity` is the set of the items that occurred an odd number of times, so
equal items cancel as they do in an exclusive or; accidental collisions of its 8 bits are left out. Values
carry the second they are from, so the properties can ask whether two committed fields belong together.

**UsbDriver, BootLoader, BootHost.** `HandleData` and `HandleIn` are the interrupt
of the assembler file, enabled between any two steps of the main loop. `usbPoll` is
cut in three (`PollSetup`/`PollOut`/`PollNothing`, `PollTx`, `LoopEnd` with the reset and the counters), each with all
calls it makes. The host is external: it runs one control transfer after
another, repeats what was not acknowledged, may give a transfer up, and may reset
the bus. It remembers what it sent, which transfers the device confirmed, and the run
of addresses that its flash writes have loaded without a gap and not yet completed to
a page (`span`): only a write that starts a page, or goes on exactly where that run
ends (`Continues`), can make a page trusted. Writes of flash start at even addresses,
as the words of the flash do.

**LowPower.** One action per stretch of code between two points at which an
interrupt can matter: `Call` (save, switch off, arm the watchdog, choose the mode), `Mask` (`cli`),
`SleepCpu` (`sei` and the sleep instruction, which nothing can separate), `Wake`,
`Restore`. The five processors share these and differ in their lists of modules.
`Client` is the sketch, which uses the registers between two sleeps.

**DogTracker.** The same shape as `Tracker`, in the order of the DOG sketch: it
sends before it waits, the button starts a search and asks for an `OPTION`
message, and in sport mode `makePayload` keeps positions near the first one silent
by setting `syncSat` to 255. `Press` is the interrupt and is enabled at every
place. Places of the map are points on a line with the distance of numbers.

## 3. Runs

| Run | Question | Distinct states |
|---|---|---|
| `tracker` | `TypeOK`, `ParkedGpsOff`, `MotionCounted`, `MessagesSpaced`, `Implements`; `SearchEnds`, `SleepEnds`, `SportExpires` under fairness | about 250,000 |
| `time_duty` | `TenMinutesApart`: **violated** | |
| `time_sport` | `SportWithinLimit`: **violated** | |
| `witness` | `ReportedFixIsFresh`, `SilentInFlight`, `OnlyTheDance` | 2,126,661 |
| `day_count` | `TypeOK`, `TodayStored`, `CountExact` over power losses | 2,083,705 |
| `day_clock` | `DayCountKept`: **violated** | |
| `boot_session` | `TypeOK`, `ConfirmedHolds`, `AnswerIsExact`, `NeverMute`, `LeavesAtLast` | 1,442,408 |
| `boot_exit` | `RequestedExitIsPrompt`: **violated** | |
| `nmea` | `TypeOK`, `PositionIsWhole`, `DateIsGenuine`, `HalvesApart`, `AnnouncedIsFresh` | 7,712,295 |
| `report` | `TypeOK`, `FrameFaithful`, `WeatherMarked`, `SpikesIgnored`, `HealthyNotWeak`, `SendTrueMeansSent`, `CallsReturn` | 468,838 |
| `sleep` | `TypeOK`, `NothingLost`, `ForeverUnlessLeftover`, `SleepEnds` | 197,068 |
| `dog` | `TypeOK`, `FenceHolds`, `EscapeReported`, `PressAnswered`, `KeepsReporting` | 200,565 |

What the properties say, where the name does not:

- `MessagesSpaced` is the interval the code does keep, with its three exceptions;
  `Implements` is the refinement of `MotionProtocol`.
- `ConfirmedHolds`: once the device acknowledged the status stage of a write, the
  memory of that transfer holds the bytes sent, whatever comes later, except on
  pages that an abandoned transfer may have left half filled, and except after a
  repeated packet: the driver does not look at the toggle of a packet sent again
  after a lost handshake and stores it twice, which the host can only learn by
  reading back; the damage stays in the cells of that transfer. `AnswerIsExact`: a
  reply of full length is the memory (or the answer) asked for. `NeverMute`: host
  and device never wait for each other, as long as no packet or handshake was lost. `LeavesAtLast`: a loader left alone starts
  the program.
- `OnlyTheDance`: the supply and the sport mode change by hand only after the four
  orientations of the dance, each shown by the board directly after the other. `accelPosition` starts as
  `FACE_UP` (`def.h:116`), and the call at boot (`ino:179`) takes it for shown, so a board that has shown nothing else
  since power-on needs only the last three; the property names that case and no other.
- `PositionIsWhole`: latitude and longitude come from the same second and have its
  hemispheres, wherever bytes are lost, as long as they are lost once and not in a GGA without a fix.
  With two losses terms can change places, which an exclusive or does not see. A GGA without a fix,
  `...,,,,,0,0,,,M,,M,,`, that loses `0,0,,,` keeps its sum, has `M` in the place of the quality, which
  `TinyGPS.cpp:291` takes for a fix, is announced and commits the position that damaged
  sentences left pending. `AnnouncedIsFresh`: when `encode` announces a sentence that lost nothing since its `$`,
  the position is the one this sentence carried, whatever earlier ones lost and left. `DateIsGenuine`:
  a sentence with a bad checksum leaves no trace in date and time. It is stated for fewer
  than two losses: a sentence without a fix that lost an even number of commas passes
  the checksum with its date in another place, and `term_complete` (`TinyGPS.cpp:177`)
  then commits the date that an earlier damaged sentence left in `_new_date`. `HalvesApart`: while nothing
  is lost GLONASS satellites have the upper half of the table and GPS satellites the entries of
  their own messages. That keeps the halves apart up to three messages; a receiver that sees more than twelve GPS
  satellites sends a fourth, which `TinyGPS.cpp:326` puts into the first four entries of GLONASS,
  and a fourth message of GLONASS would go behind the table, which `TypeOK` excuses (`InTable`).
- `FrameFaithful`: a receiver of the frame reads battery, kind, speed to 18 km/h and
  altitude to 16 m, if it cuts out the fields with their widths. The decoder printed in `S/README.md` masks fields of 7 bits with
  `0xff` (lines 41 and 49): its speed is right exactly where the lowest bit of the altitude is 0, its battery
  where that of the course is. `WeatherMarked`: temperature and pressure are never taken for
  coordinates, nor coordinates for them. `SpikesIgnored`, `HealthyNotWeak`: a wild
  sample does not move the median, and no history of samples makes a healthy
  battery weak, except a measurement without any battery, whose underflow
  (`battery.ino:70`) calibrates for good. `SendTrueMeansSent`: when `send` reports success, the modem did send that
  frame, though answers to earlier commands, or to the program before a restart, may
  still be on the line, up to two late windows or restarts, or one when the identifier has a `;` in it: after
  two, the `KO;` of an old answer may stand before the identifier, `getID` then stops at a `;` in its last byte, and the `OK;`
  behind it passes for the answer to the next frame. `CallsReturn`: no such answer makes a later call wait for
  one that never comes, up to a write beside `response[8]`.
- `NothingLost`: the power of the modules and the ADC are after a sleep what they were before.
- `PressAnswered`: a press in a sleep is answered by an `OPTION` that is transmitted,
  except in an aircraft, and in a sport session without a centre, where `makePayload` takes 0/0 for the
  house (`DOG/gps.ino:145`) and `sendSigFox` keeps silent.
- `ForeverUnlessLeftover`: a sleep without time-out ends by the watchdog only when
  an earlier timed sleep was cut short and left it armed.
- `EscapeReported`: a position is silent only inside the fence, at the speed of an
  airplane, or when a press before the fence was known left `syncSat` at 255.

Bounds. The code's numbers are constants: 75 turns, 30 ticks, 120 failed reads,
64 and 128 satellites, 48 reports, 420 turns, 2 moves. The instances take small
ones that keep their order and every branch: a search needs one or two fixes, one
tick or two, one failed read or two; a wait has three to five turns, so that a
move can come before the fold, at it and after it; the heartbeat doubles three
times; a sport session has one to three reports. `PeriodCount` must exceed
`GpsLimit + 1`, as 75 exceeds 31, because `waitLoop` is unsigned. The voltages lie
on both sides of the weak test, the speeds on both sides of the
tests that matter to the run. The tracker run uses a working board and fixes
with 0 or 4 satellites at 0 or 20 km/h, so that a search can neither succeed nor fail
by its reads. The witness run has an aircraft at 125 km/h, which is sent as 101
and would pass for slow. Months have three days in `DayCounter` and the world runs
for four dates, so one day of the month comes twice and the count of last month is
met again. The clocks stop at `GapCap` and `SportCap`, just above what the
properties compare them with. The boot runs use packets of 2 bytes, pages of 4 and a
flash of two pages, so that a transfer ends inside a packet, a page or beside one,
counters that wrap after 2 (4 in `boot_exit`, which needs an odd one to step over
0), up to three transfers and one lost packet or handshake. `nmea` has two seconds, enough to mix an old
field with a new one, with and without a fix, and one loss (`MaxLosses`), after which the line may go on at any
term of any sentence of either second. Sentences about satellites are sent in a session of their
own (`talk`), without loss, with four messages of GPS and three of GLONASS, each with one satellite that has
lost its strength or four of which one is not tracked.
`report` has a window of 4 samples whose middle is 2, with one wild value in the first
or the third place, modem starts limited to `Attempts`, two restarts or late windows, an identifier without a `;` (what holds of one with it
is proved, not run), and fixes chosen
around every threshold of the compression. `sleep` takes for each function no argument,
every single one, and all of them. `dog` has three places inside and outside the fence, three
boards and four readings. No state constraint is used: every instance is finite by
the model's own guards.

Fairness. The processor runs: weak fairness of every step of the program together
(`tracker`, `dog`), of the main loop (`boot_session`, `boot_exit`), of the library's steps (`report`) and of
the steps of a sleep (`sleep`), with a hang as one of its outcomes where the code has one. Strong
fairness of `Tick`, and of the turn with a tick in `dog`: the test `millis() - start >= 4000` is met infinitely
often while the program is awake, because `millis()` goes on there and one pass of
`main()` takes up to two seconds. `report` also asks that the modem and the line do
what they have begun (weak fairness of `LineStep`): without it `_nextReturn` waits
for ever, which is a hazard of the list. `sleep` asks that an armed watchdog fires.
Nothing is assumed of the host, power, fixes, moves or batteries.

Deadlock is checked in every run except the two of the boot loader, whose model
ends when the program is started; in the others none occurs.

What the violated runs show:

- `time_duty`: `HidnSeek.cpp:70` asks for ten minutes between messages; the test
  that kept them is commented out in `send()`. A weak battery sends `WEAK_BAT` and
  the regular message back to back, an alert may follow `NO_MOTION` after one turn
  of 8 s, and `NO_MOTION` may follow a position after 75 turns of 4 s.
- `time_sport`: the sport mode is limited by 48 visits of `powerDownLoop` of about
  ten minutes each, not by the 4 hours of `def.h:19`; the line that halved the wait
  in sport mode is commented out (`ino:113`). The property grants one extra period.
- `day_clock`: the calendar that `powerDownLoop` advances before it sleeps reaches
  the next day early; a message is counted there, the next date sentence brings
  the true day back and `stepMsg` clears its count.
- `boot_exit`: `bootloaderconfig.h:110` promises that the loader leaves shortly after
  the programmer closes the connection. While an exit is requested `i` is counted
  down twice per turn, once at `main.c:386` and once at `main.c:403`; the exit looks
  for 0 only at the second, which an odd `i` never meets. The loader then leaves by
  its time-out.

Each property of a passing run has a mutant: a definition with the comment
*Mutant*, placed before the one it replaces, under which TLC finds the property
violated.

## 4. Proofs

A theorem holds for every value of the constants that satisfies the named
assumptions of its modules. They say that inputs have their types, that counters fit the
widths of the C code and that limits keep the order they have in `def.h`; the
code's values satisfy them all, and TLC evaluates them in every run. Where a theorem needs
more, its statement says so. Each module has one inductive invariant, because
no property is inductive alone, and a lemma per action or group of actions.

**`TrackerProofs`**, from `PeriodAssumption` (positive numbers, `GpsLimit + 1 <
PeriodCount`, `PeriodCount + 2 * MotionMin <= 127`, `SyncSlow <= SyncFast`, two limits
below 255; in the code 31 < 75, 79, 64 and 128) and `InputAssumption`. In `IInv`

- `SearchInv` says where the counters of a search are still below their limits, which
  `TypeOK` needs because the search is dispatched only at the first test after one is
  passed; `SportInv` does the same for `limitSport`;
- `ParkedInv` follows `ParkedGpsOff` from the sleep back through the message to the
  test of the battery, where `NO_MOTION` can only be entered without sport mode and
  `gpsStandby` runs;
- `WaitInv` is behind `MotionCounted`: a slow watch has seen no move, a parked wait has
  seen one exactly when its bound is 0, a short wait has at most `PeriodCount` turns.
  From it every increment of the `int8_t` is exact;
- `PlaceInv`: inside `powerDownLoop` there is a message, and outside the two places
  after a transmission nothing is on the air.

`TypeCorrect`, `ParkedGpsIsOff` and `MotionCountKept` follow, and `Refinement`: under
`IInv` every step is a step of `MotionProtocol` or leaves its variables alone.

**`HistoryProofs`** is about the two modules that watch `Tracker`; their steps are
steps of `Tracker`, so `IInv` is at hand. `SendsAreSpaced` (`MessagesSpaced`) rests on
`SpacedInv`: the turns of a wait are already on the clock, and only an alert or the
dance ends a wait early. It asks that the clock's bound is not below
the claim and that the first parked wait is no shorter than the others
(`ShortWait <= 2 * NoMotionLoops`; in the code 44 and 840). `FixIsFresh`, `PlaneIsSilent` and
`HandlingIsTheDance` rest on `WInv`: `syncSat` never promises more than this search
saw, a fix of an aircraft is as received or the gate is closed, and `seq` tells how
much of the dance the last orientations shown were (`SeqShown`), the first of which may be missing after
power-on (`DanceInv`).

**`DayCounterProofs`**, from `DayAssumption` (`LastDay < 255`, since 255 is an erased
byte). `TodayIsStored`: `StoreInv` follows the two names of the day through the three
writes of `stepMsg`, and `SaveEffect` says that `saveEEprom` never writes over
`ADDR_TODAY`. `CountsAreExact` (`CountExact`) relates the byte in RAM, the byte in EEPROM
and the world's count at each of these places, for less than 255 messages a day
(the model's bound `MaxSent`; the counter is a byte).

**`LowPowerProofs`**, for any of the five processors, any prescalers and modules
switched off by the sketch. `PowerComesBack` (`NothingLost`) needs that each function gives
back what it cuts, a fact about the tables of the library
(`FunctionsGiveBack`); `ForeverIsForever` needs `WdtInv`: a running watchdog belongs to
the call being served or to one that was cut short.

**`DogProofs`**, from `DogAssumption`, which repeats the widths for the numbers of that
sketch. `FenceIsKept` and `EscapesAreReported` need that the firmware's centre is the
first place of the session and that a payload is of the fix last read; the motion
count needs that in sport mode, where a wait is longer than the count is wide, a count
that is high enough ends it.

**`ReportProofs`.** `WeatherIsMarked` needs that a parked visit finds altitude and speed
at zero, whatever a weak battery sent before, and that temperature is in `p` only
at the end of such a visit. `FramesAreFaithful` holds for every fix of 16 bits:
`SpeedReads` and `AltitudeReads` compute the error of compression and expansion,
`PackedFields` that no field runs over, `ShownReads` what the wider masks of the README make of them. `HealthyIsNotWeak` needs a bound of the
calibration: at most 1016 as long as no measurement found an empty input.

The same module proves the sort of `batterySense`. `SpikesAreIgnored` (`SpikesIgnored`) holds
for any `NUM_READS` and any order of the samples, by induction over the loop:
`InsertPlace` says that the loop over `j` stops between the samples not above the new one and those
not below it, `InsertArranges` that the array stays an ascending rearrangement of
the samples so far, `PlacesCount` that a wild value in the middle would make all
places on one side of it wild, more than there are, and `SumWithin` bounds the sum. `TenBits`, that
a measurement is a number of ten bits, is the case without a wild one, and what
`HealthyIsNotWeak` and `FramesAreFaithful` need of the samples. The inductions use a principle
of first order (`Induction`, from the library's theorem that `<` on numbers is well-founded),
about a set of numbers instead of an operator.

`TrueMeansSent` (`SendTrueMeansSent`) is about the line. `LinkInv` speaks of `Stream`, the
bytes received and not yet read followed by those on their way, so that an arrival
changes nothing. Its conjuncts are as many as the faults there can have been:

- `FirstTry`: without one there is nothing on the line but the answer to the call;
- `AtBegin`, `AtWindow`: after one there is what a single old answer can leave, complete,
  in part or still to be made (`Harmless`), and behind it the answer to `begin`. Such a
  rest (`Leftover`) is at most eight bytes long and does not begin like the answer to
  `begin` when it is longer than that; nor does what is left of the two when a
  window has taken five bytes and thrown them away (`FiveLess`);
- `Synced`: once the modem is found, the line holds what the waiting call asked for, after
  two faults with one more answer to `begin` in front of the identifier, which `getID`
  skips with it. Hence `send` reads its own two answers.

`Tolerated` is the number of faults: two for an identifier without a `;` (`PlainIdentifier`), one otherwise, for any
four bytes. `IdentifierWord` gathers what is known of those bytes, and each step says where it
needs that none is a `;`.

The leaves are about single bytes: `AnswerWhole` and `AnswerHarmless` that the modem turns a command into
one of few texts, `FirstLate` and `SecondLate` what a window that closed too late
leaves, `AllRead` and `Dropped` where a read up to a `;` ends. After one more fault `Synced`
does not hold, which is why the property stops there. `ReportTypeCorrect` (`TypeOK`) takes from `Synced` that at
most two answers are owed, and from `SumOfWeights` that two fields that are or-ed
together stay in 13 bits.

**`NmeaProofs`**, for any number of seconds, losses, satellites and messages. `StreamInvariant`: from a `$` to the line feed the
parser follows the line as long as that sentence loses nothing, whatever damaged sentences left
behind before. `FollowInv` says so: the count of terms is the place on the line, the kind of the sentence is that of its name,
only an RMC or a GGA with a fix can have made it good, and latitude and longitude are those
of its own terms (`PositionRead`), before and after their signs are turned. `GsvShape` to `GnsTerms` say what the terms of
the sentences are, `SendTypes` that every step keeps the bytes of the counters. `FreshWhenAnnounced` (`AnnouncedIsFresh`) follows at the
checksum. `TableInv` adds, as long as nothing at all is lost, that the index of a message about satellites is the one its
number gives; `Places` computes from it where each strength goes, which gives `HalvesStayApart` (`HalvesApart`)
for up to nine messages of each system, and `NmeaTypeCorrect` (`TypeOK`) that none goes beside the table when
there are at most as many messages as it has room for.

**`BootProofs`**, for any flash, page and packet size, any descriptors, any sessions of
transfers and any number of faults. `HostConstants` describes the programmer: requests
with a data stage have a length, flash writes stay in the flash, descriptors asked for exist,
and a write is not empty (an empty one would leave the host waiting for a status the device
never prepares). `AnswersAreExact` needs `AnswerInv`: what the host has, what the
packet under way holds and what the message pointer still covers are, in this order,
the answer, at every place between two polls; before that the set-up packet of the
transfer still waits for the device to poll (`Unheard`) and the host has nothing yet.
`DeviceNeverMute` needs `TalkInv`, the agreement of host and device on stage, toggle and
bytes remaining while no handshake was lost.

`ConfirmedStaysWritten` (`ConfirmedHolds`) is the second half of the module. Its lower part is
about `usbFunctionWrite` alone. `Loading(flash, buffer, bad, b, e)` describes a run of words
from the page at `b` up to the word at `e`: the full pages before it hold the image, the
page begun is erased, its words are in the buffer and the rest of the buffer is empty;
`bad` excuses the first page, for which other words may have been left over. `LoadWord` says that
one turn of the loop moves the run on by a word, `WholeWords` by induction that a packet
moves it on by its words, `PacketLoads` what an odd or a last packet does, and
`PacketStays` that no page is touched but those of the packet's bytes. The page arithmetic
(`PageDivision` to `PageInFlash`) needs only that pages have an even size and fill the flash.
The upper part is `HoldInv`, one conjunct per reason that a confirmed cell could be wrong:

- `MemInv`: a write in progress has taken its cells, for flash its pages, out of what is confirmed;
- `OutInv`: a packet that waits in the driver, also one of a transfer given up, is for
  a write, and no cell from the current address on as far as the device still counts is confirmed;
- `WriteInv`: a transfer that the device has heard of is counted down together with the
  host's count, exactly as long as no packet was sent twice (`Undisturbed`), and never by more;
- `ByteInv`, `EepromInv`: what has been taken for the EEPROM is in it, and the page buffer is empty,
  because an EEPROM write empties it;
- `LateInv`: what a packet of a dead transfer may still change, the host counts as stale;
- `SpanInv`: the page that the last write left unfinished is still `Loading`, and an empty `span`
  without staleness means an empty buffer;
- `LoadInv`: during a write that may become trusted its own run is `Loading`, and at
  its end (`Ended`) the pages it has passed hold the image.

Only model-checked: everything about progress (`SearchEnds`, `SleepEnds`, `SportExpires`,
`LeavesAtLast`, `CallsReturn`, `PressAnswered`, `KeepsReporting`), because liveness and ENABLED are
outside the prover's reach, and `PositionIsWhole` and `DateIsGenuine`, which are about the sums of all
damaged sentences there can be and are left to the `nmea` run.

## 5. Not modelled

- The accelerometer and barometer drivers: register traffic and formulas without
  history; their results are inputs, their hangs places of `Tracker`. Raw axes and
  thresholds are abstracted to readings.
- The bit level of V-USB (synchronisation, stuffing, CRC) and its interrupt
  endpoint, which the loader does not use; the condition that enters the loader.
- In the parser, terms of 15 characters or more, accidental collisions of the 8 bit checksum, and
  speed, course, altitude, satellites and `hdop`, which are handled like the date.
- In the library, `isReady`, `getRev`, `setPower` and the test commands, which no sketch calls.
- In the sleep library, brown-out bits, clocks and the length of a watchdog period;
  the prescaler of timer 2 is saved under a mask that tests bit numbers
  (`LowPower.cpp:167`) and is not part of `NothingLost`.
- In the DOG sketch, the power of the receiver, the calendar, the statistics and a
  missing modem, which are the main sketch's; presses during a transmission
  (`dog:139` clears them); that `airPlanePress` stays set after landing higher (`DOG/baro.ino:25`).
- What the program does after `getID` has written beside `response[8]`: a late answer to `begin`
  before the identifier is enough for the ninth byte (`HidnSeek.cpp:165`).
- The degrees of latitude and longitude as numbers, in the frame and in the decoder of `S/README.md`.
- LEDs and the serial trace (no control depends on them), the examples, schematics
  and PC drivers. That `gpsProcess` itself returns is assumed: the receiver pauses
  between its bursts, which its 100 ms window needs (`gps.ino:60`).

## 6. Plan

Done: 1 `Tracker` with its operators, 2 `MotionProtocol` and the refinement, 3
`TrackerTime`, 4 `TrackerWitness`, 5 `DayCounter`, 6 the invariants of `Tracker` and
`DayCounter` and the refinement proved, 7 `UsbDriver`, `BootLoader` and `BootHost`, 8
`NmeaParser` and `NmeaStream`, 9 `Frame`, `Battery`, `ModemLink` and `Report`, 10
`LowPower`, 11 `DogTracker`, 12 the safety properties of all of them proved but for `PositionIsWhole` and `DateIsGenuine`.

Next, in this order:

13. An abstract memory that `BootHost` with its loader implements, with the
    confirmed transfers as its operations.
14. The accelerometer driver's bus errors as readings of their own.
