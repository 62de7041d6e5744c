# battman-firmware in TLA+

Models of the battery manager firmware (board BATTMAN 4.2, STM32F303, ChibiOS
16.1.4): the discharge path, the configuration and its store in flash, charging
and cell balancing, the I2C bus and the clock on it, the CAN receive path, the
serial line from its bytes to its packets, and the handlers of those packets with
the firmware update, beside the threads they compete with. TLC checks the models on
small instances; TLAPS proves the central properties for every value of the
constants.

## 1. The system

One main thread initialises everything and then runs a loop (`main.c`) that
samples, decides and drives pads:

    analog_update, ltc6803_update, current_monitor_update, soc_update,
    charger_update, power_update, rtcc_update, accessory_update,
    comm_can_update; leave the loop on shutdown

Around it run the over-current interrupt, a USB reader and a packet thread, a
CAN reader and a CAN thread, the LED and the buzzer thread. All threads but the
CAN reader have the priority of the main thread and `CH_CFG_TIME_QUANTUM` is 0,
so they run only while the main thread is blocked in a transfer; interrupts run
between any two instructions.

| Component | State | Operations | Interaction | Hard behaviour |
|---|---|---|---|---|
| `power.c` | enable, precharge and shutdown flags, two start times, power-on event, pads DSG, PCHG, PWR | `power_init`, `power_update`, `power_disable_discharge` | called by main, the interrupt and the bootloader jump; reads faults, samples, configuration | the interrupt between test and switch, wrapping time, blocking in the middle of a shutdown |
| `faults.c` | fault byte | `faults_set_fault` | main thread and interrupt | unprotected read-modify-write |
| `analog.c`, `current_monitor.c` | last samples | `analog_update`, `current_monitor_update`, `curr_alert` | feed power and charger | interrupt against loop |
| `eeprom.c` | two flash pages | `EE_Init`, `EE_ReadVariable`, `EE_WriteVariable` | called by `config.c` | power loss in any flash operation, flash errors, full pages |
| `config.c` | live configuration | `config_init`, `config_write_field`, `config_write_all` | written by the packet thread, read everywhere | ranges of several half-words, clamps that use other fields and that only the exact address of a field triggers |
| `charger.c` | charging, balancing, completion | `charger_update` | cells from `ltc6803.c`, samples, configuration | an index that is never assigned, order of the branches |
| `ltc6803.c` | cells, balance register, lock | `ltc6803_update`, balance and lock functions | charger and console | two users of one register, a changing number of cells |
| `console.c` | none | drain commands, printing | packet thread | interleaved with the charger |
| `packet.c`, `comm_usb.c` | parser, receive ring, events | byte parser, reader, processor, timeout | USB driver, handlers of all other parts | two threads on one ring, resynchronisation, blocking handlers |
| `comm_can.c` | receive ring, `process_tp` | reader, processor | CAN driver | start-up order, preemption, full ring |
| `rtcc.c` | date, alarm day | `rtcc_update`, `rtcc_enable_alarm` | I2C bus | transfers without the bus lock, dates |
| `fw_updater.c` | flash of the new image | erase, write, jump | packet thread | lock and error paths |
| `accessory.c`, `led_rgb.c` | ACC1, LED colour | setters | main and LED threads, connect event from the packet thread | a flag set by one thread and cleared by another; threads cut short by the end of the loop |
| `soc.c`, `ws2812b.c`, `buzzer.c`, `gpio.c` | outputs | setters | main thread | none |

What makes each part correct, in a sentence:

- power: a trip opens the discharge switch and keeps it open, the switch is
  never closed onto a short, and every way out of the loop leaves it open.
- faults: a fault that was set stays set.
- EEPROM emulation: an atomic map, whatever flash operation the power fails in.
- configuration: RAM, EEPROM and INA226 agree between calls.
- charger and cell monitor: no charging while balancing, no resistor forgotten,
  no charging at the cutoff voltage.
- I2C bus: one transfer at a time, and nobody waits for ever.
- CAN and serial links: every frame or packet once, in order, and none left.
- clock: the alarm that a shutdown leaves comes about a month later, at the end of
  every month and year.
- firmware updater: what was acknowledged is in the image, and an update ends in
  the bootloader whatever request, reply or flash operation fails.
- shutdown: once the loop has ended the board stays dark and off the bus.

## 2. Modules and code

| Module | Models | Extends / used by |
|---|---|---|
| `Power` | `power.c`, `faults.c`, `analog.c`, `current_monitor.c`, main loop, bootloader jump | `MCPower`, `PowerProofs` |
| `EepromStore` | what `eeprom.c` promises (abstract) | instantiated by `Eeprom` and `Config` |
| `Eeprom` | `eeprom.c`, one action per flash operation | `MCEeprom`, `EepromProofs` |
| `Charger` | `charger.c`, `ltc6803.c`, drain commands of `console.c` | `MCCharger`, `ChargerProofs` |
| `Config` | `config.c`, alert limit of `current_monitor.c` | `MCConfig`, `ConfigProofs` |
| `Rtcc` | date arithmetic of `rtcc.c`, and the calendar of the chip | extended by `I2cBus` |
| `I2cBus` | users of the bus in `current_monitor.c`, `charger.c`, `rtcc.c`; the driver's state and mutex; the clock | `MCI2cBus`, `I2cBusProofs` |
| `Can` | `comm_can.c`, receive side of the CAN driver | `MCCan`, `CanProofs` |
| `PacketLink` | what `packet.c` promises (abstract) | instantiated by `Serial` |
| `Packet` | format and byte parser of `packet.c` | extended by `Serial` |
| `Serial` | the receive side of `comm_usb.c`: queue, ring, both threads | `MCSerial`, `SerialProofs` |
| `Handlers` | the handlers of `packet.c` that change state, `fw_updater.c`, the counting lock; host and line | extended by `Session` |
| `Session` | `Handlers` together with the LED thread, the end of the main loop, `accessory.c`, start and stop of the USB bus | `MCSession`, `SessionProofs` |

Variables and actions keep the names of the code. `PROJECT.json` maps every
definition to its lines.

**Power.** `pc` is where the main thread stands. A pass is `analog_update`,
`current_monitor_update`, `TestGate` (the test of line 52), `DriveSwitches`,
`CheckButtons`, `EnterShutdown`, `EndOfPass`; it is split where another actor can
tell: at the interrupt between test and switch, and at every call that blocks.
`faults |= fault` is a load (`LoadFaults`) and a store (`StoreFaults`), because
`curr_alert` may come in between. `SetConfig` and `fw_updater_jump_bootloader`,
from the packet thread, are enabled only while the main thread is blocked.
Time is the time since the two start times, modulo `MsWrap`, as `ST2MS` computes
in 32 bits. `power_update` reads the clock twice, in line 61 for the short test and in
line 71 for the timeout; up to `MaxGap` ms pass in between (`PrechargeElapsedAfter`).
Voltages are multiples of 0.5 V.

**Eeprom.** A page is a header and a sequence of slots, a slot a data and an
address half-word. Each action is one flash operation (programming a half-word,
erasing a page); `PowerLoss` may come before any of them, and an erase that is cut
short leaves a blank header over old slots (`EraseAgain`). `FlashFails` ends the
call with an error. `EE_ReadVariable` changes nothing and is the operator
`Content`. `Stored` is the refinement mapping to `EepromStore`; `errors` is a history
variable, whether a flash operation has failed.

**Charger.** `pc` separates `ltc6803_update`, `charger_update` and the blocking
`set_voltage`. `lowestCellNum`, which some passes read without assigning it, is any
cell then. `stranded` is a history variable: cells whose resistor was on when
`numCells` was lowered below them. After each pass the loop may end (`EndOfPass`: what
`power_update` decides is the subject of Power), and the bootloader may be entered
wherever the main thread blocks; from then on nothing runs, and the chip keeps the
register it was last sent.

**Config.** The EEPROM is the map of `EepromStore`; a write of a half-word is one
step, and one that fails leaves the map as it was. `Eeprom` implements that map up to
one power loss before `EE_Init` completes and without flash errors; what happens
beyond is the subject of the two EEPROM findings and not repeated in Config. Fields
have an address and a size in bytes; a value is the same byte in all bytes of its
field, so a torn field shows. A request has an address, a size and a value of its own, as
`packet.c:187` passes them on: it may be for a field, for a part of one, or reach over
several (`config.c:143`, where the rejection is commented out). The clamp and the transfer to
the INA226 belong to the address alone (`Clamped`); for a request that is shorter than the
field the clamp reads what `config_value` held before (`Seen`), and what it writes there is
copied only as far as the request goes (`ClampedRequest`, `Patch`). Two things are asked of
the host, for the code makes neither sure: the range lies within `Config`, and the value fits
into the four bytes of `config_value`; anything else is undefined behaviour. What the host may
send, and whether writes and transfers may fail, is the `session`, chosen at the start for good.
History variables: `before` and `wanted` are the image before and after the request under way;
`failed` tells whether a write or a transfer has failed since the start, or earlier; `lost`
holds the half-words that a failed write has left behind in the EEPROM; `lowered` tells whether
`numCells` or `highVoltageCutoff` was lowered, or changed past its clamp, since `chargeVoltage`
was set; `split` holds the fields that a request has changed past their clamp (`Bypassed`)
and that have not been written whole since.

**I2cBus.** An action is a run of a thread from one wait to the next: the end of a
transfer, the rest of the section, and the start of what follows it. The mutex is
handed to the waiting thread when it is released, as `chMtxUnlock` does. `found` is
the driver state that the last transfer saw when it began. `rtcc_update` reads the
clock register by register, midnight may come between two of them, and a transfer
that fails leaves the byte before it in `rx`, which the code uses all the same.
`read` and `set` are history: how the date was read, how the alarm was set from it, and
whether that was today, yesterday or earlier (`OneDayOlder`).

**Can.** `can_read_thread` preempts everything but interrupts; the process thread
runs while the other threads are blocked. Copying a frame out of the ring takes two
steps, header and payload. `rx_frame_write` is not volatile and the build uses link
time optimisation: `hoisted` chooses, once per behaviour, whether the loop of
line 82 reads it in every round or once. `log`, `taken` and `lapped` are history.

**Packet, PacketLink, Serial.** `packet_process_byte` is one action per parser state.
A byte has a value and, if it is part of a CRC, the payload it belongs to: the CRC is
ideal, and everything else (start bytes, lengths, end bytes inside of payloads, the
test of line 70 that the next assignment undoes) is as in the code. A byte that
would be stored behind `packet_buffer` leads to `OVERRUN`, of which nothing more is
said. In Serial the reader thread moves bytes from the queue of the driver to the
ring while the processor waits or blocks in a reply; the read index is left unwrapped
over a blocking reply, as in the code. `PacketLink` is the promise: packets are
handled in the order they were sent in, at most once, and nothing else is.
`pending`, `handled` and `losses` are history.

**Handlers, Session.** A handler is one action per flash operation, from the lock to
the unlock and the reply. An operation that fails returns from inside the locked
section, as the code does. The host is a model of how the repository's protocol
is meant to be used (external): one request at a time, repeated when the line broke,
erase first, jump last. `Session` adds what shares the processor with the packet thread;
a thread runs from one wait to the next. `utils_sys_lock_cnt` is modelled from its use,
with the masking of interrupts that `chSysLock` and `chSysUnlock` do.

## 3. Runs

| Run | Instance | Shows |
|---|---|---|
| `power` | output voltages 0, 3 and 12 V, two bus readings, two configurations, passes of up to 2 ms, up to 1 ms between the two clock readings, short test at 1 ms, wrap at 6 ms | type, `DischargeThroughGate`, `ParkedSafe`, `OvercurrentDisables`, `FaultsLatch`, `NeverSwitchedIntoShort`; `TripOpensSwitch`, `TurnsOn`, `HeldButtonShutsDown` |
| `eeprom_store` | 2 variables, 5 slots, one power loss before `EE_Init` completes | refinement of `EepromStore`, `KnownGoodState`, `CallsReturn` |
| `eeprom_faults` | 2 variables, 3 slots, two power losses in a row, flash errors | `LossNeedsTwoValidPages`, `HeaderRemains` |
| `eeprom_two_losses` | two power losses in a row | **violation** of `StoredSurvives` |
| `eeprom_flash_error` | flash errors, no power loss | **violation** of `WrittenIsRead` |
| `charger` | 2 cells, voltages below, at and above the thresholds, `numCells` 0 to 2 | `NoChargeWhileBalancing`, `DrainStops`, `OvervoltageOpens`, `ResistorsEndOff` |
| `config_store` | 6 bytes, 4 fields, two power losses in a row; either 15 requests for whole fields, parts and two fields, or 5 of them with failing writes and transfers | `Persisted`, `TornByWords`, `LimitAgrees`, `CellsBounded`, `VoltageWithinPack`, `Starts` |
| `i2c_bus` | the transfer counts of the code, transfers may fail or time out, 66 dates | `OverlapOnlyInAlarm`, `AlarmInAMonth`, `BusGranted` |
| `i2c_assert` | no timeouts | **violation** of `FoundReady` |
| `can_receive` | ring of 3, FIFO of 3, 6 frames, two headers | `TakenOnce`, `NeverBack`, `FramesDrained` |
| `serial` | bytes of 5 values, ring of 3, queue of 1, three payloads, two losses | refinement of `PacketLink`, `NothingLost`, `Resynchronises` |
| `session` | 2 pages of 2 half-words, 2 chunks, two faults | `AcknowledgedInImage`, `LeakedByFailures`, `ExitIsFinal`, `UpdateCompletes`, `ConnectShown` |

**Bounds, and why they are enough.** Power has one value on each side of every
comparison it makes (0.5 V, 5 V below the bus), a precharge timeout that is just long
enough for the short test and one that is just too short (2 and 1 ms, for a test after
1 ms and a gap of 1 ms), and a wrap small enough to be reached while a timer runs.
Two variables and three slots are the least for which a page fills, transfers and
recovers with something to copy besides the variable that started it; five slots
let a recovery start over without filling the page. `65535` is in the data because it
looks like erased flash. Power losses are counted in a row, without a completed
start in between (one less once a flash operation has failed): losses after a
completed start are not bounded. Two cells are
enough for a lowest and a highest cell, and 0 to 2 of them in use covers the
missing and the stranded cell. The image of Config has two byte fields that share a
half-word, and two fields of two bytes at odd addresses, each of which spreads over
two half-words and shares one of them with another field; each is written whole with
values on both sides of its limits, in part, and together with its neighbour. The dates of `i2c_bus` are the first and the last days of every
month of a leap year and of the first months of the next one, and one midnight, as
the time from reading to setting the alarm is well below a day. In Can the ring is
shorter than the number of frames, so that it wraps and is lapped; the FIFO has its
real depth. In Serial the ring is shorter than any packet, so that it wraps within
each, and start and end bytes as the high byte of a length exceed the buffer, as 'P',
'Q' and newline do in the code; one payload needs the long header and one
contains an end, a start and a long start byte. Two losses are enough to lose the end
of one packet and the start of another. Session has a chunk of odd length, which makes
the code write a byte from behind the payload, and a zero half-word, the only one that
can be programmed twice; two faults allow a failure and the loss of its reply.
`CHECK_DEADLOCK` is off where a behaviour may end: the main loop ends in `Charger`, `I2cBus`
and `Session`, and the frames do in `Can`.

**Fairness.** Power and Charger: weak fairness of the main thread, which is the
scheduler's promise as every call it blocks in has a timeout or ends by hardware,
until its loop ends or the bootloader is entered; none for interrupt, host, button and samples. Eeprom and Config: a call that has
begun runs on (flash operations end); none for callers, errors and power losses. I2cBus:
a transfer ends within its 10 ms and a ready thread gets its turn; none for the
packet thread's requests. Can: the two threads run when they are the ones to be
scheduled, and the other threads block again, as the main loop waits for
conversions and transfers in every pass; the properties except what follows once
the main thread has left its loop: it then spins, and threads of its priority
never run again. Serial: weak fairness of both threads, for the same reason, and
none of the host; `Resynchronises` says itself what it needs of the host. Session:
strong fairness of the main, the LED and the USB thread, since a handler keeps them from
running again and again but the ready list is first in, first out; the host connects
again after the line broke. `UpdateCompletes` has the host's persistence as its
premise.

## 4. Findings

1. `eeprom.c:144`, run `eeprom_two_losses`: `EE_Init` marks the recovered page valid
   before it erases the old one. A power loss there leaves two valid pages, which
   the next `EE_Init` takes for corruption: it formats both and every variable is
   lost. `LossNeedsTwoValidPages` shows that this is the only way to lose one.
2. `eeprom.c:422`, run `eeprom_flash_error`: after a flash error in a page transfer
   writes go to the receiving page and reads to the valid one, so a write that was
   acknowledged is not read back until the next start.
3. `rtcc.c:80`, run `i2c_assert`: `rtcc_enable_alarm` transfers without taking the bus.
   While it waits for the end of a transfer the mutex is free; the packet thread takes it
   in `current_monitor_set_overcurrent` and begins its own, against the assertion of
   `i2c.c:180` (which this build disables).

Conditions the code does not enforce are part of the properties that need them:
`NeverSwitchedIntoShort` needs a bus reading of 5.5 V and a precharge timeout of at least
8 ms and the gap between two readings of the clock: with a timeout of 8 ms line 61 may read
8, which is too early for the short test, and line 71 read 9 and close the switch;
`DrainStops` and `ResistorsEndOff` except cells that a smaller `numCells` put out of reach,
and `ResistorsEndOff` a board that shuts down (or enters the bootloader) before the next
`ltc6803_update`: with `chargerDisconnectShutdown` a charger that is unplugged while cells
are balanced clears `configReg` (`charger.c:159`), `power_update` shuts down in the same pass
(`power.c:96`), and the chip is never sent the cleared register; `NeverBack` excepts builds that read `rx_frame_write` once;
`CellsBounded`, `LimitAgrees` and `VoltageWithinPack` except fields that a request has changed
past their clamp, until they are written whole: one for `CANDeviceID` with two bytes reaches
into `numCells`, one for the last two bytes of `chargeVoltage` has no clamp, one for the first
two bytes of `maxCurrentCutoff` sends a limit of which only half is stored (each exception is
needed: TLC finds a violation without it); `VoltageWithinPack` also excepts a `numCells` or
`highVoltageCutoff` that was lowered after `chargeVoltage` was set, and failed writes; all of
Config assumes requests within the image and of at most four bytes (section 2); `Resynchronises` needs packets without end
bytes in them and excepts a length put together from two packets that leads out of
the buffer; `AlarmInAMonth` doubles its bound if midnight tore the date and says nothing
of failed transfers, nor of two midnights between the reading and the end of the loop.
`LeakedByFailures` states what the code does rather than what it should do: every failed
erase or write leaves the lock count one too high, and from then on no locked section
masks interrupts any more.

## 5. Proofs

TLAPS checks the modules `*Proofs`, each for one model. A theorem holds for every
value of the constants that the assumption of its model admits:

| Model | Assumption | What it asks of the constants |
|---|---|---|
| Power | `ConstantsAssumption` | natural numbers; non-empty sets of samples and configurations |
| Eeprom | `EepromAssumption` | at least one variable, more slots than variables, data of 16 bits |
| Charger | `ChargerAssumption` | natural numbers; `numCells` up to the number of cells, as `config.c:98` ensures |
| I2cBus | `I2cAssumption` | every section has a transfer; the clock is read in at least four, the alarm set in two; the clock starts with a date that exists |
| Handlers | `FwAssumption` | the chunks of a file start at even offsets, lie within the pages and share no half-word |
| Config | `ConfigAssumption` | fields lie within the image and do not overlap, `numCells` is one byte, the defaults respect the limits; requests may have any address, size and value within the image |
| Can | `CanAssumption` | a ring of at least two frames |
| Serial | `PacketAssumption`, `SerialAssumption` | the two start bytes differ, payloads are not empty and fit into the buffer, a ring of at least two bytes |

Every inductive invariant below was checked by TLC on the instances of section 3
before it was proved, except `Whole` of Serial, whose quantifiers TLC cannot evaluate;
`ClockInv` of I2cBus was checked from four dates and with two midnights.

**Power.** `TypeCorrect` is proved in two halves, the flags and the other values,
since the clock needs arithmetic and the flags do not. The safety properties are
not inductive one by one; they are proved from

    IInv = types of the non-Boolean values
        /\ before power_init has run there is no fault
        /\ PendingStore: while a store of faults |= fault is under way, the only
           fault it can overwrite is OVERCURRENT, it returns to a known place,
           and if it has loaded OVERCURRENT discharge is disabled
        /\ ShutdownEndsPass: shutdown is set only from the alarm to the end of
           the loop, and with it at the end of a pass both switches are open
        /\ DischargeThroughGate /\ ParkedSafe /\ OvercurrentDisables

`PendingStore` is what makes the unprotected `faults |= fault` harmless: between load
and store the interrupt may only set OVERCURRENT, and it disables discharge first;
nothing enables discharge again. `ShutdownEndsPass` carries the open switches over
the rest of the pass to the end of the loop. `FaultsStayLatched` and
`ShortIsNotSwitchedOn` are action properties proved from the same invariant; the latter
for every `MaxGap`.

**Eeprom.** Three layers, each resting on the one before.

1. `IInv`, for any number of power losses and flash errors: the types of flash and
   locals, `Located` (which page the call under way is working on and which header it
   has, for every location), and that the pages are never both receiving. `TypeCorrect`
   and `HeaderNeverLost` follow: a page is erased only while the other one has a header.
2. `SoundUntilError`, for any number of power losses as long as no flash operation has
   failed: slots are filled in order (`Ordered`), the slot under way is the last one in
   use (`Tagging`), and the conjuncts of `Sound`: what the headers are at every location
   (`Placed`), whose call it is (`Called`), a receiving page holds nothing but what is
   stored (`Agreement`), the copy loop has copied all variables below its index
   (`Copied`), what it is about to write is stored (`CopiesStored`), and a write that
   started a transfer has taken effect with its first slot (`TookEffect`). From it the
   lemma `Effect`: a step leaves `Stored` as it is, or is the tag of the write under way,
   or there are two valid pages. `LossByTwoValidPages` follows without further
   hypotheses, and `WrittenIsReadBack` if no flash operation fails.
3. `Recovers` and `Room` under the condition `OneLoss`: at most one power loss before
   `EE_Init` completes, no flash errors, and `Slots >= 2 * NB_OF_VAR - 1`. `Recovers`
   says that a second loss cannot come while a recovery is under way and that no page
   is left behind receiving; `Room` counts the slots of a receiving page, so that no
   copy loop meets a full page: a transfer that was cut short has used at most
   `NB_OF_VAR` of them and the recovery adds the variables but the first. The bound is
   tight (TLC finds a violation with three variables and four slots, and none with five)
   and the code is well within it: 160 variables, 511 slots. `KnownGood`,
   `StoredStays` and the step simulation `Refinement` of `EepromStore` follow.

The findings of section 4 show that two hypotheses cannot be left out: a second power
loss refutes `StoredSurvives`, a flash error refutes `WrittenIsRead`.

**Charger.** `IInv` is the types, `CounterStops` (the completion counter passes its
limit only together with `chargeComplete`, so it stays in its byte), `OutOfReach` (a
resistor of a cell not in use is a stranded one), and the properties
`NoChargeWhileBalancing` and `DrainStops` themselves. `CutoffOpensSwitch` is an action
property of one pass of `charger_update`, over all branches.

**I2cBus.** `IInv`: a thread with a transfer under way is in a section and owns the bus
unless that is the alarm, whoever waits is at the beginning of a section that takes
the bus, and the packet thread has one section only. Two active threads outside of the
alarm would both be the owner.

`AlarmComes` holds for every date and any number of midnights, and has two parts.

1. `ClockInv`, on top of `IInv`: what the history variables `read` and `set` say is true.
   Between readings `time` is the date of today, or that of yesterday, or the day of
   yesterday with the year of today and the month of either (`TimeRead`); while it is
   being read that is true of the registers read so far. The alarm register holds the
   `AlarmDay` of such a date (`AlarmFrom`). A register that is read comes through BCD
   unchanged (`BCDInverse`).
2. The calendar. `CalendarIs`: the recursion that counts the days has a solution, and
   `MonthRun`: to the end of a month the days are counted up; both by taking the least
   counterexample, which needs no induction principle with an operator as its parameter.
   `HitThisMonth` and `HitNextMonth` then give the number of days until the clock shows a
   given day, and `NumDaysFit` says that the code's table, a day short for July and
   December, never exceeds the month. `TodaysAlarm`, `YesterdaysAlarm` and `TornAlarm`
   are the three cases; the last one is longer than a month only if February has no
   such day.

**Handlers and Session.** `ExitIsFinal` is inductive. `LockInv` counts the lock: at work it
is one more than the failures so far, otherwise equal to them, and the mask is lost with
the first failure. `ImageInv` has the protocol (what is in the inbox is the current step,
and nothing is, unless the host awaits an answer), the request each handler works on, and
`ImageHolds`: all chunks before the current step are in the image, and of the chunk under
way the bytes that have been written. It needs chunks that share no half-word.

**Config.** The theorems hold for requests of any address, size and value within the image.
`Patches` says what one does to a field: one that it writes whole gets the clamped value, and
one that it neither writes whole nor bypasses stays as it is; `RequestLimits` says what the
clamps make of a field that is written whole. `Agree`: outside of a call all half-words are
stored but those lost by failed writes, and in one all but those still to be written, and
what the loop has passed is no longer lost. `OldOrNew`: until something fails every stored
half-word is from the image before or after the last call. `CellsSet` and `LimitSet` have, on
top of the properties, that a field which is being written whole is within its limit, or has
been sent to the INA226, before the write is over: that is what ends an exception.
`MixedWithin`: every mixture of half-words from the images before and after a call keeps
`chargeVoltage` within the pack, which is what a power loss can leave (`MixtureWithin`); and
so is the image that a whole write of `chargeVoltage` ends with. Lemmas on bytes, half-words
and fields come first.

**Can.** `Indices` are counts modulo the size of the ring, `RingHolds` says that the ring
holds the newest frames, `LoopBehind` that the loop is less than a ring behind unless it
was lapped. `FramesTakenOnce` follows. For `CurrentNeverBack`, which also holds if the ring
is lapped, `Ordered` says that frames are numbered in the order they are stored and
`NewerAhead` that all slots between the two indices are newer than the current applied
last. The arithmetic modulo the size of the ring is in five lemmas of its own.

**Serial.** Ring and queue are seen as one sequence of bytes in flight, and every step
as one of four (`LineSteps`): bytes move on, bytes are lost, the host puts one behind the
others, the parser takes the one in front. The arithmetic of the wrapping indices, the
unwrapped one over a blocking reply included, ends there. The two theorems have an
invariant each.

1. `Refinement` of `PacketLink`, with any number of losses. `InOrder`: the second bytes of
   CRCs that are in flight, together with the one that the parser holds while it awaits
   an end byte, are found among the pending packets in order, by an increasing map. Losses
   and bytes that are read leave a part of that map; a packet that is accepted is the first
   of it, so it is pending and its first occurrence is not behind its place. It is the only
   theorem with a temporal hypothesis, `[]Remembered`: `pending` is a history variable
   that forgets the oldest packet once it holds `MaxPending`, and a forgotten packet that is
   handled would be no step of the link. `MaxPending` bounds the model and nothing in the
   code; the run `serial` checks the property with forgetting included.
2. `NothingIsLost`. `Whole`: while nothing was lost each byte in flight has a place in a
   packet, the next place follows or is the first of another packet, the parser is where
   the byte before the first has put it (`ParserAt`), what the host has left follows the
   last, and the pending packets have their last byte but one among them. `ByteRead` is
   the parser, state by state. On a quiet line nothing is in flight and nothing left, so
   the parser stands at the end of a packet and none is pending.

**Only model-checked.** Liveness is outside of the prover's reach: `TripOpensSwitch`,
`TurnsOn`, `HeldButtonShutsDown`, `CallsReturn`, `ResistorsEndOff`, `Starts`, `BusGranted`,
`FramesDrained`, `Resynchronises`, `UpdateCompletes`, `ConnectShown`. Every
invariant and every action property that a run checks is stated by a theorem.

## 6. What is not modelled

State of charge (`soc.c`) is a floating point integral that nothing reads. The LED
strip (`ws2812b.c`) is set to one colour in every pass and read by nothing; the buzzer
thread writes only frequency 0 in this build; `gpio.c` and `rtcc_init` run once, before
any other part, and their effect is in the initial states. The handlers of `packet.c`
that only read, and printing in `console.c`, change no state. Floating point values
are abstracted to the comparisons made with them. Functions without a caller
(`power_enable_discharge`, `charger_enable`, `charger_disable`, `faults_clear_*`,
`faults_set_warning`, `comm_can_transmit`) are left out. `utils`, `crc16` and
`can_data.h` belong to a submodule that is not part of the repository; the counting
lock is modelled from its use. ChibiOS is vendored: its scheduling rules are in the
guards, the driver's queue, mutex and state where the code depends on them.

Idealisations: no two payloads have the same CRC, and the empty payload has none that
a packet could carry by accident; after `OVERRUN` nothing is said of the parser;
`rtcc_enable_alarm` stores a second byte behind an array of one and the model takes it
to be sent as stored. In Can, `CANDeviceID` is constant and frames arrive only after
both threads wait: a frame takes at least 134 us at 500 kbit/s, longer than the
start-up needs to get there.

## 7. What is left

The liveness properties stay with TLC until the prover supports fairness. A change of the
code in `src/` calls for the module that maps it, its run and its proofs, in this order;
`map` in `PROJECT.json` has the lines.
