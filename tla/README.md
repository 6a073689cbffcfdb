# IRMP_PICO: TLA+ models, TLC runs and proofs

IRMP_PICO is a USB infrared receiver on a Raspberry Pi Pico: it decodes remote
controls, reports what it received to the PC, emulates a keyboard, sends IR, wakes
the PC, and keeps its configuration in an emulated EEPROM. Around it are host
programs: configuration tools, an alarm tool and plugins for VDR.

This directory holds the TLA+ specifications of it, the TLC configurations that
check them and the TLAPS proofs. Line numbers are those of the source files under
`src/`; `main.c`, `usb_hid.c`, `irmp.c`, `irsnd.c`, `eeprom.c` are those below
`src/RP2xxx`.

    tlc -workers 2 -config Eeprom.cfg Eeprom          # a run
    tlapm EepromProofs.tla                            # the proofs of a module

`PROJECT.json` lists components, runs, mutants (a plausible bug per property that
its run must find), the source lines of every definition, findings, hazards and
theorems.

## 1. The system and its parts

The firmware is one loop (`main()`), two interrupts, and callbacks that the USB stack
runs inside `tud_task()`, that is, in the loop.

```
 remote control --> irmp_ISR --(mailbox)--> irmp_get_data --> main loop --> HID endpoint --> host
                    (timer)                                   ^   |  ^         | complete,
                    irsnd_ISR <-- irsnd_send_data ------------'   |  '---------' suspend ...
                    irmp_log --(buffer, log_buf_ready)----------->|
                    SysTick --> AlarmValue, send_after_wakeup ----|
                                                       EEPROM <---'  <-- configuration reports
```

| Part | State | Operations | Hard about it | Correct when |
|---|---|---|---|---|
| Emulated EEPROM (`eeprom.c`) | flash pages, cache, `_dirty`, `first_empty_page` | begin, read, write, commit, reset | wear-levelled log, flash bits only go one way, power fails in between | a commit survives a restart, a page is not programmed twice, the dirty flag does not lie |
| IR decoder (`irmp.c`) | mailbox `irmp_ir_detected`/`irmp_*`, `key_released`, `same_key`, `delta_detection`, `min_delta`, `upper_border`, `release_pending`; parameter set, bit counter and half-decoded code of the frame | `irmp_ISR` (timer), `irmp_get_data` (loop) | shared without lock; the release exists only as a timeout; learnt repeat rate; frames rejected late; protocols that turn into others while they are received | press, repetitions, release of one button at a time; what was sent is what is heard |
| IR sender (`irsnd.c`) | busy flag, bit, frame, repetition and pause counters, toggle bits | `irsnd_send_data`, `irsnd_ISR` | counters live across commands; every protocol its own exception | a command is on the air as often as asked |
| Main loop (`main.c:892-1014`) | `myIRData`, `oldIRData`, `send_ir_needed`, `send_kbd_needed`, `kbd_release_needed`, `release` | poll, send IR, send key, send release | single buffer, two reports per press, one endpoint | no key stays down, nothing is lost, no transfer on a busy endpoint |
| HID endpoint (`usb_hid.c`) | `PrevXferComplete` | two send functions, callbacks for complete, suspend, resume, mount | flag and endpoint may disagree; waits without timeout | the flag is set only when the endpoint is free; no wait lasts for ever |
| Configuration commands (`main.c:578-797, 925-960`, `usb_hid.c:110-120`) | pointer into the stack's buffer, `USB_HID_Data_Received`, `Reboot` | get, set, reset handlers | the next report overwrites the one being handled; one flag for commands and keyboard LEDs | a request is carried out once and gets its own answer |
| Wakeup, alarm, magic report (`main.c:475-546, 785-824, 854-864, 905-913`) | `AlarmValue`, `send_after_wakeup`, `last_magic_sent` | SysTick, `Wakeup`, `check_wakeups`, `send_magic` | SysTick against the loop, a PC that goes off while the loop waits for it | an alarm wakes a PC that is off |
| IR log (`irmp.c:1160-1259`, `main.c:915-921`) | buffer, `buf_idx`, `last_val`, `log_buf_ready` | `irmp_log`, sending in reports | filled by the interrupt while it is sent; the PC goes to sleep in the middle | the host gets the whole of it; what is shown is what the sensor saw; the loop gets through |
| LEDs and neopixels (`main.c`, `ws2812.c`) | colours, `pixel[]` | set, blink, chunked picture | chunk arithmetic | a picture is shown when its last chunk is there |
| VDR plugins (`vdr-plugin-irmp4kbd`, `-irmp`) | shared report buffer, repeat state, handle | reading thread, evaluating thread | two threads, no lock on the buffer; the device comes and goes | VDR is in step with the device |
| `vdr-plugin-statusleds2irmp` | recording and channel state | status callbacks, thread, stop | stop against thread | the LED ends up right |
| `irmpconfig_gui` | map as text with cursor, line number, buttons, timers, modes, handle | a handler per button and timer, each several exchanges with the device | text and device are changed by two different positions; answers get lost or cross commands, the device goes, timers start handlers | the map shows what the device holds; every handler ends |
| `irmpalarm`, `irmpconfig` | device handle, answer | request and answer over hidraw | the answer to somebody else's request | the answer belongs to the request |
| `irmpemit`, `irmpstatusled`, `picoflash`, test suite | - | one write; firmware loading; scripts | - | - |

The repeated theme: one flag and one buffer between two actors, and a loop that does
not wait where it could lose and does wait where it could hang. `hazards` in
PROJECT.json names the lines.

## 2. The modules

| Module | Models | Composition |
|---|---|---|
| `DurableStore` | what callers of the EEPROM may rely on: a cache and a durable copy | abstract |
| `Eeprom` | `eeprom.c`, every operation that changes state | implements `DurableStore` |
| `EepromPower` | the same with erase and program split into sectors and chunks, and loss of power | EXTENDS `Eeprom` |
| `Buttons` | what the user of a decoder may rely on: press, repetition, release of one button at a time | abstract |
| `Irmp` | the decoder with a frame as one step: mailbox, classification, release detection, learnt rate | - |
| `IrmpEvents` | `Irmp` with a user that polls as slowly as it likes | implements `Buttons` |
| `KeyPath` | decoder, main loop, endpoint, USB stack and host | EXTENDS `Irmp` |
| `CommandService` | what a program on the host may rely on: a request is carried out once, the reply is its outcome | abstract |
| `HidConfig` | configuration commands, LED report, alarm, wakeup, magic report, restart, with USB stack, programs and PC | implements `CommandService` |
| `IrProtocols` | the timing constants of `irmpprotocols.h` in ticks, as sender and receiver use them | - |
| `Irsnd` | the sender: bits of a code, frames, repetitions, pauses | EXTENDS `IrProtocols` |
| `IrmpParams` | the windows of length and the parameter sets of `irmp.c` | EXTENDS `IrProtocols` |
| `IrmpDecoder` | the receiver: from light and dark to protocol, address and command | EXTENDS `IrmpParams` |
| `IrChannel` | what infrared promises: heard as sent, or the light did not arrive | abstract |
| `IrLink` | `Irsnd` of one device and `IrmpDecoder` of another, with the light between them | implements `IrChannel` |
| `IrLog` | `irmp_log`, the sending of a log, its display by `irmpconfig` | - |
| `VdrRemote` | what VDR may rely on at `cRemote::Put` | abstract |
| `Irmp4kbd` | the two threads of the plugin, driver, device | implements `VdrRemote` |
| `IrmpGui` | the graphical configuration program, its user, driver and device | - |
| `MCIrmpEvents`, `MCKeyPath`, `MCHidConfig`, `MCIrLink`, `MCIrmp4kbd`, `MCIrmpGui` | codes, tables and commands for TLC | - |
| `EepromProofs`, `IrmpProofs`, `IrmpEventsProofs`, `KeyPathProofs`, `HidConfigProofs`, `Irmp4kbdProofs`, `IrSignalProofs`, `IrmpGuiProofs` | theorems | EXTEND the above |

### EEPROM

A byte is the set of its cleared bits, so erasing yields `{}` and programming is set
union: programming over data gives neither the old nor the new byte, as in the chip.
A page is an image plus, in its last cell, the mark that distinguishes it from an
erased one. `Write`, `Commit`, `Reset`, `Begin` are `eeprom_write`, `eeprom_commit`,
`eeprom_reset`, `eeprom_begin`; commit and reset run with interrupts disabled and are
one step. `Addr` excludes the marked cell: the layout in `main.c` ends before it.
`res` is the value `eeprom_commit` returned last, which is the verification's result.

`EepromPower` replaces the commit and reset by `CommitStart`/`ResetStart`,
`EraseSector` and `ProgramChunk`, between which `PowerLoss` may strike; it then runs
`eeprom_begin`. A loss within one sector erase or one flash page program is not
modelled (the content of the cells would be arbitrary).

### Decoder, with a frame as one step

A frame is a *code* (protocol, and address with command as one value). Pulses, bits,
checksums and per-protocol conversions are reduced to how a frame ends:
`FrameEnd` (a frame is stored), `RepetitionFrame` (NEC's "same again"),
`FrameAbandoned` (nothing was stored), `FrameRejected` and `LateRepetitionFrame` (the
two that are rejected only after parts of the mailbox were assigned), or `DetectRelease`.
`Corrupt` codes are those that `irmp_get_data` drops (`DropData`).
`GetData` is one action: the interrupt leaves a full mailbox alone, and
`irmp_ir_detected` is cleared last, so that no interleaving inside `irmp_get_data`
shows. That the mailbox is left alone is itself a property (`MailboxStable`), proved.

Time is `delta_detection`, in ticks of about 50 ms up to its saturation. `min_delta`
and `upper_border` are the learnt rate and its 3% tolerance. For NEC the counter
`key_repetition_len` is approximated by `delta_detection`: both start at the end of a
frame. `Short` lists the protocols whose first repetition comes early and is not
learnt from.

### Main loop, endpoint and host

`pc` walks through a pass of the loop: `task` (callbacks run here), `poll`, optionally
`force` (waiting for the forced release, callbacks run too), `new`, `handle`, then
`send_ir`, `send_kbd`, `send_release`; a learn command passes through `learn`. Each
step is one action, so that the timer interrupt and the host come in between.
`in_flight` is what the endpoint really holds and `PrevXferComplete` what the firmware
believes. A report sent while the endpoint is busy is refused by the stack while
`PrevXferComplete` is cleared all the same; nothing is sent while suspended.

External, modelled from how the code uses them: `flash_range_erase` and
`flash_range_program`, TinyUSB (`tud_hid_report`), the host, whose keyboard driver lets
go of all keys when it suspends or resets the device.

### Commands, alarm, wakeup and magic report

`HidConfig` is the same loop seen from the other side: `task`, `alarm`, `magic`,
`command`, `led`, `poll` with the wakeup slots, `send`. `buffer` is what `bufptr` points
to: the one OUT buffer of the USB stack, which the stack arms again as soon as the
callback has returned (`out_state`), so that a report may arrive in it while its
predecessor is handled. A short LED report overwrites two bytes of the command before
it, as in the C code. A handler is one step but for learning and emitting, which take
time. The answer is computed from what the buffer holds when it is sent.
The settings are the wakeup slots, the last of which means restart, and
`send_after_wakeup`; `cells` is the cache of the EEPROM and `saved` what a commit saved.
`SysTick_Handler` may run any number of times between two steps.

A program writes a command and reads until the next answer, as `write_and_check` of
`irmpconfig` does. The outcome a program is entitled to is recorded when its command is
carried out (`outcome`); `ImplementsService` compares it with the reply.

Simplifications: the suspend flag of the stack and its callback are one step inside
`tud_task()`. The reports of IR logging are left out here (section 5, *Commands*). IR data, keys and macros are stored by the code that
stores wakeup slots and are not told apart from them; the capabilities and the picture of
the neopixels are left out.

### Infrared, from bits to light and back

Time is in ticks of the timer interrupt (`F_INTERRUPTS`, 50 kHz). A sample is not a step:
`irsnd_ISR` emits a run of light and a run of dark per bit, and `irmp_ISR` consumes runs,
cut where a counter of it passes a threshold (`Thresholds`, `Ahead`), so that the model
compares the same counters with the same limits as the code does in each sample. Its counters
are 32 bits wide (`uint_fast16_t` on this processor), a day of light, and do not overflow in the model.

`Irsnd`: `FrameOf` is the big switch of `irsnd_send_data`, one definition per protocol
for the bits it sends. `InitFrame`, `SendBit`, `EndOfFrame`, `Gap` and `TrailingSpace`
are the parts of `irsnd_ISR`, with the exceptions of the protocols where the code has them
(start and info frames of GRUNDIG, IR60 and NOKIA, the sync bits of SAMSUNG and NEC16,
automatic repetitions, toggle bits, repetition frames of NEC).

`IrmpDecoder`: the state machine of `irmp_ISR`: `Candidates` is the chain of tests of the
start bit, in its order; `PulsePair` and `BiPhasePair` evaluate a bit; `TimedOut` is what a
pause that is too long means, which for several protocols is that the frame is another one
than thought; `Finish` completes and checks a frame; `GetDataResult` is the second half of
the conversions, in `irmp_get_data`. `DecoderSpec` is `irmp_ISR` under any light and dark, polled at any time;
`Skippable` says how many samples of dark may be taken at once without a test being
jumped over. `irmp_ISR` is not called while `irsnd_ISR` is busy
(`irmpmain.c:27-34`), therefore sender and receiver are two devices.

`IrLink` adds the light: `Emit` moves the end of a pulse by at most a tick, `Block`
interrupts it for the rest of the command, and the main loop fetches a result `Latencies`
samples later, unseen by the receiver.

Left out of the link: the protocols that cannot be sent (LEGO, FAN, A1TVBOX, ROOMBA, ACP24,
PANASONIC, MITSU_HEAVY, B&O, KATHREIN, RCMM), endless repetition and `irsnd_stop`, the
bare repetition frame of NEC, and the flags of repetition and release, which are those of
`Irmp`. The second genre of KASEIKYO is 0.

### IR log

A step of the interrupt is the end of a run of light or dark, where `irmp_log` writes one
byte or, from 255 samples on, three. `seen` is what the sensor saw, `reports` what the host
got, `Shown` what `irmpconfig` displays of a report, with the first run corrected by
`STARTCYCLES`. Light of `STARTCYCLES` samples or less, which begins no log, changes nothing.
A report has its full length: of the last one the part behind the log is whatever follows in
memory (`Beyond`).

`place` is where the main loop is: in `tud_task()` (`task`), in the loop over the offset (`send`), or in its loop
around `tud_task()` (`wait`); in the first and the last callbacks run. `in_flight` is what the endpoint holds.
While the bus is `suspended` `USB_HID_SendData` returns at once and leaves `PrevXferComplete` set
(`SendNothing`), and a suspend sets it (`tud_suspend_cb`), although the endpoint still holds a report: the
loop goes on and clears `log_buf_ready`. A report that is sent while the endpoint holds an older one is refused
by the stack. `lost` and `torn` are auxiliary: the bus was suspended, or the next log begun, before the host had all of
this one. Resets of the bus are in `KeyPath`.

### VDR plugin

`reading` and `evaluating` are the two threads. The reading thread overwrites `buf` without
the mutex; the evaluating one formats two bytes of it at a time, in an order that C++ leaves
open (arguments of `sprintf`), hence `Load`, one byte at a time. The evaluating thread holds the mutex
while it is in `load`. A notification reaches only who waits. The handle is `dead` from the
moment the device is unplugged until the thread notices and closes it. The device sends presses,
repeated reports of the held key, releases, the key of the magic report, and reports that
are not the keyboard's; the driver holds `MaxQueue` of them. `told` and `missed` are
auxiliary: the key VDR believes to be down, and whether a report was lost, overwritten or torn.

Left out: shutdown, the table of key names, spurious wakeups of the condition variable.

### Configuration program

`IrmpGui` is `irmpconfig_gui.cpp` (Linux), one thread. A button, `onSetKey` and the like, starts
a handler; `todo` are the steps that are left of it, an exchange with the device
(`Write_and_Check`: `Write`, `ReadOther`, `ReadAnswer`, `ReadLog`, `GiveUp`, and `Failed` when the handle is
dead) or a step without one (`Connect`, `Rescan`, `Flash` ...). `use` says what the handler does
with the answer: `Load`, `Put`, `Learnt`, `Compare`. Calls between handlers are sequences: the
keyboard timer is `SetKey`, then `SetByRemote`. A NULL handle that is written to or read ends
the program (`Crash`). `enabled` are groups of buttons that are switched together.

`text` is the map as the user sees it and `cells` the table in the device. `line_text`, by which the
device is changed, is the cursor's row as of the last time the toolkit was idle (`Display`). `doubt` is
auxiliary: the parts of the text that need not agree, because the user edited them, opened a file,
was told of an error or a duplicate, or the device was away.

`buffer` is the command in the device's one buffer, not answered yet, and `serving` the one for which it learns
a code, which takes time (`BeginLearn`, `Learn`, `LearnTimeout`); any other is carried out and answered in one step (`Serve`). What is written meanwhile
takes the place of the command that is there; while the device learns, the answer is put over it and it is lost. With `Logging`
the device also sends pieces of its IR log (`LogReport`), which `Write_and_Check` does not skip: `ReadLog` ends the
exchange with an error. The answer is then read by a later exchange, which looks at access and command only. `crossed` is auxiliary: since the device was opened,
a command was written while the answer to an earlier one was still to come. The device is unplugged in any state,
also between two steps of a handler (`Unplug`).

Left out: LED reports of the host, which overwrite a command (they are in `HidConfig`), what is only shown (wakeups, macros, repeat times, alarm, raw data; `Setting` is an exchange
for it), edits that change the form of the map, more than one device.

## 3. The runs

| Run | Shows |
|---|---|
| `eeprom` | any sequence of writes, commits, resets, restarts: log well formed, clean cache is on flash, verification never fails, no page programmed twice, durable store implemented |
| `eeprom_power_program` | power lost twice while programming: old content survives if there is a page in front, otherwise a blank cache is loaded (section 5); success means stored; marked pages are not programmed |
| `irmp_events` | the decoder implements `Buttons`; a full mailbox is left alone; the release comes |
| `keypath` | nothing out of the ordinary: nothing polled is overwritten, the host sees press and release alternate, no key stuck, every key eventually up |
| `keypath_adverse` | slow handling of presses, slow host, resets, learning, damaged and rejected frames: endpoint never taken for free wrongly, release never forgotten, key matches the report |
| `keypath_sleep` | suspends and resumes, NEC repetition frames: no wait for a transfer lasts for ever |
| `hidconfig` | every command in any order, with IR data, LED reports, learning, emitting, restarts: carried out once, answered with its own outcome, and answered unless the host writes something else first |
| `hidwakeup` | with a PC that goes off and on at any time, an alarm that expires while it is off presses its power switch, whatever the loop was waiting for |
| `irlink` | a code of each of 35 protocols, with repetitions and early and late edges, one interrupted, and a second code behind it: heard as sent, once per frame; in the dark the receiver gives up in time |
| `irlog` | recording goes on while a log is sent, and the bus is suspended and resumed: the host gets all of it unless the next log was begun or the bus suspended meanwhile; it is shown as it was seen; the loop gets through with every log |
| `gui` | a user who clicks, learns, edits, opens and flashes; lost answers; a device unplugged and restarted at any time, in the middle of a handler too; a firmware that sends its log, pieces of which are taken for answers: the map shows what the device holds but for what the user knows to be in doubt, until a command is written while an earlier answer is still to come; the program does not hang |
| `irmp4kbd` | reports at any pace, torn reads, lost notifications, the device unplugged and plugged: VDR gets presses, repetitions and releases in an order it expects, is in step when nothing was lost, and the device is found again |

### Bounds

* `eeprom`: 3 pages of 2 cells and the mark, 2 bits: the log fills, is erased and wraps;
  two bits tell "partly programmed" from programmed and erased. The firmware has 32 pages
  of 1024 bytes; the proofs hold for all sizes.
* `eeprom_power_program`: 4 pages in 2 sectors, one cell per chunk, so the supply can fail
  between any two cells and between the sectors; `MaxLosses` 2.
* Decoder: two protocols, three codes: two of one remote control and one of another,
  so that changes of command and of protocol occur. The preset rate of 170 ms is 3
  ticks (1 in the larger runs), `MaxDelta` one or two ticks above the border so that
  shorter, equal and longer intervals and the saturation all occur.
* `KeyPath`: two codes with a key and one without. `keypath_adverse`, the largest run
  (8.4 million states, about two minutes), switches all disturbances but the suspend on
  at once.
* `hidconfig`: one program, 17 commands, two slots (the first wakeup and the one that
  restarts), one code, one second of `send_after_wakeup`. `hidwakeup`: three slots, so that
  two of them may hold one code, and counters up to 2, so that they expire while something
  waits.
* `irlink`: each code has ones and zeros at both ends of its fields, so that a bit lost or
  shifted shows. Two commands: whatever any first one leaves behind meets a second one of every
  kind of start bit and coding (`SecondCodes`). The ends of all pulses of the first command may be
  early or late independently; the second comes without (1.3 million states, about two minutes). `Silences` of 100 ms end every repetition.
  DENON and RC5 may be interrupted, a pulse distance and a bi-phase protocol.
* `irlog`: a buffer of 9 bytes and reports of 5 (2 million states, two and a half minutes) instead of 700 and 63 (both odd, which
  matters to where the end of a log falls); runs of one and of three bytes of either
  colour, so that an escape lies across reports and the buffer fills up on any of its last bytes.
* `irmp4kbd`: two keys, with and without modifier, that share no byte; `Delay` 2 and
  `Delta` 1 tick; `MaxQueue` 1. With `MaxQueue` 2 the first two million states show nothing new.

* `gui`: two lines, one code, one key, so that a code may be a duplicate and a key the last one.
  `Clicks` 2: the user acts twice after the program has connected, and again when the program
  was started anew, or acts once and one piece of a log arrives, at any time, or two pieces arrive; the modes act by
  themselves after that, learning line after line, and keys of the keyboard and of the remote control are
  pressed as often as one likes. A queue of one report, so that any answer may be lost; a piece of the log looks like zeros
  (`Noise`), which other answers may be, too; 1 million states, two and a half minutes. A session without a log is among
  the behaviours, and in it `UncrossedInStep` says `MapInStep`, as nothing crosses. The premise is needed from a third
  click on (section 5). `Hasty = FALSE`: section 5.

### Time and fairness

In `KeyPath` a pass of the loop takes microseconds, a transfer a few milliseconds, a tick stands for
50 ms. `MayTick` therefore lets time pass only while the loop is at rest, learns,
handles a press (`Blocking`), or waits for a slow host (`SlowHost`). `ReleaseDue`
blocks the tick: a release that is due is detected within one period of the timer
interrupt.

`Fairness` of `KeyPath`: the loop goes on (`WF` of `Main` and of the learn steps, which
end after five seconds), the stack runs the completion callback, a host that is awake
fetches what the endpoint holds, the timer interrupt detects a due release, and time
passes: strongly fair, as `MayTick` is switched off and on again with every pass of the
loop. Nothing is assumed of frames, suspends or resumes. `IrmpEvents` assumes the timer,
the detection and a user that keeps polling.

`HidConfig`: weak fairness of the loop, of the stack's callbacks, of a host that fetches
what is there, and of each program reading what has come. Nothing is assumed of the
programs' writing, of SysTick, of IR data or of the PC being switched. `IrLog`: weak
fairness of the loop and of a host that fetches what is there while the bus is not suspended. Nothing is assumed of suspends and resumes (the
bus may stay asleep), and the interrupt may record for ever.
`IrmpGui`: weak fairness of the steps of a handler and of the device, which answers a
command, begins to learn or gives up learning, and strong fairness of time, which passes whatever else happens (`Tick` is
switched off while a report waits). Nothing is assumed of the user, of the remote control or of plugging.
`Irmp4kbd`: weak fairness of each of the two threads. The mutex is always given back, as no
step under it waits. Nothing is assumed of the device; that it stays plugged is a premise
of `Reconnects`.

`IrLink` states no fairness. That a frame is over in time is the bound `TimesOut`, and that
nothing is lost `EachFrameOnce`, an invariant at rest; both are stronger than "eventually".

All runs check deadlock.

## 4. The proofs

All theorems hold for every value of the constants that the named assumptions
(`EepromAssumption`, `IrmpAssumption`, `EventsAssumption`, `KeyPathAssumption`,
`Irmp4kbdAssumption`, `IrLogAssumption`, `GuiAssumption`, `BoundsAssumption`, `RequestsAssumption`,
`ValuesAssumption`, `CodesAssumption`, `IrLinkAssumption`) allow. Where a theorem has a
hypothesis of its own, it excludes a case in which the code does not do what the property says; section 5
has that case.

| Theorem | Property | Hypotheses |
|---|---|---|
| `EepromProofs!TypeCorrect`, `LogShaped`, `Durability`, `Verification`, `WearLevelling`, `Refinement` | `TypeOK`, `LogShape`, `CleanMeansDurable`, `CommitVerifies`, `WearLevelled`, `ImplementsStore` | - |
| `EepromProofs!MarkedLeftAlone`, `TornProgram`, `VerifiedStored` | `NeverProgramsMarked`, `TornProgramKeepsOld`, `VerifiedIsStored` | power is not lost in an erase |
| `IrmpEventsProofs!TypeCorrect`, `MailboxLeftAlone` | `EventsTypeOK`, `MailboxStable` | - |
| `IrmpEventsProofs!ButtonsImplemented` | `ImplementsButtons` | no repetition frames, `OwnCommands` |
| `KeyPathProofs!TypeCorrect` | `TypeOK` | - |
| `KeyPathProofs!XferGated`, `ReleaseRemembered`, `KeyFollowsReport` | `XferGate`, `KeyRemembered`, `KeyMatchesReport` | no suspend |
| `KeyPathProofs!PolledIsReported` | `NothingOverwritten` | `QuickLoop` |
| `KeyPathProofs!KeysLetGo` | `NoStuckKey` | no suspend, `QuickLoop`, `GoodFrames` |
| `KeyPathProofs!ReportsAlternate` | `HostAlternates` | the same, no reset |
| `HidConfigProofs!TypeCorrect` | `TypeOK` | - |
| `HidConfigProofs!ServiceImplemented` | `ImplementsService` | one program |
| `Irmp4kbdProofs!TypeCorrect`, `Refinement`, `KeepsInStep` | `TypeOK`, `ImplementsRemote`, `InStep` | - |
| `IrSignalProofs!TypeCorrect`, `Intact` | `TypeOK`, `LogIntact` | - |
| `IrSignalProofs!AsSeen` | `ShownAsSeen` | a light takes less than 65536 samples |
| `IrSignalProofs!FramesTimeOut`, `LinkTimesOut` | `TimesOut` | not `Stalled`: one of the frames that `irmp.c` waits for |
| `IrSignalProofs!LinkIsLight` | `LinkSpec => DecoderSpec` | - |
| `IrmpGuiProofs!TypeCorrect`, `UncrossedMap` | `TypeOK`, `UncrossedInStep` | the user waits for display and timers (`Hasty = FALSE`) |
| `IrmpGuiProofs!MapKept` | `MapInStep` | the same, and a firmware without the IR log |

**EepromProofs.** `Invariance` proves the inductive invariant `IInv`: types, the shape
of the log (`LogShape`: marked up to `first_empty_page`, erased from there), and that
with a clear dirty flag the newest image is the cache. The shape is what makes the
rest go through: it determines which page `eeprom_begin` finds (`FirstEmptyFound`), and
that the programmed page was erased, so that programming yields the image
(`ProgramErased`). `Refinement`: every step of the log is a step of
`DurableStore` or a stutter.

With power failing, `LogShape` is not inductive: the page in front may hold part of an image.
`PInv` of `EepromPower` says instead that this page has no mark (`TornShaped`), as the mark is in the
chunk that is programmed last, and what has been erased while pages are being erased. `"erase" \notin LossIn`
is needed: a loss while the full log is erased leaves any shape. `TornProgram` includes the first page: there the old content is gone. The number of losses, sectors and chunks is arbitrary.

**IrmpProofs.** Lemmas about the decoder, used by the next two. Every step keeps the types; not obvious is
that the learnt rate only gets shorter than its preset and the border is monotonic in it.
`ButtonsInv` is what interrupt and `irmp_get_data` agree on, whenever the latter is called: what
an empty mailbox, one with a frame and one with a release each say of `key_released`,
`release_pending` and `same_key`, and that a key counts as released only behind a silence longer than the
border. The invariant has no line in the code, which keeps these flags on two sides of an
interrupt. It needs `OwnCommands`, that the command (with the address) tells the codes apart, as the
interrupt does not compare protocols, and frames without repetition frames.

**IrmpEventsProofs.** `MailboxLeftAlone` proves `MailboxStable`. It is not inductive by
itself: what is needed is `FullMeansIdle`, that no frame is being received while the
mailbox is full, which no line of the code states. `ButtonsImplemented` adds to
`ButtonsInv` that the button that is held is the one the user was told of (`IsHeld`), and maps each poll to a step of `Buttons`.

**KeyPathProofs.** `TypeCorrect` needs `DataKnown`: the loop uses `myIRData` only after
it was set (the variable is uninitialised in C). `XferGated` and `ReleaseRemembered` are
proved together (`GateInv`) under `Suspends = FALSE`: the release for the key before is
sent without a look at the endpoint (`main.c:971`) and forgotten at once, which is right
only because the endpoint is free there. Host delays, resets, learn commands, damaged
frames and slow presses are all included.

`KeyFollowsReport` needs where the IR report is while only the key is left to be sent: with the host, in the
endpoint, or dropped by a reset, after which no key is sent either (`Matches`). `PolledIsReported` is about time:
while something is left to be sent the decoder has nothing new before the next tick (`QuickInv`), given a
loop and a host that handle things within one (`QuickLoop`, `MayTick`); suspends, resets and damaged frames are
included. `KeysLetGo` joins both with `ButtonsInv`: at rest with the key released, a key that is down would still be owed a
release (`Owed`). `ReportsAlternate` follows the code that was told last from the decoder to the
host (`Alternation`).

**HidConfigProofs.** `TypeCorrect` holds for any number of programs, which overwrite each other's commands. What
is needed is where a command is (`Places`): in the buffer from its arrival to its answer, with the value of a
"get" put over its arguments in between, or in `serving` while the loop learns or emits.
`ServiceImplemented`: for one program, `Dialogue` says of its request that it was not sent yet, waits in the buffer, is being
carried out, or was carried out and its outcome is what is in the endpoint or with the program; each handler is
one step of `CommandService`, everything else a stutter.

**Irmp4kbdProofs.** `Refinement` proves `ImplementsRemote`, with `KInv`: a key that repeats is
the one VDR was told of, and the last key evaluated (`lastkey`) is too, but for the moment
between a release that the thread generated and the key behind it. The reading thread
disturbs neither, whatever it writes into the buffer: `lastkey` is compared with the copy
the other thread took. `KeepsInStep` needs where the newest report is: there is a history of held keys
that leads from the buffer through the driver's queue to the remote control (`HasHistory`), each next one
reachable by a press or a release, and the key that is evaluated stands at its beginning (`InTime`).

**IrSignalProofs**, the log. `TypeCorrect`: `Room` leaves three bytes, the longest entry, so the buffer is
never overrun. That an offset stays in range is not inductive: the interrupt may replace the length
of the log while it is sent. What is needed is `OffsetInv`, that a report is in transfer only
while the offset is below the size of the buffer, whatever the length says meanwhile.

`Intact`: the buffer holds the bytes of the runs that were recorded (`RecordInv`), so it does when they are
finished (`FinishedInv`) until something else is written, and as long as no report was dropped what the host has got and the endpoint holds is what it holds up to the
offset (`SendInv`).
`AsSeen` then is that decoding inverts encoding: `RunReadBack` for a run, `Collected` for all of them. `LightsFit`
is the width of a length, 16 bits behind the escape (`irmp.c:1245-1246`); a light of more than four seconds loses the
rest.

Both are about functions that are defined by recursion over a sequence (`FlattenSeq`, `Shown`). The induction theorems of
the library take a property as an operator, which no prover here can instantiate; `SetInduction` states the
induction for a set of numbers, proved from `WFMin` of `WellFoundedInduction`, and `PartsExist`, `PartsUnique` and `DownRecursion`
prove that such functions are what their recursion says. They serve for other sequences too.

**IrSignalProofs**, the link. `FramesTimeOut` is about the decoder alone, whatever it sees: noise, parts of frames, anything.
`DecoderOK` says what a recording of dark stands on: the parameters are those of a protocol that was chosen
by its start bit (`RecOK`, `StartOK`), and the length of the pause has not passed the limit (`PauseOK`).
The step that matters is a sample of dark (`DarkTickOK`): `TimedOut` asks some twenty questions when the pause is too long, and every
branch stops, finishes the frame, or goes on with parameters that keep the invariant, except for what `Stalled` lists.
`TimesOut` speaks of the dark only, as `irmp_pause_time` is not cleared in a pulse: there it is the length of the pause before.

`LinkIsLight` and `LinkTimesOut` are about any codes, repetitions and commands, not the 35 of the instance. Every pulse and pause that is
ever put together from a code, a start bit or a gap takes more ticks than an edge may be off (`TimesOK`,
`SenderInv`), so both runs of an edge that is moved remain (`EmitOK`). DENON and THOMSON have no start bit, their first
cell is light, and no bit of theirs is a `Sync`. What `IrLink` lets the receiver take at
once (`Ahead`) jumps over no threshold (`AheadIsSkippable`); with both, each step of the link is one of `DecoderNext` or none.

**IrmpGuiProofs.** `UncrossedMap` and `MapKept`, for a table of any length. In the middle of a handler map and device differ,
so the invariant `GuiInv` is about what is left of it. `MapInv`, while no command has crossed an answer: each part of the text that is not doubted
is what the device holds and will not be changed by a command that the program no longer waits for (`Pending`),
or it is still to be read back by one of the steps that are left (`Mended`). That a change of the device is always followed by
a step that reads it back, into the line that was changed, is `Shape`: proved once for each handler when it begins, where
the cursor is at `line_text` as the user waits for the display, and kept by every step (`TailShaped`). That the
value that is read back is the answer to the question is `Sync`: until a command crosses an answer, what the device
has or has answered is the command that was written last (`Uncrossed`), and at most one answer is on its way.
An exchange that was ended by a piece of the log is doubted or followed by a step that reads its part back, so that
`MapInv` survives it.

Without the log no command crosses an answer (`Quiet`): a command is with the device, or its answer on the
way, only while the program waits for it. This holds because the program waits longer than the device learns and reads
more often than the driver's queue is long (`LearnTime < Patience`, `QueueSize <= Patience`; in the
code five seconds (`main.c:556`) and 5500 reads, a millisecond and more each (`irmpconfig_gui.cpp:1493`), of a
queue of 64 reports); otherwise a late answer would be taken for the next one.

**Only model-checked.** Liveness (`EventuallyReleased`, `EventuallyKeyUp`,
`TransferEnds`, `Answered`, `AlarmWakes`, `LogSent`, `Reconnects`, `KeyArrives`, `HandlersEnd`), because
fairness and ENABLED are out of the prover's reach; `HeardAsSent` and `EachFrameOnce` of `IrLink`,
which say what the decoder computes, bit by bit, from the timing constants of 35 protocols: an argument for any code would be an
induction over its bits, and one per protocol. The type invariants
`PowerTypeOK`, `LinkTypeOK` and `TypeOK` of `IrmpGui` hold in their instances but are not listed in the runs
(`PowerTypeOK` is proved, as part of `PInv`, and that of `IrmpGui`, `TypeCorrect`).

## 5. Where the code does not do what it should

These points are restrictions of the passing runs or were found while reading. Where a model has
them, each is a constant of a model, and the instance named here, run by hand, gives
the trace.

### EEPROM

* `eeprom_commit` clears `_dirty` also when its verification failed (`eeprom.c:134`), so
  that a retry returns true and has saved nothing; README.md:61-62 of the firmware says that a
  commit saves permanently. In `EepromPower` with `MaxLosses = 1` a page that is half programmed
  with its mark unwritten leads there.
* Power lost in the *erase* of a full log (`LossIn = {"erase"}`), or behind it while the first page is programmed,
  loses both the old and the new content: a blank cache is loaded. `TornProgramKeepsOld` says so of the
  first page. No statement of the repository promises otherwise.

### Decoder and key path

* `ImplementsButtons` holds for frames that pass all checks, without NEC repetition
  frames. With rejected KASEIKYO frames (`irmp.c:5552` assigns `irmp_protocol` first),
  with repetition frames that come too late (`irmp.c:5573` zeroes the address) and with
  frames dropped by `irmp_get_data` (`irmp.c:2933` sets the protocol to unknown), the release
  names another code than the press. `EventsAssumption` states the first and the last of these,
  the configuration of the run the middle one (`RepeatProtocols = {}`).
* Two remote controls with a common address and command: `same_key` survives the change of
  protocol (`irmp.c:2892`), the release is taken for a repetition and the key stays down.
  In `KeyPath` with `Codes` in which two protocols share a command `NoStuckKey` fails. The rejected frame of
  another protocol does the same.
* `NoStuckKey`, `NothingOverwritten`, `HostAlternates` need a host that fetches a report
  within a tick and presses that are handled within a tick. With `Blocking = TRUE` and the codes
  `TwoButtons` the release that was polled behind a slow press is discarded (`main.c:1002`).
* `XferGate`, `KeyRemembered` need a bus that is not suspended: `tud_suspend_cb` declares the
  transfer complete that the endpoint still holds (`usb_hid.c:81`; `Suspends = TRUE`).
* `TransferEnds` needs a device that is not reset: a reset drops the transfer without a
  callback and the loop waits until the next suspend (`usb_hid.c:73`).
* The learn command takes the first data after its flush, also the release of a button that
  was pressed before it (`main.c:559`; `Learning = TRUE`).

### Commands

* A report of the host that arrives before the answer overwrites the command: an LED report
  alone leaves the program waiting for ever, while PROTOCOLS.md:27 says "The device
  answers". This is the premise `~disturbed` of `Answered`.
* With two programs (`Clients` of two elements) `ImplementsService` fails: each takes the next
  answer for its own, as `irmpalarm.c:138` does, or one like its own, as `irmpconfig` does.
* IR logging is compiled in (`irmpconfig.h:264`), and the programs skip the reports of keyboard
  and IR, not those of the log: a log in between is taken for the answer, and `irmpconfig` prints ERROR.
* A code that is in two wakeup slots presses the power switch twice (`main.c:785-802`), the
  second time when the PC may already be on; README.md:68 says "wakeup only happens, if the PC is switched
  off". `tud_ready()` is asked only before the first slot.
* A wakeup by IR cancels the alarm (`main.c:545`), and an alarm that expires while the PC is on
  wakes it right after it is switched off.
* PROTOCOLS.md shows the alarm with the high byte first; the code copies the four bytes as they
  are in memory. Resetting `send_after_wakeup` stores 0xFF, which is read as 0.

### Infrared

* SIEMENS with bits 16 and 17 in one long pulse: bit 17 is lost, `last_value` is or-ed in
  (`irmp.c:4494`): with `Codes <- SiemensCodes` and `Commands <- OneSiemens` of `MCIrLink`, address 0x123
  with command 0x028 is heard as command 0x018 and `HeardAsSent` fails.
* RUWIDO, GRUNDIG and a NEC start bit without bits have no timeout when the frame is cut off
  (`irmp.c:4473, 4430, 4555-4560`), although irmpprotocols.h:99 says "timeout after 15.5 ms
  darkness". With `"RUWIDO"` in `blockable` of `MCIrLink` `TimesOut` fails. `Stalled` lists all that can
wait so, as `LinkTimesOut` proves: GRUNDIG with 0 to 4 or 7 bits, RUWIDO with fewer than 15, NEC or NEC42 with none that
comes too late to repeat anything.
* After JVC `irmp_protocol` stays JVC (`irmp.c:3496-3507, 3548`): MELINERA is not received, NEC42
  is misread, NEC16 is waited for without end, and whatever comes within 28 ms is taken
  for a repetition of JVC. `NotAfterJvc` keeps these out of the second commands.
* RC6 loses the MSB of addresses from 0x80 on when the toggle bit is set; RUWIDO and SIEMENS are not
  received when the MSB of the address is set; their start pause of 28 ticks
  stands one tick of deviation, not two: from 30 on it is taken for DENON's.
* The sender drops the low bits of FDC, the high byte of the address of NEC, the low address bits of
  SIRCS with 12 to 19 bits. An APPLE code whose address is the complement of its command is heard as NEC.
  The codes of `AllCodes` avoid what the sender does not send.

### IR log

* A log that fills the buffer while the sensor sees light never ends: `last_val` keeps its value
  (`irmp.c:1240`), the end is looked for only when it equals the sample (`irmp.c:1190-1192`), and
  nothing is logged until the device restarts. A fair `LogEnds` with `buf_idx # 0 ~> buf_idx = 0`
  added to `IrLog` shows it.
* The interrupt begins the next log in the same buffer while the last one is sent; a log that is
  finished before the other is sent is dropped, as `log_buf_ready` is cleared behind
  it (`main.c:920`). `torn` is a premise of `LogIntact` and `ShownAsSeen`.
* While the PC sleeps the reports of a log are dropped (`usb_hid.c:25`), and a suspend in the middle of one ends the
  wait for it (`usb_hid.c:81`): the loop counts them as sent and clears `log_buf_ready`. Behind a resume the endpoint may
  still hold an old report, and the stack refuses the first one of the next log. `lost` is the other premise. A reset of
  the bus drops a report and ends no wait (see *Decoder and key path*); `IrLog` has none.
* The last report contains what lies behind the log, and at the end of the buffer behind the
  buffer (`usb_hid.c:56-59`). `irmpconfig` adds the uncounted samples to the first run of every
  report (`irmpconfig.c:846-849`), not only of the first, and a run that lies across two
  reports is shown as two: `ShownAsSeen` is about logs of one report.

### Host programs

* `irmp4kbd`: after reconnecting, the report that was read before the connection broke is evaluated once
  more ("read anew", `irmp4kbd.c:228`), so that a key that was down then is repeated for VDR; a
  lost notification loses a press or a release. `missed` is the premise of `InStep` and `KeyArrives`.
* `vdr-plugin-irmp` has a parenthesis too many in its test of the release flag and does not compile;
  in another test `IRMP_FLAG_REPETITION || IRMP_FLAG_RELEASE` is a logical or where a bitwise one is meant.
* `vdr-plugin-statusleds2irmp`: `Stop` writes "LED off" before it sets `stop`, so that the thread
  may switch it on again; buffers and handle are shared between threads without a lock; after a read
  error with a keyboard or IR report in the buffer it reads for ever.

### Configuration program

With `Hasty = TRUE` `MapInStep` fails: a click that waits behind a running handler, or the keyboard's
timer behind the loop's, changes the device at the old line and the text at the new one, as `line_text`
(`irmpconfig_gui.cpp:547`) is refreshed only when the toolkit is idle. The rest was found while reading or
while making the model:

* Quitting or double-clicking without a device passes a NULL handle to `hid_write` (983-993), and the "NO" of
  its question (990) does nothing. A device that goes in the middle of a handler does the same:
  the handler goes on with the next exchange. The model has both as `Crash`.
* A handle that dies in receive mode leaves rescan and upgrade disabled (1294-1401): there is no way to
  reconnect. One that dies while a code is learnt in keyboard mode enables all buttons but "connect" (3655-3657).
* A disconnect leaves the loop's timer armed (1939; 1049-1051 remove the other three).
* With a file opened, learning goes on after keyboard mode was left; at the last line "press same button
  again" (1851) does not end the loop, as the line itself is left out of the comparison.
* `onSetKey`, `onSetByRemoteIrdata`, `onResetIrdata` and `onResetKey` look the cursor up with the old
  `mapbeg` before `onApply` fills it anew (1735-1741), `onSetIrdata` after: behind an edit that changes
  lengths another line of the map is changed.
* A map with a newline at its end puts the cursor behind the last line, and the next search
  (`while(mapbeg[i] <= pos)`) runs off the array.
* IR logging is compiled in (`irmpconfig.h:264`), and a log is sent for whatever is received (`main.c:915-921`), also right after
  a code was learnt, on the interface of the answers. `Write_and_Check` skips the reports of keys and of IR data only (1493): a report of
  the log ends the read with an error, or shows its bytes as data, and the answer is left for the next exchange. After
  "set by remote" that is the rule: the log comes before the answer to the "get" behind it. A code with more than 63 bytes of
  log takes two reports, which leaves the dialogue two answers behind, and as 1520 compares access and command but not the line,
  the answer for line n is accepted for line n + 1 without an error. With `Clicks = 3` in `IrmpGui.cfg` TLC finds
  `MapInStep` violated by a piece of the log that arrives while the program connects, behind which all answers are one late, and two
  "set by remote"; what is left is `UncrossedInStep`. To read the queue until it is empty before a command, as 1456-1479 once did,
  would not suffice, as a log may come behind it.
* The queue is not read before a command (1456-1479 are compiled out): when 64 reports wait, the answer
  is dropped. A read that failed shows zeros.
* A duplicate is in the device before the user is warned (1872, 1883-1918), and the map does not show it.
* "firmware upgrade successful" is printed whether or not the verification succeeded (2655-2680).

## 6. What is not modelled, and the plan

Not modelled for good: LED colours and blinking, USB descriptors, dialogues and graphics of the
host programs, `picoflash` (sequential I/O against the boot ROM), the test scripts; the neopixel
picture (index arithmetic without a state that matters to anything else); the protocols that
cannot be sent, whose windows could only be compared with themselves; macros, a sequence of codes with
the waits of a single one; `vdr-plugin-irmp`, which does not compile, and
`vdr-plugin-statusleds2irmp`, whose actors are threads of VDR. The largest files of the repository
are copies (`test-suite/test-irmp` holds an older decoder and sender), variants of the same
program for Windows, and graphical toolkit code.

What is left to prove: `HeardAsSent` for one protocol, from its encoder and decoder; liveness is out of reach (section 4).
