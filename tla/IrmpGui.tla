------------------------------ MODULE IrmpGui ------------------------------
(***************************************************************************)
(* irmpconfig_gui/Linux/irmpconfig_gui.cpp: the graphical configuration    *)
(* program, one thread that runs a handler for each button and timer.  It  *)
(* shows the table of the device, IR data and key of each line, as a text  *)
(* that the user may edit, and changes text and device side by side: the   *)
(* device by the number in line_text, the text at the cursor.              *)
(*                                                                         *)
(* A handler is a sequence of steps, todo.  Most are exchanges: a command  *)
(* is written and reports are read until an answer comes.  Meanwhile the   *)
(* program does nothing else.  It skips the reports of keys and of IR      *)
(* data, but not those of the IR log: the first one that it reads while it *)
(* waits ends the exchange, and the answer comes later, perhaps after the  *)
(* next command.                                                           *)
(*                                                                         *)
(* External, as the program uses them: the toolkit, which shows the row of *)
(* the cursor in line_text when it is idle; the hidraw driver, which holds *)
(* QueueSize reports for an open handle and drops the rest; the device.    *)
(***************************************************************************)
EXTENDS Naturals, Sequences, SequencesExt

CONSTANTS
    Lines,          \* lines of the table, irdatanr
    Codes, Keys,    \* IR data and keys that the user may enter
    Erased,         \* ffffffffffff, and ff: no key
    Zeros,          \* 000000000000
    Noise,          \* what a piece of the IR log looks like as IR data or a key
    NoKey,
    Edits,          \* parts of the map and what the user may write there
    File,           \* a table that the user may open
    QueueSize,
    Logging,        \* is the firmware built with IRMP_LOGGING?
    LearnTime,      \* ticks after which the device gives up learning
    Patience,       \* ticks after which the program gives up reading
    Clicks,         \* how often the user does something, and how many pieces of
                    \* the log of a remote control there are
    Hasty           \* does the user act before line_text is up to date, and
                    \* mix the keyboard mode with the loop mode?

Line == 1 .. Lines
Parts == Line \X {"irdata", "key"}
Values == Codes \cup Keys \cup {Erased, Zeros, Noise}
Blank == [p \in Parts |-> Erased]

ASSUME GuiAssumption ==
    /\ Lines \in Nat \ {0}
    /\ QueueSize \in Nat \ {0}
    /\ LearnTime \in Nat /\ Patience \in Nat /\ LearnTime < Patience
    /\ QueueSize <= Patience
    /\ Clicks \in Nat
    /\ Hasty \in BOOLEAN /\ Logging \in BOOLEAN
    /\ Edits \subseteq Parts \X Values
    /\ File \in [Parts -> Values]

VARIABLES
    running,        \* the program has neither been left nor crashed
    handle,         \* connected_device: "none", "open", "dead" once unplugged
    listed,         \* was the device there when it was looked for?
    enabled,        \* the groups of buttons and fields that are enabled
    active,         \* of "receive", "keyboard" and "loop" (template_mode)
    timers,
    pressed,        \* got_key and its key_text
    last_key,
    text,           \* eeprom_map_text
    modified, cursor, line_text,
    doubt,          \* parts of the text that need not be the device's: edited,
                    \* or the user was told so
    todo,           \* the steps that are left of the running handler
    sent,           \* the command of the first one is written
    tries,
    crossed,        \* since the device was opened, has a command been written
                    \* while the answer to an earlier one was still to come?
    reports,        \* what the driver holds
    clicks,
    plugged, cells, \* the device and its table
    buffer,         \* its buffer for the command that was written last
    serving, left   \* the command it learns for, and for how long

mode_vars == <<enabled, active, timers>>
key_vars == <<pressed, last_key>>
text_vars == <<text, modified, doubt>>
place_vars == <<cursor, line_text>>
read_vars == <<sent, tries, crossed>>
device_vars == <<plugged, cells, buffer, serving, left>>
vars == <<running, handle, listed, mode_vars, key_vars, text_vars, place_vars,
          todo, read_vars, reports, clicks, device_vars>>

-----------------------------------------------------------------------------
(* The steps of handlers.                                                  *)

\* An exchange, and what is done with the answer.
Ask(acc, cmd, i, value, use) ==
    [acc |-> acc, cmd |-> cmd, line |-> i, value |-> value, use |-> use]

\* Wakeups, macros, repeat times, alarm, raw data: nothing else depends on them.
Setting == Ask("get", "setting", 0, Erased, "show")
LearnSetting == Ask("set", "setting_remote", 0, Erased, "learnt")

Get(kind, i, use) == Ask("get", kind, i, Erased, use)
Set(kind, i, value, use) == Ask("set", kind, i, value, use)
Reset(kind, i) == Ask("reset", kind, i, Erased, "show")
Reboot == Ask("set", "reboot", 0, Erased, "show")
Dirty == Ask("get", "dirty", 0, Erased, "show")

\* A step without an exchange.
Do(what) == Ask("none", what, 0, Erased, "none")

\* No command is in the device's buffer, or none that it has not answered yet.
NoCommand == Do("nothing")

\* Two steps for each line.
OnLines(steps(_)) ==
    [j \in 1 .. 2 * Lines |-> steps((j + 1) \div 2)[2 - (j % 2)]]

\* Mutant: as after the other three changes of a line.
SetKeyNext(i, key) == <<Set("key", i, key, "show"), Get("key", i, "put_next")>>

SetKey(i, key) == <<Set("key", i, key, "show"), Get("key", i, "put")>>

SetByRemote(i) ==
    <<Set("irdata_remote", i, Erased, "learnt"), Get("irdata", i, "compare")>>

LoadLine(i) == <<Get("irdata", i, "load"), Get("key", i, "load")>>
LoadAll == OnLines(LoadLine) \o <<Do("loaded")>>

FlashLine(i) == <<Set("irdata", i, text[<<i, "irdata">>], "wrote"),
                  Set("key", i, text[<<i, "key">>], "wrote")>>

AfterOpening ==
    <<Get("caps", 0, "show"), Get("caps", 1, "show"), Do("get_eeprom"),
      Do("enable"), Setting>>

-----------------------------------------------------------------------------
(* What is enabled.  "commands" are the buttons not named below; "rescan"  *)
(* stands for upgrade, "list" for the text fields and the map too.         *)

AtStart == {"connect", "rescan", "list"}
OnConnected == {"commands", "disconnect", "receive", "keyboard"}

Connected(e) == (e \cup OnConnected) \ {"connect"}
Disconnected(e) == (e \ OnConnected) \cup {"connect"}

OffWhileReceiving == {"commands", "disconnect", "keyboard", "rescan"}
OffInKeyboardMode == {"commands", "disconnect", "receive", "rescan", "list"}

Init ==
    /\ running = TRUE
    /\ handle = "none" /\ listed = FALSE
    /\ enabled = AtStart /\ active = {} /\ timers = {}
    /\ pressed = NoKey /\ last_key = NoKey
    /\ text = Blank /\ modified = FALSE /\ doubt = {}
    /\ cursor = 1 /\ line_text = 1
    /\ todo = <<Do("rescan"), Do("connect")>>
    /\ sent = FALSE /\ tries = 0
    /\ reports = <<>> /\ crossed = FALSE
    /\ clicks = 0
    /\ plugged = TRUE /\ cells = Blank
    /\ buffer = NoCommand /\ serving = NoCommand /\ left = 0

Start ==
    /\ ~running
    /\ running' = TRUE
    /\ enabled' = AtStart
    /\ todo' = <<Do("rescan"), Do("connect")>>
    /\ UNCHANGED <<handle, listed, active, timers, key_vars, text_vars, place_vars,
                   read_vars, reports, device_vars>>

Idle == running /\ todo = <<>>

\* The user waits for the display, and for a timer of the loop mode.
Ready == Hasty \/ line_text = cursor
User == Idle /\ Ready /\ (Hasty \/ "loop_timer" \notin timers)
Button(group) == User /\ group \in enabled

\* The program is left, or uses a NULL handle and crashes.
End ==
    /\ running' = FALSE
    /\ handle' = "none" /\ listed' = FALSE
    /\ enabled' = {} /\ active' = {} /\ timers' = {}
    /\ pressed' = NoKey /\ last_key' = NoKey
    /\ text' = Blank /\ modified' = FALSE /\ doubt' = {}
    /\ cursor' = 1 /\ line_text' = 1
    /\ todo' = <<>> /\ sent' = FALSE /\ tries' = 0
    /\ reports' = <<>>
    /\ UNCHANGED <<crossed, device_vars>>

-----------------------------------------------------------------------------
(* Write_and_Check.                                                        *)

Remote == [id |-> "remote"]
Log == [id |-> "log"]

Step == running /\ todo # <<>>
Exchange == Step /\ Head(todo).acc # "none"
KeyboardTimer == Last(todo).cmd = "rearm"

\* onSetByRemoteIrdata fails, which ends the keyboard mode if it was called by
\* its timer.  The buttons and timers are e and t when it does.
Aborted(e, t) ==
    /\ todo' = <<>>
    /\ IF KeyboardTimer
         THEN /\ enabled' = (e \cup OffInKeyboardMode) \ {"connect"}
              /\ active' = active \ {"keyboard"}
              /\ timers' = t \ {"keyboard_timer"}
              /\ last_key' = NoKey
         ELSE enabled' = e /\ timers' = t /\ UNCHANGED <<active, last_key>>
    /\ UNCHANGED pressed

GoesOn(e, t) ==
    /\ todo' = Tail(todo)
    /\ enabled' = e /\ timers' = t
    /\ UNCHANGED <<active, key_vars>>

Doubted(p, ok) == doubt' = IF ok THEN doubt \ {p} ELSE doubt \cup {p}

Show(e, t) ==
    /\ Head(todo).use = "show"
    /\ GoesOn(e, t)
    /\ UNCHANGED <<text_vars, place_vars>>

Load(ok, v, e, t) ==
    LET s == Head(todo)
        p == <<s.line, s.cmd>>
    IN /\ s.use = "load"
       /\ GoesOn(e, t)
       /\ text' = [text EXCEPT ![p] = v]
       /\ Doubted(p, ok)
       /\ UNCHANGED <<modified, place_vars>>

Wrote(ok, e, t) ==
    LET s == Head(todo)
    IN /\ s.use = "wrote"
       /\ GoesOn(e, t)
       /\ Doubted(<<s.line, s.cmd>>, ok)
       /\ UNCHANGED <<text, modified, place_vars>>

PutText(p, ok, v) ==
    /\ text' = [text EXCEPT ![p] = v]
    /\ modified' = TRUE
    /\ Doubted(p, ok)

NextLine == IF cursor < Lines THEN cursor + 1 ELSE cursor

\* The line of the cursor is replaced by what was read back.  The keyboard's
\* timer remembers the key.
Put(ok, v, e, t) ==
    /\ Head(todo).use \in {"put", "put_next"}
    /\ todo' = Tail(todo)
    /\ enabled' = e /\ timers' = t
    /\ PutText(<<cursor, Head(todo).cmd>>, ok, v)
    /\ cursor' = IF Head(todo).use = "put_next" THEN NextLine ELSE cursor
    /\ last_key' = IF KeyboardTimer THEN v ELSE last_key
    /\ UNCHANGED <<active, pressed, line_text>>

Learnt(ok, e, t) ==
    /\ Head(todo).use = "learnt"
    /\ IF ok THEN GoesOn(e, t) ELSE Aborted(e, t)
    /\ doubt' = IF ok \/ Head(todo).cmd = "setting_remote" THEN doubt
                ELSE doubt \cup {<<Head(todo).line, "irdata">>}
    /\ UNCHANGED <<text, modified, place_vars>>

\* The device has learnt it: is it in another line of the map?
Compare(ok, v, e, t) ==
    LET duplicate == \E i \in Line \ {line_text} : text[<<i, "irdata">>] = v
    IN /\ Head(todo).use = "compare"
       /\ \/ /\ duplicate
             /\ Aborted(e, t)
             /\ doubt' = doubt \cup {<<line_text, "irdata">>}
             /\ UNCHANGED <<text, modified, place_vars>>
          \/ /\ ~duplicate
             /\ GoesOn(e, t \cup IF "loop" \in active THEN {"loop_timer"} ELSE {})
             /\ PutText(<<cursor, "irdata">>, ok, v)
             /\ cursor' = NextLine
             /\ UNCHANGED line_text

\* The handler goes on with the answer, or without one.
After(ok, v, e, t) ==
    /\ sent' = FALSE /\ tries' = 0
    /\ \/ Show(e, t) \/ Load(ok, v, e, t) \/ Wrote(ok, e, t)
       \/ Put(ok, v, e, t) \/ Learnt(ok, e, t) \/ Compare(ok, v, e, t)

NoAnswer == IF Head(todo).cmd = "key" THEN Erased ELSE Zeros

StoppedTimers == timers \ {"keyboard_timer", "read_timer"}

\* The handle is dead: onRescan, and the handler goes on with its next step.
Failed ==
    /\ handle' = "none"
    /\ listed' = plugged
    /\ reports' = <<>>
    /\ After(FALSE, NoAnswer, Disconnected(enabled), StoppedTimers)
    /\ UNCHANGED <<running, crossed, device_vars>>

\* The device learns, and another command has arrived meanwhile: there is no
\* room for a third one.
BufferTaken == serving # NoCommand /\ buffer # serving

\* The device has not answered yet, or the answer was not read.
Owes == buffer # NoCommand
Unread == \E j \in 1 .. Len(reports) : reports[j].id = "config"

\* The command takes the place of one that the device has not begun yet.
Write ==
    /\ Exchange /\ ~sent
    /\ handle = "open" /\ ~BufferTaken
    /\ sent' = TRUE
    /\ buffer' = Head(todo)
    /\ crossed' = (crossed \/ Owes \/ Unread)
    /\ UNCHANGED <<running, handle, listed, mode_vars, key_vars, text_vars,
                   place_vars, todo, tries, reports, plugged, cells, serving, left>>

WriteError == Exchange /\ ~sent /\ handle = "dead" /\ Failed

Crash == Exchange /\ handle = "none" /\ End

Waits == Exchange /\ sent /\ tries < Patience

\* Reports of keys and of IR data are skipped, each takes one of the reads.
\* Those that came before the device is done are read before the program gives up.
ReadOther ==
    /\ Waits
    /\ reports # <<>> /\ Head(reports) = Remote
    /\ reports' = Tail(reports)
    /\ tries' = IF Owes THEN tries ELSE tries + 1
    /\ UNCHANGED <<running, handle, listed, mode_vars, key_vars, text_vars,
                   place_vars, todo, sent, crossed, device_vars>>

\* Mutant: the kind of the report is not looked at.
ReadAnything ==
    /\ Waits
    /\ reports # <<>> /\ Head(reports) = Log
    /\ After(TRUE, Noise, enabled, timers)
    /\ reports' = Tail(reports)
    /\ UNCHANGED <<running, handle, listed, crossed, device_vars>>

\* A report of the log is taken for the answer, a wrong one.
ReadLog ==
    /\ Waits
    /\ reports # <<>> /\ Head(reports) = Log
    /\ After(FALSE, Noise, enabled, timers)
    /\ reports' = Tail(reports)
    /\ UNCHANGED <<running, handle, listed, crossed, device_vars>>

ReadAnswer ==
    /\ Waits
    /\ reports # <<>> /\ Head(reports).id = "config"
    /\ LET a == Head(reports)
       IN After(a.ok /\ a.acc = Head(todo).acc /\ a.cmd = Head(todo).cmd,
                a.value, enabled, timers)
    /\ reports' = Tail(reports)
    /\ UNCHANGED <<running, handle, listed, crossed, device_vars>>

ReadError == Waits /\ reports = <<>> /\ handle = "dead" /\ Failed

\* Mutant: it sends the command again.
GiveUpRetries ==
    /\ Exchange /\ sent /\ tries = Patience
    /\ sent' = FALSE /\ tries' = 0
    /\ UNCHANGED <<running, handle, listed, mode_vars, key_vars, text_vars,
                   place_vars, todo, crossed, reports, device_vars>>

GiveUp ==
    /\ Exchange /\ sent /\ tries = Patience
    /\ After(FALSE, NoAnswer, enabled, timers)
    /\ UNCHANGED <<running, handle, listed, crossed, reports, device_vars>>

-----------------------------------------------------------------------------
(* The steps without an exchange.                                          *)

Doing(what) == Step /\ Head(todo).cmd = what

\* onGetEeprom asks before it discards changes of the map.
GetEeprom ==
    /\ Doing("get_eeprom")
    /\ \/ todo' = LoadAll \o Tail(todo) /\ UNCHANGED doubt
       \/ modified /\ todo' = Tail(todo) /\ doubt' = Parts
    /\ UNCHANGED <<running, handle, listed, mode_vars, key_vars, text, modified,
                   place_vars, read_vars, reports, device_vars>>

Loaded ==
    /\ Doing("loaded")
    /\ todo' = Tail(todo)
    /\ modified' = FALSE
    /\ cursor' = 1 /\ line_text' = Lines
    /\ active' = active \ {"loop"}
    /\ UNCHANGED <<running, handle, listed, enabled, timers, key_vars, text,
                   doubt, read_vars, reports, device_vars>>

Connect ==
    /\ Doing("connect")
    /\ IF handle = "none" /\ listed /\ plugged
         THEN /\ handle' = "open"
              /\ todo' = AfterOpening \o Tail(todo)
              /\ crossed' = FALSE
         ELSE todo' = Tail(todo) /\ UNCHANGED <<handle, crossed>>
    /\ UNCHANGED <<running, listed, mode_vars, key_vars, text_vars, place_vars,
                   sent, tries, reports, device_vars>>

Enable ==
    /\ Doing("enable")
    /\ todo' = Tail(todo)
    /\ enabled' = Connected(enabled)
    /\ UNCHANGED <<running, handle, listed, active, timers, key_vars, text_vars,
                   place_vars, read_vars, reports, device_vars>>

Disconnect ==
    /\ handle' = "none" /\ reports' = <<>>
    /\ enabled' = Disconnected(enabled)
    /\ timers' = StoppedTimers
    /\ doubt' = Parts
    /\ UNCHANGED <<running, active, key_vars, text, modified, place_vars,
                   read_vars, device_vars>>

StepDisconnect ==
    Doing("disconnect") /\ todo' = Tail(todo) /\ Disconnect /\ UNCHANGED listed

Rescan ==
    Doing("rescan") /\ todo' = Tail(todo) /\ Disconnect /\ listed' = plugged

\* A device that restarts has what was committed, perhaps nothing.
Restarted == cells' \in {cells, Blank}

Flash ==
    /\ Doing("flash")
    /\ todo' = Tail(todo)
    /\ plugged' \in {plugged, TRUE}
    /\ Restarted
    /\ UNCHANGED <<running, handle, listed, mode_vars, key_vars, text_vars,
                   place_vars, read_vars, reports, buffer, serving, left>>

Rearm ==
    /\ Doing("rearm")
    /\ todo' = Tail(todo)
    /\ timers' = timers \cup IF "keyboard" \in active THEN {"keyboard_timer"} ELSE {}
    /\ UNCHANGED <<running, handle, listed, enabled, active, key_vars, text_vars,
                   place_vars, read_vars, reports, device_vars>>

Exit == Doing("exit") /\ End

Handler ==
    \/ Write \/ WriteError \/ Crash \/ ReadOther \/ ReadLog \/ ReadAnswer
    \/ ReadError \/ GiveUp \/ GetEeprom \/ Loaded \/ Connect \/ Enable \/ StepDisconnect
    \/ Rescan \/ Flash \/ Rearm \/ Exit

-----------------------------------------------------------------------------
(* The buttons.                                                            *)

Begin(steps) ==
    /\ todo' = steps
    /\ UNCHANGED <<running, handle, listed, mode_vars, key_vars, text_vars,
                   place_vars, read_vars, reports, device_vars>>

onConnect == Button("connect") /\ Begin(<<Do("connect")>>)
onDisconnect == Button("disconnect") /\ Begin(<<Do("disconnect")>>)
onRescan == Button("rescan") /\ Begin(<<Do("rescan")>>)
onReboot == Button("commands") /\ Begin(<<Reboot, Do("disconnect")>>)
onDevlistDoubleclicked ==
    Button("list") /\ Begin(<<Dirty, Do("disconnect"), Do("connect")>>)
onCmdQuit == User /\ Begin(<<Dirty, Do("exit")>>)
onUpgrade ==
    /\ Button("rescan")
    /\ Begin((IF handle # "none" THEN <<Reboot>> ELSE <<>>)
             \o <<Do("disconnect"), Do("flash"), Do("rescan"), Do("connect")>>)

onSetWakeup == Button("commands") /\ Begin(<<Setting>>)
onSetMacro == Button("commands") /\ Begin(<<Setting>>)
onSetRepeat == Button("commands") /\ Begin(<<Setting>>)
onSetAlarm == Button("commands") /\ Begin(<<Setting>>)
onSendIR == Button("commands") /\ Begin(<<Setting>>)
onCommitEeprom == Button("commands") /\ Begin(<<Setting>>)
onGetWakeup == Button("commands") /\ Begin(<<Setting>>)
onGetMacro == Button("commands") /\ Begin(<<Setting>>)
onGetRepeat == Button("commands") /\ Begin(<<Setting>>)
onGetAlarm == Button("commands") /\ Begin(<<Setting>>)
onResetWakeup == Button("commands") /\ Begin(<<Setting>>)
onResetMacro == Button("commands") /\ Begin(<<Setting>>)
onResetRepeat == Button("commands") /\ Begin(<<Setting>>)
onResetAlarm == Button("commands") /\ Begin(<<Setting>>)
onGetCaps == Button("commands") /\ Begin(<<Get("caps", 0, "show"), Get("caps", 1, "show")>>)
onGetrawEeprom == Button("commands") /\ Begin(<<Setting, Setting>>)
onSetByRemoteWakeup == Button("commands") /\ Begin(<<LearnSetting, Setting>>)
onSetByRemoteMacro == Button("commands") /\ Begin(<<LearnSetting, Setting>>)

onGetIrdata ==
    Button("commands") /\ Begin(<<Get("irdata", line_text, "show")>>)
onGetKey == Button("commands") /\ Begin(<<Get("key", line_text, "show")>>)

onSetIrdata(code) ==
    /\ Button("commands")
    /\ Begin(<<Set("irdata", line_text, code, "show"),
               Get("irdata", line_text, "put_next")>>)
onSetKey(key) == Button("commands") /\ Begin(SetKey(line_text, key))
onResetIrdata ==
    /\ Button("commands")
    /\ Begin(<<Reset("irdata", line_text), Get("irdata", line_text, "put_next")>>)
onResetKey ==
    /\ Button("commands")
    /\ Begin(<<Reset("key", line_text), Get("key", line_text, "put_next")>>)
onSetByRemoteIrdata == Button("commands") /\ Begin(SetByRemote(line_text))

onGetEeprom == Button("commands") /\ Begin(<<Do("get_eeprom")>>)
onResetEeprom ==
    Button("commands") /\ Begin(<<Reset("eeprom", 0), Do("get_eeprom")>>)
onSetEeprom ==
    /\ Button("commands")
    /\ todo' = OnLines(FlashLine)
    /\ line_text' = Lines
    /\ UNCHANGED <<running, handle, listed, mode_vars, key_vars, text_vars, cursor,
                   read_vars, reports, device_vars>>

Buttons ==
    \/ onConnect \/ onDisconnect \/ onRescan \/ onReboot \/ onUpgrade
    \/ onDevlistDoubleclicked \/ onCmdQuit
    \/ onSetWakeup \/ onSetMacro \/ onSetRepeat \/ onSetAlarm \/ onSendIR
    \/ onCommitEeprom \/ onGetWakeup \/ onGetMacro \/ onGetRepeat \/ onGetAlarm
    \/ onResetWakeup \/ onResetMacro \/ onResetRepeat \/ onResetAlarm
    \/ onGetCaps \/ onGetrawEeprom \/ onSetByRemoteWakeup \/ onSetByRemoteMacro
    \/ onGetIrdata \/ onGetKey \/ onSetByRemoteIrdata
    \/ \E c \in Codes : onSetIrdata(c)
    \/ \E k \in Keys : onSetKey(k)
    \/ onResetIrdata \/ onResetKey
    \/ onGetEeprom \/ onSetEeprom \/ onResetEeprom

-----------------------------------------------------------------------------
(* The map as a text.                                                      *)

\* The text is edited without a change of its form.
Edit ==
    /\ Button("list")
    /\ \E edit \in Edits :
          /\ text' = [text EXCEPT ![edit[1]] = edit[2]]
          /\ doubt' = doubt \cup {edit[1]}
    /\ modified' = TRUE
    /\ UNCHANGED <<running, handle, listed, mode_vars, key_vars, place_vars, todo,
                   read_vars, reports, device_vars>>

ClickLine ==
    /\ Button("list")
    /\ cursor' \in Line
    /\ UNCHANGED <<running, handle, listed, mode_vars, key_vars, text_vars,
                   line_text, todo, read_vars, reports, device_vars>>

onOpen ==
    /\ Button("commands")
    /\ text' = File /\ modified' = FALSE /\ doubt' = Parts
    /\ cursor' = 1
    /\ active' = active \cup {"loop"}
    /\ UNCHANGED <<running, handle, listed, enabled, timers, key_vars, line_text,
                   todo, read_vars, reports, device_vars>>

onSave ==
    /\ Button("commands")
    /\ modified' = FALSE
    /\ UNCHANGED <<running, handle, listed, mode_vars, key_vars, text, doubt,
                   place_vars, todo, read_vars, reports, device_vars>>

Display ==
    /\ Idle
    /\ line_text' = cursor
    /\ UNCHANGED <<running, handle, listed, mode_vars, key_vars, text_vars, cursor,
                   todo, read_vars, reports, device_vars>>

TextActions == Edit \/ ClickLine \/ onOpen \/ onSave

-----------------------------------------------------------------------------
(* The modes and their timers.                                             *)

\* What was received before is read away; a dead handle is noticed.
ReceiveOn ==
    /\ Button("receive")
    /\ "receive" \notin active /\ handle # "none"
    /\ active' = active \cup {"receive"}
    /\ reports' = <<>>
    /\ IF handle = "open"
         THEN /\ enabled' = enabled \ OffWhileReceiving
              /\ timers' = timers \cup {"read_timer"}
              /\ UNCHANGED <<handle, listed>>
         ELSE /\ enabled' = Disconnected(enabled \ OffWhileReceiving)
              /\ timers' = StoppedTimers \cup {"read_timer"}
              /\ handle' = "none" /\ listed' = plugged
    /\ UNCHANGED <<running, key_vars, text_vars, place_vars, todo, read_vars,
                   device_vars>>

ReceiveOff ==
    /\ Button("receive")
    /\ "receive" \in active
    /\ active' = active \ {"receive"}
    /\ enabled' = enabled \cup OffWhileReceiving
    /\ timers' = timers \ {"read_timer"}
    /\ UNCHANGED <<running, handle, listed, key_vars, text_vars, place_vars, todo,
                   read_vars, reports, device_vars>>

ReceiveCrash ==
    /\ \/ Idle /\ "read_timer" \in timers
       \/ Button("receive") /\ "receive" \notin active
    /\ handle = "none"
    /\ End

\* A received code is looked up in the map, and the cursor put there.
onReadIR ==
    /\ Idle /\ "read_timer" \in timers
    /\ handle # "none" /\ reports # <<>>
    /\ reports' = Tail(reports)
    /\ cursor' \in {cursor} \cup
                  {i \in Line : Head(reports) = Remote /\ text[<<i, "irdata">>] \in Codes}
    /\ UNCHANGED <<running, handle, listed, mode_vars, key_vars, text_vars,
                   line_text, todo, read_vars, device_vars>>

ReceiveError ==
    /\ Idle /\ "read_timer" \in timers
    /\ handle = "dead" /\ reports = <<>>
    /\ listed' = plugged
    /\ Disconnect
    /\ UNCHANGED todo

KeyboardOn ==
    /\ Button("keyboard")
    /\ "keyboard" \notin active
    /\ Hasty \/ "loop" \notin active
    /\ active' = active \cup {"keyboard"}
    /\ enabled' = enabled \ OffInKeyboardMode
    /\ timers' = timers \cup {"keyboard_timer"}
    /\ pressed' = NoKey
    /\ UNCHANGED <<running, handle, listed, last_key, text_vars, place_vars, todo,
                   read_vars, reports, device_vars>>

KeyboardOff ==
    /\ Button("keyboard")
    /\ "keyboard" \in active
    /\ active' = active \ {"keyboard"}
    /\ enabled' = (enabled \cup OffInKeyboardMode) \ {"connect"}
    /\ timers' = timers \ {"keyboard_timer"}
    /\ last_key' = NoKey
    /\ UNCHANGED <<running, handle, listed, pressed, text_vars, place_vars, todo,
                   read_vars, reports, device_vars>>

onKeyPress ==
    /\ Idle /\ "keyboard" \in active
    /\ pressed' \in Keys
    /\ UNCHANGED <<running, handle, listed, mode_vars, last_key, text_vars,
                   place_vars, todo, read_vars, reports, device_vars>>

\* A key that was pressed, unless it is the last one, is stored, then the code
\* for it is learnt.
onKbdTimeout ==
    /\ Idle /\ Ready
    /\ "keyboard_timer" \in timers
    /\ pressed # NoKey
    /\ pressed' = NoKey
    /\ IF pressed = last_key
         THEN UNCHANGED <<todo, timers>>
         ELSE /\ todo' = SetKey(line_text, pressed) \o SetByRemote(line_text)
                         \o <<Do("rearm")>>
              /\ timers' = timers \ {"keyboard_timer"}
    /\ UNCHANGED <<running, handle, listed, enabled, active, last_key, text_vars,
                   place_vars, read_vars, reports, device_vars>>

onSetByRemoteIrdataTimeout ==
    /\ Idle /\ Ready
    /\ "loop_timer" \in timers
    /\ timers' = timers \ {"loop_timer"}
    /\ todo' = SetByRemote(line_text)
    /\ UNCHANGED <<running, handle, listed, enabled, active, key_vars, text_vars,
                   place_vars, read_vars, reports, device_vars>>

Modes == ReceiveOn \/ ReceiveOff \/ KeyboardOn \/ KeyboardOff

InModes ==
    \/ ReceiveCrash \/ onReadIR \/ ReceiveError \/ onKeyPress \/ onKbdTimeout
    \/ onSetByRemoteIrdataTimeout

-----------------------------------------------------------------------------
(* The device.                                                             *)

Learns(c) == c.cmd \in {"irdata_remote", "setting_remote"}

\* It has the head of the command that is in the buffer when it is sent.
Answer(ok, v) ==
    [id |-> "config", acc |-> buffer.acc, cmd |-> buffer.cmd, ok |-> ok, value |-> v]

Delivered(r) ==
    reports' = IF handle = "open" /\ Len(reports) < QueueSize
                 THEN Append(reports, r) ELSE reports

\* The device is gone.
Abandoned == IF handle = "open" THEN "dead" ELSE handle

program_vars == <<running, listed, mode_vars, key_vars, text_vars, place_vars,
                  todo, read_vars>>

\* The table after a command, and what is answered.
Stored ==
    LET p == <<buffer.line, buffer.cmd>>
    IN CASE buffer.cmd = "eeprom" -> Blank
         [] p \in Parts /\ buffer.acc = "set" -> [cells EXCEPT ![p] = buffer.value]
         [] p \in Parts /\ buffer.acc = "reset" -> [cells EXCEPT ![p] = Erased]
         [] OTHER -> cells

Fetched ==
    LET p == <<buffer.line, buffer.cmd>>
    IN IF p \in Parts /\ buffer.acc = "get" THEN cells[p] ELSE Zeros

Serve ==
    /\ buffer # NoCommand /\ ~Learns(buffer) /\ serving = NoCommand
    /\ cells' = Stored
    /\ Delivered(Answer(TRUE, Fetched))
    /\ buffer' = NoCommand
    /\ IF buffer.cmd = "reboot"
         THEN plugged' = FALSE /\ handle' = Abandoned
         ELSE UNCHANGED <<plugged, handle>>
    /\ UNCHANGED <<program_vars, serving, left>>

\* While the device learns, the next command may be put over the one it learns
\* for.  The answer is put over that one, which is lost.
BeginLearn ==
    /\ Learns(buffer) /\ serving = NoCommand
    /\ serving' = buffer
    /\ UNCHANGED <<program_vars, handle, reports, plugged, cells, buffer, left>>

EndLearn(ok) ==
    /\ Delivered(Answer(ok, Zeros))
    /\ buffer' = NoCommand /\ serving' = NoCommand /\ left' = 0
    /\ UNCHANGED <<program_vars, plugged, handle>>

Learn ==
    /\ serving # NoCommand
    /\ \E c \in Codes :
          cells' = IF serving.cmd = "irdata_remote"
                     THEN [cells EXCEPT ![<<serving.line, "irdata">>] = c] ELSE cells
    /\ EndLearn(TRUE)

\* Five seconds may also go by while the program does not wait.
LearnTimeout ==
    /\ serving # NoCommand
    /\ left = LearnTime \/ ~Waits
    /\ EndLearn(FALSE)
    /\ UNCHANGED cells

\* The loop sends no report for a remote control while it learns.
FromRemote(r) ==
    /\ plugged /\ handle = "open" /\ serving = NoCommand
    /\ Len(reports) < QueueSize
    /\ Delivered(r)
    /\ UNCHANGED <<program_vars, handle, device_vars>>

\* A press, a repetition, a release.
RemoteReport == FromRemote(Remote)

\* A piece of the log of what was received.
LogReport == Logging /\ FromRemote(Log)

Unplug ==
    /\ plugged
    /\ plugged' = FALSE
    /\ buffer' = NoCommand /\ serving' = NoCommand /\ left' = 0
    /\ handle' = Abandoned
    /\ UNCHANGED <<program_vars, reports, cells>>

Plug ==
    /\ ~plugged
    /\ plugged' = TRUE
    /\ Restarted
    /\ UNCHANGED <<program_vars, handle, reports, buffer, serving, left>>

\* What the program waits for comes in time or not at all.
Tick ==
    /\ Waits
    /\ reports = <<>> /\ handle = "open"
    /\ Owes => serving # NoCommand /\ left < LearnTime
    /\ tries' = tries + 1
    /\ left' = IF Owes THEN left + 1 ELSE left
    /\ UNCHANGED <<running, handle, listed, mode_vars, key_vars, text_vars,
                   place_vars, todo, sent, crossed, reports, plugged, cells, buffer,
                   serving>>

Device ==
    \/ Serve \/ BeginLearn \/ Learn \/ LearnTimeout \/ RemoteReport
    \/ Unplug \/ Plug

Clicked == clicks < Clicks /\ clicks' = clicks + 1
Unaided(A) == A /\ UNCHANGED clicks

Next ==
    \/ (Buttons \/ TextActions \/ Modes \/ LogReport) /\ Clicked
    \/ Unaided(Start \/ Handler \/ Display \/ InModes \/ Device \/ Tick)

Spec == Init /\ [][Next]_vars
        /\ WF_vars(Unaided(Handler))
        /\ WF_vars(Unaided(Serve \/ BeginLearn \/ LearnTimeout))
        /\ SF_vars(Unaided(Tick))

-----------------------------------------------------------------------------
(* Properties.                                                             *)

\* Type invariant.
TypeOK ==
    /\ running \in BOOLEAN /\ listed \in BOOLEAN
    /\ handle \in {"none", "open", "dead"}
    /\ enabled \subseteq AtStart \cup OnConnected
    /\ active \subseteq {"receive", "keyboard", "loop"}
    /\ timers \subseteq {"read_timer", "keyboard_timer", "loop_timer"}
    /\ pressed \in Keys \cup {NoKey} /\ last_key \in Values \cup {NoKey}
    /\ text \in [Parts -> Values] /\ cells \in [Parts -> Values]
    /\ modified \in BOOLEAN /\ doubt \subseteq Parts
    /\ cursor \in Line /\ line_text \in Line
    /\ clicks \in 0 .. Clicks
    /\ sent \in BOOLEAN /\ tries \in 0 .. Patience /\ crossed \in BOOLEAN
    /\ Len(reports) <= QueueSize
    /\ plugged \in BOOLEAN /\ left \in 0 .. LearnTime

\* Whatever was clicked, learnt, reset, loaded and flashed before, and whenever
\* the device went: when the program is idle and connected, the map shows what the
\* device holds, but for the lines that were edited or of which the user was told
\* something else.  The firmware must have been built without the log.
MapInStep ==
    Idle /\ handle = "open" => \A p \in Parts \ doubt : text[p] = cells[p]

\* With the log, this is so until a command has crossed the answer to an earlier
\* one: that a piece of the log was taken for an answer does not suffice.
UncrossedInStep == ~crossed => MapInStep

\* Every handler ends, although answers may be lost or the device go: the
\* program does not hang.
HandlersEnd == todo # <<>> ~> todo = <<>>

=============================================================================
