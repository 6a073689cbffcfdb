------------------------------ MODULE Irmp4kbd ------------------------------
(***************************************************************************)
(* vdr-plugin-irmp4kbd/irmp4kbd.c: a thread that reads reports of the      *)
(* device into a buffer and one that evaluates the buffer and tells the    *)
(* Video Disk Recorder which keys are pressed, repeated and released.      *)
(*                                                                         *)
(* The mutex is held by the evaluating thread from the moment it is woken  *)
(* until it waits again, and by the reading thread only while it notifies. *)
(* The buffer is written without it.                                       *)
(*                                                                         *)
(* External, as the plugin uses them: the device, which is plugged and     *)
(* unplugged at any time; the hidraw driver, which queues reports for an   *)
(* open handle; cCondVar, whose notification is lost when nobody waits;    *)
(* cRemote::Put.                                                           *)
(***************************************************************************)
EXTENDS Naturals, Sequences

CONSTANTS
    Keys,           \* <<modifier, key>> of the keys of the remote control
    Magic,          \* of the report that the device sends after a wakeup
    Foreign,        \* the same bytes of a report that is not the keyboard's
    Delay,          \* Setup.RcRepeatDelay and
    Delta,          \* Setup.RcRepeatDelta, in ticks
    MaxQueue        \* bound: reports that the driver holds

NoKey == <<>>
Released == <<0, 0>>

ASSUME Irmp4kbdAssumption ==
    /\ Keys \cup {Magic, Foreign} \subseteq (0 .. 255) \X (0 .. 255)
    /\ Magic \notin Keys /\ Released \notin Keys \cup {Magic, Foreign}
    /\ Delay \in Nat /\ Delta \in Nat
    /\ MaxQueue \in Nat \ {0}

VARIABLES
    plugged,        \* the device is there
    held,           \* the key it last reported as pressed, or NoKey
    queue,          \* the reports the driver holds for the handle
    fd,             \* the handle: "none", "open", or "dead" once unplugged
    buf,            \* the report read last
    reading,        \* the reading thread: "read", "notify" or "sleep"
    evaluating,     \* the other one: "lock", "wait", "woken" or "load"
    got,            \* the bytes it has taken from the buffer
    lastkey, repeat, first, last,   \* its variables; FirstTime and LastTime
    told,           \* the key VDR was told of, until VDR is told its release
    missed          \* a report was lost, and no release has made up for it

device_vars == <<plugged, held>>
reader_vars == <<fd, buf, reading>>
timer_vars == <<first, last>>
key_vars == <<lastkey, repeat, timer_vars, told>>
vars == <<device_vars, queue, reader_vars, evaluating, got, key_vars, missed>>

Kbd(k) == [id |-> "kbd", bytes |-> k]
Other == [id |-> "other", bytes |-> Foreign]

-----------------------------------------------------------------------------
Init ==
    /\ plugged \in BOOLEAN
    /\ held = NoKey
    /\ queue = <<>>
    /\ fd = IF plugged THEN "open" ELSE "none"
    /\ buf = [id |-> "other", bytes |-> Released]
    /\ reading = "read"
    /\ evaluating = "lock"
    /\ got = <<>>
    /\ lastkey = NoKey /\ repeat = FALSE
    /\ first = 0 /\ last = 0
    /\ told = NoKey
    /\ missed = FALSE

-----------------------------------------------------------------------------
(* The device.                                                             *)

Report(r) ==
    /\ plugged
    /\ Len(queue) < MaxQueue
    /\ queue' = IF fd = "open" THEN Append(queue, r) ELSE queue
    /\ missed' = (missed \/ fd # "open")
    /\ UNCHANGED <<plugged, reader_vars, evaluating, got, key_vars>>

DevicePress ==
    /\ held = NoKey
    /\ held' \in Keys \cup {Magic}
    /\ Report(Kbd(held'))

DeviceRepeat ==
    /\ held # NoKey
    /\ UNCHANGED held
    /\ Report(Kbd(held))

DeviceRelease ==
    /\ held # NoKey
    /\ held' = NoKey
    /\ Report(Kbd(Released))

DeviceOther == UNCHANGED held /\ Report(Other)

\* The device loses its power, and what it knew.
Unplug ==
    /\ plugged
    /\ plugged' = FALSE
    /\ held' = NoKey
    /\ fd' = IF fd = "open" THEN "dead" ELSE fd
    /\ missed' = TRUE
    /\ UNCHANGED <<queue, buf, reading, evaluating, got, key_vars>>

Plug ==
    /\ ~plugged
    /\ plugged' = TRUE
    /\ UNCHANGED <<held, queue, reader_vars, evaluating, got, key_vars, missed>>

Device ==
    DevicePress \/ DeviceRepeat \/ DeviceRelease \/ DeviceOther \/ Unplug \/ Plug

-----------------------------------------------------------------------------
(* What the evaluating thread has taken from the buffer.                   *)

key == <<got[1], got[2]>>
release == 4 \in DOMAIN got /\ got[4] = 0

\* buf[1] and buf[3] are read for the name of the key, in any order, and once
\* more for release, where the first may decide.
NextBytes ==
    CASE {1, 2} \ DOMAIN got # {} -> {1, 2} \ DOMAIN got
      [] DOMAIN got = {1, 2} -> IF key = Magic THEN {} ELSE {3}
      [] DOMAIN got = 1 .. 3 -> IF got[3] = 0 THEN {4} ELSE {}
      [] OTHER -> {}

-----------------------------------------------------------------------------
(* The reading thread, cReadIR::Action.                                    *)

\* What the other thread has not taken from the buffer when it is overwritten.
Unread ==
    /\ buf.id = "kbd"
    /\ evaluating = "woken" \/ (evaluating = "load" /\ NextBytes # {})

After(report) == IF report.id = "kbd" THEN "notify" ELSE "read"

Read ==
    /\ reading = "read" /\ fd # "none" /\ queue # <<>>
    /\ buf' = Head(queue)
    /\ queue' = Tail(queue)
    /\ reading' = After(Head(queue))
    /\ missed' = (missed \/ Unread)
    /\ UNCHANGED <<device_vars, fd, evaluating, got, key_vars>>

\* Mutant: the handle is closed, but not marked as closed.
DisconnectKeepsFd ==
    /\ reading = "read"
    /\ fd = "none" \/ (fd = "dead" /\ queue = <<>>)
    /\ UNCHANGED fd
    /\ reading' = IF fd = "none" THEN "sleep" ELSE "read"
    /\ UNCHANGED <<device_vars, queue, buf, evaluating, got, key_vars, missed>>

Disconnect ==
    /\ reading = "read"
    /\ fd = "none" \/ (fd = "dead" /\ queue = <<>>)
    /\ fd' = "none"
    /\ reading' = "sleep"
    /\ UNCHANGED <<device_vars, queue, buf, evaluating, got, key_vars, missed>>

\* "read anew" only leaves the inner loop: the report in the buffer, read
\* before the connection broke, is evaluated once more.
Connect ==
    /\ reading = "sleep" /\ plugged
    /\ fd' = "open"
    /\ reading' = After(buf)
    /\ UNCHANGED <<device_vars, queue, buf, evaluating, got, key_vars, missed>>

\* Mutant: a thread that waits for a key keeps the mutex.
MutexKept == evaluating \in {"lock", "woken"}

MutexFree == evaluating # "load"

\* Receive: the notification reaches only a thread that waits.
Receive ==
    /\ reading = "notify" /\ MutexFree
    /\ reading' = "read"
    /\ evaluating' = IF evaluating = "wait" THEN "woken" ELSE evaluating
    /\ missed' = (missed \/ evaluating = "lock")
    /\ UNCHANGED <<device_vars, queue, fd, buf, got, key_vars>>

Reader == Read \/ Disconnect \/ Connect \/ Receive

-----------------------------------------------------------------------------
(* The evaluating thread, cIrmpRemote::Action.                             *)

Wait ==
    /\ evaluating = "lock"
    /\ evaluating' = "wait"
    /\ UNCHANGED <<device_vars, queue, reader_vars, got, key_vars, missed>>

Wake ==
    /\ evaluating = "woken"
    /\ evaluating' = "load"
    /\ UNCHANGED <<device_vars, queue, reader_vars, got, key_vars, missed>>

Load ==
    /\ evaluating = "load"
    /\ \E i \in NextBytes :
          got' = [j \in DOMAIN got \cup {i} |->
                     IF j = i THEN buf.bytes[2 - (i % 2)] ELSE got[j]]
    /\ UNCHANGED <<device_vars, queue, reader_vars, evaluating, key_vars, missed>>

\* The end of an iteration gives the mutex back.
Continue ==
    /\ evaluating' = "lock"
    /\ got' = <<>>
    /\ UNCHANGED <<device_vars, queue, reader_vars>>

IgnoreMagic ==
    /\ evaluating = "load" /\ NextBytes = {} /\ key = Magic
    /\ Continue
    /\ UNCHANGED <<key_vars, missed>>

Loaded == evaluating = "load" /\ NextBytes = {} /\ key # Magic

\* The release that no report brought for a key that was repeated.
GenerateRelease ==
    /\ Loaded /\ ~release /\ key # lastkey /\ repeat
    /\ repeat' = FALSE
    /\ told' = NoKey
    /\ UNCHANGED <<device_vars, queue, reader_vars, evaluating, got, lastkey,
                   timer_vars, missed>>

\* Mutant: the key before is forgotten, but not released.
NewKeyUnreleased ==
    /\ Loaded /\ ~release /\ key # lastkey
    /\ lastkey' = key /\ told' = key
    /\ first' = 0 /\ last' = 0
    /\ Continue
    /\ UNCHANGED <<repeat, missed>>

\* Mutant: LastTime is not set.
NewKeyUntimed ==
    /\ Loaded /\ ~release /\ key # lastkey /\ ~repeat
    /\ lastkey' = key /\ told' = key
    /\ first' = 0 /\ last' = last
    /\ Continue
    /\ UNCHANGED <<repeat, missed>>

NewKey ==
    /\ Loaded /\ ~release /\ key # lastkey /\ ~repeat
    /\ lastkey' = key /\ told' = key
    /\ first' = 0 /\ last' = 0
    /\ Continue
    /\ UNCHANGED <<repeat, missed>>

TooEarly == first < Delay \/ last < Delta

SkipRepeat ==
    /\ Loaded /\ ~release /\ key = lastkey /\ TooEarly
    /\ Continue
    /\ UNCHANGED <<key_vars, missed>>

RepeatKey ==
    /\ Loaded /\ ~release /\ key = lastkey /\ ~TooEarly
    /\ repeat' = TRUE
    /\ last' = 0
    /\ Continue
    /\ UNCHANGED <<lastkey, first, told, missed>>

\* The release is the last thing that the device had to say.
AllReleased == held = NoKey /\ queue = <<>> /\ buf = Kbd(Released)

\* Mutant: lastkey outlives the release.
ReleaseKeyRemembered ==
    /\ Loaded /\ release
    /\ repeat' = FALSE
    /\ last' = IF repeat THEN 0 ELSE last
    /\ told' = IF repeat THEN NoKey ELSE told
    /\ missed' = (missed /\ ~AllReleased)
    /\ Continue
    /\ UNCHANGED <<lastkey, first>>

ReleaseKey ==
    /\ Loaded /\ release
    /\ repeat' = FALSE
    /\ last' = IF repeat THEN 0 ELSE last
    /\ told' = IF repeat THEN NoKey ELSE told
    /\ lastkey' = NoKey
    /\ missed' = (missed /\ ~AllReleased)
    /\ Continue
    /\ UNCHANGED first

Evaluator ==
    \/ Wait \/ Wake \/ Load \/ IgnoreMagic
    \/ GenerateRelease \/ NewKey \/ SkipRepeat \/ RepeatKey \/ ReleaseKey

\* The threads' steps take no time to speak of.
Remote == INSTANCE VdrRemote WITH key <- told, repeating <- repeat

Time ==
    /\ first' = Remote!Passed(first, Delay)
    /\ last' = Remote!Passed(last, Delta)
    /\ UNCHANGED <<device_vars, queue, reader_vars, evaluating, got, lastkey,
                   repeat, told, missed>>

Next == Device \/ Reader \/ Evaluator \/ Time

Fairness == WF_vars(Reader) /\ WF_vars(Evaluator)

Spec == Init /\ [][Next]_vars /\ Fairness

-----------------------------------------------------------------------------
Bytes == {Released, Magic, Foreign} \cup Keys
Byte == UNION {{b[1], b[2]} : b \in Bytes}

TypeOK ==
    /\ plugged \in BOOLEAN
    /\ held \in Keys \cup {Magic, NoKey}
    /\ Len(queue) <= MaxQueue
    /\ fd \in {"none", "open", "dead"}
    /\ buf \in [id : {"kbd", "other"}, bytes : Bytes]
    /\ reading \in {"read", "notify", "sleep"}
    /\ evaluating \in {"lock", "wait", "woken", "load"}
    /\ DOMAIN got \in SUBSET (1 .. 4)
    /\ \A i \in DOMAIN got : got[i] \in Byte
    /\ {lastkey, told} \subseteq (Byte \X Byte) \cup {NoKey}
    /\ {repeat, missed} \subseteq BOOLEAN
    /\ first \in 0 .. Delay /\ last \in 0 .. Delta
    /\ last > first => first = Delay

\* Whatever is read, overwritten, lost or torn apart between the threads, VDR
\* gets presses, repetitions and releases as it expects them
\* (irmp4kbd.c:110-156).
ImplementsRemote == Remote!Spec

Quiet == queue = <<>> /\ reading = "read" /\ evaluating = "wait"

\* Once every report is evaluated, VDR was told of the key that is held, and
\* none is repeated that is not held: if no report was lost, and again after
\* the next release with nothing behind it.
InStep ==
    Quiet /\ ~missed =>
        /\ held \in Keys => told = held
        /\ repeat => held = told

\* The plugin finds the device again (irmp4kbd.c:209-219).
Reconnects == <>[]plugged => <>[](fd = "open")

\* A key that stays pressed arrives at VDR, if no report is lost.
KeyArrives ==
    \A k \in Keys : held = k /\ ~missed ~> told = k \/ held # k \/ missed
=============================================================================
