----------------------------- MODULE HidConfig ------------------------------
(***************************************************************************)
(* The services of the firmware's main loop around the IR reports: the     *)
(* configuration commands and the LED report of the host, which share one  *)
(* buffer of the USB stack and one flag (usb_hid.c), the alarm, the wakeup *)
(* of the PC and the magic report that follows it (main.c).                *)
(*                                                                         *)
(* The programs on the host (irmpconfig, irmpalarm and the like) write a   *)
(* command and read until something arrives that is neither an IR nor a    *)
(* keyboard report; those two kinds are therefore not put in their inbox.  *)
(* The settings are the wakeup slots, the last of which is the code that   *)
(* restarts the device, and send_after_wakeup.  IR data and keys are read  *)
(* and written by the same code as the wakeup slots.                       *)
(***************************************************************************)
EXTENDS Integers, Sequences

CONSTANTS
    Clients,        \* programs that send commands
    Requests,       \* the commands they send
    WakeSlots,      \* number of wakeup slots, WAKE_SLOTS
    Codes,          \* what remote controls send
    Erased,         \* the content of a slot that was never written
    NoValue,        \* an answer without data
    NoAlarm,        \* 0xFFFFFFFF seconds, taken as never
    MaxAlarm,       \* bound on the alarm time
    MaxAfter,       \* bound on send_after_wakeup
    Leds,           \* does the host write LED reports?
    Sleeps          \* may the PC be switched off?

ASSUME SlotsAssumption == WakeSlots \in Nat \ {0, 1}
ASSUME BoundsAssumption == MaxAlarm \in Nat /\ MaxAfter \in Nat
ASSUME FlagsAssumption == Leds \in BOOLEAN /\ Sleeps \in BOOLEAN

WakeSlot == 0 .. WakeSlots - 1
LastSlot == WakeSlots - 1
AlarmReading == (0 .. MaxAlarm) \cup {NoAlarm}
Data == Codes \cup {Erased, NoValue} \cup AlarmReading \cup (0 .. MaxAfter)
CommandName == {r.cmd : r \in Requests}
Request == [acc : {"get", "set", "reset"}, cmd : CommandName, slot : WakeSlot,
            value : Data]

\* What the programs send is complete: a value for each command that sets one.
ASSUME RequestsAssumption ==
    /\ Requests \subseteq Request
    /\ \A r \in Requests : r.acc = "set" =>
          /\ r.cmd = "wake" => r.value \in Codes
          /\ r.cmd = "after" => r.value \in 0 .. MaxAfter
          /\ r.cmd = "alarm" => r.value \in AlarmReading
ASSUME ValuesAssumption == NoValue # Erased

VARIABLES
    pc,                     \* where the main loop is
    serving,                \* the command whose handler runs
    ret,                    \* what the handler returned
    slot,                   \* loop variable of check_wakeups, -1: the alarm
    code,                   \* the IR data that was polled
    Reboot,
    buffer,                 \* *bufptr, the OUT buffer of the USB stack
    out_state,              \* is that buffer armed, or has a report arrived?
    USB_HID_Data_Received,
    PrevXferComplete,
    in_flight,              \* what the IN endpoint holds
    suspended,              \* ~tud_ready()
    AlarmValue,
    send_after_wakeup,
    last_magic_sent,
    host_on,                \* is the PC running?
    inbox,                  \* of each client: answers it has not read
    disturbed,              \* has the host done something else meanwhile?
    cells, saved,           \* the settings, in the cache and in flash
    request, outcome, reply \* the dialogue of each client, see CommandService

loop_vars == <<serving, ret, slot, code, Reboot>>
out_vars == <<buffer, out_state, USB_HID_Data_Received>>
in_vars == <<PrevXferComplete, in_flight>>
timer_vars == <<AlarmValue, send_after_wakeup, last_magic_sent>>
host_vars == <<host_on, inbox, disturbed>>
store_vars == <<cells, saved>>
dialogue_vars == <<request, outcome, reply>>

vars == <<pc, loop_vars, out_vars, in_vars, suspended, timer_vars, host_vars,
          store_vars, dialogue_vars>>

Service == INSTANCE CommandService

-----------------------------------------------------------------------------
STAT_CMD == 0
STAT_SUCCESS == 1
STAT_FAILURE == 2
KEYBOARD_LED_SCROLLLOCK == 4

Nobody == [request |-> Service!NoRequest, by |-> NoValue]

\* What the IN endpoint holds: nothing, a transfer the host has fetched but
\* tud_task() has not yet reported, or a report.
Free == [report |-> "none"]
Fetched == [report |-> "fetched"]
OtherReport == [report |-> "ir, magic or key"]
ConfigReport(acc, cmd, ok, value) ==
    [report |-> "config", acc |-> acc, cmd |-> cmd, ok |-> ok, value |-> value]

Answers == [report : {"config"}, acc : {"get", "set", "reset"},
            cmd : CommandName, ok : BOOLEAN, value : Data]

\* A command and who sent it, the OUT buffer, what the IN endpoint holds, what
\* the programs have not read, the settings, where the main loop may be.
Carried == [request : Request, by : Clients] \cup {Nobody}
Buffer == [id : {"none", "config", "kbd"},
           status : {STAT_CMD, STAT_SUCCESS, STAT_FAILURE, KEYBOARD_LED_SCROLLLOCK},
           cmd : Carried]
InTransit == Answers \cup {Free, Fetched, OtherReport}
Inboxes == [Clients -> Seq(Answers)]
Settings == [wake : [WakeSlot -> Codes \cup {Erased}], after : 0 .. MaxAfter]
Place == {"task", "alarm", "magic", "magic_ir", "magic_kbd", "command", "learn",
          "emit", "answer", "reboot", "led", "poll", "check", "pulse", "send"}

TypeOK ==
    /\ pc \in Place
    /\ serving \in Carried
    /\ ret \in {4, 5, -1}
    /\ slot \in -1 .. LastSlot
    /\ code \in Codes \cup {NoValue}
    /\ Reboot \in BOOLEAN
    /\ buffer \in Buffer
    /\ out_state \in {"armed", "arrived"}
    /\ USB_HID_Data_Received \in BOOLEAN
    /\ PrevXferComplete \in BOOLEAN
    /\ in_flight \in InTransit
    /\ suspended \in BOOLEAN
    /\ AlarmValue \in AlarmReading
    /\ send_after_wakeup \in 0 .. MaxAfter
    /\ last_magic_sent \in 0 .. MaxAfter
    /\ host_on \in BOOLEAN
    /\ inbox \in Inboxes
    /\ disturbed \in BOOLEAN
    /\ cells \in Settings
    /\ saved \in Settings
    /\ request \in [Clients -> Requests \cup {Service!NoRequest}]

Init ==
    /\ pc = "task"
    /\ serving = Nobody
    /\ ret = 4
    /\ slot = 0
    /\ code = NoValue
    /\ Reboot = FALSE
    /\ buffer = [id |-> "none", status |-> STAT_CMD, cmd |-> Nobody]
    /\ out_state = "armed"
    /\ USB_HID_Data_Received = FALSE
    /\ PrevXferComplete = TRUE
    /\ in_flight = Free
    /\ suspended = FALSE
    /\ AlarmValue = NoAlarm
    /\ send_after_wakeup = 0
    /\ last_magic_sent = 0
    /\ host_on = TRUE
    /\ inbox = [c \in Clients |-> <<>>]
    /\ disturbed = FALSE
    /\ Service!Init

-----------------------------------------------------------------------------
(***************************************************************************)
(* The USB stack.                                                          *)
(***************************************************************************)
\* USB_HID_SendData, USB_KBD_SendData: nothing is sent unless tud_ready();
\* PrevXferComplete is cleared whether or not the stack takes the report.
Send(report) ==
    IF suspended
      THEN UNCHANGED in_vars
      ELSE /\ in_flight' = IF in_flight = Free THEN report ELSE in_flight
           /\ PrevXferComplete' = FALSE

\* The callbacks run inside tud_task().
InTask == pc \in {"task", "magic_ir", "magic_kbd"}

tud_hid_report_complete_cb ==
    /\ InTask
    /\ in_flight = Fetched
    /\ in_flight' = Free
    /\ PrevXferComplete' = TRUE
    /\ UNCHANGED <<pc, loop_vars, out_vars, suspended, timer_vars, host_vars,
                   store_vars, dialogue_vars>>

\* The stack arms the buffer again after the callback, so that from then on
\* the next report of the host may come into it.
tud_hid_set_report_cb ==
    /\ InTask
    /\ out_state = "arrived"
    /\ out_state' = "armed"
    /\ USB_HID_Data_Received' = TRUE
    /\ UNCHANGED <<pc, loop_vars, buffer, in_vars, suspended, timer_vars,
                   host_vars, store_vars, dialogue_vars>>

\* Mutant: who waits for a transfer is not woken.
SuspendKeepsWaiting ==
    /\ InTask
    /\ ~host_on /\ ~suspended
    /\ suspended' = TRUE
    /\ UNCHANGED <<pc, loop_vars, out_vars, in_vars, timer_vars, host_vars,
                   store_vars, dialogue_vars>>

tud_suspend_cb ==
    /\ InTask
    /\ ~host_on /\ ~suspended
    /\ suspended' = TRUE
    /\ PrevXferComplete' = TRUE
    /\ UNCHANGED <<pc, loop_vars, out_vars, in_flight, timer_vars, host_vars,
                   store_vars, dialogue_vars>>

tud_resume_cb ==
    /\ InTask
    /\ host_on /\ suspended
    /\ suspended' = FALSE
    /\ UNCHANGED <<pc, loop_vars, out_vars, in_vars, timer_vars, host_vars,
                   store_vars, dialogue_vars>>

\* tud_task() returns when no event is left.
NoEvent ==
    /\ in_flight # Fetched
    /\ out_state = "armed"
    /\ suspended = ~host_on

-----------------------------------------------------------------------------
(***************************************************************************)
(* SysTick_Handler: one second has passed.                                 *)
(***************************************************************************)
\* Mutant: the counters do not stop at zero.
LessPastZero(n) == IF n = NoAlarm THEN n ELSE n - 1

Less(n) == IF n \in {0, NoAlarm} THEN n ELSE n - 1

SysTick_Handler ==
    /\ AlarmValue' = Less(AlarmValue)
    /\ send_after_wakeup' = Less(send_after_wakeup)
    /\ UNCHANGED <<pc, loop_vars, out_vars, in_vars, suspended,
                   last_magic_sent, host_vars, store_vars,
                   dialogue_vars>>

-----------------------------------------------------------------------------
(***************************************************************************)
(* main(): task, alarm, magic, command, led, poll and back.                *)
(***************************************************************************)
Goto(from, to) == pc = from /\ pc' = to

Task ==
    /\ NoEvent
    /\ Goto("task", "alarm")
    /\ UNCHANGED <<loop_vars, out_vars, in_vars, suspended, timer_vars,
                   host_vars, store_vars, dialogue_vars>>

\* The alarm has expired and the PC is off: Wakeup() presses its power switch.
AlarmFires ==
    /\ AlarmValue = 0 /\ suspended
    /\ Goto("alarm", "pulse")
    /\ slot' = -1
    /\ UNCHANGED <<serving, ret, code, Reboot, out_vars, in_vars, suspended,
                   timer_vars, host_vars, store_vars, dialogue_vars>>

NoAlarmNow ==
    /\ ~(AlarmValue = 0 /\ suspended)
    /\ Goto("alarm", "magic")
    /\ UNCHANGED <<loop_vars, out_vars, in_vars, suspended, timer_vars,
                   host_vars, store_vars, dialogue_vars>>

\* The rest of Wakeup(), half a second later and more if the last macro is
\* sent; its caller is the alarm or the loop over the wakeup slots.
WakeupEnds ==
    /\ Goto("pulse", IF slot = -1 THEN "magic" ELSE "check")
    /\ AlarmValue' = NoAlarm
    /\ send_after_wakeup' = cells.after
    /\ slot' = slot + 1
    /\ UNCHANGED <<serving, ret, code, Reboot, out_vars, in_vars, suspended,
                   last_magic_sent, host_vars, store_vars,
                   dialogue_vars>>

MagicDue ==
    /\ PrevXferComplete
    /\ send_after_wakeup # 0
    /\ last_magic_sent # send_after_wakeup

NoMagic ==
    /\ ~MagicDue
    /\ Goto("magic", "command")
    /\ UNCHANGED <<loop_vars, out_vars, in_vars, suspended, timer_vars,
                   host_vars, store_vars, dialogue_vars>>

MagicIr ==
    /\ MagicDue
    /\ Goto("magic", "magic_ir")
    /\ Send(OtherReport)
    /\ UNCHANGED <<loop_vars, out_vars, suspended, timer_vars, host_vars,
                   store_vars, dialogue_vars>>

MagicKbd ==
    /\ PrevXferComplete
    /\ Goto("magic_ir", "magic_kbd")
    /\ Send(OtherReport)
    /\ UNCHANGED <<loop_vars, out_vars, suspended, timer_vars, host_vars,
                   store_vars, dialogue_vars>>

\* The release of the key, and the return from send_magic().
MagicEnds ==
    /\ PrevXferComplete
    /\ Goto("magic_kbd", "command")
    /\ Send(OtherReport)
    /\ last_magic_sent' = send_after_wakeup
    /\ UNCHANGED <<loop_vars, out_vars, suspended, AlarmValue,
                   send_after_wakeup, host_vars, store_vars,
                   dialogue_vars>>

-----------------------------------------------------------------------------
(***************************************************************************)
(* The configuration commands.  A handler runs to its end before the       *)
(* answer is sent; while it learns or emits, and between its end and the   *)
(* answer, the next report of the host may arrive.                         *)
(***************************************************************************)
CommandReceived ==
    /\ PrevXferComplete
    /\ USB_HID_Data_Received
    /\ buffer.id = "config"
    /\ buffer.status = STAT_CMD

NoCommand ==
    /\ ~CommandReceived
    /\ Goto("command", "led")
    /\ UNCHANGED <<loop_vars, out_vars, in_vars, suspended, timer_vars,
                   host_vars, store_vars, dialogue_vars>>

Received == buffer.cmd.request

Serves(acc, cmd) ==
    /\ CommandReceived
    /\ Received.acc = acc
    /\ Received.cmd = cmd
    /\ USB_HID_Data_Received' = FALSE
    /\ serving' = buffer.cmd

\* What the sender will be entitled to hear; not part of the firmware.
Entitled(by, result) == outcome' = [outcome EXCEPT ![by] = result]

\* The handler of the command that was just received is done: it returns the
\* number of bytes that are valid.
Handled(bytes, result) ==
    /\ Goto("command", "answer")
    /\ ret' = bytes
    /\ Entitled(buffer.cmd.by, result)
    /\ UNCHANGED <<slot, code, out_state, in_vars, suspended, send_after_wakeup,
                   last_magic_sent, host_vars, request, reply>>

\* get_handler puts the value into the buffer, over the arguments.
Got(value) ==
    /\ buffer' = [buffer EXCEPT !.cmd.request.value = value]
    /\ Handled(5, Service!Answer(value))
    /\ UNCHANGED <<Reboot, AlarmValue, store_vars>>

GetHandler ==
    \/ Serves("get", "wake") /\ Got(cells.wake[Received.slot])
    \/ Serves("get", "after") /\ Got(cells.after)
    \/ Serves("get", "alarm") /\ Got(AlarmValue)

Stored(settings) ==
    /\ cells' = settings
    /\ Handled(4, Service!Done)
    /\ UNCHANGED <<buffer, Reboot, AlarmValue>>

StoreHandler ==
    \/ /\ Serves("set", "wake")
       /\ Stored([cells EXCEPT !.wake[Received.slot] = Received.value])
       /\ saved' = IF Received.slot = 0 THEN cells' ELSE saved
    \/ /\ Serves("set", "after")
       /\ Stored([cells EXCEPT !.after = Received.value])
       /\ UNCHANGED saved
    \/ /\ Serves("reset", "wake")
       /\ Stored([cells EXCEPT !.wake[Received.slot] = Erased])
       /\ UNCHANGED saved
    \/ /\ Serves("reset", "after")
       /\ Stored([cells EXCEPT !.after = 0])
       /\ UNCHANGED saved
    \/ /\ Serves("set", "commit")
       /\ Stored(cells)
       /\ saved' = cells
    \/ /\ Serves("reset", "eeprom")
       /\ Stored(Service!Blank)
       /\ saved' = Service!Blank

SetHandler ==
    \/ /\ Serves("set", "alarm")
       /\ AlarmValue' = Received.value
       /\ Handled(4, Service!Done)
       /\ UNCHANGED <<buffer, Reboot, store_vars>>
    \/ /\ Serves("reset", "alarm")
       /\ AlarmValue' = NoAlarm
       /\ Handled(4, Service!Done)
       /\ UNCHANGED <<buffer, Reboot, store_vars>>
    \/ /\ Serves("set", "statusled")
       /\ Handled(4, Service!Done)
       /\ UNCHANGED <<buffer, Reboot, AlarmValue, store_vars>>
    \/ /\ Serves("set", "reboot")
       /\ Reboot' = TRUE
       /\ Handled(4, Service!Done)
       /\ UNCHANGED <<buffer, AlarmValue, store_vars>>
    \/ /\ Serves("set", "unknown")
       /\ Handled(-1, Service!Failed)
       /\ UNCHANGED <<buffer, Reboot, AlarmValue, store_vars>>

\* store_new_irdata waits up to five seconds for IR data, CMD_EMIT until the
\* sender is no longer busy.
LongStart ==
    /\ \/ Serves("set", "learn") /\ Goto("command", "learn")
       \/ Serves("set", "emit") /\ Goto("command", "emit")
    /\ UNCHANGED <<ret, slot, code, Reboot, buffer, out_state, in_vars,
                   suspended, timer_vars, host_vars, store_vars,
                   dialogue_vars>>

LongEnd(from, bytes, result) ==
    /\ Goto(from, "answer")
    /\ ret' = bytes
    /\ Entitled(serving.by, result)
    /\ UNCHANGED <<serving, slot, code, Reboot, out_vars, in_vars, suspended,
                   timer_vars, host_vars, saved, request, reply>>

LearnTake ==
    /\ \E c \in Codes :
          cells' = [cells EXCEPT !.wake[serving.request.slot] = c]
    /\ LongEnd("learn", 4, Service!Done)

\* Mutant: the end of the five seconds is not told from a code.
LearnTimeoutDone == LongEnd("learn", 4, Service!Failed) /\ UNCHANGED cells

LearnTimeout == LongEnd("learn", -1, Service!Failed) /\ UNCHANGED cells

EmitEnd == LongEnd("emit", 4, Service!Done) /\ UNCHANGED cells

\* Mutant: a failure is not reported.
AnswerSuccessOnly ==
    /\ Goto("answer", IF Reboot THEN "reboot" ELSE "led")
    /\ buffer' = [buffer EXCEPT !.cmd = Nobody, !.status =
                     IF ret = -1 THEN STAT_FAILURE ELSE STAT_SUCCESS]
    /\ IF ret = -1
         THEN UNCHANGED in_vars
         ELSE Send(ConfigReport(Received.acc, Received.cmd, TRUE,
                                IF ret = 5 THEN Received.value ELSE NoValue))
    /\ serving' = Nobody
    /\ ret' = 4
    /\ UNCHANGED <<slot, code, Reboot, out_state, USB_HID_Data_Received,
                   suspended, timer_vars, host_vars, store_vars,
                   dialogue_vars>>

\* The status is written over that of whatever the buffer holds by now, the
\* bytes behind the valid ones are cleared, and that is the answer.  With that
\* status the rest of the buffer is never looked at again.
Answer ==
    /\ Goto("answer", IF Reboot THEN "reboot" ELSE "led")
    /\ buffer' = [buffer EXCEPT !.cmd = Nobody, !.status =
                     IF ret = -1 THEN STAT_FAILURE ELSE STAT_SUCCESS]
    /\ Send(ConfigReport(Received.acc, Received.cmd, ret # -1,
                         IF ret = 5 THEN Received.value ELSE NoValue))
    /\ serving' = Nobody
    /\ ret' = 4
    /\ UNCHANGED <<slot, code, Reboot, out_state, USB_HID_Data_Received,
                   suspended, timer_vars, host_vars, store_vars,
                   dialogue_vars>>

\* The keyboard report of the host: the status LED follows its scroll lock.
Led ==
    /\ Goto("led", "poll")
    /\ USB_HID_Data_Received' = (USB_HID_Data_Received /\ buffer.id # "kbd")
    /\ UNCHANGED <<loop_vars, buffer, out_state, in_vars, suspended,
                   timer_vars, host_vars, store_vars, dialogue_vars>>

-----------------------------------------------------------------------------
(***************************************************************************)
(* IR data: the first wakeup is learnt, the wakeup slots are compared one  *)
(* after the other up to the first one that is erased, a code in the last  *)
(* slot restarts the device, and the data are reported.                    *)
(***************************************************************************)
PollNothing ==
    /\ Goto("poll", "task")
    /\ UNCHANGED <<loop_vars, out_vars, in_vars, suspended, timer_vars,
                   host_vars, store_vars, dialogue_vars>>

\* A new press; store_wakeup.
PollPress ==
    /\ PrevXferComplete
    /\ Goto("poll", "check")
    /\ code' \in Codes
    /\ slot' = 0
    /\ IF cells.wake[0] = Erased
         THEN /\ cells' = [cells EXCEPT !.wake[0] = code']
              /\ saved' = cells'
         ELSE UNCHANGED store_vars
    /\ UNCHANGED <<serving, ret, Reboot, out_vars, in_vars, suspended,
                   timer_vars, host_vars, dialogue_vars>>

\* check_wakeups: the slots from s on that hold the code.
Matching(s) ==
    {i \in s .. LastSlot - 1 :
        cells.wake[i] = code /\ \A j \in 0 .. i : cells.wake[j] # Erased}

\* tud_ready() is asked once, before the first slot; suspended cannot change
\* in between, tud_task() is not called.
CheckWakeup ==
    /\ Goto("check", "pulse")
    /\ suspended
    /\ \E i \in Matching(slot) :
          /\ \A j \in Matching(slot) : i <= j
          /\ slot' = i
    /\ UNCHANGED <<serving, ret, code, Reboot, out_vars, in_vars, suspended,
                   timer_vars, host_vars, store_vars, dialogue_vars>>

CheckDone ==
    /\ Goto("check", IF cells.wake[LastSlot] = code THEN "reboot" ELSE "send")
    /\ ~(suspended /\ Matching(slot) # {})
    /\ slot' = 0
    /\ UNCHANGED <<serving, ret, code, Reboot, out_vars, in_vars, suspended,
                   timer_vars, host_vars, store_vars, dialogue_vars>>

SendIr ==
    /\ Goto("send", "task")
    /\ Send(OtherReport)
    /\ code' = NoValue
    /\ UNCHANGED <<serving, ret, slot, Reboot, out_vars, suspended,
                   timer_vars, host_vars, store_vars, dialogue_vars>>

\* reboot(): the boot ROM takes over, in the end main() starts again.  The
\* device is unplugged for the host, who waits for an answer gets an error.
Restart ==
    /\ Goto("reboot", "task")
    /\ serving' = Nobody
    /\ ret' = 4
    /\ slot' = 0
    /\ code' = NoValue
    /\ Reboot' = FALSE
    /\ buffer' = [id |-> "none", status |-> STAT_CMD, cmd |-> Nobody]
    /\ out_state' = "armed"
    /\ USB_HID_Data_Received' = FALSE
    /\ PrevXferComplete' = TRUE
    /\ in_flight' = Free
    /\ suspended' = FALSE
    /\ AlarmValue' = NoAlarm
    /\ send_after_wakeup' = 0
    /\ last_magic_sent' = 0
    /\ inbox' = [c \in Clients |-> <<>>]
    /\ disturbed' = FALSE
    /\ UNCHANGED host_on
    /\ Service!Restart

-----------------------------------------------------------------------------
(***************************************************************************)
(* The host.                                                               *)
(***************************************************************************)
HostFetches ==
    /\ host_on
    /\ in_flight \notin {Free, Fetched}
    /\ in_flight' = Fetched
    /\ inbox' = IF in_flight.report = "config"
                  THEN [c \in Clients |-> Append(inbox[c], in_flight)]
                  ELSE inbox
    /\ UNCHANGED <<pc, loop_vars, out_vars, PrevXferComplete, suspended,
                   timer_vars, host_on, disturbed,
                   store_vars, dialogue_vars>>

Outstanding == \E c \in Clients : request[c] # Service!NoRequest

\* write_and_check(): the command is written when the endpoint takes it.
WriteCommand(c) ==
    /\ host_on
    /\ out_state = "armed"
    /\ \E r \in Requests :
          /\ buffer' = [id |-> "config", status |-> STAT_CMD,
                        cmd |-> [request |-> r, by |-> c]]
          /\ request' = [request EXCEPT ![c] = r]
    /\ request[c] = Service!NoRequest
    /\ reply' = [reply EXCEPT ![c] = Service!NoOutcome]
    /\ out_state' = "arrived"
    /\ disturbed' = (disturbed \/ Outstanding)
    /\ UNCHANGED <<pc, loop_vars, USB_HID_Data_Received, in_vars, suspended,
                   timer_vars, host_on, inbox,
                   store_vars, outcome>>

\* ... and the next answer is taken for the one to it, if it names the command.
ReadAnswer(c) ==
    /\ host_on
    /\ request[c] # Service!NoRequest
    /\ inbox[c] # <<>>
    /\ LET got == Head(inbox[c])
           mine == got.acc = request[c].acc /\ got.cmd = request[c].cmd
       IN  reply' = [reply EXCEPT ![c] = [ok |-> got.ok /\ mine,
                                          value |-> got.value]]
    /\ inbox' = [inbox EXCEPT ![c] = Tail(@)]
    /\ request' = [request EXCEPT ![c] = Service!NoRequest]
    /\ outcome' = [outcome EXCEPT ![c] = Service!NoOutcome]
    /\ disturbed' = FALSE
    /\ UNCHANGED <<pc, loop_vars, out_vars, in_vars, suspended, timer_vars,
                   host_on, store_vars>>

\* Two bytes, over the first two of the buffer.
WriteLed ==
    /\ Leds
    /\ host_on
    /\ out_state = "armed"
    /\ \E leds \in {0, KEYBOARD_LED_SCROLLLOCK} :
          buffer' = [buffer EXCEPT !.id = "kbd", !.status = leds]
    /\ out_state' = "arrived"
    /\ disturbed' = Outstanding
    /\ UNCHANGED <<pc, loop_vars, USB_HID_Data_Received, in_vars, suspended,
                   timer_vars, host_on, inbox, store_vars,
                   dialogue_vars>>

SwitchOff ==
    /\ Sleeps
    /\ host_on
    /\ host_on' = FALSE
    /\ disturbed' = Outstanding
    /\ UNCHANGED <<pc, loop_vars, out_vars, in_vars, suspended, timer_vars,
                   inbox, store_vars, dialogue_vars>>

\* By its user or by the receiver.
SwitchOn ==
    /\ ~host_on
    /\ host_on' = TRUE
    /\ UNCHANGED <<pc, loop_vars, out_vars, in_vars, suspended, timer_vars,
                   inbox, disturbed, store_vars,
                   dialogue_vars>>

-----------------------------------------------------------------------------
Commands ==
    \/ NoCommand \/ GetHandler \/ StoreHandler \/ SetHandler
    \/ LongStart \/ LearnTake \/ LearnTimeout \/ EmitEnd \/ Answer

Loop ==
    \/ Task \/ AlarmFires \/ NoAlarmNow \/ WakeupEnds
    \/ NoMagic \/ MagicIr \/ MagicKbd \/ MagicEnds
    \/ Commands \/ Led
    \/ PollNothing \/ PollPress \/ CheckWakeup \/ CheckDone \/ SendIr \/ Restart

Callback ==
    \/ tud_hid_report_complete_cb
    \/ tud_hid_set_report_cb
    \/ tud_suspend_cb
    \/ tud_resume_cb

Host ==
    \/ HostFetches
    \/ \E c \in Clients : WriteCommand(c) \/ ReadAnswer(c)
    \/ WriteLed \/ SwitchOff \/ SwitchOn

Next == Loop \/ Callback \/ SysTick_Handler \/ Host

Spec == Init /\ [][Next]_vars

\* The loop and the stack never stop, the host fetches what is there and the
\* programs read what has come.
Fairness ==
    /\ WF_vars(Loop)
    /\ WF_vars(Callback)
    /\ WF_vars(HostFetches)
    /\ \A c \in Clients : WF_vars(ReadAnswer(c))

FairSpec == Spec /\ Fairness

-----------------------------------------------------------------------------
\* Every request is carried out once and its reply is the outcome of it
\* (PROTOCOLS.md:27), whatever LED reports, IR data, restarts and sleeps come
\* in between.
ImplementsService == Service!Spec

\* A command is answered, unless the PC is switched off or writes an LED
\* report or a second command before the answer is read.
Answered ==
    \A c \in Clients :
        (request[c] # Service!NoRequest) ~>
            (request[c] = Service!NoRequest \/ disturbed)

\* An alarm that has expired while the PC is off presses the power switch
\* (main.c:905), whatever the loop was waiting for when the PC went off.
AlarmWakes == (AlarmValue = 0 /\ ~host_on) ~> (AlarmValue # 0 \/ host_on)
=============================================================================
