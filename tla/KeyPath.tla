------------------------------ MODULE KeyPath -------------------------------
(***************************************************************************)
(* From the remote control to the host: the main loop of the firmware      *)
(* (RP2xxx/src/main.c) polls the decoder of module Irmp, reports the data  *)
(* on the IR report of its HID interface and the key assigned to it on the *)
(* keyboard report, one transfer at a time (RP2xxx/src/usb_hid.c), while   *)
(* the timer interrupt goes on receiving.                                  *)
(*                                                                         *)
(* PrevXferComplete is the firmware's own idea of whether the endpoint is  *)
(* free; in_flight is what the USB stack really holds.  TinyUSB and the    *)
(* host are modelled from how the code uses them: a report that is handed  *)
(* over while the endpoint is busy is refused, the host fetches a report   *)
(* when it likes, and its keyboard driver lets go of all keys when it      *)
(* suspends the bus.                                                       *)
(***************************************************************************)
EXTENDS Irmp

CONSTANTS
    Keys,           \* the keys of the keyboard report
    NoKey,          \* no key is down; also "no key is assigned" (0xFFFF)
    KeyOf,          \* the key table of the EEPROM: a key per code
    NoData,         \* contents of a variable that was never set
    Blocking,       \* the handling of a press may take long (main.c:467-469,
                    \* 515, 537, 544: LED flashes, macro delays, wakeup)
    SlowHost,       \* the host may take longer than a tick to fetch a report
    Suspends,       \* the host may suspend the bus
    Resets,         \* the host may reset the device
    Learning        \* the host may have the firmware learn a code

ASSUME KeyPathAssumption ==
    /\ NoKey \notin Keys
    /\ KeyOf \in [AnyCode -> Keys \cup {NoKey}]
    /\ NoData \notin IrmpData
    /\ Blocking \in BOOLEAN
    /\ SlowHost \in BOOLEAN
    /\ Suspends \in BOOLEAN
    /\ Resets \in BOOLEAN
    /\ Learning \in BOOLEAN

VARIABLES
    pc,                     \* where main() is
    myIRData, oldIRData,
    send_ir_needed, send_kbd_needed,
    kbd_release_needed,
    release,
    PrevXferComplete,
    in_flight,              \* the report the endpoint holds, or Free or Done
    suspended,
    host_key,               \* the key that is down at the host
    host_ir                 \* the IR report the host got last

loop_vars == <<myIRData, oldIRData, send_ir_needed, send_kbd_needed,
               kbd_release_needed, release>>
usb_vars == <<PrevXferComplete, in_flight, suspended>>
host_vars == <<host_key, host_ir>>
vars == <<irmp_vars, pc, loop_vars, usb_vars, host_vars>>

Endpoint == [report : {"none", "done", "ir", "kbd", "config"},
             key : Keys \cup {NoKey},
             data : IrmpData \cup {NoData}]

Free == [report |-> "none", key |-> NoKey, data |-> NoData]
Done == [report |-> "done", key |-> NoKey, data |-> NoData]
IR(data) == [report |-> "ir", key |-> NoKey, data |-> data]
KBD(key) == [report |-> "kbd", key |-> key, data |-> NoData]
CONFIG == [report |-> "config", key |-> NoKey, data |-> NoData]

Busy == in_flight.report \in {"ir", "kbd", "config"}

TypeOK ==
    /\ IrmpTypeOK
    /\ pc \in {"task", "learn", "poll", "force", "new", "handle",
               "send_ir", "send_kbd", "send_release"}
    /\ myIRData \in IrmpData \cup {NoData}
    /\ oldIRData \in IrmpData \cup {NoData}
    /\ send_ir_needed \in BOOLEAN
    /\ send_kbd_needed \in BOOLEAN
    /\ kbd_release_needed \in BOOLEAN
    /\ release \in BOOLEAN
    /\ PrevXferComplete \in BOOLEAN
    /\ in_flight \in Endpoint
    /\ suspended \in BOOLEAN
    /\ host_key \in Keys \cup {NoKey}
    /\ host_ir \in IrmpData \cup {NoData}

Init ==
    /\ IrmpInit
    /\ pc = "task"
    /\ myIRData = NoData
    /\ oldIRData = NoData
    /\ send_ir_needed = FALSE
    /\ send_kbd_needed = FALSE
    /\ kbd_release_needed = FALSE
    /\ release = FALSE
    /\ PrevXferComplete = TRUE
    /\ in_flight = Free
    /\ suspended = FALSE
    /\ host_key = NoKey
    /\ host_ir = NoData

-----------------------------------------------------------------------------
(***************************************************************************)
(* usb_hid.c, the USB stack and the host                                   *)
(***************************************************************************)
\* USB_HID_SendData and USB_KBD_SendData.  Nothing is sent unless tud_ready();
\* PrevXferComplete is cleared whether or not the stack takes the report.
Send(report) ==
    IF suspended
      THEN UNCHANGED usb_vars
      ELSE /\ in_flight' = IF in_flight = Free THEN report ELSE in_flight
           /\ PrevXferComplete' = FALSE
           /\ UNCHANGED suspended

HostFetches ==
    /\ ~suspended
    /\ Busy
    /\ in_flight' = Done
    /\ host_key' = IF in_flight.report = "kbd" THEN in_flight.key ELSE host_key
    /\ host_ir' = IF in_flight.report = "ir" THEN in_flight.data ELSE host_ir
    /\ UNCHANGED <<irmp_vars, pc, loop_vars, PrevXferComplete, suspended>>

\* The callbacks run inside tud_task(), which main() calls at the top of its
\* loop and wherever it waits for PrevXferComplete.
InTask == pc \in {"task", "force"}

tud_hid_report_complete_cb ==
    /\ InTask
    /\ in_flight = Done
    /\ in_flight' = Free
    /\ PrevXferComplete' = TRUE
    /\ UNCHANGED <<irmp_vars, pc, loop_vars, suspended, host_vars>>

\* Mutant: who waits for a transfer is not woken.
SuspendKeepsWaiting ==
    /\ InTask
    /\ Suspends /\ ~suspended
    /\ suspended' = TRUE
    /\ host_key' = NoKey
    /\ UNCHANGED <<irmp_vars, pc, loop_vars, PrevXferComplete, in_flight,
                   host_ir>>

tud_suspend_cb ==
    /\ InTask
    /\ Suspends /\ ~suspended
    /\ suspended' = TRUE
    /\ PrevXferComplete' = TRUE
    /\ host_key' = NoKey
    /\ UNCHANGED <<irmp_vars, pc, loop_vars, in_flight, host_ir>>

tud_resume_cb ==
    /\ InTask
    /\ suspended
    /\ suspended' = FALSE
    /\ UNCHANGED <<irmp_vars, pc, loop_vars, PrevXferComplete, in_flight,
                   host_vars>>

\* A reset and a new configuration: the stack drops the transfer without
\* telling, the host's driver starts afresh.
tud_mount_cb ==
    /\ InTask
    /\ Resets
    /\ in_flight' = Free
    /\ suspended' = FALSE
    /\ host_key' = NoKey
    /\ UNCHANGED <<irmp_vars, pc, loop_vars, PrevXferComplete, host_ir>>

-----------------------------------------------------------------------------
(***************************************************************************)
(* main(): one pass of the loop is task, poll, send_ir, send_kbd,          *)
(* send_release; a press takes it through force (waiting for a transfer),  *)
(* new and handle, a learn command through learn.                          *)
(***************************************************************************)
\* tud_task() returns when no event is left.
Task ==
    /\ pc = "task"
    /\ in_flight # Done
    /\ pc' = "poll"
    /\ UNCHANGED <<irmp_vars, loop_vars, usb_vars, host_vars>>

PollNothing ==
    /\ pc = "poll"
    /\ \/ ~PrevXferComplete /\ UNCHANGED irmp_vars
       \/ PrevXferComplete /\ ~irmp_ir_detected /\ UNCHANGED irmp_vars
       \/ PrevXferComplete /\ DropData
    /\ pc' = "send_ir"
    /\ UNCHANGED <<loop_vars, usb_vars, host_vars>>

Poll == pc = "poll" /\ PrevXferComplete /\ GetData

\* A press: first the release that is owed for the press before it.
PollPress ==
    /\ Poll
    /\ \/ Returned.flags = {}
       \/ "force_release" \in Returned.flags
    /\ myIRData' = [Returned EXCEPT !.flags = @ \ {"force_release"}]
    /\ IF "force_release" \in Returned.flags
         THEN Send(IR(oldIRData)) /\ pc' = "force"
         ELSE UNCHANGED usb_vars /\ pc' = "new"
    /\ UNCHANGED <<oldIRData, send_ir_needed, send_kbd_needed,
                   kbd_release_needed, release, host_vars>>

PollRepetition ==
    /\ Poll
    /\ "repetition" \in Returned.flags
    /\ myIRData' = Returned
    /\ send_kbd_needed' = TRUE
    /\ send_ir_needed' = TRUE
    /\ pc' = "send_ir"
    /\ UNCHANGED <<oldIRData, kbd_release_needed, release, usb_vars,
                   host_vars>>

PollRelease ==
    /\ Poll
    /\ Returned.flags = {"release"}
    /\ myIRData' = Returned
    /\ release' = TRUE
    /\ send_ir_needed' = TRUE
    /\ pc' = "send_ir"
    /\ UNCHANGED <<oldIRData, send_kbd_needed, kbd_release_needed,
                   usb_vars, host_vars>>

\* Mutant: the loop does not wait for the forced release to be fetched.
ForceSentUnwaited ==
    /\ pc = "force"
    /\ pc' = "new"
    /\ UNCHANGED <<irmp_vars, loop_vars, usb_vars, host_vars>>

ForceSent ==
    /\ pc = "force"
    /\ PrevXferComplete
    /\ pc' = "new"
    /\ UNCHANGED <<irmp_vars, loop_vars, usb_vars, host_vars>>

New ==
    /\ pc = "new"
    /\ kbd_release_needed' = FALSE
    /\ IF kbd_release_needed THEN Send(KBD(NoKey)) ELSE UNCHANGED usb_vars
    /\ pc' = "handle"
    /\ UNCHANGED <<irmp_vars, myIRData, oldIRData, send_ir_needed,
                   send_kbd_needed, release, host_vars>>

\* Mutant: the press is not put on the IR report.
HandleNoReport ==
    /\ pc = "handle"
    /\ oldIRData' = [myIRData EXCEPT !.flags = {"release"}]
    /\ send_kbd_needed' = TRUE
    /\ pc' = "send_ir"
    /\ UNCHANGED <<irmp_vars, myIRData, send_ir_needed, kbd_release_needed,
                   release, usb_vars, host_vars>>

\* store_wakeup, check_macros, check_wakeups and check_reboot take their time,
\* see MayTick.
Handle ==
    /\ pc = "handle"
    /\ oldIRData' = [myIRData EXCEPT !.flags = {"release"}]
    /\ send_kbd_needed' = TRUE
    /\ send_ir_needed' = TRUE
    /\ pc' = "send_ir"
    /\ UNCHANGED <<irmp_vars, myIRData, kbd_release_needed, release,
                   usb_vars, host_vars>>

SendIr ==
    /\ pc = "send_ir"
    /\ IF PrevXferComplete /\ send_ir_needed
         THEN send_ir_needed' = FALSE /\ Send(IR(myIRData))
         ELSE UNCHANGED <<send_ir_needed, usb_vars>>
    /\ pc' = "send_kbd"
    /\ UNCHANGED <<irmp_vars, myIRData, oldIRData, send_kbd_needed,
                   kbd_release_needed, release, host_vars>>

Key == KeyOf[myIRData.code]

SendNoKey ==
    /\ pc = "send_kbd"
    /\ \/ ~(PrevXferComplete /\ send_kbd_needed) /\ UNCHANGED send_kbd_needed
       \/ /\ PrevXferComplete /\ send_kbd_needed
          /\ Key = NoKey
          /\ send_kbd_needed' = FALSE
    /\ pc' = "send_release"
    /\ UNCHANGED <<irmp_vars, myIRData, oldIRData, send_ir_needed,
                   kbd_release_needed, release, usb_vars, host_vars>>

SendKbd ==
    /\ pc = "send_kbd"
    /\ PrevXferComplete /\ send_kbd_needed
    /\ Key # NoKey
    /\ send_kbd_needed' = FALSE
    /\ Send(KBD(Key))
    /\ release' = FALSE
    /\ kbd_release_needed' = TRUE
    /\ pc' = "send_release"
    /\ UNCHANGED <<irmp_vars, myIRData, oldIRData, send_ir_needed,
                   host_vars>>

\* Mutant: the key is let go without waiting for the transfer before.
SendReleaseUngated ==
    /\ pc = "send_release"
    /\ IF kbd_release_needed /\ release
         THEN /\ release' = FALSE
              /\ kbd_release_needed' = FALSE
              /\ Send(KBD(NoKey))
         ELSE UNCHANGED <<release, kbd_release_needed, usb_vars>>
    /\ pc' = "task"
    /\ UNCHANGED <<irmp_vars, myIRData, oldIRData, send_ir_needed,
                   send_kbd_needed, host_vars>>

SendRelease ==
    /\ pc = "send_release"
    /\ IF PrevXferComplete /\ kbd_release_needed /\ release
         THEN /\ release' = FALSE
              /\ kbd_release_needed' = FALSE
              /\ Send(KBD(NoKey))
         ELSE UNCHANGED <<release, kbd_release_needed, usb_vars>>
    /\ pc' = "task"
    /\ UNCHANGED <<irmp_vars, myIRData, oldIRData, send_ir_needed,
                   send_kbd_needed, host_vars>>

-----------------------------------------------------------------------------
(***************************************************************************)
(* A learn command (store_new_irdata): flush the decoder, then take the    *)
(* first data that comes within five seconds.                              *)
(***************************************************************************)
LearnStart ==
    /\ Learning
    /\ pc = "task"
    /\ in_flight # Done
    /\ PrevXferComplete
    /\ GetData \/ DropData \/ (~irmp_ir_detected /\ UNCHANGED irmp_vars)
    /\ pc' = "learn"
    /\ UNCHANGED <<loop_vars, usb_vars, host_vars>>

LearnTake ==
    /\ pc = "learn"
    /\ GetData
    /\ Send(CONFIG)
    /\ pc' = "poll"
    /\ UNCHANGED <<loop_vars, host_vars>>

LearnDrop ==
    /\ pc = "learn"
    /\ DropData
    /\ UNCHANGED <<pc, loop_vars, usb_vars, host_vars>>

LearnTimeout ==
    /\ pc = "learn"
    /\ Send(CONFIG)
    /\ pc' = "poll"
    /\ UNCHANGED <<irmp_vars, loop_vars, host_vars>>

-----------------------------------------------------------------------------
(***************************************************************************)
(* Time.  A pass of the loop takes microseconds and a transfer a few       *)
(* milliseconds, a tick about 50: time passes only while the loop is at    *)
(* rest, while it is busy handling a press (Blocking) or learning, or      *)
(* while it waits for a slow host.                                         *)
(***************************************************************************)
AtRest ==
    /\ pc = "task"
    /\ PrevXferComplete
    /\ in_flight # Done
    /\ ~irmp_ir_detected
    /\ ~send_ir_needed
    /\ ~send_kbd_needed
    /\ ~(kbd_release_needed /\ release)

MayTick ==
    \/ AtRest
    \/ Blocking /\ pc = "handle"
    \/ pc = "learn"
    \/ SlowHost /\ InTask /\ Busy

Time ==
    /\ MayTick
    /\ Tick
    /\ UNCHANGED <<pc, loop_vars, usb_vars, host_vars>>

Interrupt ==
    /\ ISR
    /\ UNCHANGED <<pc, loop_vars, usb_vars, host_vars>>

Learn == LearnStart \/ LearnTake \/ LearnDrop \/ LearnTimeout

Main ==
    \/ Task
    \/ PollNothing \/ PollPress \/ PollRepetition \/ PollRelease
    \/ ForceSent \/ New \/ Handle
    \/ SendIr \/ SendNoKey \/ SendKbd \/ SendRelease

Callback ==
    \/ tud_hid_report_complete_cb
    \/ tud_suspend_cb
    \/ tud_resume_cb
    \/ tud_mount_cb

Next == Time \/ Interrupt \/ Main \/ Learn \/ Callback \/ HostFetches

Spec == Init /\ [][Next]_vars

\* The loop and the timer never stop; the host fetches what the endpoint holds.
Fairness ==
    /\ WF_vars(Main)
    /\ WF_vars(Learn /\ pc = "learn")
    /\ WF_vars(tud_hid_report_complete_cb)
    /\ WF_vars(HostFetches)
    /\ WF_vars(DetectRelease /\ UNCHANGED <<pc, loop_vars, usb_vars, host_vars>>)
    /\ SF_vars(Time)

FairSpec == Spec /\ Fairness

-----------------------------------------------------------------------------
(***************************************************************************)
(* Properties of the transfers.                                            *)
(***************************************************************************)
KeyUp == KBD(NoKey)
PressInFlight == in_flight.report = "kbd" /\ in_flight.key # NoKey

\* "always wait for previous transfer to complete before sending again"
\* (main.c:909): whenever the firmware takes the endpoint for free it is, also
\* at the one place where it sends without looking (main.c:966, 971).
XferGate ==
    /\ PrevXferComplete => in_flight = Free
    /\ pc = "new" => PrevXferComplete

\* While a key is down at the host, or about to be, the firmware remembers that
\* it owes the release or has just handed it to the endpoint.
KeyRemembered ==
    host_key # NoKey \/ PressInFlight => kbd_release_needed \/ in_flight = KeyUp

\* The firmware never waits for ever (while (!PrevXferComplete) tud_task()): a
\* transfer ends, or the bus is suspended, unless the host resets the device in
\* the middle of it.
TransferEnds == []<>PrevXferComplete

\* Nothing that was polled is overwritten before it was reported (myIRData is a
\* single buffer, main.c:962, 985, 991).
NothingOverwritten ==
    [][myIRData' # myIRData => ~send_ir_needed /\ ~send_kbd_needed]_vars

(***************************************************************************)
(* Properties of what the host sees.                                       *)
(***************************************************************************)
\* When the remote control is silent and all is processed, no key is down.
NoStuckKey == AtRest /\ key_released => host_key = NoKey

\* The IR reports the host gets alternate between a press and a release with
\* repetitions in between, all of one code.
HostAlternates ==
    [][HostFetches /\ in_flight.report = "ir" /\ host_ir # NoData =>
          /\ in_flight.data.flags = {} <=> host_ir.flags = {"release"}
          /\ in_flight.data.flags # {} => in_flight.data.code = host_ir.code]_vars

\* A key that goes down is the one assigned to the code reported last.
KeyMatchesReport ==
    [][host_key' # host_key /\ host_key' # NoKey =>
          host_ir # NoData /\ host_key' = KeyOf[host_ir.code]]_vars

\* Once the remote control is silent, every key is let go for good.
EventuallyKeyUp == <>[](receiving = "no") => <>[](host_key = NoKey)
=============================================================================
