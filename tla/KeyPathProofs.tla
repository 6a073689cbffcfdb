--------------------------- MODULE KeyPathProofs ----------------------------
(***************************************************************************)
(* Theorems about module KeyPath, for any keys, codes and rates, in the    *)
(* order in which they build on each other:                                *)
(*                                                                         *)
(* - the types, and that myIRData is set before it is used;                *)
(* - XferGate and KeyRemembered, as long as the bus is not suspended:      *)
(*   tud_suspend_cb frees PrevXferComplete while the endpoint is still     *)
(*   busy (usb_hid.c:81).  Both are inductive together: that the endpoint  *)
(*   really is free when the release for the key before is sent unlooked   *)
(*   (main.c:971) is what keeps this release from being refused;           *)
(* - KeyMatchesReport from these, with any delay of the host and of the    *)
(*   handling of a press, resets and learn commands;                       *)
(* - NothingOverwritten, which is about time: a quick loop and host;       *)
(* - NoStuckKey and HostAlternates, which need in addition what the        *)
(*   decoder guarantees for remote controls whose commands tell them apart *)
(*   (ButtonsInv of module IrmpProofs).                                    *)
(***************************************************************************)
EXTENDS KeyPath, IrmpProofs

\* myIRData is only used once it was set (main.c:868 leaves it uninitialised).
DataKnown ==
    pc \in {"force", "new", "handle"} \/ send_kbd_needed => myIRData # NoData

TInv == TypeOK /\ DataKnown

LEMMA EndpointType ==
  /\ Free \in Endpoint /\ Done \in Endpoint /\ CONFIG \in Endpoint
  /\ \A data \in IrmpData \cup {NoData} : IR(data) \in Endpoint
  /\ \A key \in Keys \cup {NoKey} : KBD(key) \in Endpoint
  BY DEF Endpoint, Free, Done, CONFIG, IR, KBD

LEMMA SendType ==
  ASSUME TypeOK, NEW report \in Endpoint, Send(report)
  PROVE  /\ PrevXferComplete' \in BOOLEAN
         /\ in_flight' \in Endpoint
         /\ suspended' \in BOOLEAN
  BY DEF TypeOK, Send, usb_vars

\* Rewriting the flags of a code that was received gives such a code again.
LEMMA FlagsType ==
  ASSUME NEW data \in IrmpData, NEW flags \in SUBSET Flag
  PROVE  [data EXCEPT !.flags = flags] \in IrmpData
  BY DEF IrmpData

LEMMA InitTInv == Init => TInv
  <1> SUFFICES ASSUME Init
               PROVE  TInv
    OBVIOUS
  <1>1. IrmpTypeOK
    BY InitType DEF Init
  <1>2. in_flight \in Endpoint
    BY EndpointType DEF Init
  <1> QED
    BY <1>1, <1>2 DEF Init, TInv, TypeOK, DataKnown

\* The steps that leave the decoder, and those that leave main(), alone.
LEMMA CallbackTInv ==
  TInv /\ (Callback \/ HostFetches) => TInv'
  <1> SUFFICES ASSUME TInv, Callback \/ HostFetches
               PROVE  TInv'
    OBVIOUS
  <1>1. IrmpTypeOK' /\ UNCHANGED <<pc, loop_vars>>
    BY StutterType
    DEF TInv, TypeOK, Callback, tud_hid_report_complete_cb, tud_suspend_cb,
        tud_resume_cb, tud_mount_cb, HostFetches
  <1>2. /\ PrevXferComplete' \in BOOLEAN
        /\ in_flight' \in Endpoint
        /\ suspended' \in BOOLEAN
    BY EndpointType
    DEF TInv, TypeOK, Callback, tud_hid_report_complete_cb, tud_suspend_cb,
        tud_resume_cb, tud_mount_cb, HostFetches
  <1>3. host_key' \in Keys \cup {NoKey} /\ host_ir' \in IrmpData \cup {NoData}
    BY DEF TInv, TypeOK, Callback, tud_hid_report_complete_cb, tud_suspend_cb,
           tud_resume_cb, tud_mount_cb, HostFetches, host_vars, Endpoint
  <1> QED
    BY <1>1, <1>2, <1>3 DEF TInv, TypeOK, DataKnown, loop_vars

LEMMA TimeTInv ==
  TInv /\ (Time \/ Interrupt) => TInv'
  <1> SUFFICES ASSUME TInv, Time \/ Interrupt
               PROVE  TInv'
    OBVIOUS
  <1>1. IrmpTypeOK'
    BY TickType, ISRType DEF TInv, TypeOK, Time, Interrupt
  <1>2. UNCHANGED <<pc, loop_vars, usb_vars, host_vars>>
    BY DEF Time, Interrupt
  <1> QED
    BY <1>1, <1>2
    DEF TInv, TypeOK, DataKnown, loop_vars, usb_vars, host_vars

\* Steps of main() that take data from the decoder: what is polled is a code
\* that was received.
LEMMA PollTInv ==
  TInv /\ (PollNothing \/ PollPress \/ PollRepetition \/ PollRelease) => TInv'
  <1> SUFFICES ASSUME TInv,
                      PollNothing \/ PollPress \/ PollRepetition \/ PollRelease
               PROVE  TInv'
    OBVIOUS
  <1>1. IrmpTypeOK'
    BY GetDataType, DropDataType, StutterType
    DEF TInv, TypeOK, PollNothing, PollPress, PollRepetition, PollRelease, Poll
  <1>2. Returned \in IrmpData
    BY ReturnedType DEF TInv, TypeOK
  <1>3. CASE PollNothing
    BY <1>1, <1>3
    DEF PollNothing, TInv, TypeOK, DataKnown, loop_vars, usb_vars, host_vars
  <1>4. CASE PollPress
    <2>1. myIRData' \in IrmpData
      BY <1>2, <1>4, FlagsType DEF PollPress, IrmpData
    <2>2. /\ PrevXferComplete' \in BOOLEAN
          /\ in_flight' \in Endpoint
          /\ suspended' \in BOOLEAN
      BY <1>4, SendType, EndpointType DEF PollPress, TInv, TypeOK, usb_vars
    <2>3. pc' \in {"force", "new"}
      BY <1>4 DEF PollPress
    <2> QED
      BY <1>1, <1>4, <2>1, <2>2, <2>3, KeyPathAssumption
      DEF PollPress, TInv, TypeOK, DataKnown, host_vars
  <1>5. CASE PollRepetition \/ PollRelease
    BY <1>1, <1>2, <1>5, KeyPathAssumption
    DEF PollRepetition, PollRelease, TInv, TypeOK, DataKnown, usb_vars, host_vars
  <1> QED
    BY <1>3, <1>4, <1>5

\* Steps of main() that handle and report what was polled.
LEMMA ReportTInv ==
  TInv /\ (\/ Task \/ ForceSent \/ New \/ Handle
           \/ SendIr \/ SendNoKey \/ SendKbd \/ SendRelease) => TInv'
  <1> SUFFICES ASSUME TInv,
                      \/ Task \/ ForceSent \/ New \/ Handle
                      \/ SendIr \/ SendNoKey \/ SendKbd \/ SendRelease
               PROVE  TInv'
    OBVIOUS
  <1>1. IrmpTypeOK'
    BY StutterType
    DEF TInv, TypeOK, Task, ForceSent, New, Handle, SendIr, SendNoKey, SendKbd,
        SendRelease
  <1>2. CASE Task \/ ForceSent
    BY <1>1, <1>2
    DEF Task, ForceSent, TInv, TypeOK, DataKnown, loop_vars, usb_vars, host_vars
  <1>3. CASE SendNoKey
    <2>1. send_kbd_needed' \in BOOLEAN /\ (send_kbd_needed' => send_kbd_needed)
      <3>1. send_kbd_needed \in BOOLEAN
        BY DEF TInv, TypeOK
      <3>2. CASE send_kbd_needed' = send_kbd_needed
        BY <3>1, <3>2, Zenon
      <3>3. CASE send_kbd_needed' = FALSE
        BY <3>3, Zenon
      <3> QED
        BY <1>3, <3>2, <3>3, Zenon DEF SendNoKey
    <2>2. /\ pc' = "send_release"
          /\ UNCHANGED <<myIRData, oldIRData, send_ir_needed, kbd_release_needed,
                         release, usb_vars, host_vars>>
      BY <1>3 DEF SendNoKey
    <2> QED
      BY <1>1, <2>1, <2>2 DEF TInv, TypeOK, DataKnown, usb_vars, host_vars
  <1>4. CASE Handle
    <2>1. oldIRData' \in IrmpData
      BY <1>4, FlagsType DEF Handle, TInv, TypeOK, DataKnown, Flag
    <2> QED
      BY <1>1, <1>4, <2>1
      DEF Handle, TInv, TypeOK, DataKnown, usb_vars, host_vars
  <1>5. CASE New \/ SendRelease
    <2>1. /\ pc' \in {"handle", "task"}
          /\ pc' = "handle" => pc = "new"
          /\ UNCHANGED <<myIRData, oldIRData, send_ir_needed, send_kbd_needed,
                         host_vars>>
      BY <1>5 DEF New, SendRelease
    <2>2. release' \in BOOLEAN /\ kbd_release_needed' \in BOOLEAN
      BY <1>5, Zenon DEF New, SendRelease, TInv, TypeOK
    <2>3. /\ PrevXferComplete' \in BOOLEAN
          /\ in_flight' \in Endpoint
          /\ suspended' \in BOOLEAN
      BY <1>5, SendType, EndpointType
      DEF New, SendRelease, TInv, TypeOK, usb_vars
    <2> QED
      BY <1>1, <2>3, <2>1, <2>2 DEF TInv, TypeOK, DataKnown, host_vars
  <1>6. CASE SendIr
    <2>1. /\ PrevXferComplete' \in BOOLEAN
          /\ in_flight' \in Endpoint
          /\ suspended' \in BOOLEAN
      BY <1>6, SendType, EndpointType DEF SendIr, TInv, TypeOK, usb_vars
    <2> QED
      BY <1>1, <1>6, <2>1 DEF SendIr, TInv, TypeOK, DataKnown, host_vars
  <1>7. CASE SendKbd
    <2>1. Key \in Keys \cup {NoKey}
      BY <1>7, KeyPathAssumption
      DEF SendKbd, Key, TInv, TypeOK, DataKnown, IrmpData
    <2>2. /\ PrevXferComplete' \in BOOLEAN
          /\ in_flight' \in Endpoint
          /\ suspended' \in BOOLEAN
      BY <1>7, <2>1, SendType, EndpointType DEF SendKbd, TInv
    <2> QED
      BY <1>1, <1>7, <2>2 DEF SendKbd, TInv, TypeOK, DataKnown, host_vars
  <1> QED
    BY <1>2, <1>4, <1>5, <1>6, <1>7, <1>3

LEMMA LearnTInv == TInv /\ Learn => TInv'
  <1> SUFFICES ASSUME TInv, Learn
               PROVE  TInv'
    OBVIOUS
  <1>1. IrmpTypeOK'
    BY GetDataType, DropDataType, StutterType
    DEF TInv, TypeOK, Learn, LearnStart, LearnTake, LearnDrop, LearnTimeout
  <1>2. /\ PrevXferComplete' \in BOOLEAN
        /\ in_flight' \in Endpoint
        /\ suspended' \in BOOLEAN
    BY SendType, EndpointType
    DEF TInv, TypeOK, Learn, LearnStart, LearnTake, LearnDrop, LearnTimeout,
        usb_vars
  <1>3. UNCHANGED <<loop_vars, host_vars>>
    BY DEF Learn, LearnStart, LearnTake, LearnDrop, LearnTimeout
  <1>4. pc' \in {"learn", "poll"}
    BY DEF Learn, LearnStart, LearnTake, LearnDrop, LearnTimeout
  <1> QED
    BY <1>1, <1>2, <1>3, <1>4 DEF TInv, TypeOK, DataKnown, loop_vars, host_vars

\* The variables of the firmware keep their types and myIRData is never used
\* uninitialised, for all keys and codes (main.c:866-1014, usb_hid.c:23-97).
THEOREM Typed == Spec => []TInv
  <1>1. Init => TInv
    BY InitTInv
  <1>2. TInv /\ [Next]_vars => TInv'
    <2>1. TInv /\ Next => TInv'
      BY CallbackTInv, TimeTInv, PollTInv, ReportTInv, LearnTInv
      DEF Next, Main
    <2>2. TInv /\ UNCHANGED vars => TInv'
      <3> SUFFICES ASSUME TInv, UNCHANGED vars
                   PROVE  TInv'
        OBVIOUS
      <3>1. IrmpTypeOK'
        BY StutterType DEF vars, TInv, TypeOK
      <3> QED
        BY <3>1
        DEF vars, TInv, TypeOK, DataKnown, loop_vars, usb_vars, host_vars
    <2> QED
      BY <2>1, <2>2
  <1> QED
    BY <1>1, <1>2, PTL DEF Spec

\* The type invariant that the runs check.
THEOREM TypeCorrect == Spec => []TypeOK
  <1>1. TInv => TypeOK
    BY DEF TInv
  <1> QED
    BY <1>1, Typed, PTL

-----------------------------------------------------------------------------
\* The invariant behind the transfers, on a bus that is not suspended.
GateInv ==
    /\ ~suspended
    /\ XferGate
    /\ KeyRemembered

\* A free endpoint and a completed transfer hold no report.
LEMMA FreeHoldsNothing ==
  /\ Free.report = "none" /\ Done.report = "done" /\ KeyUp.report = "kbd"
  /\ Free # Done /\ KeyUp # Free /\ KeyUp # Done
  BY DEF Free, Done, KeyUp, KBD

\* A report that is handed over while the endpoint is free is accepted.
LEMMA SendWhenFree ==
  ASSUME ~suspended, in_flight = Free, NEW report, Send(report)
  PROVE  in_flight' = report /\ PrevXferComplete' = FALSE /\ ~suspended'
  BY DEF Send

\* A report that is no press changes nothing of what KeyRemembered says, also
\* when the endpoint is busy and refuses it.
LEMMA SendNoPress ==
  ASSUME GateInv, NEW report, Send(report), report.report \in {"ir", "config"},
         UNCHANGED <<host_key, kbd_release_needed>>, pc' # "new"
  PROVE  GateInv'
  <1>1. ~suspended' /\ PrevXferComplete' = FALSE
    BY DEF GateInv, Send
  <1>2. (in_flight' = report /\ in_flight = Free) \/ in_flight' = in_flight
    BY DEF GateInv, Send
  <1>3. KeyRemembered'
    <2>1. CASE in_flight' = report /\ in_flight = Free
      <3>1. ~PressInFlight'
        BY <2>1 DEF PressInFlight
      <3>2. in_flight # KeyUp
        BY <2>1, FreeHoldsNothing
      <3> QED
        BY <3>1, <3>2 DEF GateInv, KeyRemembered
    <2>2. CASE in_flight' = in_flight
      BY <2>2 DEF GateInv, KeyRemembered, PressInFlight
    <2> QED
      BY <1>2, <2>1, <2>2
  <1> QED
    BY <1>1, <1>3 DEF GateInv, XferGate

LEMMA GateStutter ==
  ASSUME GateInv, UNCHANGED <<usb_vars, host_key, kbd_release_needed>>,
         pc' = "new" => pc = "new" \/ PrevXferComplete
  PROVE  GateInv'
  BY DEF GateInv, XferGate, KeyRemembered, PressInFlight, usb_vars

\* What the host and the USB stack do, on a bus that is never suspended.
LEMMA CallbackGate ==
  ASSUME Suspends = FALSE, GateInv, Callback \/ HostFetches
  PROVE  GateInv'
  <1>1. CASE HostFetches
    <2>1. /\ in_flight' = Done
          /\ host_key' = IF in_flight.report = "kbd" THEN in_flight.key
                         ELSE host_key
          /\ UNCHANGED <<pc, kbd_release_needed, PrevXferComplete, suspended>>
      BY <1>1 DEF HostFetches, loop_vars
    <2>2. ~PrevXferComplete
      BY <1>1, FreeHoldsNothing DEF HostFetches, Busy, GateInv, XferGate
    <2>3. ~PressInFlight'
      BY <2>1, FreeHoldsNothing DEF PressInFlight
    <2>4. host_key' # NoKey => kbd_release_needed
      BY <2>1 DEF GateInv, KeyRemembered, PressInFlight, KeyUp, KBD
    <2> QED
      BY <2>1, <2>2, <2>3, <2>4 DEF GateInv, XferGate, KeyRemembered
  <1>2. CASE tud_hid_report_complete_cb
    <2>1. in_flight' = Free /\ in_flight = Done
      BY <1>2 DEF tud_hid_report_complete_cb
    <2>2. UNCHANGED <<pc, kbd_release_needed, suspended, host_key>> /\ pc # "new"
      BY <1>2 DEF tud_hid_report_complete_cb, InTask, loop_vars, host_vars
    <2> QED
      BY <2>1, <2>2, FreeHoldsNothing
      DEF GateInv, XferGate, KeyRemembered, PressInFlight
  <1>3. CASE tud_mount_cb
    <2>1. in_flight' = Free /\ host_key' = NoKey /\ suspended' = FALSE
      BY <1>3 DEF tud_mount_cb
    <2>2. UNCHANGED pc /\ pc # "new"
      BY <1>3 DEF tud_mount_cb, InTask
    <2> QED
      BY <2>1, <2>2, FreeHoldsNothing
      DEF GateInv, XferGate, KeyRemembered, PressInFlight
  <1>4. ~tud_suspend_cb /\ ~tud_resume_cb
    BY DEF tud_suspend_cb, tud_resume_cb, GateInv
  <1> QED
    BY <1>1, <1>2, <1>3, <1>4 DEF Callback

\* What the main loop does.
LEMMA MainGate ==
  ASSUME GateInv, Main \/ Learn
  PROVE  GateInv'
  <1>1. CASE Task \/ PollNothing \/ PollRepetition \/ PollRelease \/ Handle
             \/ SendNoKey \/ LearnStart \/ LearnDrop
    BY <1>1, GateStutter
    DEF Task, PollNothing, PollRepetition, PollRelease, Handle, SendNoKey,
        LearnStart, LearnDrop, loop_vars, host_vars
  <1>2. CASE ForceSent
    BY <1>2, GateStutter DEF ForceSent, loop_vars, host_vars
  <1>3. CASE PollPress
    <2>1. UNCHANGED <<host_key, kbd_release_needed>> /\ PrevXferComplete
      BY <1>3 DEF PollPress, Poll, host_vars
    <2>2. CASE Send(IR(oldIRData)) /\ pc' = "force"
      <3>1. IR(oldIRData).report = "ir"
        BY DEF IR
      <3> QED
        BY <2>1, <2>2, <3>1, SendNoPress
    <2>3. CASE UNCHANGED usb_vars /\ pc' = "new"
      BY <2>1, <2>3, GateStutter
    <2> QED
      BY <1>3, <2>2, <2>3 DEF PollPress
  <1>4. CASE New
    <2>1. in_flight = Free /\ ~suspended /\ pc = "new"
      BY <1>4 DEF New, GateInv, XferGate
    <2>2. UNCHANGED host_key /\ kbd_release_needed' = FALSE /\ pc' = "handle"
      BY <1>4 DEF New, host_vars
    <2>3. CASE kbd_release_needed
      <3>1. in_flight' = KeyUp /\ PrevXferComplete' = FALSE /\ ~suspended'
        BY <1>4, <2>1, <2>3, SendWhenFree DEF New, KeyUp
      <3> QED
        BY <2>2, <3>1 DEF GateInv, XferGate, KeyRemembered
    <2>4. CASE ~kbd_release_needed
      <3>1. UNCHANGED usb_vars
        BY <1>4, <2>4 DEF New
      <3> QED
        BY <2>2, <2>4, <3>1
        DEF GateInv, XferGate, KeyRemembered, PressInFlight, usb_vars
    <2> QED
      BY <2>3, <2>4
  <1>5. CASE SendIr
    <2>1. UNCHANGED <<host_key, kbd_release_needed>> /\ pc' = "send_kbd"
      BY <1>5 DEF SendIr, host_vars
    <2>2. IR(myIRData).report = "ir"
      BY DEF IR
    <2>3. Send(IR(myIRData)) \/ UNCHANGED usb_vars
      BY <1>5 DEF SendIr
    <2> QED
      BY <2>1, <2>2, <2>3, SendNoPress, GateStutter
  <1>6. CASE SendKbd
    <2>1. in_flight = Free /\ ~suspended
      BY <1>6 DEF SendKbd, GateInv, XferGate
    <2>2. PrevXferComplete' = FALSE /\ ~suspended'
      BY <1>6, <2>1, SendWhenFree DEF SendKbd
    <2>3. kbd_release_needed' = TRUE /\ pc' = "send_release"
      BY <1>6 DEF SendKbd
    <2> QED
      BY <2>2, <2>3 DEF GateInv, XferGate, KeyRemembered
  <1>7. CASE SendRelease
    <2>1. UNCHANGED host_key /\ pc' = "task"
      BY <1>7 DEF SendRelease, host_vars
    <2>2. CASE PrevXferComplete /\ kbd_release_needed /\ release
      <3>1. in_flight = Free /\ ~suspended
        BY <2>2 DEF GateInv, XferGate
      <3>2. in_flight' = KeyUp /\ PrevXferComplete' = FALSE /\ ~suspended'
        BY <1>7, <2>2, <3>1, SendWhenFree DEF SendRelease, KeyUp
      <3> QED
        BY <2>1, <3>2 DEF GateInv, XferGate, KeyRemembered
    <2>3. CASE ~(PrevXferComplete /\ kbd_release_needed /\ release)
      BY <1>7, <2>1, <2>3, GateStutter DEF SendRelease
    <2> QED
      BY <2>2, <2>3
  <1>8. CASE LearnTake \/ LearnTimeout
    <2>1. CONFIG.report = "config"
      BY DEF CONFIG
    <2> QED
      BY <1>8, <2>1, SendNoPress
      DEF LearnTake, LearnTimeout, loop_vars, host_vars
  <1> QED
    BY <1>1, <1>2, <1>3, <1>4, <1>5, <1>6, <1>7, <1>8 DEF Main, Learn

\* On a bus that is never suspended the firmware's idea of the endpoint is
\* right where it sends, and the release it owes the host is not forgotten,
\* whatever the timing (main.c:961-1013, usb_hid.c:23-97).
THEOREM Gate == ASSUME Suspends = FALSE PROVE Spec => []GateInv
  <1>1. Init => GateInv
    BY FreeHoldsNothing
    DEF Init, GateInv, XferGate, KeyRemembered, PressInFlight
  <1>2. GateInv /\ [Next]_vars => GateInv'
    <2> SUFFICES ASSUME GateInv, [Next]_vars
                 PROVE  GateInv'
      OBVIOUS
    <2>1. CASE Time \/ Interrupt \/ UNCHANGED vars
      BY <2>1, GateStutter DEF Time, Interrupt, vars, loop_vars, host_vars
    <2> QED
      BY <2>1, CallbackGate, MainGate DEF Next
  <1> QED
    BY <1>1, <1>2, PTL DEF Spec

\* "always wait for previous transfer to complete before sending again"
\* (main.c:909).
THEOREM XferGated == ASSUME Suspends = FALSE PROVE Spec => []XferGate
  <1>1. GateInv => XferGate
    BY DEF GateInv
  <1> QED
    BY <1>1, Gate, PTL

\* The release of the key that is down at the host is never forgotten
\* (main.c:969-972, 1001-1013).
THEOREM ReleaseRemembered == ASSUME Suspends = FALSE PROVE Spec => []KeyRemembered
  <1>1. GateInv => KeyRemembered
    BY DEF GateInv
  <1> QED
    BY <1>1, Gate, PTL

-----------------------------------------------------------------------------
(***************************************************************************)
(* The key follows the IR report.  Both are made from myIRData, the IR     *)
(* report first, so that while only the key is left to be sent the report  *)
(* is with the host or in the endpoint; a reset may have dropped it, but   *)
(* then nothing sets PrevXferComplete and no key is sent either.           *)
(***************************************************************************)
InPress == pc \in {"force", "new", "handle"}

KeyLeft == send_kbd_needed /\ ~send_ir_needed /\ ~InPress

HostKnows(data) == host_ir # NoData /\ host_ir.code = data.code

Matches ==
    /\ pc = "send_kbd" /\ PrevXferComplete => ~send_ir_needed
    /\ pc = "learn" => PrevXferComplete
    /\ KeyLeft => IF in_flight.report = "ir"
                    THEN in_flight.data = myIRData
                    ELSE HostKnows(myIRData) \/ (in_flight = Free /\ ~PrevXferComplete)
    /\ PressInFlight => host_ir # NoData /\ in_flight.key = KeyOf[host_ir.code]

MInv == TInv /\ GateInv /\ Matches

LEMMA MatchesStutter ==
  ASSUME Matches, UNCHANGED <<usb_vars, host_ir>>,
         KeyLeft' => KeyLeft /\ myIRData' = myIRData,
         pc' = "send_kbd" => pc = "send_kbd",
         pc' = "learn" => pc = "learn" \/ PrevXferComplete,
         send_ir_needed' => send_ir_needed \/ pc' # "send_kbd"
  PROVE  Matches'
  <1>1. PressInFlight' <=> PressInFlight
    BY DEF PressInFlight, usb_vars
  <1> QED
    BY <1>1 DEF Matches, HostKnows, IR, usb_vars

\* Of what is sent while the endpoint is free nothing is a press.
LEMMA MatchesSend ==
  ASSUME MInv, NEW report, Send(report), PrevXferComplete,
         report.report = "kbd" => report.key = NoKey,
         report.report = "ir" => ~KeyLeft',
         UNCHANGED host_ir, pc' \notin {"send_kbd", "learn"},
         KeyLeft' => KeyLeft /\ myIRData' = myIRData
  PROVE  Matches'
  <1>1. in_flight = Free /\ ~suspended
    BY DEF MInv, GateInv, XferGate
  <1>2. in_flight' = report
    BY <1>1, SendWhenFree
  <1>3. ~PressInFlight'
    BY <1>2 DEF PressInFlight
  <1>4. KeyLeft' => HostKnows(myIRData)
    BY <1>1, FreeHoldsNothing DEF MInv, Matches
  <1>5. KeyLeft' => in_flight'.report # "ir" /\ HostKnows(myIRData)'
    BY <1>2, <1>4 DEF HostKnows
  <1> QED
    BY <1>3, <1>5 DEF Matches

LEMMA CallbackMatches ==
  ASSUME Suspends = FALSE, MInv, Callback \/ HostFetches
  PROVE  Matches'
  <1>1. CASE HostFetches
    <2>1. /\ in_flight' = Done /\ in_flight # Free
          /\ host_ir' = IF in_flight.report = "ir" THEN in_flight.data ELSE host_ir
          /\ UNCHANGED <<pc, loop_vars, PrevXferComplete>>
      BY <1>1, FreeHoldsNothing DEF HostFetches, Busy
    <2>2. ~PressInFlight' /\ ~PrevXferComplete
      BY <2>1, FreeHoldsNothing DEF PressInFlight, MInv, GateInv, XferGate
    <2>3. KeyLeft => HostKnows(myIRData)'
      <3> SUFFICES ASSUME KeyLeft
                   PROVE  host_ir' # NoData /\ host_ir'.code = myIRData.code
        BY <2>1 DEF HostKnows, loop_vars
      <3>1. CASE in_flight.report = "ir"
        <4>1. host_ir' = myIRData
          BY <2>1, <3>1 DEF MInv, Matches
        <4>2. myIRData # NoData
          BY DEF MInv, TInv, DataKnown, KeyLeft
        <4> QED
          BY <4>1, <4>2
      <3>2. CASE in_flight.report # "ir"
        BY <2>1, <3>2 DEF MInv, Matches, HostKnows
      <3> QED
        BY <3>1, <3>2
    <2>4. in_flight'.report # "ir" /\ (KeyLeft' => KeyLeft)
      BY <2>1, FreeHoldsNothing DEF KeyLeft, InPress, loop_vars
    <2>5. Matches /\ UNCHANGED <<pc, PrevXferComplete, send_ir_needed>>
      BY <2>1 DEF MInv, loop_vars
    <2> QED
      BY <2>2, <2>3, <2>4, <2>5 DEF Matches
  <1>2. CASE tud_hid_report_complete_cb
    <2>1. /\ in_flight = Done /\ in_flight' = Free /\ PrevXferComplete' = TRUE
          /\ UNCHANGED <<pc, loop_vars, host_ir>>
          /\ pc \notin {"send_kbd", "learn"}
      BY <1>2 DEF tud_hid_report_complete_cb, InTask, host_vars
    <2>2. KeyLeft => HostKnows(myIRData)
      BY <2>1, FreeHoldsNothing DEF MInv, Matches
    <2>3. ~PressInFlight' /\ in_flight'.report # "ir"
      BY <2>1, FreeHoldsNothing DEF PressInFlight
    <2> QED
      BY <2>1, <2>2, <2>3 DEF Matches, KeyLeft, InPress, HostKnows, loop_vars
  <1>3. CASE tud_mount_cb
    <2>1. /\ in_flight' = Free
          /\ UNCHANGED <<pc, loop_vars, PrevXferComplete, host_ir>>
          /\ pc \notin {"send_kbd", "learn"}
      BY <1>3 DEF tud_mount_cb, InTask
    <2>2. KeyLeft /\ PrevXferComplete => HostKnows(myIRData)
      BY FreeHoldsNothing DEF MInv, Matches, GateInv, XferGate
    <2>3. ~PressInFlight' /\ in_flight'.report # "ir"
      BY <2>1, FreeHoldsNothing DEF PressInFlight
    <2> QED
      BY <2>1, <2>2, <2>3 DEF Matches, KeyLeft, InPress, HostKnows, loop_vars
  <1>4. ~tud_suspend_cb /\ ~tud_resume_cb
    BY DEF tud_suspend_cb, tud_resume_cb, MInv, GateInv
  <1> QED
    BY <1>1, <1>2, <1>3, <1>4 DEF Callback

LEMMA MainMatches ==
  ASSUME MInv, Main \/ Learn
  PROVE  Matches'
  <1>0. Matches
    BY DEF MInv
  <1>1. CASE Task \/ PollNothing \/ PollRepetition \/ PollRelease \/ ForceSent
             \/ Handle \/ SendNoKey \/ LearnStart \/ LearnDrop
    <2>1. /\ UNCHANGED <<usb_vars, host_ir>>
          /\ pc' # "send_kbd"
          /\ pc' = "learn" => pc = "learn" \/ PrevXferComplete
      BY <1>1 DEF Task, PollNothing, PollRepetition, PollRelease, ForceSent,
                  Handle, SendNoKey, LearnStart, LearnDrop, host_vars
    <2>2. CASE PollRepetition \/ PollRelease \/ Handle
      <3>1. send_ir_needed' = TRUE
        BY <2>2 DEF PollRepetition, PollRelease, Handle
      <3> QED
        BY <1>0, <2>1, <3>1, MatchesStutter DEF KeyLeft
    <2>3. CASE Task \/ PollNothing \/ ForceSent \/ SendNoKey \/ LearnStart
               \/ LearnDrop
      <3>1. /\ UNCHANGED <<myIRData, send_ir_needed>>
            /\ send_kbd_needed' => send_kbd_needed
            /\ InPress => InPress'
        BY <2>3 DEF Task, PollNothing, ForceSent, SendNoKey, LearnStart,
                    LearnDrop, loop_vars, InPress
      <3> QED
        BY <1>0, <2>1, <3>1, MatchesStutter DEF KeyLeft
    <2> QED
      BY <1>1, <2>2, <2>3
  <1>2. CASE PollPress
    <2>1. /\ PrevXferComplete /\ InPress'
          /\ UNCHANGED host_ir
          /\ Send(IR(oldIRData)) \/ UNCHANGED usb_vars
          /\ pc' \notin {"send_kbd", "learn"}
      BY <1>2 DEF PollPress, Poll, InPress, host_vars
    <2>2. IR(oldIRData).report = "ir" /\ ~KeyLeft'
      BY <2>1 DEF IR, KeyLeft
    <2> QED
      BY <1>0, <2>1, <2>2, MatchesSend, MatchesStutter
  <1>3. CASE New
    <2>1. /\ PrevXferComplete /\ InPress'
          /\ UNCHANGED host_ir
          /\ Send(KBD(NoKey)) \/ UNCHANGED usb_vars
          /\ pc' \notin {"send_kbd", "learn"}
      BY <1>3 DEF New, InPress, MInv, GateInv, XferGate, host_vars
    <2>2. KBD(NoKey).report = "kbd" /\ KBD(NoKey).key = NoKey /\ ~KeyLeft'
      BY <2>1 DEF KBD, KeyLeft
    <2> QED
      BY <1>0, <2>1, <2>2, MatchesSend, MatchesStutter
  <1>4. CASE SendIr
    <2>1. /\ pc' = "send_kbd" /\ ~InPress
          /\ UNCHANGED <<myIRData, send_kbd_needed, host_ir>>
      BY <1>4 DEF SendIr, InPress, host_vars
    <2>2. CASE PrevXferComplete /\ send_ir_needed
      <3>1. in_flight = Free /\ ~suspended
        BY <2>2 DEF MInv, GateInv, XferGate
      <3>2. in_flight' = IR(myIRData) /\ PrevXferComplete' = FALSE
        BY <1>4, <2>2, <3>1, SendWhenFree DEF SendIr
      <3>3. in_flight'.report = "ir" /\ in_flight'.data = myIRData
        BY <3>2 DEF IR
      <3> QED
        BY <2>1, <3>2, <3>3 DEF Matches, PressInFlight
    <2>3. CASE ~(PrevXferComplete /\ send_ir_needed)
      <3>1. UNCHANGED <<send_ir_needed, usb_vars>>
        BY <1>4, <2>3 DEF SendIr
      <3>2. KeyLeft' <=> KeyLeft
        BY <2>1, <3>1 DEF KeyLeft, InPress
      <3>3. PressInFlight' <=> PressInFlight
        BY <3>1 DEF PressInFlight, usb_vars
      <3> QED
        BY <1>0, <2>1, <2>3, <3>1, <3>2, <3>3 DEF Matches, HostKnows, usb_vars
    <2> QED
      BY <2>2, <2>3
  <1>5. CASE SendKbd
    <2>1. /\ pc = "send_kbd" /\ pc' = "send_release" /\ PrevXferComplete
          /\ send_kbd_needed /\ send_kbd_needed' = FALSE /\ UNCHANGED host_ir
          /\ Send(KBD(Key))
      BY <1>5 DEF SendKbd, host_vars
    <2>2. in_flight = Free /\ ~suspended
      BY <2>1 DEF MInv, GateInv, XferGate
    <2>3. in_flight' = KBD(Key)
      BY <2>1, <2>2, SendWhenFree
    <2>4. in_flight'.report = "kbd" /\ in_flight'.key = Key
      BY <2>3 DEF KBD
    <2>5. KeyLeft
      BY <1>0, <2>1 DEF Matches, KeyLeft, InPress
    <2>6. HostKnows(myIRData)
      BY <1>0, <2>1, <2>2, <2>5, FreeHoldsNothing DEF Matches
    <2>7. host_ir' # NoData /\ Key = KeyOf[host_ir'.code]
      BY <2>1, <2>6 DEF HostKnows, Key
    <2> QED
      BY <2>1, <2>4, <2>7 DEF Matches, KeyLeft
  <1>6. CASE SendRelease
    <2>1. /\ pc = "send_release" /\ pc' = "task"
          /\ UNCHANGED <<myIRData, send_ir_needed, send_kbd_needed, host_ir>>
          /\ (PrevXferComplete /\ Send(KBD(NoKey))) \/ UNCHANGED usb_vars
      BY <1>6 DEF SendRelease, host_vars
    <2>2. KBD(NoKey).report = "kbd" /\ KBD(NoKey).key = NoKey
      BY DEF KBD
    <2>3. KeyLeft' <=> KeyLeft
      BY <2>1 DEF KeyLeft, InPress
    <2> QED
      BY <1>0, <2>1, <2>2, <2>3, MatchesSend, MatchesStutter
  <1>7. CASE LearnTake \/ LearnTimeout
    <2>1. /\ pc = "learn" /\ pc' = "poll" /\ Send(CONFIG)
          /\ UNCHANGED <<loop_vars, host_ir>>
      BY <1>7 DEF LearnTake, LearnTimeout, host_vars
    <2>2. PrevXferComplete
      BY <1>0, <2>1 DEF Matches
    <2>3. CONFIG.report = "config"
      BY DEF CONFIG
    <2>4. KeyLeft' <=> KeyLeft
      BY <2>1 DEF KeyLeft, InPress, loop_vars
    <2> QED
      BY <1>0, <2>1, <2>2, <2>3, <2>4, MatchesSend, MatchesStutter DEF loop_vars
  <1> QED
    BY <1>1, <1>2, <1>3, <1>4, <1>5, <1>6, <1>7 DEF Main, Learn

\* A key that goes down at the host is the one assigned to the code of the IR
\* report the host got last, with any timing, resets and learn commands
\* (main.c:961-1013).
THEOREM KeyFollowsReport ==
  ASSUME Suspends = FALSE
  PROVE  Spec => KeyMatchesReport
  <1>1. Init => Matches
    BY FreeHoldsNothing
    DEF Init, Matches, KeyLeft, PressInFlight
  <1>2. MInv /\ [Next]_vars => Matches'
    <2> SUFFICES ASSUME MInv, [Next]_vars
                 PROVE  Matches'
      OBVIOUS
    <2>1. CASE Time \/ Interrupt \/ UNCHANGED vars
      <3>1. UNCHANGED <<pc, loop_vars, usb_vars, host_vars>>
        BY <2>1 DEF Time, Interrupt, vars
      <3>2. KeyLeft' <=> KeyLeft
        BY <3>1 DEF KeyLeft, InPress, loop_vars
      <3> QED
        BY <3>1, <3>2, MatchesStutter DEF MInv, loop_vars, host_vars
    <2> QED
      BY <2>1, CallbackMatches, MainMatches DEF Next
  <1>3. MInv /\ [Next]_vars =>
          [host_key' # host_key /\ host_key' # NoKey =>
             host_ir # NoData /\ host_key' = KeyOf[host_ir.code]]_vars
    <2> SUFFICES ASSUME MInv, Next, host_key' # host_key, host_key' # NoKey
                 PROVE  host_ir # NoData /\ host_key' = KeyOf[host_ir.code]
      BY DEF vars, host_vars
    <2>1. ~Time /\ ~Interrupt /\ ~Main /\ ~Learn
      BY DEF Time, Interrupt, Main, Learn, Task, PollNothing, PollPress,
             PollRepetition, PollRelease, ForceSent, New, Handle, SendIr,
             SendNoKey, SendKbd, SendRelease, LearnStart, LearnTake, LearnDrop,
             LearnTimeout, host_vars
    <2>2. ~Callback
      BY DEF Callback, tud_hid_report_complete_cb, tud_suspend_cb,
             tud_resume_cb, tud_mount_cb, host_vars
    <2>3. HostFetches
      BY <2>1, <2>2 DEF Next
    <2>4. PressInFlight /\ host_key' = in_flight.key
      BY <2>3 DEF HostFetches, PressInFlight
    <2> QED
      BY <2>4 DEF MInv, Matches
  <1>4. (TInv /\ GateInv /\ Matches) <=> MInv
    BY DEF MInv
  <1> QED
    BY <1>1, <1>2, <1>3, <1>4, Typed, Gate, PTL DEF Spec, KeyMatchesReport

-----------------------------------------------------------------------------
(***************************************************************************)
(* Nothing is overwritten, although myIRData has room for one report and   *)
(* the decoder is polled whether or not that was sent: as long as the loop *)
(* has something to send, the latest frame has just ended, and neither     *)
(* another frame nor the release of this one takes so little time.  This   *)
(* is about time, so the loop must be quick (no macro, flash or learning)  *)
(* and the host must fetch in time.                                        *)
(***************************************************************************)
Pending == send_ir_needed \/ send_kbd_needed \/ InPress

\* The decoder has nothing to report before the next tick.
Spent == receiving # "long" /\ (key_released \/ delta_detection = 0)

QuickInv ==
    /\ pc # "learn"
    /\ irmp_ir_detected => Spent
    /\ Pending => Spent /\ ~irmp_ir_detected

LEMMA QuickStutter ==
  ASSUME QuickInv, UNCHANGED isr_vars, pc' # "learn",
         irmp_ir_detected' => irmp_ir_detected,
         Pending' => Pending \/ (irmp_ir_detected /\ ~irmp_ir_detected')
  PROVE  QuickInv'
  <1>1. Spent' <=> Spent
    BY DEF Spent, isr_vars
  <1> QED
    BY <1>1 DEF QuickInv

LEMMA InterruptQuick ==
  ASSUME IrmpTypeOK, QuickInv, Interrupt
  PROVE  QuickInv'
  <1>1. pc' # "learn" /\ (Pending' <=> Pending)
    BY DEF Interrupt, QuickInv, Pending, InPress, loop_vars
  <1>2. CASE FrameStart \/ FrameAbandoned
    <2>1. /\ receiving' # "long"
          /\ UNCHANGED <<key_released, delta_detection, irmp_ir_detected>>
      BY <1>2 DEF FrameStart, FrameAbandoned, mailbox_vars
    <2> QED
      BY <1>1, <2>1 DEF QuickInv, Spent
  <1>3. CASE \/ \E code \in Codes : FrameEnd(code)
             \/ \E code \in Rejected : FrameRejected(code)
             \/ \E protocol \in RepeatProtocols :
                  RepetitionFrame(protocol) \/ LateRepetitionFrame(protocol)
    <2>1. ~Pending /\ ~irmp_ir_detected
      BY <1>3 DEF FrameEnd, FrameRejected, RepetitionFrame, LateRepetitionFrame,
                  QuickInv, Spent
    <2>2. receiving' = "no" /\ (irmp_ir_detected' => delta_detection' = 0)
      BY <1>3, <2>1
      DEF FrameEnd, FrameRejected, RepetitionFrame, LateRepetitionFrame, Detect
    <2> QED
      BY <1>1, <2>1, <2>2 DEF QuickInv, Spent
  <1>4. CASE DetectRelease
    <2>1. upper_border \in Int /\ upper_border >= 0
      BY IrmpAssumption DEF IrmpTypeOK, Border, JITTER_COMPENSATION
    <2>2. ~Spent
      BY <1>4, <2>1 DEF DetectRelease, ReleaseDue, Spent
    <2>3. Spent'
      BY <1>4 DEF DetectRelease, ReleaseDue, Spent
    <2> QED
      BY <1>1, <2>2, <2>3 DEF QuickInv
  <1> QED
    BY <1>2, <1>3, <1>4 DEF Interrupt, ISR

LEMMA MainQuick ==
  ASSUME Learning = FALSE, QuickInv,
         Main \/ Learn \/ Callback \/ HostFetches
  PROVE  QuickInv'
  <1>1. ~Learn
    BY DEF Learn, LearnStart, LearnTake, LearnDrop, LearnTimeout, QuickInv
  <1>2. CASE PollPress \/ PollRepetition \/ PollRelease
    <2>1. /\ UNCHANGED isr_vars /\ pc' # "learn"
          /\ irmp_ir_detected /\ irmp_ir_detected' = FALSE
      BY <1>2 DEF PollPress, PollRepetition, PollRelease, Poll, GetData, HasData,
                  EmptyMailbox
    <2> QED
      BY <2>1, QuickStutter
  <1>3. CASE PollNothing
    <2>1. UNCHANGED isr_vars /\ (irmp_ir_detected' => irmp_ir_detected)
      BY <1>3 DEF PollNothing, DropData, EmptyMailbox, irmp_vars, mailbox_vars
    <2>2. pc' # "learn" /\ (Pending' => Pending)
      BY <1>3 DEF PollNothing, Pending, InPress, loop_vars
    <2> QED
      BY <2>1, <2>2, QuickStutter
  <1>4. CASE \/ Task \/ ForceSent \/ New \/ Handle \/ SendIr \/ SendNoKey
             \/ SendKbd \/ SendRelease \/ Callback \/ HostFetches
    <2>1. UNCHANGED irmp_vars
      BY <1>4
      DEF Task, ForceSent, New, Handle, SendIr, SendNoKey, SendKbd, SendRelease,
          Callback, tud_hid_report_complete_cb, tud_suspend_cb, tud_resume_cb,
          tud_mount_cb, HostFetches
    <2>2. pc' # "learn" /\ (Pending' => Pending)
      <3>1. CASE Handle
        BY <3>1 DEF Handle, Pending, InPress
      <3>2. CASE SendIr
        BY <3>2 DEF SendIr, Pending, InPress
      <3>3. CASE SendNoKey
        BY <3>3 DEF SendNoKey, Pending, InPress
      <3>4. CASE Task \/ ForceSent \/ New \/ SendKbd \/ SendRelease
        BY <3>4
        DEF Task, ForceSent, New, SendKbd, SendRelease, Pending, InPress,
            loop_vars
      <3>5. CASE Callback \/ HostFetches
        BY <3>5
        DEF Callback, tud_hid_report_complete_cb, tud_suspend_cb, tud_resume_cb,
            tud_mount_cb, HostFetches, QuickInv, Pending, InPress, loop_vars
      <3> QED
        BY <1>4, <3>1, <3>2, <3>3, <3>4, <3>5
    <2> QED
      BY <2>1, <2>2, QuickStutter DEF irmp_vars, mailbox_vars
  <1> QED
    BY <1>1, <1>2, <1>3, <1>4 DEF Main

LEMMA StepQuick ==
  ASSUME Blocking = FALSE, SlowHost = FALSE, Learning = FALSE,
         IrmpTypeOK, QuickInv, [Next]_vars
  PROVE  QuickInv'
  <1>1. CASE Time
    <2>1. ~Pending /\ ~irmp_ir_detected
      BY <1>1 DEF Time, MayTick, AtRest, QuickInv, Pending, InPress
    <2>2. ~Pending' /\ ~irmp_ir_detected' /\ pc' # "learn"
      BY <1>1, <2>1
      DEF Time, Tick, QuickInv, Pending, InPress, loop_vars, mailbox_vars
    <2> QED
      BY <2>2 DEF QuickInv
  <1>2. CASE UNCHANGED vars
    <2>1. UNCHANGED <<irmp_vars, pc, loop_vars>>
      BY <1>2 DEF vars
    <2>2. Pending' <=> Pending
      BY <2>1 DEF Pending, InPress, loop_vars
    <2> QED
      BY <2>1, <2>2, QuickStutter DEF QuickInv, irmp_vars, mailbox_vars
  <1> QED
    BY <1>1, <1>2, InterruptQuick, MainQuick DEF Next

THEOREM Quick ==
  ASSUME Blocking = FALSE, SlowHost = FALSE, Learning = FALSE
  PROVE  Spec => []QuickInv
  <1>1. Init => QuickInv
    BY DEF Init, IrmpInit, QuickInv, Pending, InPress
  <1>2. TInv => IrmpTypeOK
    BY DEF TInv, TypeOK
  <1>3. IrmpTypeOK /\ QuickInv /\ [Next]_vars => QuickInv'
    BY StepQuick
  <1> QED
    BY <1>1, <1>2, <1>3, Typed, PTL DEF Spec

\* Nothing that was polled is overwritten before it was reported, also when the
\* bus is suspended or the device reset in between (main.c:962, 985, 991).
THEOREM PolledIsReported ==
  ASSUME Blocking = FALSE, SlowHost = FALSE, Learning = FALSE
  PROVE  Spec => NothingOverwritten
  <1>1. QuickInv /\ [Next]_vars =>
          [myIRData' # myIRData => ~send_ir_needed /\ ~send_kbd_needed]_vars
    <2> SUFFICES ASSUME QuickInv, Next, myIRData' # myIRData
                 PROVE  ~send_ir_needed /\ ~send_kbd_needed
      OBVIOUS
    <2>1. GetData
      BY DEF Next, Time, Interrupt, Main, Learn, Callback, Task, PollNothing,
             PollPress, PollRepetition, PollRelease, Poll, ForceSent, New,
             Handle, SendIr, SendNoKey, SendKbd, SendRelease, LearnStart,
             LearnTake, LearnDrop, LearnTimeout, tud_hid_report_complete_cb,
             tud_suspend_cb, tud_resume_cb, tud_mount_cb, HostFetches, loop_vars
    <2>2. ~Pending
      BY <2>1 DEF GetData, HasData, QuickInv
    <2> QED
      BY <2>2 DEF Pending
  <1> QED
    BY <1>1, Quick, PTL DEF Spec, NothingOverwritten

-----------------------------------------------------------------------------
(***************************************************************************)
(* No key is stuck, for remote controls whose commands tell them apart and *)
(* frames that pass the checks: the decoder then reports the release of    *)
(* the key that is held, as a release and not as a repetition, and the     *)
(* loop, when it is quick, has pressed the key before it hears of it.      *)
(***************************************************************************)
QuickLoop == Blocking = FALSE /\ SlowHost = FALSE /\ Learning = FALSE

GoodFrames == PlainFrames /\ Corrupt = {}

\* What main() does to the decoder is to read it.
LEMMA MainReads ==
  ASSUME Corrupt = {}, Main \/ Callback \/ HostFetches
  PROVE  \/ UNCHANGED irmp_vars
         \/ GetData /\ (PollPress \/ PollRepetition \/ PollRelease)
  BY DEF Main, Callback, HostFetches, Task, PollNothing, PollPress,
         PollRepetition, PollRelease, Poll, ForceSent, New, Handle, SendIr,
         SendNoKey, SendKbd, SendRelease, tud_hid_report_complete_cb,
         tud_suspend_cb, tud_resume_cb, tud_mount_cb, DropData

LEMMA NoLearn == QuickInv /\ Learning = FALSE => ~Learn
  BY DEF Learn, LearnStart, LearnTake, LearnDrop, LearnTimeout, QuickInv

LEMMA StepButtons ==
  ASSUME QuickLoop, GoodFrames, IrmpTypeOK, QuickInv, ButtonsInv, [Next]_vars
  PROVE  ButtonsInv'
  <1>1. CASE Time \/ Interrupt
    BY <1>1, TimeButtons DEF GoodFrames, Time, Interrupt
  <1>2. CASE UNCHANGED vars
    BY <1>2, ButtonsStutter DEF vars
  <1>3. CASE Main \/ Callback \/ HostFetches
    BY <1>3, MainReads, ReadButtons, ButtonsStutter DEF GoodFrames
  <1> QED
    BY <1>1, <1>2, <1>3, NoLearn DEF Next, QuickLoop

THEOREM ButtonsHeard ==
  ASSUME QuickLoop, GoodFrames
  PROVE  Spec => []ButtonsInv
  <1>1. Init => ButtonsInv
    BY InitButtons DEF Init
  <1>2. TInv => IrmpTypeOK
    BY DEF TInv, TypeOK
  <1>3. IrmpTypeOK /\ QuickInv /\ ButtonsInv /\ [Next]_vars => ButtonsInv'
    BY StepButtons
  <1>4. Spec => []QuickInv
    BY Quick DEF QuickLoop
  <1> QED
    BY <1>1, <1>2, <1>3, <1>4, Typed, PTL DEF Spec

\* The release that is owed for a key is on its way once the key is released,
\* and a press is reported while the key is held.
Owed ==
    /\ kbd_release_needed /\ key_released =>
          release \/ (irmp_ir_detected /\ irmp_flags = {"release"})
    /\ send_kbd_needed \/ InPress => ~key_released

LEMMA OwedStutter ==
  ASSUME Owed, UNCHANGED <<key_released, irmp_ir_detected, irmp_flags>>,
         kbd_release_needed' => kbd_release_needed /\ (release => release'),
         send_kbd_needed' \/ InPress' => send_kbd_needed \/ InPress
  PROVE  Owed'
  BY DEF Owed

LEMMA InterruptOwed ==
  ASSUME GoodFrames, IrmpTypeOK, QuickInv, Owed, Interrupt
  PROVE  Owed'
  <1>1. UNCHANGED <<pc, loop_vars>>
    BY DEF Interrupt
  <1>2. CASE FrameStart \/ FrameAbandoned
    <2>1. UNCHANGED <<key_released, irmp_ir_detected, irmp_flags>>
      BY <1>2 DEF FrameStart, FrameAbandoned, mailbox_vars
    <2> QED
      BY <1>1, <2>1, OwedStutter DEF loop_vars, InPress
  <1>3. CASE \E code \in Codes : FrameEnd(code)
    <2>1. key_released' = FALSE
      BY <1>3 DEF FrameEnd, Detect
    <2> QED
      BY <2>1 DEF Owed
  <1>4. CASE DetectRelease
    <2>1. upper_border \in Int /\ upper_border >= 0
      BY IrmpAssumption DEF IrmpTypeOK, Border, JITTER_COMPENSATION
    <2>2. ~Pending
      BY <1>4, <2>1 DEF DetectRelease, ReleaseDue, QuickInv, Spent
    <2>3. irmp_ir_detected' /\ irmp_flags' = {"release"}
      BY <1>4 DEF DetectRelease
    <2>4. ~(send_kbd_needed' \/ InPress')
      BY <1>1, <2>2 DEF Pending, InPress, loop_vars
    <2> QED
      BY <2>3, <2>4 DEF Owed
  <1> QED
    BY <1>2, <1>3, <1>4 DEF Interrupt, ISR, GoodFrames, PlainFrames

LEMMA MainOwed ==
  ASSUME GoodFrames, IrmpTypeOK, QuickInv, ButtonsInv, Owed,
         Main \/ Callback \/ HostFetches
  PROVE  Owed'
  <1>1. CASE PollPress \/ PollRepetition \/ PollRelease
    <2>1. GetData /\ irmp_ir_detected
      BY <1>1 DEF PollPress, PollRepetition, PollRelease, Poll, GetData, HasData
    <2>2. UNCHANGED <<key_released, kbd_release_needed>>
      BY <1>1, <2>1
      DEF PollPress, PollRepetition, PollRelease, GetData, isr_vars
    <2>3. CASE irmp_flags = {}
      <3>1. ~key_released
        BY <2>1, <2>3 DEF ButtonsInv, MailboxHoldsFrame
      <3> QED
        BY <2>2, <3>1 DEF Owed
    <2>4. CASE irmp_flags = {"release"}
      <3>1. Returned.flags = {"release"}
        BY <2>1, <2>4, ReturnedRelease DEF Returned
      <3>2. PollRelease
        BY <1>1, <3>1 DEF PollPress, PollRepetition
      <3>3. ~Pending
        BY <2>1 DEF QuickInv
      <3> QED
        BY <3>2, <3>3 DEF PollRelease, Owed, Pending, InPress
    <2> QED
      BY <2>1, <2>3, <2>4, ReadButtons
  <1>2. CASE ~(PollPress \/ PollRepetition \/ PollRelease)
    <2>1. UNCHANGED <<key_released, irmp_ir_detected, irmp_flags>>
      BY <1>2, MainReads DEF GoodFrames, irmp_vars, isr_vars, mailbox_vars
    <2>2. CASE Task \/ PollNothing \/ ForceSent \/ SendIr
      BY <2>1, <2>2, OwedStutter
      DEF Task, PollNothing, ForceSent, SendIr, loop_vars, InPress
    <2>3. CASE New
      BY <2>1, <2>3, OwedStutter DEF New, InPress
    <2>4. CASE Handle
      BY <2>1, <2>4, OwedStutter DEF Handle, InPress
    <2>5. CASE SendNoKey
      BY <2>1, <2>5, OwedStutter DEF SendNoKey, InPress
    <2>6. CASE SendKbd
      BY <2>1, <2>6 DEF SendKbd, Owed, InPress
    <2>7. CASE SendRelease
      BY <2>1, <2>7, OwedStutter DEF SendRelease, InPress
    <2>8. CASE Callback \/ HostFetches
      <3>1. UNCHANGED <<pc, loop_vars>>
        BY <2>8
        DEF Callback, tud_hid_report_complete_cb, tud_suspend_cb,
            tud_resume_cb, tud_mount_cb, HostFetches
      <3> QED
        BY <2>1, <3>1, OwedStutter DEF loop_vars, InPress
    <2> QED
      BY <1>2, <2>2, <2>3, <2>4, <2>5, <2>6, <2>7, <2>8 DEF Main
  <1> QED
    BY <1>1, <1>2

THEOREM ReleaseOwed ==
  ASSUME QuickLoop, GoodFrames
  PROVE  Spec => []Owed
  <1>1. Init => Owed
    BY DEF Init, Owed, InPress
  <1>2. IrmpTypeOK /\ QuickInv /\ ButtonsInv /\ Owed /\ [Next]_vars => Owed'
    <2> SUFFICES ASSUME IrmpTypeOK, QuickInv, ButtonsInv, Owed, [Next]_vars
                 PROVE  Owed'
      OBVIOUS
    <2>1. CASE Time
      BY <2>1, OwedStutter DEF Time, Tick, mailbox_vars, loop_vars, InPress
    <2>2. CASE UNCHANGED vars
      BY <2>2, OwedStutter
      DEF vars, irmp_vars, isr_vars, mailbox_vars, loop_vars, InPress
    <2> QED
      BY <2>1, <2>2, InterruptOwed, MainOwed, NoLearn DEF Next, QuickLoop
  <1>3. TInv => IrmpTypeOK
    BY DEF TInv, TypeOK
  <1>4. Spec => []QuickInv
    BY Quick DEF QuickLoop
  <1> QED
    BY <1>1, <1>2, <1>3, <1>4, Typed, ButtonsHeard, PTL DEF Spec

\* When the remote control is silent and all is processed no key is down at the
\* host, also after the host reset the device (main.c:961-1013,
\* irmp.c:2891-2927).
THEOREM KeysLetGo ==
  ASSUME Suspends = FALSE, QuickLoop, GoodFrames
  PROVE  Spec => []NoStuckKey
  <1>1. GateInv /\ Owed => NoStuckKey
    <2> SUFFICES ASSUME GateInv, Owed, AtRest, key_released
                 PROVE  host_key = NoKey
      BY DEF NoStuckKey
    <2>1. ~kbd_release_needed
      BY DEF Owed, AtRest
    <2>2. in_flight # KeyUp
      BY FreeHoldsNothing DEF AtRest, GateInv, XferGate
    <2> QED
      BY <2>1, <2>2 DEF GateInv, KeyRemembered
  <1> QED
    BY <1>1, Gate, ReleaseOwed, PTL

-----------------------------------------------------------------------------
(***************************************************************************)
(* The host hears of one button at a time: what it was told, or will be by *)
(* what is on its way, agrees with what the decoder says is held.          *)
(***************************************************************************)
\* The IR report the host gets, unless another is sent; with what is about to
\* be sent.
Latest == IF in_flight.report = "ir" THEN in_flight.data ELSE host_ir
Told == IF send_ir_needed \/ InPress THEN myIRData ELSE Latest

\* The report data may come after the report last.
Follows(last, data) ==
    last # NoData =>
        /\ data.flags = {} <=> last.flags = {"release"}
        /\ data.flags # {} => data.code = last.code

ReleaseOf(data) == [code |-> data.code, flags |-> {"release"}]

Alternation ==
    /\ release_pending <=> Told # NoData /\ Told.flags # {"release"}
    /\ release_pending => IsHeld(Told.code)
    /\ InPress => /\ ~send_ir_needed
                  /\ myIRData.flags = {}
                  /\ Latest # NoData => Latest.flags = {"release"}
    /\ send_ir_needed => Follows(Latest, myIRData)
    /\ release_pending /\ ~InPress => oldIRData = ReleaseOf(Told)
    /\ in_flight.report = "ir" => Follows(host_ir, in_flight.data)

AltInv ==
    /\ TInv /\ GateInv /\ QuickInv /\ ButtonsInv
    /\ Alternation

\* Steps that neither read the decoder nor send an IR report.
LEMMA AlternationStutter ==
  ASSUME Alternation, UNCHANGED <<release_pending, Latest, myIRData, oldIRData,
                                  send_ir_needed>>,
         \A code : IsHeld(code) => IsHeld(code)',
         InPress' <=> InPress,
         in_flight'.report = "ir" => UNCHANGED <<in_flight, host_ir>>
  PROVE  Alternation'
  <1>1. Told' = Told
    BY DEF Told
  <1>2. release_pending => IsHeld(Told.code)'
    <2> SUFFICES ASSUME release_pending
                 PROVE  IsHeld(Told.code)'
      OBVIOUS
    <2>1. PICK code : code = Told.code
      OBVIOUS
    <2>2. IsHeld(code)' /\ code = Told.code'
      BY <1>1, <2>1 DEF Alternation
    <2> QED
      BY <2>2 DEF IsHeld
  <1>3. in_flight'.report = "ir" => Follows(host_ir, in_flight.data)'
    BY DEF Alternation, Follows
  <1>4. send_ir_needed' => Follows(Latest, myIRData)'
    BY DEF Alternation, Follows
  <1> QED
    BY <1>1, <1>2, <1>3, <1>4 DEF Alternation, ReleaseOf

\* A report that is sent while the endpoint is free is what the host gets next.
LEMMA SendLatest ==
  ASSUME GateInv, PrevXferComplete, NEW report, Send(report), UNCHANGED host_ir
  PROVE  /\ Latest = host_ir
         /\ in_flight' = report
         /\ Latest' = IF report.report = "ir" THEN report.data ELSE Latest
  <1>1. in_flight = Free /\ ~suspended
    BY DEF GateInv, XferGate
  <1>2. in_flight' = report
    BY <1>1, SendWhenFree
  <1> QED
    BY <1>1, <1>2, FreeHoldsNothing DEF Latest

LEMMA CallbackAlternation ==
  ASSUME Suspends = FALSE, Resets = FALSE, AltInv, Callback \/ HostFetches
  PROVE  Alternation'
  <1>1. UNCHANGED <<irmp_vars, pc, loop_vars>>
    BY DEF Callback, tud_hid_report_complete_cb, tud_suspend_cb, tud_resume_cb,
           tud_mount_cb, HostFetches
  <1>2. \A code : IsHeld(code) => IsHeld(code)'
    BY <1>1, ButtonsStutter DEF AltInv
  <1>3. Latest' = Latest /\ in_flight'.report # "ir"
    <2>1. CASE HostFetches
      BY <2>1, FreeHoldsNothing DEF HostFetches, Latest
    <2>2. CASE tud_hid_report_complete_cb
      BY <2>2, FreeHoldsNothing
      DEF tud_hid_report_complete_cb, Latest, host_vars
    <2>3. ~tud_suspend_cb /\ ~tud_resume_cb /\ ~tud_mount_cb
      BY DEF tud_suspend_cb, tud_resume_cb, tud_mount_cb, AltInv, GateInv
    <2> QED
      BY <2>1, <2>2, <2>3 DEF Callback
  <1> QED
    BY <1>1, <1>2, <1>3, AlternationStutter
    DEF AltInv, InPress, loop_vars, irmp_vars, rate_vars

\* What main() takes from the decoder.
LEMMA PollAlternation ==
  ASSUME AltInv, PollPress \/ PollRepetition \/ PollRelease
  PROVE  Alternation'
  <1>1. /\ TInv /\ IrmpTypeOK /\ GateInv /\ QuickInv /\ ButtonsInv /\ Alternation
        /\ GetData /\ irmp_ir_detected /\ PrevXferComplete /\ UNCHANGED host_ir
    BY DEF AltInv, TInv, TypeOK, PollPress, PollRepetition, PollRelease, Poll,
           GetData, HasData, host_vars
  <1>2. ~send_ir_needed /\ ~InPress /\ Told = Latest
    BY <1>1 DEF QuickInv, Pending, Told
  <1>3. Latest = host_ir /\ in_flight.report # "ir"
    BY <1>1, FreeHoldsNothing DEF GateInv, XferGate, Latest
  <1>4. /\ irmp_flags \in {{}, {"release"}}
        /\ irmp_code = LatestFrame /\ LatestFrame' = LatestFrame
        /\ release_pending' <=> irmp_flags = {}
        /\ Returned.code = irmp_code
    BY <1>1, ReadButtons DEF Returned
  <1>5. CASE PollPress
    <2>1. /\ myIRData'.code = irmp_code /\ myIRData'.flags = {}
          /\ Returned.flags # {"release"} /\ Returned.flags # {"repetition"}
      <3>1. ReturnedFlags \in {{}, {"force_release"}, {"repetition"}, {"release"}}
        BY <1>1, <1>4, ReturnedFrame, ReturnedRelease
      <3>2. ReturnedFlags \in {{}, {"force_release"}}
        BY <1>5, <3>1 DEF PollPress, Returned
      <3>3. ReturnedFlags \ {"force_release"} = {}
        BY <3>2
      <3>4. myIRData' = [code |-> irmp_code, flags |-> {}]
        BY <1>5, <3>3 DEF PollPress, Returned
      <3> QED
        BY <3>2, <3>4 DEF Returned
    <2>2. /\ InPress' /\ send_ir_needed' = FALSE /\ Told' = myIRData'
          /\ irmp_flags = {} /\ release_pending'
      BY <1>1, <1>2, <1>4, <1>5, <2>1, ReturnedRelease
      DEF PollPress, InPress, Told, Returned
    <2>3. myIRData' # NoData
      <3>1. Returned \in IrmpData
        BY <1>1, ReturnedType
      <3>2. myIRData' \in IrmpData
        BY <1>5, <3>1, FlagsType DEF PollPress, IrmpData
      <3> QED
        BY <3>2, KeyPathAssumption
    <2>4. IsHeld(Told.code)'
      BY <1>4, <2>1, <2>2 DEF IsHeld
    <2>5. /\ Latest' # NoData => Latest'.flags = {"release"}
          /\ in_flight'.report = "ir" => Follows(host_ir, in_flight.data)'
      <3>1. CASE release_pending
        <4>1. "force_release" \in Returned.flags
          BY <1>1, <2>1, <2>2, <3>1, ReturnedFrame DEF Returned
        <4>2. oldIRData = ReleaseOf(Latest)
          BY <1>1, <1>2, <3>1 DEF Alternation
        <4>3. Send(IR(oldIRData))
          BY <1>5, <4>1 DEF PollPress
        <4>4. IR(oldIRData).report = "ir" /\ IR(oldIRData).data = oldIRData
          BY DEF IR
        <4>5. Latest' = oldIRData /\ in_flight'.data = oldIRData
          BY <1>1, <4>3, <4>4, SendLatest
        <4>6. Latest.flags # {"release"}
          BY <1>1, <1>2, <3>1 DEF Alternation
        <4> QED
          BY <1>1, <1>3, <4>2, <4>5, <4>6 DEF ReleaseOf, Follows
      <3>2. CASE ~release_pending
        <4>1. "force_release" \notin Returned.flags
          BY <1>1, <2>2, <3>2, ReturnedFrame DEF Returned
        <4>2. UNCHANGED usb_vars
          BY <1>5, <4>1 DEF PollPress
        <4>3. Latest # NoData => Latest.flags = {"release"}
          BY <1>1, <1>2, <3>2 DEF Alternation
        <4> QED
          BY <1>1, <1>3, <4>2, <4>3 DEF Latest, usb_vars
      <3> QED
        BY <3>1, <3>2
    <2> QED
      BY <2>1, <2>2, <2>3, <2>4, <2>5 DEF Alternation
  <1>6. CASE PollRepetition \/ PollRelease
    <2>1. /\ myIRData' = Returned /\ send_ir_needed' = TRUE
          /\ UNCHANGED <<oldIRData, usb_vars>> /\ ~InPress'
      BY <1>6 DEF PollRepetition, PollRelease, InPress
    <2>2. Latest' = Latest /\ Told' = myIRData' /\ in_flight'.report # "ir"
      BY <1>1, <1>3, <2>1 DEF Latest, Told, usb_vars
    <2>3. release_pending /\ LatestFrame = Told.code /\ Returned.flags # {}
      <3>1. CASE irmp_flags = {}
        <4>1. IsRepetition
          BY <1>1, <1>6, <3>1, ReturnedFrame
          DEF PollRepetition, PollRelease, Returned
        <4> QED
          BY <1>1, <1>6, <3>1, <4>1, RepetitionIsOfHeld
          DEF Alternation, PollRepetition, PollRelease
      <3>2. CASE irmp_flags = {"release"}
        BY <1>1, <3>2, ReturnedRelease
        DEF ButtonsInv, MailboxHoldsRelease, Alternation, IsHeld, Returned
      <3> QED
        BY <1>4, <3>1, <3>2
    <2>4. Returned.flags = {"release"} <=> irmp_flags = {"release"}
      BY <1>1, <1>4, ReturnedFrame, ReturnedRelease DEF Returned
    <2>5. Returned # NoData
      BY <1>1, ReturnedType, KeyPathAssumption
    <2>6. IsHeld(Told.code)'
      BY <1>4, <2>1, <2>2 DEF IsHeld
    <2>7. Follows(Latest, myIRData)'
      BY <1>1, <1>2, <1>4, <2>1, <2>2, <2>3 DEF Alternation, Follows
    <2>8. oldIRData' = ReleaseOf(Told)'
      BY <1>1, <1>2, <1>4, <2>1, <2>2, <2>3 DEF Alternation, ReleaseOf
    <2> QED
      BY <1>4, <2>1, <2>2, <2>4, <2>5, <2>6, <2>7, <2>8 DEF Alternation
  <1> QED
    BY <1>5, <1>6

\* What main() does with it.
LEMMA ReportAlternation ==
  ASSUME AltInv,
         \/ Task \/ ForceSent \/ New \/ Handle
         \/ SendIr \/ SendNoKey \/ SendKbd \/ SendRelease
  PROVE  Alternation'
  <1>1. UNCHANGED <<irmp_vars, host_ir>>
    BY DEF Task, ForceSent, New, Handle, SendIr, SendNoKey, SendKbd,
           SendRelease, host_vars
  <1>2. /\ \A code : IsHeld(code) => IsHeld(code)'
        /\ UNCHANGED release_pending
    BY <1>1, ButtonsStutter DEF AltInv, irmp_vars, rate_vars
  <1>3. TInv /\ GateInv /\ Alternation
    BY DEF AltInv
  <1>4. CASE Task \/ ForceSent \/ SendNoKey
    <2>1. /\ UNCHANGED <<usb_vars, myIRData, oldIRData, send_ir_needed>>
          /\ InPress' <=> InPress
      BY <1>4 DEF Task, ForceSent, SendNoKey, loop_vars, InPress
    <2> QED
      BY <1>1, <1>2, <1>3, <2>1, AlternationStutter DEF Latest, usb_vars
  <1>5. CASE New \/ SendKbd \/ SendRelease
    <2>1. /\ UNCHANGED <<myIRData, oldIRData, send_ir_needed>>
          /\ InPress' <=> InPress
      BY <1>5 DEF New, SendKbd, SendRelease, InPress
    <2>2. \/ UNCHANGED usb_vars
          \/ PrevXferComplete /\ \E key : Send(KBD(key))
      BY <1>3, <1>5 DEF New, SendKbd, SendRelease, GateInv, XferGate
    <2>3. CASE UNCHANGED usb_vars
      BY <1>1, <1>2, <1>3, <2>1, <2>3, AlternationStutter DEF Latest, usb_vars
    <2>4. CASE PrevXferComplete /\ \E key : Send(KBD(key))
      <3>1. PICK key : Send(KBD(key))
        BY <2>4
      <3>2. KBD(key).report # "ir"
        BY DEF KBD
      <3>3. Latest' = Latest /\ in_flight'.report # "ir"
        BY <1>1, <1>3, <2>4, <3>1, <3>2, SendLatest
      <3> QED
        BY <1>2, <1>3, <2>1, <3>3, AlternationStutter
    <2> QED
      BY <2>2, <2>3, <2>4
  <1>6. CASE Handle
    <2>1. /\ UNCHANGED <<usb_vars, myIRData>> /\ InPress /\ ~InPress'
          /\ send_ir_needed' = TRUE
          /\ oldIRData' = [myIRData EXCEPT !.flags = {"release"}]
      BY <1>6 DEF Handle, InPress
    <2>2. myIRData \in IrmpData
      BY <1>3, <2>1 DEF TInv, TypeOK, DataKnown, InPress
    <2>3. oldIRData' = ReleaseOf(myIRData)
      BY <2>1, <2>2 DEF ReleaseOf, IrmpData
    <2>4. Told = myIRData /\ Told' = myIRData /\ UNCHANGED <<Latest, in_flight>>
      BY <1>1, <2>1 DEF Told, Latest, usb_vars
    <2>5. Follows(Latest, myIRData)'
      BY <1>3, <2>1, <2>4 DEF Alternation, Follows
    <2>6. release_pending => IsHeld(Told.code)'
      BY <1>1, <1>3, <2>4
      DEF Alternation, IsHeld, LatestFrame, irmp_vars, isr_vars, mailbox_vars,
          rate_vars
    <2>7. in_flight'.report = "ir" => Follows(host_ir, in_flight.data)'
      BY <1>1, <1>3, <2>4 DEF Alternation, Follows
    <2>8. oldIRData' = ReleaseOf(Told)'
      BY <2>3, <2>4 DEF ReleaseOf
    <2> QED
      BY <1>2, <1>3, <2>1, <2>4, <2>5, <2>6, <2>7, <2>8 DEF Alternation
  <1>7. CASE SendIr
    <2>1. /\ UNCHANGED <<myIRData, oldIRData>> /\ ~InPress /\ ~InPress'
      BY <1>7 DEF SendIr, InPress
    <2>2. CASE PrevXferComplete /\ send_ir_needed
      <3>1. send_ir_needed' = FALSE /\ Send(IR(myIRData))
        BY <1>7, <2>2 DEF SendIr
      <3>2. IR(myIRData).report = "ir" /\ IR(myIRData).data = myIRData
        BY DEF IR
      <3>3. /\ Latest = host_ir /\ Latest' = myIRData
            /\ in_flight'.data = myIRData
        BY <1>1, <1>3, <2>2, <3>1, <3>2, SendLatest
      <3>4. Told = myIRData /\ Told' = myIRData
        BY <2>1, <2>2, <3>1, <3>3 DEF Told
      <3>5. Follows(host_ir, in_flight.data)'
        BY <1>1, <1>3, <2>2, <3>3 DEF Alternation, Follows
      <3>6. release_pending => IsHeld(Told.code)'
        BY <1>1, <1>3, <3>4
        DEF Alternation, IsHeld, LatestFrame, irmp_vars, isr_vars,
            mailbox_vars, rate_vars
      <3>7. release_pending => oldIRData' = ReleaseOf(Told)'
        BY <1>3, <2>1, <3>4 DEF Alternation, ReleaseOf
      <3> QED
        BY <1>2, <1>3, <2>1, <3>1, <3>4, <3>5, <3>6, <3>7 DEF Alternation
    <2>3. CASE ~(PrevXferComplete /\ send_ir_needed)
      <3>1. UNCHANGED <<send_ir_needed, usb_vars>>
        BY <1>7, <2>3 DEF SendIr
      <3> QED
        BY <1>1, <1>2, <1>3, <2>1, <3>1, AlternationStutter
        DEF Latest, usb_vars
    <2> QED
      BY <2>2, <2>3
  <1> QED
    BY <1>4, <1>5, <1>6, <1>7

LEMMA StepAlternation ==
  ASSUME Suspends = FALSE, Resets = FALSE, QuickLoop, GoodFrames,
         AltInv, [Next]_vars
  PROVE  Alternation'
  <1>1. TInv /\ IrmpTypeOK /\ QuickInv /\ ButtonsInv /\ Alternation
    BY DEF AltInv, TInv, TypeOK
  <1>2. CASE Time \/ Interrupt \/ UNCHANGED vars
    <2>1. UNCHANGED <<pc, loop_vars, usb_vars, host_vars>>
      BY <1>2 DEF Time, Interrupt, vars
    <2>2. \A code : IsHeld(code) => IsHeld(code)'
      BY <1>1, <1>2, TimeButtons, ButtonsStutter
      DEF GoodFrames, Time, Interrupt, vars
    <2>3. UNCHANGED release_pending
      BY <1>2
      DEF Time, Interrupt, Tick, ISR, FrameStart, FrameAbandoned, FrameEnd,
          Detect, FrameRejected, RepetitionFrame, LateRepetitionFrame,
          DetectRelease, vars, irmp_vars, rate_vars
    <2> QED
      BY <1>1, <2>1, <2>2, <2>3, AlternationStutter
      DEF Latest, InPress, loop_vars, usb_vars, host_vars
  <1>3. CASE PollNothing
    <2>1. UNCHANGED <<irmp_vars, loop_vars, usb_vars, host_vars>>
      BY <1>3 DEF PollNothing, DropData, GoodFrames
    <2>2. ~InPress /\ ~InPress'
      BY <1>3 DEF PollNothing, InPress
    <2> QED
      BY <1>1, <2>1, <2>2, AlternationStutter, ButtonsStutter
      DEF Latest, loop_vars, usb_vars, host_vars, irmp_vars, rate_vars
  <1> QED
    BY <1>1, <1>2, <1>3, CallbackAlternation, PollAlternation,
       ReportAlternation, NoLearn
    DEF Next, Main, QuickLoop

THEOREM Alternates ==
  ASSUME Suspends = FALSE, Resets = FALSE, QuickLoop, GoodFrames
  PROVE  Spec => []Alternation
  <1>1. Init => Alternation
    BY FreeHoldsNothing
    DEF Init, IrmpInit, Alternation, Told, Latest, InPress
  <1>2. AltInv /\ [Next]_vars => Alternation'
    BY StepAlternation
  <1>3. TInv /\ GateInv /\ QuickInv /\ ButtonsInv /\ Alternation <=> AltInv
    BY DEF AltInv
  <1>4. Spec => []QuickInv
    BY Quick DEF QuickLoop
  <1> QED
    BY <1>1, <1>2, <1>3, <1>4, Typed, Gate, ButtonsHeard, PTL DEF Spec

\* The IR reports the host gets alternate between a press and a release with
\* repetitions in between, all of one code (main.c:961-1000).
THEOREM ReportsAlternate ==
  ASSUME Suspends = FALSE, Resets = FALSE, QuickLoop, GoodFrames
  PROVE  Spec => HostAlternates
  <1>1. Alternation =>
          (HostFetches /\ in_flight.report = "ir" /\ host_ir # NoData =>
             /\ in_flight.data.flags = {} <=> host_ir.flags = {"release"}
             /\ in_flight.data.flags # {} => in_flight.data.code = host_ir.code)
    BY DEF Alternation, Follows
  <1> QED
    BY <1>1, Alternates, PTL DEF HostAlternates
=============================================================================
