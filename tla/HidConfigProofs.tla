-------------------------- MODULE HidConfigProofs ---------------------------
(***************************************************************************)
(* Theorems about the configuration commands, for any commands, settings   *)
(* and bounds: type correctness for any number of programs, and for a      *)
(* single one that its commands are carried out once and the reply is the  *)
(* outcome, whatever LED reports, alarms, restarts and sleeps come in      *)
(* between.                                                                *)
(***************************************************************************)
EXTENDS HidConfig, TLAPS

(***************************************************************************)
(* Types.  The buffer holds a command from its arrival to the answer; the  *)
(* handler of get may have put a value over its arguments by then.         *)
(***************************************************************************)
InBuffer == [request : Request, by : Clients]
Commanded == [request : Requests, by : Clients]

ToServe == buffer.id = "config" /\ buffer.status = STAT_CMD
Busy == pc \in {"learn", "emit"}

Places ==
    /\ ToServe /\ pc # "answer" => buffer.cmd \in Commanded
    /\ Busy \/ pc = "answer" => buffer.cmd \in InBuffer
    /\ Busy => serving \in Commanded
    /\ pc = "pulse" => slot < LastSlot
    /\ pc = "check" => slot >= 0

Types == TypeOK /\ Places

LEMMA BlankType == Service!Blank \in Settings
  BY BoundsAssumption DEF Service!Blank, Settings

LEMMA InitTypes == Init => Types
  <1> SUFFICES ASSUME Init
               PROVE  Types
    OBVIOUS
  <1>1. serving \in Carried /\ buffer \in Buffer /\ in_flight \in InTransit
    BY DEF Init, Carried, Buffer, InTransit
  <1>2. /\ slot \in -1 .. LastSlot
        /\ AlarmValue \in AlarmReading
        /\ send_after_wakeup \in 0 .. MaxAfter
        /\ last_magic_sent \in 0 .. MaxAfter
    BY SlotsAssumption, BoundsAssumption DEF Init, AlarmReading, LastSlot
  <1>3. cells \in Settings /\ saved \in Settings
    BY BlankType DEF Init, Service!Init
  <1>4. inbox \in Inboxes
    BY DEF Init, Inboxes
  <1>5. TypeOK
    BY <1>1, <1>2, <1>3, <1>4 DEF Init, TypeOK, Service!Init, Place
  <1> QED
    BY <1>5 DEF Init, Types, Places, ToServe, Busy

LEMMA SendType ==
  ASSUME Types, NEW report \in Answers \cup {OtherReport}, Send(report)
  PROVE  /\ in_flight' \in InTransit
         /\ PrevXferComplete' \in BOOLEAN
  BY DEF Send, Types, TypeOK, in_vars, InTransit

LEMMA LessType ==
  /\ \A n \in AlarmReading : Less(n) \in AlarmReading
  /\ \A n \in 0 .. MaxAfter : Less(n) \in 0 .. MaxAfter
  BY BoundsAssumption DEF Less, AlarmReading

\* What the IN endpoint may hold and is no answer.
LEMMA NoAnswers ==
  \A report \in {Free, Fetched, OtherReport} : report.report # "config"
  <1>1. OtherReport.report # "config"
    BY DEF OtherReport
  <1>2. Free.report # "config" /\ Fetched.report # "config"
    BY DEF Free, Fetched
  <1> QED
    BY <1>1, <1>2

LEMMA OnlyAnswers ==
  ASSUME NEW x \in InTransit, x.report = "config"
  PROVE  x \in Answers
  BY NoAnswers DEF InTransit

LEMMA CallbackTypes == Types /\ (Callback \/ SysTick_Handler) => Types'
  <1> SUFFICES ASSUME TypeOK, Places, Callback \/ SysTick_Handler
               PROVE  TypeOK' /\ Places'
    BY DEF Types
  <1> USE DEF loop_vars, out_vars, in_vars, timer_vars, host_vars, store_vars,
              dialogue_vars
  <1>1. CASE tud_hid_report_complete_cb
    <2>1. TypeOK'
      BY <1>1 DEF tud_hid_report_complete_cb, TypeOK, InTransit
    <2>2. Places'
      BY <1>1 DEF tud_hid_report_complete_cb, Places, ToServe, Busy
    <2> QED
      BY <2>1, <2>2
  <1>2. CASE tud_hid_set_report_cb
    <2>1. TypeOK'
      BY <1>2 DEF tud_hid_set_report_cb, TypeOK
    <2>2. Places'
      BY <1>2 DEF tud_hid_set_report_cb, Places, ToServe, Busy
    <2> QED
      BY <2>1, <2>2
  <1>3. CASE tud_suspend_cb
    <2>1. TypeOK'
      BY <1>3 DEF tud_suspend_cb, TypeOK
    <2>2. Places'
      BY <1>3 DEF tud_suspend_cb, Places, ToServe, Busy
    <2> QED
      BY <2>1, <2>2
  <1>4. CASE tud_resume_cb
    <2>1. TypeOK'
      BY <1>4 DEF tud_resume_cb, TypeOK
    <2>2. Places'
      BY <1>4 DEF tud_resume_cb, Places, ToServe, Busy
    <2> QED
      BY <2>1, <2>2
  <1>5. CASE SysTick_Handler
    <2>1. TypeOK'
      BY <1>5, LessType DEF SysTick_Handler, TypeOK
    <2>2. Places'
      BY <1>5 DEF SysTick_Handler, Places, ToServe, Busy
    <2> QED
      BY <2>1, <2>2
  <1> QED
    BY <1>1, <1>2, <1>3, <1>4, <1>5 DEF Callback

LEMMA HostTypes == Types /\ Host => Types'
  <1> SUFFICES ASSUME TypeOK, Places, Host
               PROVE  TypeOK' /\ Places'
    BY DEF Types
  <1> USE DEF loop_vars, out_vars, in_vars, timer_vars, host_vars, store_vars,
              dialogue_vars
  <1>1. CASE HostFetches
    <2>1. in_flight.report = "config" => in_flight \in Answers
      BY OnlyAnswers DEF TypeOK
    <2>2. inbox' \in Inboxes
      BY <1>1, <2>1 DEF HostFetches, TypeOK, Inboxes
    <2>3. /\ in_flight' \in InTransit
          /\ UNCHANGED <<pc, loop_vars, out_vars, PrevXferComplete, suspended,
                         timer_vars, host_on, disturbed, store_vars,
                         dialogue_vars>>
      BY <1>1 DEF HostFetches, InTransit
    <2>4. TypeOK'
      BY <2>2, <2>3 DEF TypeOK
    <2>5. Places'
      BY <2>3 DEF Places, ToServe, Busy
    <2> QED
      BY <2>4, <2>5
  <1>2. ASSUME NEW c \in Clients, WriteCommand(c)
        PROVE  TypeOK' /\ Places'
    <2>1. PICK r \in Requests :
             /\ buffer' = [id |-> "config", status |-> STAT_CMD,
                           cmd |-> [request |-> r, by |-> c]]
             /\ request' = [request EXCEPT ![c] = r]
      BY <1>2 DEF WriteCommand
    <2>2. buffer'.cmd \in Commanded /\ buffer'.cmd \in InBuffer
      BY <2>1, RequestsAssumption DEF Commanded, InBuffer
    <2>3. buffer' \in Buffer
      BY <2>1, <2>2 DEF Buffer, Carried, InBuffer
    <2>4. disturbed' \in BOOLEAN
      BY <1>2 DEF WriteCommand
    <2>5. request' \in [Clients -> Requests \cup {Service!NoRequest}]
      BY <2>1 DEF TypeOK
    <2>6. TypeOK'
      BY <1>2, <2>3, <2>4, <2>5 DEF WriteCommand, TypeOK
    <2>7. Places'
      BY <1>2, <2>2 DEF WriteCommand, Places, ToServe, Busy
    <2> QED
      BY <2>6, <2>7
  <1>3. ASSUME NEW c \in Clients, ReadAnswer(c)
        PROVE  TypeOK' /\ Places'
    <2>1. inbox' \in Inboxes
      BY <1>3 DEF ReadAnswer, TypeOK, Inboxes
    <2>2. request' \in [Clients -> Requests \cup {Service!NoRequest}]
      BY <1>3 DEF ReadAnswer, TypeOK
    <2>3. TypeOK'
      BY <1>3, <2>1, <2>2 DEF ReadAnswer, TypeOK
    <2>4. Places'
      BY <1>3 DEF ReadAnswer, Places, ToServe, Busy
    <2> QED
      BY <2>3, <2>4
  <1>4. CASE WriteLed
    <2>1. PICK leds \in {0, KEYBOARD_LED_SCROLLLOCK} :
             buffer' = [buffer EXCEPT !.id = "kbd", !.status = leds]
      BY <1>4 DEF WriteLed
    <2>2. /\ buffer' \in Buffer
          /\ buffer'.id = "kbd"
          /\ buffer'.cmd = buffer.cmd
      BY <2>1 DEF TypeOK, Buffer, STAT_CMD
    <2>3. disturbed' \in BOOLEAN
      BY <1>4 DEF WriteLed, Outstanding
    <2>4. TypeOK'
      BY <1>4, <2>2, <2>3 DEF WriteLed, TypeOK
    <2>5. Places'
      BY <1>4, <2>2 DEF WriteLed, Places, ToServe, Busy
    <2> QED
      BY <2>4, <2>5
  <1>5. CASE SwitchOff
    <2>1. disturbed' \in BOOLEAN
      BY <1>5 DEF SwitchOff, Outstanding
    <2>2. TypeOK'
      BY <1>5, <2>1 DEF SwitchOff, TypeOK
    <2>3. Places'
      BY <1>5 DEF SwitchOff, Places, ToServe, Busy
    <2> QED
      BY <2>2, <2>3
  <1>6. CASE SwitchOn
    <2>1. TypeOK'
      BY <1>6 DEF SwitchOn, TypeOK
    <2>2. Places'
      BY <1>6 DEF SwitchOn, Places, ToServe, Busy
    <2> QED
      BY <2>1, <2>2
  <1> QED
    BY <1>1, <1>2, <1>3, <1>4, <1>5, <1>6 DEF Host

LEMMA LoopTypes ==
  Types /\ (Task \/ AlarmFires \/ NoAlarmNow \/ WakeupEnds \/ NoMagic \/ MagicIr
            \/ MagicKbd \/ MagicEnds \/ Led) => Types'
  <1> SUFFICES ASSUME Types, TypeOK, Places,
                      Task \/ AlarmFires \/ NoAlarmNow \/ WakeupEnds \/ NoMagic
                      \/ MagicIr \/ MagicKbd \/ MagicEnds \/ Led
               PROVE  TypeOK' /\ Places'
    BY DEF Types
  <1> USE DEF loop_vars, out_vars, timer_vars, host_vars, store_vars,
              dialogue_vars, Goto
  <1>1. CASE Task
    <2>1. TypeOK'
      BY <1>1 DEF Task, TypeOK, Place, in_vars
    <2>2. Places'
      BY <1>1 DEF Task, Places, ToServe, Busy
    <2> QED
      BY <2>1, <2>2
  <1>2. CASE AlarmFires
    <2>1. TypeOK'
      BY <1>2, SlotsAssumption DEF AlarmFires, TypeOK, Place, LastSlot, in_vars
    <2>2. Places'
      BY <1>2, SlotsAssumption DEF AlarmFires, Places, ToServe, Busy, LastSlot
    <2> QED
      BY <2>1, <2>2
  <1>3. CASE NoAlarmNow
    <2>1. TypeOK'
      BY <1>3 DEF NoAlarmNow, TypeOK, Place, in_vars
    <2>2. Places'
      BY <1>3 DEF NoAlarmNow, Places, ToServe, Busy
    <2> QED
      BY <2>1, <2>2
  <1>4. CASE WakeupEnds
    <2>1. slot' \in -1 .. LastSlot /\ slot' >= 0
      BY <1>4, SlotsAssumption DEF WakeupEnds, TypeOK, Places, LastSlot
    <2>2. AlarmValue' \in AlarmReading /\ send_after_wakeup' \in 0 .. MaxAfter
      BY <1>4 DEF WakeupEnds, TypeOK, AlarmReading, Settings
    <2>3. TypeOK'
      BY <1>4, <2>1, <2>2 DEF WakeupEnds, TypeOK, Place, in_vars
    <2>4. Places'
      BY <1>4, <2>1 DEF WakeupEnds, Places, ToServe, Busy
    <2> QED
      BY <2>3, <2>4
  <1>5. CASE NoMagic
    <2>1. TypeOK'
      BY <1>5 DEF NoMagic, TypeOK, Place, in_vars
    <2>2. Places'
      BY <1>5 DEF NoMagic, Places, ToServe, Busy
    <2> QED
      BY <2>1, <2>2
  <1>6. CASE MagicIr
    <2>1. in_flight' \in InTransit /\ PrevXferComplete' \in BOOLEAN
      BY <1>6, SendType DEF MagicIr
    <2>2. TypeOK'
      BY <1>6, <2>1 DEF MagicIr, TypeOK, Place
    <2>3. Places'
      BY <1>6 DEF MagicIr, Places, ToServe, Busy
    <2> QED
      BY <2>2, <2>3
  <1>7. CASE MagicKbd
    <2>1. in_flight' \in InTransit /\ PrevXferComplete' \in BOOLEAN
      BY <1>7, SendType DEF MagicKbd
    <2>2. TypeOK'
      BY <1>7, <2>1 DEF MagicKbd, TypeOK, Place
    <2>3. Places'
      BY <1>7 DEF MagicKbd, Places, ToServe, Busy
    <2> QED
      BY <2>2, <2>3
  <1>8. CASE MagicEnds
    <2>1. in_flight' \in InTransit /\ PrevXferComplete' \in BOOLEAN
      BY <1>8, SendType DEF MagicEnds
    <2>2. TypeOK'
      BY <1>8, <2>1 DEF MagicEnds, TypeOK, Place
    <2>3. Places'
      BY <1>8 DEF MagicEnds, Places, ToServe, Busy
    <2> QED
      BY <2>2, <2>3
  <1>9. CASE Led
    <2>1. TypeOK'
      BY <1>9 DEF Led, TypeOK, Place, in_vars
    <2>2. Places'
      BY <1>9 DEF Led, Places, ToServe, Busy
    <2> QED
      BY <2>1, <2>2
  <1> QED
    BY <1>1, <1>2, <1>3, <1>4, <1>5, <1>6, <1>7, <1>8, <1>9

LEMMA IrTypes ==
  Types /\ (PollNothing \/ PollPress \/ CheckWakeup \/ CheckDone \/ SendIr
            \/ Restart) => Types'
  <1> SUFFICES ASSUME Types, TypeOK, Places,
                      PollNothing \/ PollPress \/ CheckWakeup \/ CheckDone
                      \/ SendIr \/ Restart
               PROVE  TypeOK' /\ Places'
    BY DEF Types
  <1> USE DEF loop_vars, out_vars, timer_vars, host_vars, store_vars,
              dialogue_vars, Goto
  <1>1. CASE PollNothing
    <2>1. TypeOK'
      BY <1>1 DEF PollNothing, TypeOK, Place, in_vars
    <2>2. Places'
      BY <1>1 DEF PollNothing, Places, ToServe, Busy
    <2> QED
      BY <2>1, <2>2
  <1>2. CASE PollPress
    <2>1. cells' \in Settings /\ saved' \in Settings
      BY <1>2 DEF PollPress, TypeOK, Settings
    <2>2. slot' \in -1 .. LastSlot /\ code' \in Codes
      BY <1>2, SlotsAssumption DEF PollPress, LastSlot
    <2>3. /\ pc' = "check" /\ slot' = 0
          /\ UNCHANGED <<serving, ret, Reboot, out_vars, in_vars, suspended,
                         timer_vars, host_vars, dialogue_vars>>
      BY <1>2 DEF PollPress
    <2>4. TypeOK'
      BY <2>1, <2>2, <2>3 DEF TypeOK, Place, in_vars
    <2>5. Places'
      BY <1>2, <2>2, <2>3 DEF PollPress, Places, ToServe, Busy
    <2> QED
      BY <2>4, <2>5
  <1>3. CASE CheckWakeup
    <2>1. /\ slot' \in -1 .. LastSlot
          /\ slot' < LastSlot
      BY <1>3, SlotsAssumption
      DEF CheckWakeup, Matching, TypeOK, Places, LastSlot
    <2>2. TypeOK'
      BY <1>3, <2>1 DEF CheckWakeup, TypeOK, Place, in_vars
    <2>3. Places'
      BY <1>3, <2>1 DEF CheckWakeup, Places, ToServe, Busy
    <2> QED
      BY <2>2, <2>3
  <1>4. CASE CheckDone
    <2>1. slot' \in -1 .. LastSlot
      BY <1>4, SlotsAssumption DEF CheckDone, LastSlot
    <2>2. TypeOK'
      BY <1>4, <2>1 DEF CheckDone, TypeOK, Place, in_vars
    <2>3. Places'
      BY <1>4 DEF CheckDone, Places, ToServe, Busy
    <2> QED
      BY <2>2, <2>3
  <1>5. CASE SendIr
    <2>1. in_flight' \in InTransit /\ PrevXferComplete' \in BOOLEAN
      BY <1>5, SendType DEF SendIr
    <2>2. TypeOK'
      BY <1>5, <2>1 DEF SendIr, TypeOK, Place
    <2>3. Places'
      BY <1>5 DEF SendIr, Places, ToServe, Busy
    <2> QED
      BY <2>2, <2>3
  <1>6. CASE Restart
    <2>1. serving' \in Carried /\ buffer' \in Buffer /\ in_flight' \in InTransit
      BY <1>6 DEF Restart, Carried, Buffer, InTransit
    <2>2. /\ slot' \in -1 .. LastSlot
          /\ AlarmValue' \in AlarmReading
          /\ send_after_wakeup' \in 0 .. MaxAfter
          /\ last_magic_sent' \in 0 .. MaxAfter
      BY <1>6, SlotsAssumption, BoundsAssumption
      DEF Restart, AlarmReading, LastSlot
    <2>3. /\ inbox' \in Inboxes
          /\ cells' \in Settings /\ saved' \in Settings
          /\ request' \in [Clients -> Requests \cup {Service!NoRequest}]
      BY <1>6 DEF Restart, Service!Restart, TypeOK, Inboxes
    <2>4. TypeOK'
      BY <1>6, <2>1, <2>2, <2>3 DEF Restart, TypeOK, Place
    <2>5. Places'
      BY <1>6 DEF Restart, Places, ToServe, Busy
    <2> QED
      BY <2>4, <2>5
  <1> QED
    BY <1>1, <1>2, <1>3, <1>4, <1>5, <1>6

\* The command that is served.
LEMMA ServesType ==
  ASSUME Types, pc = "command", NEW acc, NEW cmd, Serves(acc, cmd)
  PROVE  /\ buffer.cmd \in Commanded /\ buffer.cmd \in InBuffer
         /\ Received \in Requests /\ Received \in Request
         /\ Received.acc = acc /\ Received.cmd = cmd
         /\ serving' = buffer.cmd /\ serving' \in Carried
         /\ USB_HID_Data_Received' = FALSE
  <1>1. buffer.cmd \in Commanded
    BY DEF Types, Places, Serves, CommandReceived, ToServe
  <1>2. Received \in Requests /\ buffer.cmd \in InBuffer
    BY <1>1, RequestsAssumption DEF Commanded, Received, InBuffer
  <1> QED
    BY <1>1, <1>2, RequestsAssumption DEF Serves, Carried, InBuffer

LEMMA HandledTypes ==
  ASSUME Types, NEW acc, NEW cmd, Serves(acc, cmd),
         NEW bytes \in {4, 5, -1}, NEW result, Handled(bytes, result),
         buffer' \in Buffer, buffer'.cmd \in InBuffer, Reboot' \in BOOLEAN,
         AlarmValue' \in AlarmReading, cells' \in Settings, saved' \in Settings
  PROVE  Types'
  <1>1. pc = "command" /\ pc' = "answer" /\ ret' = bytes
    BY DEF Handled, Goto
  <1>2. serving' \in Carried /\ USB_HID_Data_Received' = FALSE
    BY <1>1, ServesType
  <1>3. UNCHANGED <<slot, code, out_state, in_vars, suspended,
                    send_after_wakeup, last_magic_sent, host_vars, request>>
    BY DEF Handled
  <1>4. TypeOK'
    BY <1>1, <1>2, <1>3 DEF Types, TypeOK, Place, in_vars, host_vars
  <1>5. Places'
    BY <1>1, <1>3 DEF Places, ToServe, Busy
  <1> QED
    BY <1>4, <1>5 DEF Types

LEMMA GotTypes ==
  ASSUME Types, NEW cmd, Serves("get", cmd), NEW value \in Data, Got(value)
  PROVE  Types'
  <1>1. Handled(5, Service!Answer(value)) /\ pc = "command"
    BY DEF Got, Handled, Goto
  <1>2. buffer.cmd \in InBuffer
    BY <1>1, ServesType
  <1>3. /\ buffer' = [buffer EXCEPT !.cmd.request.value = value]
        /\ Reboot' = Reboot /\ AlarmValue' = AlarmValue
        /\ cells' = cells /\ saved' = saved
    BY DEF Got, store_vars
  <1>4. buffer \in Buffer
    BY DEF Types, TypeOK
  <1>5. buffer'.cmd = [buffer.cmd EXCEPT !.request.value = value]
    BY <1>3, <1>4 DEF Buffer
  <1>6. buffer'.cmd \in InBuffer
    BY <1>2, <1>5 DEF InBuffer, Request
  <1>7. buffer' = [buffer EXCEPT !.cmd = buffer'.cmd]
    BY <1>3, <1>4, <1>5 DEF Buffer
  <1>8. buffer' \in Buffer
    BY <1>4, <1>6, <1>7 DEF Buffer, Carried, InBuffer
  <1>9. /\ Reboot' \in BOOLEAN /\ AlarmValue' \in AlarmReading
        /\ cells' \in Settings /\ saved' \in Settings
    BY <1>3 DEF Types, TypeOK
  <1> QED
    BY <1>1, <1>6, <1>8, <1>9, HandledTypes

LEMMA GetTypes == Types /\ GetHandler => Types'
  <1> SUFFICES ASSUME Types, GetHandler
               PROVE  Types'
    OBVIOUS
  <1>1. PICK cmd \in {"wake", "after", "alarm"} :
           /\ Serves("get", cmd)
           /\ Got(IF cmd = "wake" THEN cells.wake[Received.slot]
                  ELSE IF cmd = "after" THEN cells.after ELSE AlarmValue)
    BY DEF GetHandler
  <1>2. pc = "command"
    BY <1>1 DEF Got, Handled, Goto
  <1>3. Received.slot \in WakeSlot
    BY <1>1, <1>2, ServesType DEF Request
  <1>4. /\ cells.wake[Received.slot] \in Data
        /\ cells.after \in Data
        /\ AlarmValue \in Data
    BY <1>3 DEF Types, TypeOK, Settings, Data
  <1> QED
    BY <1>1, <1>4, GotTypes

\* What is stored is of the type of the settings.
LEMMA StoredTypes ==
  ASSUME Types, NEW acc, NEW cmd, Serves(acc, cmd),
         NEW settings \in Settings, Stored(settings),
         saved' \in Settings
  PROVE  Types'
  <1>1. /\ Handled(4, Service!Done) /\ pc = "command"
        /\ UNCHANGED <<buffer, Reboot, AlarmValue>>
        /\ cells' \in Settings
    BY DEF Stored, Handled, Goto
  <1>2. buffer.cmd \in InBuffer
    BY <1>1, ServesType
  <1>3. buffer' \in Buffer /\ Reboot' \in BOOLEAN /\ AlarmValue' \in AlarmReading
    BY <1>1 DEF Types, TypeOK
  <1>4. buffer'.cmd \in InBuffer
    BY <1>1, <1>2
  <1> QED
    BY <1>1, <1>3, <1>4, HandledTypes

LEMMA StoreTypes == Types /\ StoreHandler => Types'
  <1> SUFFICES ASSUME Types, StoreHandler
               PROVE  Types'
    OBVIOUS
  <1>1. cells \in Settings /\ saved \in Settings /\ pc = "command"
    BY DEF Types, TypeOK, StoreHandler, Stored, Handled, Goto
  <1>2. CASE /\ Serves("set", "wake")
             /\ Stored([cells EXCEPT !.wake[Received.slot] = Received.value])
             /\ saved' = IF Received.slot = 0 THEN cells' ELSE saved
    <2>1. Received.slot \in WakeSlot
      BY <1>2, <1>1, ServesType DEF Request
    <2>2. Received.value \in Codes
      BY <1>2, <1>1, ServesType, RequestsAssumption
    <2>3. [cells EXCEPT !.wake[Received.slot] = Received.value] \in Settings
      BY <1>1, <2>1, <2>2 DEF Settings
    <2>4. saved' \in Settings
      BY <1>2, <1>1, <2>3 DEF Stored
    <2> QED
      BY <1>2, <2>3, <2>4, StoredTypes
  <1>3. CASE /\ Serves("set", "after")
             /\ Stored([cells EXCEPT !.after = Received.value])
             /\ UNCHANGED saved
    <2>1. Received.value \in 0 .. MaxAfter
      BY <1>3, <1>1, ServesType, RequestsAssumption
    <2>2. [cells EXCEPT !.after = Received.value] \in Settings
      BY <1>1, <2>1 DEF Settings
    <2>3. saved' \in Settings
      BY <1>3, <1>1, <2>2 DEF Stored
    <2> QED
      BY <1>3, <2>2, <2>3, StoredTypes
  <1>4. CASE /\ Serves("reset", "wake")
             /\ Stored([cells EXCEPT !.wake[Received.slot] = Erased])
             /\ UNCHANGED saved
    <2>1. Received.slot \in WakeSlot
      BY <1>4, <1>1, ServesType DEF Request
    <2>2. [cells EXCEPT !.wake[Received.slot] = Erased] \in Settings
      BY <1>1, <2>1 DEF Settings
    <2>3. saved' \in Settings
      BY <1>4, <1>1, <2>2 DEF Stored
    <2> QED
      BY <1>4, <2>2, <2>3, StoredTypes
  <1>5. CASE /\ Serves("reset", "after")
             /\ Stored([cells EXCEPT !.after = 0])
             /\ UNCHANGED saved
    <2>1. [cells EXCEPT !.after = 0] \in Settings
      BY <1>1, BoundsAssumption DEF Settings
    <2>2. saved' \in Settings
      BY <1>5, <1>1, <2>1 DEF Stored
    <2> QED
      BY <1>5, <2>1, <2>2, StoredTypes
  <1>6. CASE /\ Serves("set", "commit")
             /\ Stored(cells)
             /\ saved' = cells
    <2>1. cells \in Settings
      BY <1>1
    <2>2. saved' \in Settings
      BY <1>6, <1>1, <2>1 DEF Stored
    <2> QED
      BY <1>6, <2>1, <2>2, StoredTypes
  <1>7. CASE /\ Serves("reset", "eeprom")
             /\ Stored(Service!Blank)
             /\ saved' = Service!Blank
    <2>1. Service!Blank \in Settings
      BY <1>1, BlankType DEF Settings
    <2>2. saved' \in Settings
      BY <1>7, <1>1, <2>1, BlankType DEF Stored
    <2> QED
      BY <1>7, <2>1, <2>2, StoredTypes
  <1> QED
    BY <1>2, <1>3, <1>4, <1>5, <1>6, <1>7 DEF StoreHandler

LEMMA SetTypes == Types /\ SetHandler => Types'
  <1> SUFFICES ASSUME Types, SetHandler
               PROVE  Types'
    OBVIOUS
  <1>1. PICK acc \in {"set", "reset"}, bytes \in {4, 5, -1},
             cmd \in {"alarm", "statusled", "reboot", "unknown"},
             result \in {Service!Done, Service!Failed} :
           /\ Serves(acc, cmd) /\ Handled(bytes, result)
           /\ UNCHANGED <<buffer, store_vars>>
           /\ Reboot' \in {Reboot, TRUE}
           /\ AlarmValue' = IF cmd = "alarm"
                              THEN IF acc = "set" THEN Received.value ELSE NoAlarm
                              ELSE AlarmValue
    <2>1. CASE /\ Serves("set", "alarm")
               /\ AlarmValue' = Received.value
               /\ Handled(4, Service!Done)
               /\ UNCHANGED <<buffer, Reboot, store_vars>>
      BY <2>1
    <2>2. CASE /\ Serves("reset", "alarm")
               /\ AlarmValue' = NoAlarm
               /\ Handled(4, Service!Done)
               /\ UNCHANGED <<buffer, Reboot, store_vars>>
      BY <2>2
    <2>3. CASE /\ Serves("set", "statusled")
               /\ Handled(4, Service!Done)
               /\ UNCHANGED <<buffer, Reboot, AlarmValue, store_vars>>
      BY <2>3
    <2>4. CASE /\ Serves("set", "reboot")
               /\ Reboot' = TRUE
               /\ Handled(4, Service!Done)
               /\ UNCHANGED <<buffer, AlarmValue, store_vars>>
      BY <2>4
    <2>5. CASE /\ Serves("set", "unknown")
               /\ Handled(-1, Service!Failed)
               /\ UNCHANGED <<buffer, Reboot, AlarmValue, store_vars>>
      BY <2>5
    <2> QED
      BY <2>1, <2>2, <2>3, <2>4, <2>5 DEF SetHandler
  <1>2. pc = "command"
    BY <1>1 DEF Handled, Goto
  <1>3. buffer.cmd \in InBuffer
    BY <1>1, <1>2, ServesType
  <1>4. AlarmValue' \in AlarmReading
    BY <1>1, <1>2, ServesType, RequestsAssumption
    DEF Types, TypeOK, AlarmReading
  <1>5. /\ buffer' \in Buffer /\ Reboot' \in BOOLEAN
        /\ cells' \in Settings /\ saved' \in Settings
    BY <1>1 DEF Types, TypeOK, store_vars
  <1>6. buffer'.cmd \in InBuffer
    BY <1>1, <1>3
  <1> QED
    BY <1>1, <1>4, <1>5, <1>6, HandledTypes

LEMMA LongStartTypes == Types /\ LongStart => Types'
  <1> SUFFICES ASSUME Types, TypeOK, Places, LongStart
               PROVE  Types'
    BY DEF Types
  <1>1. PICK cmd \in {"learn", "emit"} : Serves("set", cmd) /\ Goto("command", cmd)
    BY DEF LongStart
  <1>2. pc = "command" /\ pc' \in {"learn", "emit"}
    BY <1>1 DEF Goto
  <1>3. /\ buffer.cmd \in Commanded /\ buffer.cmd \in InBuffer
        /\ serving' = buffer.cmd /\ serving' \in Carried
        /\ USB_HID_Data_Received' = FALSE
    BY <1>1, <1>2, ServesType
  <1>4. UNCHANGED <<ret, slot, code, Reboot, buffer, out_state, in_vars,
                    suspended, timer_vars, host_vars, store_vars,
                    dialogue_vars>>
    BY DEF LongStart
  <1>5. TypeOK'
    BY <1>2, <1>3, <1>4
    DEF TypeOK, Place, in_vars, timer_vars, host_vars, store_vars, dialogue_vars
  <1>6. Places'
    BY <1>2, <1>3, <1>4 DEF Places, ToServe, Busy
  <1> QED
    BY <1>5, <1>6 DEF Types

LEMMA LongEndTypes ==
  ASSUME Types, NEW from \in {"learn", "emit"}, NEW bytes \in {4, 5, -1},
         NEW result, LongEnd(from, bytes, result), cells' \in Settings
  PROVE  Types'
  <1>1. Busy /\ pc' = "answer" /\ ret' = bytes
    BY DEF LongEnd, Goto, Busy
  <1>2. UNCHANGED <<serving, slot, code, Reboot, out_vars, in_vars, suspended,
                    timer_vars, host_vars, saved, request>>
    BY DEF LongEnd
  <1>3. TypeOK'
    BY <1>1, <1>2
    DEF Types, TypeOK, Place, out_vars, in_vars, timer_vars, host_vars
  <1>4. Places'
    BY <1>1, <1>2 DEF Types, Places, Busy, out_vars
  <1> QED
    BY <1>3, <1>4 DEF Types

LEMMA LongTypes == Types /\ (LearnTake \/ LearnTimeout \/ EmitEnd) => Types'
  <1> SUFFICES ASSUME Types, LearnTake \/ LearnTimeout \/ EmitEnd
               PROVE  Types'
    OBVIOUS
  <1>1. cells \in Settings
    BY DEF Types, TypeOK
  <1>2. CASE LearnTake
    <2>1. PICK c \in Codes :
             cells' = [cells EXCEPT !.wake[serving.request.slot] = c]
      BY <1>2 DEF LearnTake
    <2>2. cells' \in Settings
      BY <1>1, <2>1 DEF Settings
    <2> QED
      BY <1>2, <2>2, LongEndTypes DEF LearnTake
  <1>3. CASE LearnTimeout
    BY <1>1, <1>3, LongEndTypes DEF LearnTimeout
  <1>4. CASE EmitEnd
    BY <1>1, <1>4, LongEndTypes DEF EmitEnd
  <1> QED
    BY <1>2, <1>3, <1>4

\* The answer names what the buffer holds, which is a command.
AnswerReport ==
    ConfigReport(Received.acc, Received.cmd, ret # -1,
                 IF ret = 5 THEN Received.value ELSE NoValue)

LEMMA AnswerTypes == Types /\ Answer => Types'
  <1> SUFFICES ASSUME Types, TypeOK, Places, Answer
               PROVE  Types'
    BY DEF Types
  <1>1. pc = "answer" /\ pc' \in {"reboot", "led"} /\ Send(AnswerReport)
    BY DEF Answer, Goto, AnswerReport
  <1>2. Received \in Request
    BY <1>1 DEF Places, Received, InBuffer
  <1>3. AnswerReport \in Answers
    BY <1>2 DEF AnswerReport, ConfigReport, Answers, Request, Data
  <1>4. in_flight' \in InTransit /\ PrevXferComplete' \in BOOLEAN
    BY <1>1, <1>3, SendType
  <1>5. /\ buffer' \in Buffer
        /\ buffer'.status # STAT_CMD
    <2>1. PICK status \in {STAT_SUCCESS, STAT_FAILURE} :
             buffer' = [buffer EXCEPT !.cmd = Nobody, !.status = status]
      BY DEF Answer
    <2>2. buffer \in Buffer /\ Nobody \in Carried
      BY DEF TypeOK, Carried
    <2>3. buffer' \in Buffer /\ buffer'.status = status
      BY <2>1, <2>2 DEF Buffer
    <2> QED
      BY <2>3 DEF STAT_CMD, STAT_SUCCESS, STAT_FAILURE
  <1>6. /\ serving' \in Carried /\ ret' = 4
        /\ UNCHANGED <<slot, code, Reboot, out_state, USB_HID_Data_Received,
                       suspended, timer_vars, host_vars, store_vars,
                       dialogue_vars>>
    BY DEF Answer, Carried
  <1>7. TypeOK'
    BY <1>1, <1>4, <1>5, <1>6
    DEF TypeOK, Place, timer_vars, host_vars, store_vars, dialogue_vars
  <1>8. Places'
    BY <1>1, <1>5 DEF Places, ToServe, Busy
  <1> QED
    BY <1>7, <1>8 DEF Types

LEMMA NoCommandTypes == Types /\ NoCommand => Types'
  <1> SUFFICES ASSUME TypeOK, Places, NoCommand
               PROVE  TypeOK' /\ Places'
    BY DEF Types
  <1> USE DEF NoCommand, Goto, loop_vars, out_vars, in_vars, timer_vars,
              host_vars, store_vars, dialogue_vars
  <1>1. TypeOK'
    BY DEF TypeOK, Place
  <1>2. Places'
    BY DEF Places, ToServe, Busy
  <1> QED
    BY <1>1, <1>2

LEMMA StutterTypes == Types /\ UNCHANGED vars => Types'
  <1> SUFFICES ASSUME TypeOK, Places, UNCHANGED vars
               PROVE  TypeOK' /\ Places'
    BY DEF Types
  <1> USE DEF vars, loop_vars, out_vars, in_vars, timer_vars, host_vars,
              store_vars, dialogue_vars
  <1>1. TypeOK'
    BY DEF TypeOK
  <1>2. Places'
    BY DEF Places, ToServe, Busy
  <1> QED
    BY <1>1, <1>2

LEMMA TypesStep == Types /\ [Next]_vars => Types'
  BY CallbackTypes, HostTypes, LoopTypes, IrTypes, GetTypes, StoreTypes,
     SetTypes, LongStartTypes, LongTypes, AnswerTypes, NoCommandTypes,
     StutterTypes
  DEF Next, Loop, Commands

LEMMA TypesInvariance == Spec => []Types
  BY InitTypes, TypesStep, PTL DEF Spec

\* Every variable of the firmware and of the host stays in its type, for any
\* number of programs and whatever they write over each other's commands in
\* the one buffer (usb_hid.c:116): the answer is always made from a command,
\* and check_wakeups() never runs past its slots (main.c:785).
THEOREM TypeCorrect == Spec => []TypeOK
  <1>1. Types => TypeOK
    BY DEF Types
  <1> QED
    BY <1>1, TypesInvariance, PTL

(***************************************************************************)
(* The service, for a program that has the device for itself.  What the    *)
(* one buffer, the IN endpoint and the inbox hold follows from where the   *)
(* dialogue is: no request, a request that is not served, one that is.     *)
(***************************************************************************)
\* A report is the answer to the request of c, with its outcome.
OfRequest(report, c) ==
    /\ report.acc = request[c].acc
    /\ report.cmd = request[c].cmd
    /\ outcome[c] = [ok |-> report.ok, value |-> report.value]

NothingSent(c) == in_flight.report # "config" /\ inbox[c] = <<>>

Unrequested(c) ==
    request[c] = Service!NoRequest =>
       /\ outcome[c] = Service!NoOutcome
       /\ NothingSent(c)
       /\ ~ToServe /\ ~Busy /\ pc # "answer"

Unserved(c) ==
    request[c] # Service!NoRequest /\ outcome[c] = Service!NoOutcome =>
       /\ NothingSent(c)
       /\ pc # "answer"
       /\ buffer.cmd = [request |-> request[c], by |-> c]
       /\ Busy => /\ serving = buffer.cmd
                  /\ request[c].acc = "set"
                  /\ request[c].cmd = pc

Answering(c) == pc = "answer" => NothingSent(c) /\ OfRequest(AnswerReport, c)

Reported(c) ==
    pc # "answer" =>
       /\ ~ToServe
       /\ inbox[c] # <<>> => /\ OfRequest(Head(inbox[c]), c)
                             /\ Tail(inbox[c]) = <<>>
       /\ in_flight.report = "config" => /\ inbox[c] = <<>>
                                         /\ OfRequest(in_flight, c)

Served(c) ==
    outcome[c] # Service!NoOutcome => ~Busy /\ Answering(c) /\ Reported(c)

Dialogue(c) ==
    /\ DOMAIN outcome = Clients
    /\ Unrequested(c) /\ Unserved(c) /\ Served(c)

LEMMA NoRequestIsNone == Service!NoRequest \notin Requests
  BY RequestsAssumption DEF Service!NoRequest, Request

\* What the loop does beside the commands, and the stack with other reports.
LEMMA Beside ==
  ASSUME NEW c \in Clients, Dialogue(c),
         UNCHANGED <<request, outcome, inbox>>,
         UNCHANGED <<pc, ret, serving>> \/
            {pc, pc'} \cap {"learn", "emit", "answer"} = {},
         buffer'.cmd = buffer.cmd, ToServe' => ToServe,
         in_flight' = in_flight \/ in_flight'.report # "config"
  PROVE  Dialogue(c)'
  <1>1. CASE UNCHANGED <<pc, ret, serving>>
    <2>1. (Busy' <=> Busy) /\ AnswerReport' = AnswerReport
      BY <1>1 DEF Busy, AnswerReport, Received
    <2>2. NothingSent(c) => NothingSent(c)'
      BY DEF NothingSent
    <2>3. Unrequested(c)'
      BY <1>1, <2>1, <2>2 DEF Dialogue, Unrequested
    <2>4. Unserved(c)'
      BY <1>1, <2>1, <2>2 DEF Dialogue, Unserved
    <2>5. Served(c)'
      BY <1>1, <2>1, <2>2 DEF Dialogue, Served, Answering, Reported, OfRequest
    <2> QED
      BY <2>3, <2>4, <2>5 DEF Dialogue
  <1>2. CASE {pc, pc'} \cap {"learn", "emit", "answer"} = {}
    <2>1. ~Busy /\ ~Busy' /\ pc # "answer" /\ pc' # "answer"
      BY <1>2 DEF Busy
    <2>2. NothingSent(c) => NothingSent(c)'
      BY DEF NothingSent
    <2>3. Unrequested(c)'
      BY <2>1, <2>2 DEF Dialogue, Unrequested
    <2>4. Unserved(c)'
      BY <2>1, <2>2 DEF Dialogue, Unserved
    <2>5. Served(c)'
      BY <2>1, <2>2 DEF Dialogue, Served, Answering, Reported, OfRequest
    <2> QED
      BY <2>3, <2>4, <2>5 DEF Dialogue
  <1> QED
    BY <1>1, <1>2

\* The abstract service sees nothing of it.
Idle == UNCHANGED Service!vars

LEMMA CallbackSteps ==
  ASSUME NEW c \in Clients, Dialogue(c), Callback \/ SysTick_Handler
  PROVE  Dialogue(c)' /\ Idle
  <1> USE DEF loop_vars, out_vars, in_vars, timer_vars, host_vars, store_vars,
              dialogue_vars
  <1>1. /\ UNCHANGED <<pc, ret, serving, buffer>>
        /\ UNCHANGED <<cells, saved, request, outcome, reply, inbox>>
        /\ in_flight' = in_flight \/ in_flight' = Free
    BY DEF Callback, tud_hid_report_complete_cb, tud_hid_set_report_cb,
           tud_suspend_cb, tud_resume_cb, SysTick_Handler
  <1>2. in_flight' = in_flight \/ in_flight'.report # "config"
    BY <1>1 DEF Free
  <1>3. Idle
    BY <1>1 DEF Idle, Service!vars
  <1> QED
    BY <1>1, <1>2, <1>3, Beside DEF ToServe

LEMMA LoopSteps ==
  ASSUME NEW c \in Clients, Dialogue(c),
         Task \/ AlarmFires \/ NoAlarmNow \/ WakeupEnds \/ NoMagic \/ MagicIr
         \/ MagicKbd \/ MagicEnds \/ Led \/ NoCommand \/ PollNothing
         \/ CheckWakeup \/ CheckDone \/ SendIr
  PROVE  Dialogue(c)' /\ Idle
  <1> USE DEF loop_vars, out_vars, in_vars, timer_vars, host_vars, store_vars,
              dialogue_vars, Goto
  <1>1. CASE Task \/ AlarmFires \/ NoAlarmNow \/ WakeupEnds \/ NoMagic \/ Led
             \/ NoCommand \/ PollNothing \/ CheckWakeup \/ CheckDone
    <2>1. /\ {pc, pc'} \cap {"learn", "emit", "answer"} = {}
          /\ UNCHANGED <<buffer, in_flight>>
          /\ UNCHANGED <<cells, saved, request, outcome, reply, inbox>>
      BY <1>1 DEF Task, AlarmFires, NoAlarmNow, WakeupEnds, NoMagic, Led,
                  NoCommand, PollNothing, CheckWakeup, CheckDone
    <2>2. Idle
      BY <2>1 DEF Idle, Service!vars
    <2> QED
      BY <2>1, <2>2, Beside DEF ToServe
  <1>2. CASE MagicIr \/ MagicKbd \/ MagicEnds \/ SendIr
    <2>1. /\ {pc, pc'} \cap {"learn", "emit", "answer"} = {}
          /\ UNCHANGED buffer
          /\ UNCHANGED <<cells, saved, request, outcome, reply, inbox>>
          /\ Send(OtherReport)
      BY <1>2 DEF MagicIr, MagicKbd, MagicEnds, SendIr
    <2>2. in_flight' = in_flight \/ in_flight' = OtherReport
      BY <2>1 DEF Send
    <2>3. in_flight' = in_flight \/ in_flight'.report # "config"
      BY <2>2, NoAnswers
    <2>4. Idle
      BY <2>1 DEF Idle, Service!vars
    <2> QED
      BY <2>1, <2>3, <2>4, Beside DEF ToServe
  <1> QED
    BY <1>1, <1>2

\* The first wakeup may be learnt meanwhile.
LEMMA PressSteps ==
  ASSUME NEW c \in Clients, Dialogue(c), PollPress
  PROVE  Dialogue(c)' /\ (Service!Learn \/ Idle)
  <1>1. /\ {pc, pc'} \cap {"learn", "emit", "answer"} = {}
        /\ UNCHANGED <<buffer, in_flight, inbox, request, outcome, reply>>
    BY DEF PollPress, Goto, out_vars, in_vars, host_vars, dialogue_vars
  <1>2. Dialogue(c)'
    BY <1>1, Beside DEF ToServe
  <1>3. CASE cells.wake[0] = Erased
    <2>1. Service!Learn
      BY <1>1, <1>3 DEF PollPress, Service!Learn, Service!WithWake
    <2> QED
      BY <1>2, <2>1
  <1>4. CASE cells.wake[0] # Erased
    <2>1. Idle
      BY <1>1, <1>4 DEF PollPress, Idle, Service!vars, store_vars
    <2> QED
      BY <1>2, <2>1
  <1> QED
    BY <1>3, <1>4

LEMMA RestartSteps ==
  ASSUME NEW c \in Clients, Restart
  PROVE  Dialogue(c)' /\ Service!Restart
  <1>1. /\ request' = [d \in Clients |-> Service!NoRequest]
        /\ outcome' = [d \in Clients |-> Service!NoOutcome]
        /\ inbox' = [d \in Clients |-> <<>>]
        /\ in_flight' = Free /\ pc' = "task" /\ buffer'.id = "none"
    BY DEF Restart, Service!Restart, Goto
  <1>2. NothingSent(c)'
    BY <1>1, NoAnswers DEF NothingSent
  <1>3. ~ToServe' /\ ~Busy'
    BY <1>1 DEF ToServe, Busy
  <1>4. Unrequested(c)' /\ Unserved(c)' /\ Served(c)'
    BY <1>1, <1>2, <1>3 DEF Unrequested, Unserved, Served
  <1>5. Service!Restart
    BY DEF Restart
  <1> QED
    BY <1>1, <1>4, <1>5 DEF Dialogue

LEMMA FetchSteps ==
  ASSUME Types, NEW c \in Clients, Dialogue(c), HostFetches
  PROVE  Dialogue(c)' /\ Idle
  <1> USE DEF loop_vars, out_vars, in_vars, timer_vars, store_vars, dialogue_vars
  <1>1. /\ UNCHANGED <<pc, ret, serving, buffer>>
        /\ UNCHANGED <<cells, saved, request, outcome, reply>>
        /\ in_flight' = Fetched
    BY DEF HostFetches
  <1>2. Idle
    BY <1>1 DEF Idle, Service!vars
  <1>3. in_flight'.report # "config"
    BY <1>1, NoAnswers
  <1>4. CASE in_flight.report # "config"
    <2>1. inbox' = inbox
      BY <1>4 DEF HostFetches
    <2> QED
      BY <1>1, <1>2, <1>3, <2>1, Beside DEF ToServe
  <1>5. CASE in_flight.report = "config"
    <2>1. outcome[c] # Service!NoOutcome /\ request[c] # Service!NoRequest
      BY <1>5 DEF Dialogue, Unrequested, Unserved, NothingSent
    <2>2. ~Busy /\ pc # "answer"
      BY <1>5, <2>1 DEF Dialogue, Served, Answering, NothingSent
    <2>3. /\ ~ToServe /\ inbox[c] = <<>>
          /\ OfRequest(in_flight, c)
      BY <1>5, <2>1, <2>2 DEF Dialogue, Served, Reported
    <2>4. inbox'[c] = Append(<<>>, in_flight)
      <3>1. inbox' = [d \in Clients |-> Append(inbox[d], in_flight)]
        BY <1>5 DEF HostFetches
      <3> QED
        BY <2>3, <3>1
    <2>5. Head(inbox'[c]) = in_flight /\ Tail(inbox'[c]) = <<>>
      BY <2>4
    <2>6. Reported(c)'
      BY <1>1, <1>3, <2>3, <2>5 DEF Reported, OfRequest, ToServe
    <2>7. Served(c)'
      BY <1>1, <2>2, <2>6 DEF Served, Busy, Answering
    <2>8. Unrequested(c)' /\ Unserved(c)'
      BY <1>1, <2>1 DEF Unrequested, Unserved
    <2> QED
      BY <1>1, <1>2, <2>7, <2>8 DEF Dialogue
  <1> QED
    BY <1>4, <1>5

\* write_and_check() of the program that has the device for itself.
LEMMA WriteSteps ==
  ASSUME Types, NEW c \in Clients, Dialogue(c), WriteCommand(c)
  PROVE  Dialogue(c)' /\ Service!Call(c)
  <1>1. PICK r \in Requests :
           /\ buffer' = [id |-> "config", status |-> STAT_CMD,
                         cmd |-> [request |-> r, by |-> c]]
           /\ request' = [request EXCEPT ![c] = r]
    BY DEF WriteCommand
  <1>2. /\ request[c] = Service!NoRequest
        /\ reply' = [reply EXCEPT ![c] = Service!NoOutcome]
        /\ UNCHANGED <<pc, serving, ret, in_flight, inbox, outcome, cells, saved>>
    BY DEF WriteCommand, loop_vars, in_vars, store_vars
  <1>3. /\ outcome[c] = Service!NoOutcome /\ NothingSent(c)
        /\ ~Busy /\ pc # "answer"
    BY <1>2 DEF Dialogue, Unrequested
  <1>4. Service!Call(c)
    BY <1>1, <1>2 DEF Service!Call
  <1>5. /\ NothingSent(c)' /\ ~Busy' /\ pc' # "answer"
        /\ outcome'[c] = Service!NoOutcome
    BY <1>2, <1>3 DEF NothingSent, Busy
  <1>6. c \in DOMAIN request
    BY DEF Types, TypeOK
  <1>7. request'[c] = r /\ r # Service!NoRequest
    BY <1>1, <1>6, NoRequestIsNone
  <1>8. buffer'.cmd = [request |-> request'[c], by |-> c]
    BY <1>1, <1>7
  <1>9. Unrequested(c)' /\ Unserved(c)' /\ Served(c)'
    BY <1>5, <1>7, <1>8 DEF Unrequested, Unserved, Served
  <1> QED
    BY <1>2, <1>4, <1>9 DEF Dialogue

\* What it reads is the answer to its request.
LEMMA ReadSteps ==
  ASSUME Types, NEW c \in Clients, Dialogue(c), ReadAnswer(c)
  PROVE  Dialogue(c)' /\ Service!Return(c)
  <1> DEFINE got == Head(inbox[c])
  <1>1. /\ request[c] # Service!NoRequest /\ inbox[c] # <<>>
        /\ inbox' = [inbox EXCEPT ![c] = Tail(inbox[c])]
        /\ request' = [request EXCEPT ![c] = Service!NoRequest]
        /\ outcome' = [outcome EXCEPT ![c] = Service!NoOutcome]
        /\ UNCHANGED <<pc, serving, ret, buffer, in_flight, cells, saved>>
    BY DEF ReadAnswer, loop_vars, out_vars, in_vars, store_vars
  <1>2. outcome[c] # Service!NoOutcome
    BY <1>1 DEF Dialogue, Unserved, NothingSent
  <1>3. ~Busy /\ pc # "answer"
    BY <1>1, <1>2 DEF Dialogue, Served, Answering, NothingSent
  <1>4. /\ ~ToServe /\ OfRequest(got, c) /\ Tail(inbox[c]) = <<>>
        /\ in_flight.report # "config"
    BY <1>1, <1>2, <1>3 DEF Dialogue, Served, Reported
  <1>5. inbox \in Inboxes
    BY DEF Types, TypeOK
  <1>6. inbox[c] \in Seq(Answers)
    BY <1>5 DEF Inboxes
  <1>7. got \in Answers
    BY <1>1, <1>6
  <1>8. got.ok \in BOOLEAN
    BY <1>7 DEF Answers
  <1>9. reply' = [reply EXCEPT ![c] = outcome[c]]
    <2>1. reply' = [reply EXCEPT ![c] =
             [ok |-> got.ok /\ (got.acc = request[c].acc /\ got.cmd = request[c].cmd),
              value |-> got.value]]
      BY DEF ReadAnswer
    <2>2. (got.ok /\ (got.acc = request[c].acc /\ got.cmd = request[c].cmd)) = got.ok
      BY <1>4, <1>8 DEF OfRequest
    <2>3. outcome[c] = [ok |-> got.ok, value |-> got.value]
      BY <1>4 DEF OfRequest
    <2> HIDE DEF got
    <2> QED
      BY <2>1, <2>2, <2>3
  <1>10. Service!Return(c)
    BY <1>1, <1>2, <1>9 DEF Service!Return
  <1>11. /\ request'[c] = Service!NoRequest /\ outcome'[c] = Service!NoOutcome
         /\ inbox'[c] = <<>>
    <2>1. c \in DOMAIN request /\ c \in DOMAIN outcome /\ c \in DOMAIN inbox
      BY <1>5 DEF Types, TypeOK, Dialogue, Inboxes
    <2> QED
      BY <1>1, <1>4, <2>1
  <1>12. /\ DOMAIN outcome' = Clients
         /\ ~ToServe' /\ ~Busy' /\ pc' # "answer" /\ NothingSent(c)'
    BY <1>1, <1>3, <1>4, <1>11 DEF Dialogue, ToServe, Busy, NothingSent
  <1> QED
    BY <1>10, <1>11, <1>12 DEF Dialogue, Unrequested, Unserved, Served

LEMMA LedSteps ==
  ASSUME Types, NEW c \in Clients, Dialogue(c), WriteLed \/ SwitchOff \/ SwitchOn
  PROVE  Dialogue(c)' /\ Idle
  <1> USE DEF loop_vars, out_vars, in_vars, store_vars, dialogue_vars
  <1>1. CASE WriteLed
    <2>1. PICK leds \in {0, KEYBOARD_LED_SCROLLLOCK} :
             buffer' = [buffer EXCEPT !.id = "kbd", !.status = leds]
      BY <1>1 DEF WriteLed
    <2>2. UNCHANGED <<pc, ret, serving, in_flight, inbox, request, outcome, reply,
                      cells, saved>>
      BY <1>1 DEF WriteLed
    <2>3. buffer'.cmd = buffer.cmd /\ buffer'.id = "kbd"
      BY <2>1 DEF Types, TypeOK, Buffer
    <2>4. Idle
      BY <2>2 DEF Idle, Service!vars
    <2> QED
      BY <2>2, <2>3, <2>4, Beside DEF ToServe
  <1>2. CASE SwitchOff \/ SwitchOn
    <2>1. UNCHANGED <<pc, ret, serving, buffer, in_flight, inbox, request,
                      outcome, reply, cells, saved>>
      BY <1>2 DEF SwitchOff, SwitchOn
    <2>2. Idle
      BY <2>1 DEF Idle, Service!vars
    <2> QED
      BY <2>1, <2>2, Beside DEF ToServe
  <1> QED
    BY <1>1, <1>2

\* The command that the handlers see is the request.
LEMMA ServedRequest ==
  ASSUME NEW c \in Clients, Dialogue(c), pc = "command",
         NEW acc, NEW cmd, Serves(acc, cmd)
  PROVE  /\ request[c] # Service!NoRequest /\ outcome[c] = Service!NoOutcome
         /\ NothingSent(c)
         /\ buffer.cmd = [request |-> request[c], by |-> c]
         /\ buffer.cmd.by = c
         /\ Received = request[c] /\ serving' = buffer.cmd
         /\ request[c].acc = acc /\ request[c].cmd = cmd
  <1>1. ToServe
    BY DEF Serves, CommandReceived, ToServe
  <1>2. outcome[c] = Service!NoOutcome
    BY <1>1 DEF Dialogue, Served, Reported
  <1>3. request[c] # Service!NoRequest
    BY <1>1 DEF Dialogue, Unrequested
  <1>4. NothingSent(c) /\ buffer.cmd = [request |-> request[c], by |-> c]
    BY <1>2, <1>3 DEF Dialogue, Unserved
  <1>5. Received = request[c] /\ buffer.cmd.by = c
    BY <1>4 DEF Received
  <1>6. /\ request[c].acc = acc /\ request[c].cmd = cmd
        /\ serving' = buffer.cmd
    BY <1>5 DEF Serves
  <1> QED
    BY <1>2, <1>3, <1>4, <1>5, <1>6

\* At the end of a handler the request has its outcome, which is what the
\* answer will say.
LEMMA HandledSteps ==
  ASSUME Types, NEW c \in Clients, Dialogue(c),
         NEW acc, NEW cmd, Serves(acc, cmd),
         NEW bytes \in {4, 5, -1}, NEW result, Handled(bytes, result),
         Received'.acc = Received.acc, Received'.cmd = Received.cmd,
         result # Service!NoOutcome,
         result = [ok |-> bytes # -1,
                   value |-> IF bytes = 5 THEN Received'.value ELSE NoValue]
  PROVE  /\ Dialogue(c)'
         /\ request[c] # Service!NoRequest /\ outcome[c] = Service!NoOutcome
         /\ outcome' = [outcome EXCEPT ![c] = result]
         /\ Received = request[c]
         /\ UNCHANGED <<request, reply>>
  <1>1. pc = "command" /\ pc' = "answer" /\ ret' = bytes
    BY DEF Handled, Goto
  <1>2. /\ request[c] # Service!NoRequest /\ outcome[c] = Service!NoOutcome
        /\ NothingSent(c)
        /\ Received = request[c] /\ buffer.cmd.by = c
    BY <1>1, ServedRequest
  <1>3. outcome' = [outcome EXCEPT ![c] = result]
    BY <1>2 DEF Handled, Entitled
  <1>4. UNCHANGED <<in_flight, inbox, request, reply>>
    BY DEF Handled, in_vars, host_vars
  <1>5. outcome'[c] = result /\ DOMAIN outcome' = Clients
    BY <1>3 DEF Dialogue
  <1>6. NothingSent(c)'
    BY <1>2, <1>4 DEF NothingSent
  <1>7. OfRequest(AnswerReport, c)'
    BY <1>1, <1>2, <1>4, <1>5 DEF OfRequest, AnswerReport, ConfigReport
  <1>8. ~Busy'
    BY <1>1 DEF Busy
  <1>9. Unrequested(c)' /\ Unserved(c)' /\ Served(c)'
    BY <1>1, <1>2, <1>4, <1>5, <1>6, <1>7, <1>8
    DEF Unrequested, Unserved, Served, Answering, Reported
  <1> QED
    BY <1>2, <1>3, <1>4, <1>5, <1>9 DEF Dialogue

LEMMA ServeStep ==
  ASSUME NEW c \in Clients, NEW result,
         request[c] # Service!NoRequest, outcome[c] = Service!NoOutcome,
         outcome' = [outcome EXCEPT ![c] = result],
         UNCHANGED <<request, reply>>,
         Service!Result(cells', saved', result) \in Service!Results(request[c])
  PROVE  Service!Serve(c)
  <1> DEFINE res == Service!Result(cells', saved', result)
  <1>1. res.cells = cells' /\ res.saved = saved' /\ res.outcome = result
    BY DEF Service!Result
  <1> HIDE DEF res
  <1> QED
    BY <1>1 DEF Service!Serve, res

LEMMA Outcomes ==
  /\ Service!Done # Service!NoOutcome /\ Service!Failed # Service!NoOutcome
  /\ Service!Done = [ok |-> TRUE, value |-> NoValue]
  /\ Service!Failed = [ok |-> FALSE, value |-> NoValue]
  BY ValuesAssumption
  DEF Service!Done, Service!Failed, Service!Answer, Service!NoOutcome

\* get_handler reads, and its answer holds what it read.
LEMMA GotSteps ==
  ASSUME Types, NEW c \in Clients, Dialogue(c),
         NEW cmd, Serves("get", cmd), NEW value, Got(value),
         Service!Result(cells, saved, Service!Answer(value))
            \in Service!Results(request[c])
  PROVE  Dialogue(c)' /\ Service!Serve(c)
  <1> DEFINE result == Service!Answer(value)
  <1>1. Handled(5, result) /\ cells' = cells /\ saved' = saved
    BY DEF Got, store_vars
  <1>2. pc = "command"
    BY <1>1 DEF Handled, Goto
  <1>3. Received \in Request /\ buffer \in Buffer /\ buffer.cmd \in InBuffer
    BY <1>2, ServesType DEF Types, TypeOK
  <1>4. buffer' = [buffer EXCEPT !.cmd.request.value = value]
    BY DEF Got
  <1>5. buffer'.cmd = [buffer.cmd EXCEPT !.request.value = value]
    BY <1>3, <1>4 DEF Buffer
  <1>6. Received' = [Received EXCEPT !.value = value]
    BY <1>3, <1>5 DEF Received, InBuffer
  <1>7. /\ Received'.acc = Received.acc /\ Received'.cmd = Received.cmd
        /\ Received'.value = value
    BY <1>3, <1>6 DEF Request
  <1>8. result # Service!NoOutcome
    <2>1. result.ok # Service!NoOutcome.ok
      BY DEF Service!Answer, Service!NoOutcome
    <2> QED
      BY <2>1
  <1>9. result = [ok |-> 5 # -1,
                  value |-> IF 5 = 5 THEN Received'.value ELSE NoValue]
    <2>1. (5 # -1) = TRUE
      OBVIOUS
    <2> QED
      BY <1>7, <2>1 DEF Service!Answer
  <1> HIDE DEF result
  <1>10. /\ Dialogue(c)'
         /\ request[c] # Service!NoRequest /\ outcome[c] = Service!NoOutcome
         /\ outcome' = [outcome EXCEPT ![c] = result]
         /\ UNCHANGED <<request, reply>>
    BY <1>1, <1>7, <1>8, <1>9, HandledSteps
  <1> QED
    BY <1>1, <1>10, ServeStep DEF result

LEMMA GetSteps ==
  ASSUME Types, NEW c \in Clients, Dialogue(c), GetHandler
  PROVE  Dialogue(c)' /\ Service!Serve(c)
  <1>1. pc = "command"
    BY DEF GetHandler, Got, Handled, Goto
  <1>2. CASE Serves("get", "wake") /\ Got(cells.wake[Received.slot])
    <2>1. Received = request[c] /\ request[c].acc = "get" /\ request[c].cmd = "wake"
      BY <1>1, <1>2, ServedRequest
    <2>2. Service!Results(request[c]) =
             Service!Only(Service!Answer(cells.wake[Received.slot]))
      BY <2>1 DEF Service!Results
    <2> QED
      BY <1>2, <2>2, GotSteps DEF Service!Only
  <1>3. CASE Serves("get", "after") /\ Got(cells.after)
    <2>1. request[c].acc = "get" /\ request[c].cmd = "after"
      BY <1>1, <1>3, ServedRequest
    <2>2. Service!Results(request[c]) = Service!Only(Service!Answer(cells.after))
      BY <2>1 DEF Service!Results
    <2> QED
      BY <1>3, <2>2, GotSteps DEF Service!Only
  <1>4. CASE Serves("get", "alarm") /\ Got(AlarmValue)
    <2>1. request[c].acc = "get" /\ request[c].cmd = "alarm"
      BY <1>1, <1>4, ServedRequest
    <2>2. Service!Results(request[c]) =
             UNION {Service!Only(Service!Answer(v)) : v \in AlarmReading}
      BY <2>1 DEF Service!Results
    <2>3. AlarmValue \in AlarmReading
      BY DEF Types, TypeOK
    <2>4. Service!Result(cells, saved, Service!Answer(AlarmValue))
             \in Service!Results(request[c])
      BY <2>2, <2>3 DEF Service!Only
    <2> QED
      BY <1>4, <2>4, GotSteps
  <1> QED
    BY <1>2, <1>3, <1>4 DEF GetHandler

\* A handler that reads nothing back: its answer is the bare status.
LEMMA PlainSteps ==
  ASSUME Types, NEW c \in Clients, Dialogue(c),
         NEW acc, NEW cmd, Serves(acc, cmd), UNCHANGED buffer,
         NEW bytes \in {4, -1}, NEW result, Handled(bytes, result),
         result = IF bytes = 4 THEN Service!Done ELSE Service!Failed,
         Service!Result(cells', saved', result) \in Service!Results(request[c])
  PROVE  Dialogue(c)' /\ Service!Serve(c)
  <1>1. Received' = Received
    BY DEF Received
  <1>2. result # Service!NoOutcome
    BY Outcomes
  <1>3. result = [ok |-> bytes # -1,
                  value |-> IF bytes = 5 THEN Received'.value ELSE NoValue]
    <2>1. CASE bytes = 4
      <3>1. (bytes # -1) = TRUE /\ bytes # 5
        BY <2>1
      <3> QED
        BY <2>1, <3>1, Outcomes
    <2>2. CASE bytes = -1
      <3>1. (bytes # -1) = FALSE /\ bytes # 4 /\ bytes # 5
        BY <2>2
      <3> QED
        BY <2>2, <3>1, Outcomes
    <2> QED
      BY <2>1, <2>2
  <1>4. bytes \in {4, 5, -1}
    OBVIOUS
  <1>5. /\ Dialogue(c)'
        /\ request[c] # Service!NoRequest /\ outcome[c] = Service!NoOutcome
        /\ outcome' = [outcome EXCEPT ![c] = result]
        /\ UNCHANGED <<request, reply>>
    BY <1>1, <1>2, <1>3, <1>4, HandledSteps
  <1> QED
    BY <1>5, ServeStep

LEMMA StoredSteps ==
  ASSUME Types, NEW c \in Clients, Dialogue(c),
         NEW acc, NEW cmd, Serves(acc, cmd), NEW settings, Stored(settings),
         Service!Result(settings, saved', Service!Done)
            \in Service!Results(request[c])
  PROVE  Dialogue(c)' /\ Service!Serve(c)
  <1>1. /\ Handled(4, Service!Done) /\ UNCHANGED buffer /\ cells' = settings
    BY DEF Stored
  <1>2. Service!Result(cells', saved', Service!Done) \in Service!Results(request[c])
    BY <1>1
  <1> QED
    BY <1>1, <1>2, PlainSteps

LEMMA StoreSteps ==
  ASSUME Types, NEW c \in Clients, Dialogue(c), StoreHandler
  PROVE  Dialogue(c)' /\ Service!Serve(c)
  <1>1. pc = "command"
    BY DEF StoreHandler, Stored, Handled, Goto
  <1>2. CASE /\ Serves("set", "wake")
             /\ Stored([cells EXCEPT !.wake[Received.slot] = Received.value])
             /\ saved' = IF Received.slot = 0 THEN cells' ELSE saved
    <2> DEFINE settings == [cells EXCEPT !.wake[Received.slot] = Received.value]
    <2>1. Received = request[c] /\ request[c].acc = "set" /\ request[c].cmd = "wake"
      BY <1>1, <1>2, ServedRequest
    <2>2. saved' = IF Received.slot = 0 THEN settings ELSE saved
      BY <1>2 DEF Stored
    <2>3. Service!Results(request[c]) =
             {Service!Result(settings, IF Received.slot = 0 THEN settings ELSE saved, Service!Done)}
      BY <2>1 DEF Service!Results, Service!WithWake, Service!WithAfter
    <2> QED
      BY <1>2, <2>2, <2>3, StoredSteps
  <1>3. CASE /\ Serves("set", "after")
             /\ Stored([cells EXCEPT !.after = Received.value])
             /\ UNCHANGED saved
    <2> DEFINE settings == [cells EXCEPT !.after = Received.value]
    <2>1. Received = request[c] /\ request[c].acc = "set" /\ request[c].cmd = "after"
      BY <1>1, <1>3, ServedRequest
    <2>2. saved' = saved
      BY <1>3 DEF Stored
    <2>3. Service!Results(request[c]) =
             {Service!Result(settings, saved, Service!Done)}
      BY <2>1 DEF Service!Results, Service!WithWake, Service!WithAfter
    <2> QED
      BY <1>3, <2>2, <2>3, StoredSteps
  <1>4. CASE /\ Serves("reset", "wake")
             /\ Stored([cells EXCEPT !.wake[Received.slot] = Erased])
             /\ UNCHANGED saved
    <2> DEFINE settings == [cells EXCEPT !.wake[Received.slot] = Erased]
    <2>1. Received = request[c] /\ request[c].acc = "reset" /\ request[c].cmd = "wake"
      BY <1>1, <1>4, ServedRequest
    <2>2. saved' = saved
      BY <1>4 DEF Stored
    <2>3. Service!Results(request[c]) =
             {Service!Result(settings, saved, Service!Done)}
      BY <2>1 DEF Service!Results, Service!WithWake, Service!WithAfter
    <2> QED
      BY <1>4, <2>2, <2>3, StoredSteps
  <1>5. CASE /\ Serves("reset", "after")
             /\ Stored([cells EXCEPT !.after = 0])
             /\ UNCHANGED saved
    <2> DEFINE settings == [cells EXCEPT !.after = 0]
    <2>1. Received = request[c] /\ request[c].acc = "reset" /\ request[c].cmd = "after"
      BY <1>1, <1>5, ServedRequest
    <2>2. saved' = saved
      BY <1>5 DEF Stored
    <2>3. Service!Results(request[c]) =
             {Service!Result(settings, saved, Service!Done)}
      BY <2>1 DEF Service!Results, Service!WithWake, Service!WithAfter
    <2> QED
      BY <1>5, <2>2, <2>3, StoredSteps
  <1>6. CASE /\ Serves("set", "commit")
             /\ Stored(cells)
             /\ saved' = cells
    <2> DEFINE settings == cells
    <2>1. Received = request[c] /\ request[c].acc = "set" /\ request[c].cmd = "commit"
      BY <1>1, <1>6, ServedRequest
    <2>2. saved' = cells
      BY <1>6 DEF Stored
    <2>3. Service!Results(request[c]) =
             {Service!Result(settings, cells, Service!Done)}
      BY <2>1 DEF Service!Results, Service!WithWake, Service!WithAfter
    <2> QED
      BY <1>6, <2>2, <2>3, StoredSteps
  <1>7. CASE /\ Serves("reset", "eeprom")
             /\ Stored(Service!Blank)
             /\ saved' = Service!Blank
    <2> DEFINE settings == Service!Blank
    <2>1. Received = request[c] /\ request[c].acc = "reset" /\ request[c].cmd = "eeprom"
      BY <1>1, <1>7, ServedRequest
    <2>2. saved' = Service!Blank
      BY <1>7 DEF Stored
    <2>3. Service!Results(request[c]) =
             {Service!Result(settings, Service!Blank, Service!Done)}
      BY <2>1 DEF Service!Results, Service!WithWake, Service!WithAfter
    <2> QED
      BY <1>7, <2>2, <2>3, StoredSteps
  <1> QED
    BY <1>2, <1>3, <1>4, <1>5, <1>6, <1>7 DEF StoreHandler

LEMMA SetSteps ==
  ASSUME Types, NEW c \in Clients, Dialogue(c), SetHandler
  PROVE  Dialogue(c)' /\ Service!Serve(c)
  <1>1. PICK acc \in {"set", "reset"}, bytes \in {4, -1},
             cmd \in {"alarm", "statusled", "reboot", "unknown"},
             result \in {Service!Done, Service!Failed} :
           /\ Serves(acc, cmd) /\ Handled(bytes, result)
           /\ UNCHANGED <<buffer, store_vars>>
           /\ cmd # "unknown" => bytes = 4 /\ result = Service!Done
           /\ cmd = "unknown" => bytes = -1 /\ result = Service!Failed
    BY DEF SetHandler
  <1>2. pc = "command"
    BY <1>1 DEF Handled, Goto
  <1>3. request[c].acc = acc /\ request[c].cmd = cmd
    BY <1>1, <1>2, ServedRequest
  <1>4. Service!Results(request[c]) = Service!Only(result)
    BY <1>1, <1>3 DEF Service!Results
  <1>5. Service!Result(cells', saved', result) \in Service!Results(request[c])
    BY <1>1, <1>4 DEF Service!Only, store_vars
  <1>6. result = IF bytes = 4 THEN Service!Done ELSE Service!Failed
    BY <1>1
  <1> QED
    BY <1>1, <1>5, <1>6, PlainSteps

LEMMA LongStartSteps ==
  ASSUME Types, NEW c \in Clients, Dialogue(c), LongStart
  PROVE  Dialogue(c)' /\ Idle
  <1>1. PICK cmd \in {"learn", "emit"} : Serves("set", cmd) /\ Goto("command", cmd)
    BY DEF LongStart
  <1>2. pc = "command" /\ pc' = cmd
    BY <1>1 DEF Goto
  <1>3. /\ request[c] # Service!NoRequest /\ outcome[c] = Service!NoOutcome
        /\ NothingSent(c) /\ buffer.cmd = [request |-> request[c], by |-> c]
        /\ serving' = buffer.cmd
        /\ request[c].acc = "set" /\ request[c].cmd = cmd
    BY <1>1, <1>2, ServedRequest
  <1>4. UNCHANGED <<buffer, in_flight, inbox, request, outcome, reply, cells, saved>>
    BY DEF LongStart, in_vars, host_vars, store_vars, dialogue_vars
  <1>5. Idle
    BY <1>4 DEF Idle, Service!vars
  <1>6. Unrequested(c)' /\ Unserved(c)' /\ Served(c)'
    BY <1>2, <1>3, <1>4 DEF Unrequested, Unserved, Served, NothingSent
  <1> QED
    BY <1>4, <1>5, <1>6 DEF Dialogue

LEMMA LongSteps ==
  ASSUME Types, NEW c \in Clients, Dialogue(c),
         LearnTake \/ LearnTimeout \/ EmitEnd
  PROVE  Dialogue(c)' /\ Service!Serve(c)
  <1>1. PICK from \in {"learn", "emit"}, bytes \in {4, -1},
             result \in {Service!Done, Service!Failed} :
           /\ LongEnd(from, bytes, result)
           /\ result = IF bytes = 4 THEN Service!Done ELSE Service!Failed
           /\ from = "learn" /\ bytes = 4 =>
                 \E v \in Codes :
                    cells' = [cells EXCEPT !.wake[serving.request.slot] = v]
           /\ ~(from = "learn" /\ bytes = 4) => cells' = cells
           /\ from = "emit" => bytes = 4
    BY DEF LearnTake, LearnTimeout, EmitEnd
  <1>2. /\ pc = from /\ pc' = "answer" /\ ret' = bytes /\ Busy
        /\ UNCHANGED <<buffer, in_flight, inbox, saved, request, reply>>
    BY <1>1 DEF LongEnd, Goto, out_vars, in_vars, host_vars, Busy
  <1>3. request[c] # Service!NoRequest /\ outcome[c] = Service!NoOutcome
    BY <1>2 DEF Dialogue, Unrequested, Served
  <1>4. /\ NothingSent(c) /\ buffer.cmd = [request |-> request[c], by |-> c]
        /\ serving = buffer.cmd
        /\ request[c].acc = "set" /\ request[c].cmd = from
    BY <1>2, <1>3 DEF Dialogue, Unserved
  <1>5. Received = request[c] /\ serving.request = request[c] /\ serving.by = c
    BY <1>4 DEF Received
  <1>6. outcome' = [outcome EXCEPT ![c] = result]
    BY <1>1, <1>5 DEF LongEnd, Entitled
  <1>7. outcome'[c] = result /\ DOMAIN outcome' = Clients
    BY <1>6 DEF Dialogue
  <1>8. result # Service!NoOutcome
    BY Outcomes
  <1>9. OfRequest(AnswerReport, c)'
    <2>1. result = [ok |-> bytes # -1, value |-> NoValue]
      <3>1. CASE bytes = 4
        <4>1. (bytes # -1) = TRUE
          BY <3>1
        <4> QED
          BY <1>1, <3>1, <4>1, Outcomes
      <3>2. CASE bytes = -1
        <4>1. (bytes # -1) = FALSE /\ bytes # 4
          BY <3>2
        <4> QED
          BY <1>1, <3>2, <4>1, Outcomes
      <3> QED
        BY <3>1, <3>2
    <2>2. /\ AnswerReport' = ConfigReport(request[c].acc, request[c].cmd, bytes # -1,
                                          NoValue)
          /\ request' = request
      BY <1>2, <1>5 DEF AnswerReport, Received
    <2> QED
      BY <1>7, <2>1, <2>2 DEF OfRequest, ConfigReport
  <1>10. NothingSent(c)' /\ ~Busy'
    BY <1>2, <1>4 DEF NothingSent, Busy
  <1>11. Unrequested(c)' /\ Unserved(c)' /\ Served(c)'
    BY <1>2, <1>3, <1>7, <1>8, <1>9, <1>10
    DEF Unrequested, Unserved, Served, Answering, Reported
  <1>12. Service!Result(cells', saved', result) \in Service!Results(request[c])
    <2>1. CASE from = "learn"
      <3>1. Service!Results(request[c]) =
               Service!Only(Service!Failed) \cup
               {Service!Result(Service!WithWake(request[c].slot, v), saved,
                               Service!Done) : v \in Codes}
        BY <1>4, <2>1 DEF Service!Results
      <3> QED
        BY <1>1, <1>2, <1>5, <2>1, <3>1 DEF Service!Only, Service!WithWake
    <2>2. CASE from = "emit"
      <3>1. Service!Results(request[c]) = Service!Only(Service!Done)
        BY <1>4, <2>2 DEF Service!Results
      <3> QED
        BY <1>1, <1>2, <2>2, <3>1 DEF Service!Only
    <2> QED
      BY <2>1, <2>2
  <1>13. Service!Serve(c)
    BY <1>2, <1>3, <1>6, <1>12, ServeStep
  <1> QED
    BY <1>7, <1>11, <1>13 DEF Dialogue

\* The answer is the first and only one that is under way.
LEMMA AnswerSteps ==
  ASSUME Types, NEW c \in Clients, Dialogue(c), Answer
  PROVE  Dialogue(c)' /\ Idle
  <1>1. pc = "answer" /\ pc' \in {"reboot", "led"} /\ Send(AnswerReport)
    BY DEF Answer, Goto, AnswerReport
  <1>2. UNCHANGED <<inbox, request, outcome, reply, cells, saved>>
    BY DEF Answer, host_vars, store_vars, dialogue_vars
  <1>3. outcome[c] # Service!NoOutcome /\ request[c] # Service!NoRequest
    BY <1>1 DEF Dialogue, Unrequested, Unserved
  <1>4. NothingSent(c) /\ OfRequest(AnswerReport, c)
    BY <1>1, <1>3 DEF Dialogue, Served, Answering
  <1>5. in_flight' = in_flight \/ in_flight' = AnswerReport
    BY <1>1 DEF Send, in_vars
  <1>6. buffer'.status # STAT_CMD
    <2>1. PICK status \in {STAT_SUCCESS, STAT_FAILURE} :
             buffer' = [buffer EXCEPT !.cmd = Nobody, !.status = status]
      BY DEF Answer
    <2>2. buffer \in Buffer
      BY DEF Types, TypeOK
    <2>3. buffer'.status = status
      BY <2>1, <2>2 DEF Buffer
    <2> QED
      BY <2>3 DEF STAT_CMD, STAT_SUCCESS, STAT_FAILURE
  <1>7. ~ToServe' /\ ~Busy' /\ pc' # "answer"
    BY <1>1, <1>6 DEF ToServe, Busy
  <1>8. Reported(c)'
    <2>1. inbox'[c] = <<>>
      BY <1>2, <1>4 DEF NothingSent
    <2>2. in_flight'.report = "config" => OfRequest(in_flight, c)'
      <3>1. CASE in_flight' = in_flight
        BY <1>4, <3>1 DEF NothingSent
      <3>2. CASE in_flight' = AnswerReport
        BY <1>2, <1>4, <3>2 DEF OfRequest
      <3> QED
        BY <1>5, <3>1, <3>2
    <2> QED
      BY <1>7, <2>1, <2>2 DEF Reported
  <1>9. Unrequested(c)' /\ Unserved(c)' /\ Served(c)'
    BY <1>2, <1>3, <1>7, <1>8 DEF Unrequested, Unserved, Served, Answering
  <1>10. Idle
    BY <1>2 DEF Idle, Service!vars
  <1> QED
    BY <1>2, <1>9, <1>10 DEF Dialogue

LEMMA InitDialogue ==
  ASSUME Init, NEW c \in Clients
  PROVE  Dialogue(c)
  <1>1. /\ request[c] = Service!NoRequest /\ outcome[c] = Service!NoOutcome
        /\ DOMAIN outcome = Clients /\ inbox[c] = <<>>
        /\ in_flight = Free /\ pc = "task" /\ buffer.id = "none"
    BY DEF Init, Service!Init
  <1>2. NothingSent(c)
    BY <1>1, NoAnswers DEF NothingSent
  <1> QED
    BY <1>1, <1>2 DEF Dialogue, Unrequested, Unserved, Served, ToServe, Busy

\* Every request of a program that has the device for itself is carried out
\* once, between its call and its return, and the reply is its outcome and not
\* that of an earlier one: through one buffer that is command and answer, one
\* flag and one endpoint (usb_hid.c:116, main.c:924), whatever LED reports,
\* alarms, IR data, restarts and sleeps come in between.
THEOREM ServiceImplemented ==
  ASSUME NEW CONSTANT client, Clients = {client}
  PROVE  Spec => ImplementsService
  <1> DEFINE DInv == Types /\ Dialogue(client)
  <1>1. Init => Service!Init /\ DInv
    BY InitTypes, InitDialogue DEF Init
  <1>2. DInv /\ [Next]_vars => DInv' /\ [Service!Next]_(Service!vars)
    <2> SUFFICES ASSUME Types, Dialogue(client), [Next]_vars
                 PROVE  Types' /\ Dialogue(client)' /\
                        [Service!Next]_(Service!vars)
      OBVIOUS
    <2>1. Types'
      BY TypesStep
    <2>2. CASE Next
      <3>1. \/ Dialogue(client)' /\ Idle
            \/ Dialogue(client)' /\ Service!Learn
            \/ Dialogue(client)' /\ Service!Restart
            \/ Dialogue(client)' /\ Service!Serve(client)
            \/ Dialogue(client)' /\ Service!Call(client)
            \/ Dialogue(client)' /\ Service!Return(client)
        BY <2>2, CallbackSteps, LoopSteps, PressSteps, RestartSteps, FetchSteps,
           WriteSteps, ReadSteps, LedSteps, GetSteps, StoreSteps, SetSteps,
           LongStartSteps, LongSteps, AnswerSteps
        DEF Next, Loop, Callback, Host, Commands
      <3> QED
        BY <2>1, <3>1 DEF Idle, Service!Next
    <2>3. CASE UNCHANGED vars
      <3>1. /\ UNCHANGED <<pc, ret, serving, buffer, in_flight, inbox, request,
                           outcome, reply, cells, saved>>
        BY <2>3 DEF vars, loop_vars, out_vars, in_vars, host_vars, store_vars,
                    dialogue_vars
      <3>2. Dialogue(client)'
        BY <3>1, Beside DEF ToServe
      <3> QED
        BY <2>1, <3>1, <3>2 DEF Service!vars
    <2> QED
      BY <2>2, <2>3
  <1> QED
    BY <1>1, <1>2, PTL DEF Spec, ImplementsService, Service!Spec
=============================================================================
