-------------------------------- MODULE Irmp --------------------------------
(***************************************************************************)
(* The IR decoder (RP2xxx/irmp/irmp.c) as its user sees it: the timer      *)
(* interrupt irmp_ISR receives frames and detects that a key was released, *)
(* puts either into a mailbox of one entry, and irmp_get_data classifies   *)
(* the entry as new, repetition or release and empties the mailbox.        *)
(*                                                                         *)
(* Pulses and bits are left out: a frame either ends with a protocol and a *)
(* command (here address and command together) or is abandoned.  Time is   *)
(* counted in coarse ticks of delta_detection.  As long as the mailbox is  *)
(* full the interrupt only counts, so what is sent then is never seen.     *)
(***************************************************************************)
EXTENDS Integers

CONSTANTS
    Protocols,          \* the protocols in use
    Commands,           \* the address/command pairs in use
    UnknownProtocol,    \* IRMP_UNKNOWN_PROTOCOL
    NoCommand,          \* what stands in the command fields when nothing does
    Codes,              \* the frames that are sent
    Corrupt,            \* those of them that fail the checks of irmp_get_data
    Rejected,           \* frames that fail the checks of irmp_ISR (KASEIKYO)
    RepeatProtocols,    \* protocols with a repetition frame (NEC)
    Short,              \* per protocol, first intervals that do not count
    MinDelta0,          \* 170 ms in ticks
    RepeatMax,          \* NEC_FRAME_REPEAT_PAUSE_LEN_MAX in ticks
    MaxDelta            \* where delta_detection saturates (0xFFFF)

JITTER_COMPENSATION == 3

AnyCode == [protocol : Protocols \cup {UnknownProtocol},
            command : Commands \cup {NoCommand}]
Flag == {"repetition", "release", "force_release"}
IrmpData == [code : AnyCode, flags : SUBSET Flag]

Border(min) == (min * (100 + JITTER_COMPENSATION)) \div 100

ASSUME IrmpAssumption ==
    /\ UnknownProtocol \notin Protocols
    /\ NoCommand \notin Commands
    /\ Codes \subseteq [protocol : Protocols, command : Commands]
    /\ Corrupt \subseteq Codes
    /\ Rejected \subseteq [protocol : Protocols, command : Commands]
    /\ RepeatProtocols \subseteq Protocols
    /\ Short \in [Protocols -> Nat]
    /\ MinDelta0 \in Nat
    /\ RepeatMax \in Nat
    /\ MaxDelta \in Nat
    /\ MaxDelta > Border(MinDelta0)

VARIABLES
    receiving,              \* a frame is arriving: "no", "started", "long"
    irmp_ir_detected,       \* the mailbox is full
    irmp_code,              \* irmp_protocol with irmp_address and irmp_command
    irmp_flags,
    last_irmp_command,      \* last_irmp_address and last_irmp_command
    key_released,
    same_key,
    delta_detection,        \* ticks since the latest frame
    delta,                  \* interval of the latest two frames
    min_delta,              \* the repeat rate that was learnt
    upper_border,           \* ticks after which the key counts as released
    previous_irmp_protocol,
    release_pending

isr_vars == <<receiving, last_irmp_command, key_released, delta_detection>>
mailbox_vars == <<irmp_ir_detected, irmp_code, irmp_flags>>
rate_vars == <<same_key, delta, min_delta, upper_border,
               previous_irmp_protocol, release_pending>>
irmp_vars == <<isr_vars, mailbox_vars, rate_vars>>

Delta == 0 .. MaxDelta

IrmpTypeOK ==
    /\ receiving \in {"no", "started", "long"}
    /\ irmp_ir_detected \in BOOLEAN
    /\ irmp_code \in AnyCode
    /\ irmp_flags \in SUBSET Flag
    /\ last_irmp_command \in Commands \cup {NoCommand}
    /\ key_released \in BOOLEAN
    /\ same_key \in BOOLEAN
    /\ delta_detection \in Delta
    /\ delta \in Delta
    /\ min_delta \in 0 .. MinDelta0
    /\ upper_border \in 0 .. Border(MinDelta0)
    /\ previous_irmp_protocol \in Protocols \cup {UnknownProtocol}
    /\ release_pending \in BOOLEAN

IrmpInit ==
    /\ receiving = "no"
    /\ irmp_ir_detected = FALSE
    /\ irmp_code = [protocol |-> UnknownProtocol, command |-> NoCommand]
    /\ irmp_flags = {}
    /\ last_irmp_command = NoCommand
    /\ key_released = TRUE
    /\ same_key = FALSE
    /\ delta_detection = 0
    /\ delta = 0
    /\ min_delta = MinDelta0
    /\ upper_border = Border(MinDelta0)
    /\ previous_irmp_protocol = UnknownProtocol
    /\ release_pending = FALSE

-----------------------------------------------------------------------------
(***************************************************************************)
(* irmp_ISR                                                                *)
(***************************************************************************)
\* Mutant: the check that the mailbox is empty is left out.
ReleaseDueWhenFull ==
    /\ receiving = "no"
    /\ ~key_released
    /\ delta_detection > upper_border

\* Idle for longer than the border with a key that is not yet released.
ReleaseDue ==
    /\ ~irmp_ir_detected
    /\ receiving = "no"
    /\ ~key_released
    /\ delta_detection > upper_border

\* Mutant: the counter does not saturate.
TickUnbounded ==
    /\ ~ReleaseDue
    /\ delta_detection' = delta_detection + 1
    /\ receiving' = IF receiving = "started" THEN "long" ELSE receiving
    /\ UNCHANGED <<last_irmp_command, key_released, mailbox_vars, rate_vars>>

\* Time passes.  A release that is due is detected within one period of the
\* interrupt, and a frame lasts at least a tick.
Tick ==
    /\ ~ReleaseDue
    /\ delta_detection' = IF delta_detection < MaxDelta
                            THEN delta_detection + 1
                            ELSE delta_detection
    /\ receiving' = IF receiving = "started" THEN "long" ELSE receiving
    /\ UNCHANGED <<last_irmp_command, key_released, mailbox_vars, rate_vars>>

FrameStart ==
    /\ ~irmp_ir_detected
    /\ receiving = "no"
    /\ receiving' = "started"
    /\ UNCHANGED <<last_irmp_command, key_released, delta_detection,
                   mailbox_vars, rate_vars>>

\* Noise, a wrong pulse or pause, or a frame the protocol tells to ignore
\* before it is stored.
FrameAbandoned ==
    /\ receiving # "no"
    /\ receiving' = "no"
    /\ UNCHANGED <<last_irmp_command, key_released, delta_detection,
                   mailbox_vars, rate_vars>>

\* Mutants: the interval goes on counting; the decoder forgets that a key is
\* down now.
DetectKeepsCounting(code, flags) ==
    /\ receiving' = "no"
    /\ irmp_ir_detected' = TRUE
    /\ irmp_code' = code
    /\ irmp_flags' = flags
    /\ same_key' = (same_key \/ last_irmp_command = code.command)
    /\ delta' = delta_detection
    /\ last_irmp_command' = code.command
    /\ key_released' = FALSE
    /\ UNCHANGED <<delta_detection, min_delta, upper_border,
                   previous_irmp_protocol, release_pending>>

DetectKeepsReleased(code, flags) ==
    /\ receiving' = "no"
    /\ irmp_ir_detected' = TRUE
    /\ irmp_code' = code
    /\ irmp_flags' = flags
    /\ same_key' = (same_key \/ last_irmp_command = code.command)
    /\ delta' = delta_detection
    /\ delta_detection' = 0
    /\ last_irmp_command' = code.command
    /\ UNCHANGED <<key_released, min_delta, upper_border,
                   previous_irmp_protocol, release_pending>>

Detect(code, flags) ==
    /\ receiving' = "no"
    /\ irmp_ir_detected' = TRUE
    /\ irmp_code' = code
    /\ irmp_flags' = flags
    /\ same_key' = (same_key \/ last_irmp_command = code.command)
    /\ delta' = delta_detection
    /\ delta_detection' = 0
    /\ last_irmp_command' = code.command
    /\ key_released' = FALSE
    /\ UNCHANGED <<min_delta, upper_border, previous_irmp_protocol,
                   release_pending>>

FrameEnd(code) ==
    /\ receiving = "long"
    /\ Detect(code, {})

\* A frame that only says "the same again".  key_repetition_len, which tells
\* whether it comes in time, starts at the end of a frame like delta_detection.
RepetitionFrame(protocol) ==
    /\ receiving = "long"
    /\ delta_detection < RepeatMax
    /\ Detect([protocol |-> protocol, command |-> last_irmp_command],
              {"repetition"})

\* The two kinds of frame that are rejected only after they were stored: the
\* mailbox stays empty but irmp_protocol is what it was set to.  A repetition
\* frame that comes too late also sets last_irmp_address, to zero; NoCommand
\* stands for this pair, which is no button.
FrameRejected(code) ==
    /\ receiving = "long"
    /\ receiving' = "no"
    /\ irmp_code' = code
    /\ UNCHANGED <<last_irmp_command, key_released, delta_detection,
                   irmp_ir_detected, irmp_flags, rate_vars>>

LateRepetitionFrame(protocol) ==
    /\ receiving = "long"
    /\ delta_detection >= RepeatMax
    /\ receiving' = "no"
    /\ irmp_code' = [protocol |-> protocol, command |-> NoCommand]
    /\ last_irmp_command' = NoCommand
    /\ UNCHANGED <<key_released, delta_detection, irmp_ir_detected, irmp_flags,
                   rate_vars>>

\* Mutant: the release is detected again and again.
DetectReleaseRepeatedly ==
    /\ ReleaseDue
    /\ irmp_ir_detected' = TRUE
    /\ irmp_code' = [irmp_code EXCEPT !.command = last_irmp_command]
    /\ irmp_flags' = {"release"}
    /\ UNCHANGED <<isr_vars, rate_vars>>

DetectRelease ==
    /\ ReleaseDue
    /\ irmp_ir_detected' = TRUE
    /\ irmp_code' = [irmp_code EXCEPT !.command = last_irmp_command]
    /\ irmp_flags' = {"release"}
    /\ key_released' = TRUE
    /\ UNCHANGED <<receiving, last_irmp_command, delta_detection, rate_vars>>

ISR ==
    \/ FrameStart
    \/ FrameAbandoned
    \/ \E code \in Codes : FrameEnd(code)
    \/ \E code \in Rejected : FrameRejected(code)
    \/ \E protocol \in RepeatProtocols :
          RepetitionFrame(protocol) \/ LateRepetitionFrame(protocol)
    \/ DetectRelease

-----------------------------------------------------------------------------
(***************************************************************************)
(* irmp_get_data                                                           *)
(***************************************************************************)
EmptyMailbox(code) ==
    /\ irmp_ir_detected' = FALSE
    /\ irmp_code' = [code EXCEPT !.command = NoCommand]
    /\ irmp_flags' = {}

ProtocolChanged == irmp_code.protocol # previous_irmp_protocol

NewMinDelta ==
    IF ProtocolChanged THEN MinDelta0
    ELSE IF /\ same_key
            /\ delta < min_delta
            /\ irmp_code.protocol \in Protocols => delta >= Short[irmp_code.protocol]
           THEN delta
           ELSE min_delta

IsRepetition ==
    /\ ~ProtocolChanged
    /\ same_key
    /\ delta <= Border(NewMinDelta)

ClassifiedFlags ==
    irmp_flags \cup (IF IsRepetition THEN {"repetition"} ELSE {})

\* Mutant: the release that is still owed is not announced.
ReturnedFlagsUnforced == ClassifiedFlags

ReturnedFlags ==
    IF ClassifiedFlags = {} /\ release_pending
      THEN {"force_release"}
      ELSE ClassifiedFlags

\* irmp_get_data finds data that passes the checks of its protocol; Returned is
\* what it stores.
HasData == irmp_ir_detected /\ irmp_code \notin Corrupt
Returned == [code |-> irmp_code, flags |-> ReturnedFlags]

\* Mutant: same_key is not reset.
GetDataKeepsSameKey ==
    /\ HasData
    /\ min_delta' = NewMinDelta
    /\ upper_border' = Border(NewMinDelta)
    /\ delta' = IF ProtocolChanged THEN 0 ELSE delta
    /\ previous_irmp_protocol' = irmp_code.protocol
    /\ release_pending' =
          IF "release" \in ClassifiedFlags THEN FALSE
          ELSE IF "repetition" \in ClassifiedFlags THEN release_pending
          ELSE TRUE
    /\ EmptyMailbox(irmp_code)
    /\ UNCHANGED <<isr_vars, same_key>>

GetData ==
    /\ HasData
    /\ min_delta' = NewMinDelta
    /\ upper_border' = Border(NewMinDelta)
    /\ delta' = IF ProtocolChanged THEN 0 ELSE delta
    /\ same_key' = (same_key /\ ProtocolChanged)
    /\ previous_irmp_protocol' = irmp_code.protocol
    /\ release_pending' =
          IF "release" \in ClassifiedFlags THEN FALSE
          ELSE IF "repetition" \in ClassifiedFlags THEN release_pending
          ELSE TRUE
    /\ EmptyMailbox(irmp_code)
    /\ UNCHANGED isr_vars

\* The data fails the checks: irmp_get_data returns FALSE.
DropData ==
    /\ irmp_ir_detected
    /\ irmp_code \in Corrupt
    /\ EmptyMailbox([irmp_code EXCEPT !.protocol = UnknownProtocol])
    /\ UNCHANGED <<isr_vars, rate_vars>>
=============================================================================
