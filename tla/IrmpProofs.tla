----------------------------- MODULE IrmpProofs ------------------------------
(***************************************************************************)
(* Lemmas about module Irmp, for any protocols, commands and timing.       *)
(*                                                                         *)
(* Every step of the interrupt and of irmp_get_data keeps the types.  What *)
(* is not obvious is the learnt repeat rate: it only ever gets shorter     *)
(* than its preset, and the border that is computed from it is monotonic.  *)
(*                                                                         *)
(* For remote controls without repetition frames whose commands tell them  *)
(* apart, interrupt and irmp_get_data keep an invariant of their common    *)
(* variables, whenever the latter is called: ButtonsInv.                   *)
(***************************************************************************)
EXTENDS Irmp, TLAPS

LEMMA BorderBounds ==
  ASSUME NEW m \in 0 .. MinDelta0
  PROVE  Border(m) \in 0 .. Border(MinDelta0)
  BY IrmpAssumption DEF Border, JITTER_COMPENSATION

LEMMA InitType == IrmpInit => IrmpTypeOK
  <1>1. MinDelta0 \in 0 .. MinDelta0
    BY IrmpAssumption
  <1>2. Border(MinDelta0) \in 0 .. Border(MinDelta0)
    BY <1>1, BorderBounds
  <1>3. 0 \in Delta
    BY IrmpAssumption DEF Delta
  <1>4. [protocol |-> UnknownProtocol, command |-> NoCommand] \in AnyCode
    BY DEF AnyCode
  <1> QED
    BY <1>1, <1>2, <1>3, <1>4, Zenon DEF IrmpInit, IrmpTypeOK

LEMMA TickType == IrmpTypeOK /\ Tick => IrmpTypeOK'
  <1> SUFFICES ASSUME IrmpTypeOK, Tick
               PROVE  IrmpTypeOK'
    OBVIOUS
  <1>1. delta_detection' \in Delta
    BY IrmpAssumption DEF IrmpTypeOK, Tick, Delta
  <1>2. receiving' \in {"no", "started", "long"}
    BY DEF IrmpTypeOK, Tick
  <1>3. UNCHANGED <<last_irmp_command, key_released, mailbox_vars, rate_vars>>
    BY DEF Tick
  <1> QED
    BY <1>1, <1>2, <1>3 DEF IrmpTypeOK, Delta, mailbox_vars, rate_vars

LEMMA DetectType ==
  ASSUME IrmpTypeOK,
         NEW code \in AnyCode,
         NEW flags \in SUBSET Flag,
         Detect(code, flags)
  PROVE  IrmpTypeOK'
  <1>1. delta' \in Delta /\ delta_detection' \in Delta
    BY IrmpAssumption DEF IrmpTypeOK, Detect, Delta
  <1>2. last_irmp_command' \in Commands \cup {NoCommand}
    BY DEF Detect, AnyCode
  <1>3. same_key' \in BOOLEAN
    BY Zenon DEF IrmpTypeOK, Detect
  <1> QED
    BY <1>1, <1>2, <1>3 DEF IrmpTypeOK, Detect, Delta

LEMMA ISRType == IrmpTypeOK /\ ISR => IrmpTypeOK'
  <1> SUFFICES ASSUME IrmpTypeOK, ISR
               PROVE  IrmpTypeOK'
    OBVIOUS
  <1>1. CASE FrameStart \/ FrameAbandoned
    BY <1>1 DEF FrameStart, FrameAbandoned, IrmpTypeOK, mailbox_vars, rate_vars
  <1>2. ASSUME NEW code \in Codes, FrameEnd(code)
        PROVE  IrmpTypeOK'
    BY <1>2, DetectType, IrmpAssumption DEF FrameEnd, AnyCode
  <1>3. ASSUME NEW code \in Rejected, FrameRejected(code)
        PROVE  IrmpTypeOK'
    BY <1>3, IrmpAssumption DEF FrameRejected, IrmpTypeOK, AnyCode, rate_vars
  <1>4. ASSUME NEW protocol \in RepeatProtocols, RepetitionFrame(protocol)
        PROVE  IrmpTypeOK'
    <2>1. [protocol |-> protocol, command |-> last_irmp_command] \in AnyCode
      BY IrmpAssumption DEF IrmpTypeOK, AnyCode
    <2>2. {"repetition"} \in SUBSET Flag
      BY DEF Flag
    <2> QED
      BY <1>4, <2>1, <2>2, DetectType DEF RepetitionFrame
  <1>5. ASSUME NEW protocol \in RepeatProtocols, LateRepetitionFrame(protocol)
        PROVE  IrmpTypeOK'
    BY <1>5, IrmpAssumption
    DEF LateRepetitionFrame, IrmpTypeOK, AnyCode, rate_vars
  <1>6. CASE DetectRelease
    BY <1>6 DEF DetectRelease, IrmpTypeOK, AnyCode, Flag, rate_vars
  <1> QED
    BY <1>1, <1>2, <1>3, <1>4, <1>5, <1>6 DEF ISR

\* The repeat rate that irmp_get_data learns is at most the preset one.
LEMMA NewMinDeltaType ==
  ASSUME IrmpTypeOK
  PROVE  NewMinDelta \in 0 .. MinDelta0
  BY IrmpAssumption DEF IrmpTypeOK, NewMinDelta, Delta

LEMMA ReturnedType ==
  ASSUME IrmpTypeOK
  PROVE  Returned \in IrmpData
  BY DEF IrmpTypeOK, Returned, ReturnedFlags, ClassifiedFlags, IrmpData, Flag

LEMMA MailboxType ==
  ASSUME NEW code \in AnyCode, EmptyMailbox(code)
  PROVE  /\ irmp_ir_detected' \in BOOLEAN
         /\ irmp_code' \in AnyCode
         /\ irmp_flags' \in SUBSET Flag
  BY DEF EmptyMailbox, AnyCode

LEMMA GetDataType == IrmpTypeOK /\ GetData => IrmpTypeOK'
  <1> SUFFICES ASSUME IrmpTypeOK, GetData
               PROVE  IrmpTypeOK'
    OBVIOUS
  <1>1. min_delta' \in 0 .. MinDelta0 /\ upper_border' \in 0 .. Border(MinDelta0)
    BY NewMinDeltaType, BorderBounds DEF GetData
  <1>2. delta' \in Delta
    BY IrmpAssumption DEF GetData, IrmpTypeOK, Delta
  <1>3. /\ irmp_ir_detected' \in BOOLEAN
        /\ irmp_code' \in AnyCode
        /\ irmp_flags' \in SUBSET Flag
    BY MailboxType DEF GetData, IrmpTypeOK
  <1>4. previous_irmp_protocol' \in Protocols \cup {UnknownProtocol}
    BY DEF GetData, IrmpTypeOK, AnyCode
  <1>5. same_key' \in BOOLEAN /\ release_pending' \in BOOLEAN
    BY Zenon DEF GetData, IrmpTypeOK
  <1>6. UNCHANGED isr_vars
    BY DEF GetData
  <1> QED
    BY <1>1, <1>2, <1>3, <1>4, <1>5, <1>6 DEF IrmpTypeOK, isr_vars, Delta

LEMMA DropDataType == IrmpTypeOK /\ DropData => IrmpTypeOK'
  <1> SUFFICES ASSUME IrmpTypeOK, DropData
               PROVE  IrmpTypeOK'
    OBVIOUS
  <1>1. [irmp_code EXCEPT !.protocol = UnknownProtocol] \in AnyCode
    BY DEF IrmpTypeOK, AnyCode
  <1> QED
    BY <1>1, MailboxType DEF DropData, IrmpTypeOK, isr_vars, rate_vars

LEMMA StutterType == IrmpTypeOK /\ UNCHANGED irmp_vars => IrmpTypeOK'
  BY DEF IrmpTypeOK, irmp_vars, isr_vars, mailbox_vars, rate_vars

-----------------------------------------------------------------------------
(***************************************************************************)
(* irmp_ISR and irmp_get_data share the mailbox without a lock.  That this *)
(* is sound rests on an invariant that no line of the code states: no      *)
(* frame is being received while the mailbox is full, because a frame is   *)
(* only begun when it is empty (irmp.c:3351) and the frame that fills it   *)
(* ends with that.                                                         *)
(***************************************************************************)
FullMeansIdle == irmp_ir_detected => receiving = "no"

LEMMA TimeIdle ==
  ASSUME FullMeansIdle, Tick \/ ISR
  PROVE  FullMeansIdle'
  <1>1. CASE Tick
    BY <1>1 DEF Tick, FullMeansIdle, mailbox_vars
  <1>2. CASE FrameStart \/ DetectRelease
    BY <1>2
    DEF FrameStart, DetectRelease, ReleaseDue, FullMeansIdle, mailbox_vars
  <1>3. CASE ISR /\ ~(FrameStart \/ DetectRelease)
    <2>1. receiving' = "no"
      BY <1>3
      DEF ISR, FrameAbandoned, FrameEnd, Detect, FrameRejected,
          RepetitionFrame, LateRepetitionFrame
    <2> QED
      BY <2>1 DEF FullMeansIdle
  <1> QED
    BY <1>1, <1>2, <1>3

-----------------------------------------------------------------------------
(***************************************************************************)
(* The presses, repetitions and releases are those of buttons, for remote  *)
(* controls without repetition frames whose commands tell them apart:      *)
(* irmp_ISR compares address and command with the latest frame and not the *)
(* protocol (irmp.c:5601).                                                 *)
(***************************************************************************)
OwnCommands ==
    \A c, d \in Codes : c.command = d.command => c.protocol = d.protocol

PlainFrames == RepeatProtocols = {} /\ Rejected = {} /\ OwnCommands

\* The latest frame, of which irmp_ISR keeps address and command.
LatestFrame == [protocol |-> irmp_code.protocol, command |-> last_irmp_command]

\* A key counts as released only when it was silent for longer than the border.
Silence ==
    /\ upper_border = Border(min_delta)
    /\ last_irmp_command # NoCommand => LatestFrame \in Codes
    /\ key_released /\ last_irmp_command # NoCommand
         => delta_detection > upper_border

\* The interrupt and the user agree on whether a key is held once the mailbox
\* is empty.
MailboxEmpty ==
    ~irmp_ir_detected =>
        /\ key_released = ~release_pending
        /\ ~same_key
        /\ previous_irmp_protocol = irmp_code.protocol

MailboxHoldsRelease ==
    irmp_ir_detected /\ irmp_flags = {"release"} =>
        /\ irmp_code = LatestFrame
        /\ key_released
        /\ release_pending
        /\ ~same_key
        /\ previous_irmp_protocol = irmp_code.protocol

\* A frame like the one before it is of the key that is held, or comes too late
\* to be taken for its repetition.
MailboxHoldsFrame ==
    irmp_ir_detected /\ irmp_flags = {} =>
        /\ irmp_code = LatestFrame
        /\ ~key_released
        /\ same_key => /\ previous_irmp_protocol = irmp_code.protocol
                       /\ release_pending \/ delta > upper_border

ButtonsInv ==
    /\ FullMeansIdle
    /\ irmp_ir_detected => irmp_flags \in {{}, {"release"}}
    /\ Silence
    /\ MailboxEmpty
    /\ MailboxHoldsRelease
    /\ MailboxHoldsFrame

\* The code of the press that is owed a release: the latest frame, unless that
\* was one of another key and is still in the mailbox.
IsHeld(code) ==
    release_pending =>
        \/ code = LatestFrame
        \/ irmp_ir_detected /\ irmp_flags = {} /\ ~same_key

LEMMA InitButtons == IrmpInit => ButtonsInv /\ ~release_pending
  <1> SUFFICES ASSUME IrmpInit
               PROVE  ButtonsInv /\ ~release_pending
    OBVIOUS
  <1>1. ~irmp_ir_detected /\ ~release_pending /\ key_released = TRUE
    BY DEF IrmpInit
  <1>2. Silence
    BY DEF IrmpInit, Silence
  <1>3. MailboxEmpty
    BY DEF IrmpInit, MailboxEmpty
  <1> QED
    BY <1>1, <1>2, <1>3
    DEF ButtonsInv, FullMeansIdle, MailboxHoldsRelease, MailboxHoldsFrame

\* The border follows the repeat rate, so a shorter rate never makes a key that
\* counts as released a key that is held.
LEMMA BorderMonotone ==
  ASSUME NEW m \in Nat, NEW n \in Nat, m <= n
  PROVE  Border(m) <= Border(n)
  BY DEF Border, JITTER_COMPENSATION

LEMMA ButtonsStutter ==
  ASSUME ButtonsInv, UNCHANGED irmp_vars
  PROVE  ButtonsInv' /\ \A code : IsHeld(code) => IsHeld(code)'
  BY DEF irmp_vars, isr_vars, mailbox_vars, rate_vars, ButtonsInv,
         FullMeansIdle, Silence, MailboxEmpty, MailboxHoldsRelease,
         MailboxHoldsFrame, LatestFrame, IsHeld

\* What the latest frame was is not changed by anything but a frame.
LEMMA TickButtons ==
  ASSUME IrmpTypeOK, ButtonsInv, Tick
  PROVE  ButtonsInv' /\ \A code : IsHeld(code) => IsHeld(code)'
  <1>1. IrmpTypeOK' /\ FullMeansIdle'
    BY TickType, TimeIdle DEF ButtonsInv
  <1>2. /\ delta_detection' >= delta_detection
        /\ UNCHANGED <<last_irmp_command, key_released, mailbox_vars, rate_vars>>
    BY IrmpAssumption DEF Tick, IrmpTypeOK, Delta
  <1>3. upper_border \in Int /\ delta_detection \in Int /\ delta_detection' \in Int
    BY <1>1, IrmpAssumption
    DEF IrmpTypeOK, Delta, Border, JITTER_COMPENSATION
  <1>4. Silence'
    BY <1>2, <1>3
    DEF ButtonsInv, Silence, LatestFrame, mailbox_vars, rate_vars
  <1> QED
    BY <1>1, <1>2, <1>4
    DEF ButtonsInv, MailboxEmpty, MailboxHoldsRelease, MailboxHoldsFrame,
        LatestFrame, IsHeld, mailbox_vars, rate_vars

LEMMA FrameEndButtons ==
  ASSUME OwnCommands, ButtonsInv, NEW code \in Codes, FrameEnd(code)
  PROVE  ButtonsInv' /\ \A held : IsHeld(held) => IsHeld(held)'
  <1>1. FullMeansIdle'
    BY TimeIdle DEF ButtonsInv, ISR
  <1>2. /\ ~irmp_ir_detected
        /\ code.command # NoCommand
        /\ code = [protocol |-> code.protocol, command |-> code.command]
    BY IrmpAssumption DEF ButtonsInv, FullMeansIdle, FrameEnd
  <1>3. /\ irmp_ir_detected' /\ irmp_code' = code /\ irmp_flags' = {}
        /\ same_key' = (same_key \/ last_irmp_command = code.command)
        /\ delta' = delta_detection
        /\ last_irmp_command' = code.command /\ key_released' = FALSE
        /\ UNCHANGED <<min_delta, upper_border, previous_irmp_protocol,
                       release_pending>>
    BY DEF FrameEnd, Detect
  <1>4. LatestFrame' = code
    BY <1>2, <1>3 DEF LatestFrame
  <1>5. same_key' => LatestFrame = code
    BY <1>2, <1>3
    DEF ButtonsInv, Silence, MailboxEmpty, OwnCommands, LatestFrame
  <1>6. same_key' => /\ previous_irmp_protocol = code.protocol
                     /\ release_pending \/ delta_detection > upper_border
    BY <1>2, <1>3, <1>5 DEF ButtonsInv, Silence, MailboxEmpty, LatestFrame
  <1>7. MailboxHoldsFrame'
    BY <1>3, <1>4, <1>6 DEF MailboxHoldsFrame
  <1>8. Silence'
    BY <1>3, <1>4 DEF ButtonsInv, Silence
  <1>9. ASSUME NEW held, IsHeld(held)
        PROVE  IsHeld(held)'
    BY <1>2, <1>3, <1>4, <1>5, <1>9 DEF IsHeld
  <1> QED
    BY <1>1, <1>3, <1>7, <1>8, <1>9
    DEF ButtonsInv, MailboxEmpty, MailboxHoldsRelease

LEMMA DetectReleaseButtons ==
  ASSUME IrmpTypeOK, ButtonsInv, DetectRelease
  PROVE  ButtonsInv' /\ \A code : IsHeld(code) => IsHeld(code)'
  <1>1. FullMeansIdle'
    BY TimeIdle DEF ButtonsInv, ISR
  <1>2. irmp_code \in AnyCode
    BY DEF IrmpTypeOK
  <1>3. irmp_code' = LatestFrame
    BY <1>2 DEF DetectRelease, LatestFrame, AnyCode
  <1>4. LatestFrame' = LatestFrame
    BY <1>3 DEF LatestFrame, DetectRelease
  <1>5. /\ release_pending /\ ~same_key
        /\ previous_irmp_protocol = irmp_code'.protocol
    BY <1>3 DEF ButtonsInv, MailboxEmpty, DetectRelease, ReleaseDue, LatestFrame
  <1>6. Silence'
    BY <1>4 DEF ButtonsInv, Silence, DetectRelease, ReleaseDue, rate_vars
  <1>7. ASSUME NEW code, IsHeld(code)
        PROVE  IsHeld(code)'
    BY <1>4, <1>7 DEF IsHeld, DetectRelease, ReleaseDue, rate_vars
  <1> QED
    BY <1>1, <1>3, <1>4, <1>5, <1>6, <1>7
    DEF ButtonsInv, MailboxEmpty, MailboxHoldsRelease, MailboxHoldsFrame,
        DetectRelease, rate_vars

LEMMA TimeButtons ==
  ASSUME PlainFrames, IrmpTypeOK, ButtonsInv, Tick \/ ISR
  PROVE  ButtonsInv' /\ \A code : IsHeld(code) => IsHeld(code)'
  <1>1. CASE Tick
    BY <1>1, TickButtons
  <1>2. CASE FrameStart \/ FrameAbandoned
    <2>1. FullMeansIdle'
      BY TimeIdle DEF ButtonsInv
    <2> QED
      BY <1>2, <2>1
      DEF FrameStart, FrameAbandoned, ButtonsInv, Silence, IsHeld,
          MailboxEmpty, MailboxHoldsRelease, MailboxHoldsFrame, LatestFrame,
          mailbox_vars, rate_vars
  <1>3. ASSUME NEW code \in Codes, FrameEnd(code)
        PROVE  ButtonsInv' /\ \A held : IsHeld(held) => IsHeld(held)'
    BY <1>3, FrameEndButtons DEF PlainFrames
  <1>4. CASE DetectRelease
    BY <1>4, DetectReleaseButtons
  <1> QED
    BY <1>1, <1>2, <1>3, <1>4 DEF PlainFrames, ISR

\* A frame that is not owed a release is never classified as a repetition: the
\* rate it is measured with is the one the silence was measured with, or shorter.
LEMMA RepetitionIsOfHeld ==
  ASSUME IrmpTypeOK, ButtonsInv, irmp_ir_detected, irmp_flags = {}, IsRepetition
  PROVE  release_pending /\ \A code : IsHeld(code) => code = LatestFrame
  <1>1. /\ min_delta \in Nat /\ delta \in Nat
        /\ NewMinDelta \in Nat
        /\ Border(min_delta) \in Int /\ Border(NewMinDelta) \in Int
    BY NewMinDeltaType, IrmpAssumption
    DEF IrmpTypeOK, Delta, Border, JITTER_COMPENSATION
  <1>2. NewMinDelta <= min_delta
    BY <1>1 DEF NewMinDelta, IsRepetition
  <1>3. Border(NewMinDelta) <= Border(min_delta)
    BY <1>1, <1>2, BorderMonotone
  <1>4. ~(delta > upper_border)
    BY <1>1, <1>3 DEF IsRepetition, ButtonsInv, Silence
  <1>5. release_pending /\ same_key
    BY <1>4 DEF IsRepetition, ButtonsInv, MailboxHoldsFrame
  <1> QED
    BY <1>5 DEF IsHeld

\* What the user is told of a frame and of a release.
LEMMA ReturnedFrame ==
  ASSUME ButtonsInv, irmp_ir_detected, irmp_flags = {}
  PROVE  /\ ClassifiedFlags = IF IsRepetition THEN {"repetition"} ELSE {}
         /\ ReturnedFlags = CASE IsRepetition -> {"repetition"}
                              [] ~IsRepetition /\ release_pending -> {"force_release"}
                              [] OTHER -> {}
  BY DEF ReturnedFlags, ClassifiedFlags

LEMMA ReturnedRelease ==
  ASSUME ButtonsInv, irmp_ir_detected, irmp_flags = {"release"}
  PROVE  ClassifiedFlags = {"release"} /\ ReturnedFlags = {"release"}
  BY DEF ButtonsInv, MailboxHoldsRelease, IsRepetition, ClassifiedFlags,
         ReturnedFlags

\* Once the mailbox is read, a key is held if it held a frame, and is the one
\* of that frame.
LEMMA ReadButtons ==
  ASSUME IrmpTypeOK, ButtonsInv, GetData
  PROVE  /\ ButtonsInv'
         /\ irmp_flags \in {{}, {"release"}}
         /\ irmp_code = LatestFrame
         /\ LatestFrame' = LatestFrame
         /\ release_pending' <=> irmp_flags = {}
         /\ IsHeld(LatestFrame)'
  <1>1. IrmpTypeOK' /\ FullMeansIdle'
    BY GetDataType DEF GetData, EmptyMailbox, FullMeansIdle
  <1>2. /\ irmp_ir_detected /\ irmp_code = LatestFrame /\ irmp_code \in AnyCode
        /\ irmp_flags \in {{}, {"release"}}
    BY DEF ButtonsInv, GetData, HasData, IrmpTypeOK,
           MailboxHoldsFrame, MailboxHoldsRelease
  <1>3. /\ ~irmp_ir_detected'
        /\ irmp_code'.protocol = irmp_code.protocol
        /\ previous_irmp_protocol' = irmp_code.protocol
        /\ upper_border' = Border(min_delta')
        /\ UNCHANGED isr_vars
    BY <1>2 DEF GetData, EmptyMailbox, AnyCode
  <1>4. LatestFrame' = LatestFrame
    BY <1>3 DEF LatestFrame, isr_vars
  <1>5. ~same_key'
    BY <1>2
    DEF GetData, ButtonsInv, MailboxHoldsFrame, MailboxHoldsRelease,
        ProtocolChanged
  <1>6. Silence'
    <2>1. key_released /\ last_irmp_command # NoCommand
            => delta_detection > upper_border'
      <3> SUFFICES ASSUME key_released, last_irmp_command # NoCommand
                   PROVE  delta_detection > upper_border'
        OBVIOUS
      <3>1. irmp_flags = {"release"}
        BY <1>2 DEF ButtonsInv, MailboxHoldsFrame
      <3>2. ~same_key /\ ~ProtocolChanged
        BY <1>2, <3>1 DEF ButtonsInv, MailboxHoldsRelease, ProtocolChanged
      <3>3. upper_border' = upper_border
        BY <3>2 DEF GetData, NewMinDelta, ButtonsInv, Silence
      <3> QED
        BY <3>3 DEF ButtonsInv, Silence
    <2> QED
      BY <1>3, <1>4, <2>1 DEF ButtonsInv, Silence, isr_vars
  <1>7. /\ key_released = ~release_pending'
        /\ release_pending' <=> irmp_flags = {}
    <2>1. CASE irmp_flags = {}
      <3>1. release_pending' /\ ~key_released
        BY <1>2, <2>1, ReturnedFrame, RepetitionIsOfHeld
        DEF GetData, ButtonsInv, MailboxHoldsFrame
      <3>2. key_released = FALSE
        BY <3>1 DEF IrmpTypeOK
      <3> QED
        BY <2>1, <3>1, <3>2
    <2>2. CASE irmp_flags = {"release"}
      BY <1>2, <2>2, ReturnedRelease
      DEF GetData, ButtonsInv, MailboxHoldsRelease, IrmpTypeOK
    <2> QED
      BY <1>2, <2>1, <2>2
  <1> QED
    BY <1>1, <1>2, <1>3, <1>4, <1>5, <1>6, <1>7
    DEF ButtonsInv, MailboxEmpty, MailboxHoldsRelease, MailboxHoldsFrame,
        IsHeld, isr_vars
=============================================================================
