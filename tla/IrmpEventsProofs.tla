-------------------------- MODULE IrmpEventsProofs ---------------------------
(***************************************************************************)
(* Theorems about the decoder and a user that polls it, for any protocols, *)
(* codes and timing and any delay between two polls.                       *)
(***************************************************************************)
EXTENDS IrmpEvents, IrmpProofs

EInv == EventsTypeOK /\ FullMeansIdle

LEMMA InitEInv == EventsInit => EInv
  <1> SUFFICES ASSUME EventsInit
               PROVE  EInv
    OBVIOUS
  <1>1. IrmpTypeOK
    BY InitType DEF EventsInit
  <1>2. FullMeansIdle
    BY DEF EventsInit, IrmpInit, FullMeansIdle
  <1> QED
    BY <1>1, <1>2 DEF EventsInit, EInv, EventsTypeOK

LEMMA InterruptEInv == EInv /\ Interrupt => EInv'
  <1> SUFFICES ASSUME EInv, Interrupt
               PROVE  EInv'
    OBVIOUS
  <1>1. IrmpTypeOK'
    BY TickType, ISRType DEF EInv, EventsTypeOK, Interrupt
  <1>2. FullMeansIdle'
    BY TimeIdle DEF EInv, Interrupt
  <1> QED
    BY <1>1, <1>2 DEF Interrupt, EInv, EventsTypeOK

LEMMA ReadEInv == EInv /\ Read => EInv'
  <1> SUFFICES ASSUME EInv, Read
               PROVE  EInv'
    OBVIOUS
  <1>1. IrmpTypeOK'
    BY GetDataType DEF EInv, EventsTypeOK, Read
  <1>2. Returned \in IrmpData
    BY ReturnedType DEF EInv, EventsTypeOK
  <1>3. Returned.code \in AnyCode
    BY <1>2 DEF IrmpData
  <1>4. FullMeansIdle'
    BY DEF Read, GetData, EmptyMailbox, FullMeansIdle
  <1> QED
    BY <1>1, <1>2, <1>3, <1>4 DEF Read, EInv, EventsTypeOK

LEMMA StepEInv == EInv /\ [EventsNext]_ievars => EInv'
  <1> SUFFICES ASSUME EInv, [EventsNext]_ievars
               PROVE  EInv'
    OBVIOUS
  <1>1. CASE EventsNext
    BY <1>1, InterruptEInv, ReadEInv DEF EventsNext
  <1>2. CASE UNCHANGED ievars
    <2>1. UNCHANGED <<irmp_vars, pressed, event, turn>>
      BY <1>2 DEF ievars
    <2>2. IrmpTypeOK'
      BY <2>1, StutterType DEF EInv, EventsTypeOK
    <2> QED
      BY <2>1, <2>2
      DEF EInv, EventsTypeOK, FullMeansIdle, irmp_vars, isr_vars, mailbox_vars
  <1> QED
    BY <1>1, <1>2

\* The invariant is inductive.
THEOREM Invariance == EventsSpec => []EInv
  BY InitEInv, StepEInv, PTL DEF EventsSpec

\* Type correctness of the decoder and of what its user is told.
THEOREM TypeCorrect == EventsSpec => []EventsTypeOK
  <1>1. EInv => EventsTypeOK
    BY DEF EInv
  <1> QED
    BY <1>1, Invariance, PTL

-----------------------------------------------------------------------------
LEMMA StepStable == EInv /\ [EventsNext]_ievars => [MailboxStableStep]_ievars
  <1> SUFFICES ASSUME EInv, EventsNext, irmp_ir_detected, irmp_ir_detected'
               PROVE  UNCHANGED <<mailbox_vars, delta, same_key>>
    BY DEF MailboxStableStep
  <1>1. CASE Tick
    BY <1>1 DEF Tick, rate_vars
  <1>2. CASE ISR
    BY <1>2
    DEF EInv, FullMeansIdle, ISR, FrameStart, FrameAbandoned, FrameEnd,
        FrameRejected, RepetitionFrame, LateRepetitionFrame, DetectRelease,
        ReleaseDue
  <1>3. CASE Read
    BY <1>3 DEF Read, GetData, EmptyMailbox
  <1> QED
    BY <1>1, <1>2, <1>3 DEF EventsNext, Interrupt

\* A full mailbox is left alone by the interrupt, however long its user takes:
\* irmp_get_data never reads a mixture of two frames (irmp.c:3351, 2885-2940).
THEOREM MailboxLeftAlone == EventsSpec => MailboxStable
  BY StepStable, Invariance, PTL DEF EventsSpec, MailboxStable

-----------------------------------------------------------------------------
\* For remote controls whose commands tell them apart (OwnCommands) and that
\* send no repetition frames, the button that is held is the one that the user
\* was told of.
PressedInv ==
    /\ EInv
    /\ ButtonsInv
    /\ IsHeld(pressed)
    /\ release_pending => pressed \in AnyCode

LEMMA InitPressedInv == EventsInit => PressedInv
  <1>1. EventsInit => EInv
    BY InitEInv
  <1>2. EventsInit => ButtonsInv /\ ~release_pending
    BY InitButtons DEF EventsInit
  <1> QED
    BY <1>1, <1>2 DEF PressedInv, IsHeld

LEMMA InterruptPressedInv ==
  ASSUME RepeatProtocols = {}, OwnCommands, PressedInv, Interrupt
  PROVE  PressedInv'
  <1>1. EInv'
    BY InterruptEInv DEF PressedInv
  <1>2. PlainFrames /\ IrmpTypeOK
    BY EventsAssumption DEF PlainFrames, PressedInv, EInv, EventsTypeOK
  <1>3. ButtonsInv' /\ \A code : IsHeld(code) => IsHeld(code)'
    BY <1>2, TimeButtons DEF PressedInv, Interrupt
  <1>4. IsHeld(pressed)'
    <2>1. PICK code : code = pressed
      OBVIOUS
    <2>2. IsHeld(code)' /\ code = pressed'
      BY <1>3, <2>1 DEF PressedInv, Interrupt
    <2> QED
      BY <2>2 DEF IsHeld
  <1>5. UNCHANGED <<pressed, release_pending>>
    BY DEF Interrupt, Tick, ISR, FrameStart, FrameAbandoned, FrameEnd, Detect,
           FrameRejected, RepetitionFrame, LateRepetitionFrame, DetectRelease,
           rate_vars
  <1> QED
    BY <1>1, <1>3, <1>4, <1>5 DEF PressedInv

\* What a call that finds data makes of a frame and of a release.
LEMMA ReadFrame ==
  ASSUME PressedInv, Read, irmp_flags = {}
  PROVE  /\ release_pending' /\ pressed' = irmp_code
         /\ IsRepetition => release_pending /\ pressed = irmp_code
  <1>1. IrmpTypeOK /\ ButtonsInv /\ irmp_ir_detected
    BY DEF PressedInv, EInv, EventsTypeOK, Read, GetData, HasData
  <1>2. irmp_code = LatestFrame /\ release_pending'
    BY <1>1, ReadButtons DEF Read
  <1>3. CASE IsRepetition
    BY <1>1, <1>2, <1>3, ReturnedFrame, RepetitionIsOfHeld
    DEF PressedInv, Read, IsPress, Returned
  <1>4. CASE ~IsRepetition
    BY <1>1, <1>2, <1>4, ReturnedFrame DEF Read, IsPress, Returned
  <1> QED
    BY <1>2, <1>3, <1>4

LEMMA ReadPressedInv ==
  ASSUME PressedInv, Read
  PROVE  PressedInv'
  <1>1. EInv'
    BY ReadEInv DEF PressedInv
  <1>2. /\ ButtonsInv' /\ irmp_flags \in {{}, {"release"}}
        /\ irmp_code = LatestFrame /\ LatestFrame' = LatestFrame
        /\ release_pending' <=> irmp_flags = {}
        /\ irmp_code \in AnyCode
    BY ReadButtons DEF Read, PressedInv, EInv, EventsTypeOK, IrmpTypeOK
  <1>3. release_pending' => pressed' = irmp_code
    BY <1>2, ReadFrame
  <1> QED
    BY <1>1, <1>2, <1>3 DEF PressedInv, IsHeld

LEMMA StepPressedInv ==
  ASSUME RepeatProtocols = {}, OwnCommands, PressedInv, [EventsNext]_ievars
  PROVE  PressedInv'
  <1>1. CASE Interrupt
    BY <1>1, InterruptPressedInv
  <1>2. CASE Read
    BY <1>2, ReadPressedInv
  <1>3. CASE UNCHANGED ievars
    <2>1. EInv' /\ UNCHANGED <<irmp_vars, pressed>>
      BY <1>3, StepEInv DEF PressedInv, ievars
    <2>2. ButtonsInv'
      BY <2>1, ButtonsStutter DEF PressedInv
    <2> QED
      BY <2>1, <2>2
      DEF PressedInv, IsHeld, LatestFrame, irmp_vars, isr_vars, mailbox_vars,
          rate_vars
  <1> QED
    BY <1>1, <1>2, <1>3 DEF EventsNext

\* What the user last heard, in the words of Buttons.
Kind == CASE event = NoEvent -> "none"
          [] event.flags = {"force_release"} -> "forced press"
          [] event.flags = {"repetition"} -> "repetition"
          [] event.flags = {"release"} -> "release"
          [] OTHER -> "press"
Held == IF release_pending THEN pressed ELSE NoCode
Told == [kind |-> Kind, button |-> event.code]

\* The interrupt tells the user nothing, and each irmp_get_data that finds data
\* is one step of the buttons.
LEMMA ReadIsButtons ==
  ASSUME PressedInv, Read
  PROVE  Remote!Next
  <1>1. /\ irmp_ir_detected /\ irmp_code = LatestFrame /\ irmp_code \in AnyCode
        /\ irmp_flags \in {{}, {"release"}}
        /\ irmp_code # NoCode
    BY ReadButtons, EventsAssumption
    DEF PressedInv, Read, GetData, HasData, EInv, EventsTypeOK, IrmpTypeOK
  <1>0. IrmpTypeOK /\ ButtonsInv
    BY DEF PressedInv, EInv, EventsTypeOK
  <1>2. /\ event' = [code |-> irmp_code, flags |-> ReturnedFlags]
        /\ event' # NoEvent
        /\ turn' = 1 - turn
    BY <1>1 DEF Read, Returned, NoEvent
  <1>3. Told' = [kind |-> CASE ReturnedFlags = {"force_release"} -> "forced press"
                            [] ReturnedFlags = {"repetition"} -> "repetition"
                            [] ReturnedFlags = {"release"} -> "release"
                            [] OTHER -> "press",
                 button |-> irmp_code]
    BY <1>2 DEF Told, Kind
  <1>4. CASE irmp_flags = {} /\ IsRepetition
    <2>1. /\ release_pending /\ release_pending' /\ pressed = irmp_code
          /\ ReturnedFlags = {"repetition"}
      BY <1>0, <1>1, <1>4, ReturnedFrame, ReadFrame
    <2>2. Held = irmp_code /\ Held' = irmp_code
      BY <1>4, <2>1, ReadFrame DEF Held
    <2>3. Told' = [kind |-> "repetition", button |-> irmp_code]
      BY <1>3, <2>1
    <2>4. Remote!Repeat(irmp_code)
      BY <1>2, <2>2, <2>3
      DEF Remote!Repeat, Remote!Tell, Remote!Event, Held, Told, Kind
    <2> QED
      BY <1>1, <2>4 DEF Remote!Next
  <1>5. CASE irmp_flags = {} /\ ~IsRepetition
    <2>1. release_pending' /\ ClassifiedFlags = {}
      BY <1>0, <1>1, <1>5, ReturnedFrame, ReadFrame
    <2>2. ReturnedFlags = IF release_pending THEN {"force_release"} ELSE {}
      BY <2>1 DEF ReturnedFlags
    <2>3. Held' = irmp_code
      BY <1>5, <2>1, ReadFrame DEF Held
    <2>4. CASE release_pending
      <3>1. Held # NoCode
        BY <2>4, EventsAssumption DEF Held, PressedInv
      <3>2. Told' = [kind |-> "forced press", button |-> irmp_code]
        BY <1>3, <2>2, <2>4
      <3>3. Remote!PressInstead(irmp_code)
        BY <1>2, <2>3, <3>1, <3>2
        DEF Remote!PressInstead, Remote!Tell, Remote!Event, Held, Told, Kind
      <3> QED
        BY <1>1, <3>3 DEF Remote!Next
    <2>5. CASE ~release_pending
      <3>1. Held = NoCode
        BY <2>5 DEF Held
      <3>2. Told' = [kind |-> "press", button |-> irmp_code]
        BY <1>3, <2>2, <2>5
      <3>3. Remote!Press(irmp_code)
        BY <1>2, <2>3, <3>1, <3>2
        DEF Remote!Press, Remote!Tell, Remote!Event, Held, Told, Kind
      <3> QED
        BY <1>1, <3>3 DEF Remote!Next
    <2> QED
      BY <2>4, <2>5
  <1>6. CASE irmp_flags = {"release"}
    <2>1. /\ ReturnedFlags = {"release"} /\ ~release_pending'
          /\ release_pending /\ pressed = irmp_code
      BY <1>0, <1>1, <1>6, ReturnedRelease, ReadButtons
      DEF Read, PressedInv, IsHeld, ButtonsInv, MailboxHoldsRelease
    <2>2. Held = irmp_code /\ Held' = NoCode
      BY <2>1 DEF Held
    <2>3. Told' = [kind |-> "release", button |-> irmp_code]
      BY <1>3, <2>1
    <2>4. Remote!Release(irmp_code)
      BY <1>2, <2>2, <2>3
      DEF Remote!Release, Remote!Tell, Remote!Event, Held, Told, Kind
    <2> QED
      BY <1>1, <2>4 DEF Remote!Next
  <1> QED
    BY <1>1, <1>4, <1>5, <1>6

LEMMA StepIsButtons ==
  ASSUME PressedInv, [EventsNext]_ievars
  PROVE  [Remote!Next]_(Remote!vars)
  <1>1. CASE Read
    BY <1>1, ReadIsButtons
  <1>2. CASE Interrupt \/ UNCHANGED ievars
    <2>1. UNCHANGED <<pressed, event, turn, release_pending>>
      BY <1>2
      DEF Interrupt, Tick, ISR, FrameStart, FrameAbandoned, FrameEnd, Detect,
          FrameRejected, RepetitionFrame, LateRepetitionFrame, DetectRelease,
          rate_vars, ievars, irmp_vars
    <2> QED
      BY <2>1 DEF Remote!vars
  <1> QED
    BY <1>1, <1>2 DEF EventsNext

LEMMA InitIsButtons == EventsInit => Remote!Init
  <1> SUFFICES ASSUME EventsInit
               PROVE  Remote!Init
    OBVIOUS
  <1>1. /\ event = NoEvent /\ event.code = NoCode /\ event.flags = {}
        /\ ~release_pending /\ turn = 0
    BY DEF EventsInit, IrmpInit, NoEvent
  <1>2. Told = [kind |-> "none", button |-> NoCode] /\ Held = NoCode
    BY <1>1 DEF Told, Kind, Held
  <1> QED
    BY <1>1, <1>2
    DEF Remote!Init, Remote!NoEvent, Remote!Event, Told, Kind, Held

\* For remote controls without repetition frames whose commands tell them apart,
\* what irmp_get_data reports is the use of buttons of which one at most is
\* held, however late it is called (irmp.c:2891-2927, 5601).
THEOREM ButtonsImplemented ==
  ASSUME RepeatProtocols = {}, OwnCommands
  PROVE  EventsSpec => ImplementsButtons
  <1>1. PressedInv /\ [EventsNext]_ievars => PressedInv'
    BY StepPressedInv
  <1>2. PressedInv /\ [EventsNext]_ievars => [Remote!Next]_(Remote!vars)
    BY StepIsButtons
  <1> QED
    BY <1>1, <1>2, InitPressedInv, InitIsButtons, PTL
    DEF EventsSpec, ImplementsButtons, Remote!Spec
=============================================================================
