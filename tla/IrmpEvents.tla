----------------------------- MODULE IrmpEvents -----------------------------
(***************************************************************************)
(* The decoder with a user that calls irmp_get_data now and then, as slow  *)
(* as it likes, and what it has been told so far.  All frames pass the     *)
(* checks of their protocol; what others do is the matter of KeyPath.      *)
(***************************************************************************)
EXTENDS Irmp

CONSTANT NoCode

ASSUME EventsAssumption == Corrupt = {} /\ Rejected = {} /\ NoCode \notin AnyCode

VARIABLES
    pressed,    \* the code of the latest press the user was told of
    event,      \* what the latest call that found data returned
    turn        \* the parity of the number of such calls

ievars == <<irmp_vars, pressed, event, turn>>

NoEvent == [code |-> NoCode, flags |-> {}]

IsPress(data) == data.flags \subseteq {"force_release"}

EventsInit ==
    /\ IrmpInit
    /\ pressed = NoCode
    /\ event = NoEvent
    /\ turn = 0

Read ==
    /\ GetData
    /\ event' = Returned
    /\ pressed' = IF IsPress(Returned) THEN Returned.code ELSE pressed
    /\ turn' = 1 - turn

Interrupt ==
    /\ Tick \/ ISR
    /\ UNCHANGED <<pressed, event, turn>>

EventsNext == Interrupt \/ Read

\* The timer interrupt keeps running and the user keeps asking.
EventsFairness ==
    /\ WF_ievars(Tick /\ UNCHANGED <<pressed, event, turn>>)
    /\ WF_ievars(DetectRelease /\ UNCHANGED <<pressed, event, turn>>)
    /\ WF_ievars(Read)

EventsSpec == EventsInit /\ [][EventsNext]_ievars /\ EventsFairness

-----------------------------------------------------------------------------
EventsTypeOK ==
    /\ IrmpTypeOK
    /\ pressed \in AnyCode \cup {NoCode}
    /\ event \in IrmpData \cup {NoEvent}
    /\ turn \in {0, 1}

\* While the mailbox is full, irmp_ISR does not touch what is in it
\* (irmp.c:3351): the user never reads a mixture of two frames.
MailboxStableStep ==
    irmp_ir_detected /\ irmp_ir_detected' =>
        UNCHANGED <<mailbox_vars, delta, same_key>>
MailboxStable == [][MailboxStableStep]_ievars

\* The presses, repetitions and releases that are returned are those of remote
\* controls of which one button at most is held: a repetition or release names
\* the button that was pressed last and is not yet released, a press comes
\* after the release of the one before it or is marked IRMP_FLAG_FORCE_RELEASE
\* (irmp.c:2891-2927).
Remote == INSTANCE Buttons WITH
            Button <- AnyCode,
            None <- NoCode,
            held <- IF release_pending THEN pressed ELSE NoCode,
            event <- [kind |-> CASE event = NoEvent -> "none"
                                 [] event.flags = {"force_release"} -> "forced press"
                                 [] event.flags = {"repetition"} -> "repetition"
                                 [] event.flags = {"release"} -> "release"
                                 [] OTHER -> "press",
                      button |-> event.code]

ImplementsButtons == Remote!Spec

\* A press is followed by its release once the remote control is silent.
EventuallyReleased == <>[](receiving = "no") => <>[](~release_pending)
=============================================================================
