------------------------------ MODULE Buttons -------------------------------
(***************************************************************************)
(* What a user of the IR decoder may rely on: presses, repetitions and     *)
(* releases of the buttons of a remote control, of which one at most is    *)
(* held.  A press of another button may end the one before it without a    *)
(* release of its own, but then it says so.                                *)
(***************************************************************************)
EXTENDS Naturals

CONSTANTS
    Button,
    None

VARIABLES
    held,       \* the button that is held, or None
    event,      \* what the user was told last
    turn        \* alternates from event to event

vars == <<held, event, turn>>

Event(kind, b) == [kind |-> kind, button |-> b]

NoEvent == Event("none", None)

Init ==
    /\ held = None
    /\ event = NoEvent
    /\ turn = 0

Tell(kind, b) ==
    /\ event' = Event(kind, b)
    /\ turn' = 1 - turn

Press(b) == held = None /\ held' = b /\ Tell("press", b)

PressInstead(b) == held # None /\ held' = b /\ Tell("forced press", b)

Repeat(b) == held = b /\ UNCHANGED held /\ Tell("repetition", b)

Release(b) == held = b /\ held' = None /\ Tell("release", b)

Next ==
    \E b \in Button : Press(b) \/ PressInstead(b) \/ Repeat(b) \/ Release(b)

Spec == Init /\ [][Next]_vars
=============================================================================
