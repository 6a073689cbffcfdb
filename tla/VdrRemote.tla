----------------------------- MODULE VdrRemote ------------------------------
(***************************************************************************)
(* What the Video Disk Recorder may rely on at cRemote::Put: keys go down  *)
(* one at a time; a repetition is one of the key that went down last, not  *)
(* before the delay of the setup has passed since then and the period of   *)
(* the setup since the last event; a key that was repeated is released     *)
(* before the next one goes down.                                          *)
(***************************************************************************)
EXTENDS Naturals

CONSTANTS
    NoKey,
    Delay,      \* Setup.RcRepeatDelay
    Delta       \* Setup.RcRepeatDelta

VARIABLES
    key,        \* the key that went down last, until its release
    repeating,
    first,      \* time since it went down
    last        \* time since it went down or was repeated last

vars == <<key, repeating, first, last>>

Passed(age, limit) == IF age < limit THEN age + 1 ELSE limit

Init == key = NoKey /\ repeating = FALSE /\ first = 0 /\ last = 0

Time ==
    /\ first' = Passed(first, Delay)
    /\ last' = Passed(last, Delta)
    /\ UNCHANGED <<key, repeating>>

Press ==
    /\ ~repeating
    /\ key' # NoKey
    /\ first' = 0 /\ last' = 0
    /\ UNCHANGED repeating

Repeat ==
    /\ key # NoKey
    /\ first = Delay /\ last = Delta
    /\ repeating' = TRUE
    /\ last' = 0
    /\ UNCHANGED <<key, first>>

Release ==
    /\ repeating
    /\ repeating' = FALSE
    /\ key' = NoKey
    /\ last' \in {0, last}
    /\ UNCHANGED first

Next == Time \/ Press \/ Repeat \/ Release

Spec == Init /\ [][Next]_vars
=============================================================================
