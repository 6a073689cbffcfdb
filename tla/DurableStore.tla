---------------------------- MODULE DurableStore ----------------------------
(***************************************************************************)
(* What the configuration memory of the receiver promises to its callers:  *)
(* a cache that is read and written, and a durable copy of it that only    *)
(* Commit and Reset change and that a restart loads back into the cache.   *)
(* It knows nothing of pages, marks, erasing or wear levelling; module     *)
(* Eeprom implements it.                                                   *)
(***************************************************************************)
CONSTANTS
    Addr,       \* the addresses a caller may use
    Value,      \* the values of one cell
    Blank       \* the value of a cell that was never written

VARIABLES
    cache,      \* what a read returns
    stored      \* what survives a restart

vars == <<cache, stored>>

Empty == [a \in Addr |-> Blank]

Init ==
    /\ cache = Empty
    /\ stored = Empty

Put(a, v) ==
    /\ cache' = [cache EXCEPT ![a] = v]
    /\ UNCHANGED stored

Commit ==
    /\ stored' = cache
    /\ UNCHANGED cache

Reset ==
    /\ cache' = Empty
    /\ stored' = Empty

Restart ==
    /\ cache' = stored
    /\ UNCHANGED stored

Next ==
    \/ \E a \in Addr, v \in Value : Put(a, v)
    \/ Commit
    \/ Reset
    \/ Restart

Spec == Init /\ [][Next]_vars
=============================================================================
