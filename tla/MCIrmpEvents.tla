---------------------------- MODULE MCIrmpEvents ----------------------------
(***************************************************************************)
(* Instances of the decoder for TLC.  A tick stands for about 50 ms, so    *)
(* the preset repeat rate of 170 ms is 3 ticks.                            *)
(***************************************************************************)
EXTENDS IrmpEvents

CONSTANTS p1, p2, a, b, c

Frame(protocol, command) == [protocol |-> protocol, command |-> command]

\* Two buttons of one remote control and one of another.
DistinctCodes == {Frame(p1, a), Frame(p1, b), Frame(p2, c)}

\* The first repetition of a p1 frame comes early, as with NEC.
ShortFirstIntervals == [protocol \in Protocols |-> IF protocol = p1 THEN 2 ELSE 0]
=============================================================================
