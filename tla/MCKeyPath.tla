----------------------------- MODULE MCKeyPath ------------------------------
(***************************************************************************)
(* Instances of the key path for TLC.  A tick stands for about 50 ms, so   *)
(* the preset repeat rate of 170 ms is 3 ticks.                            *)
(***************************************************************************)
EXTENDS KeyPath

CONSTANTS p1, p2, a, b, c, k1, k2

Frame(protocol, command) == [protocol |-> protocol, command |-> command]

\* Two buttons of one remote control and one of another without a key.
DistinctCodes == {Frame(p1, a), Frame(p1, b), Frame(p2, c)}
TwoButtons == {Frame(p1, a), Frame(p1, b)}

\* The frames of the other one that fail the checks of their protocol.
DamagedCodes == {Frame(p2, c)}

KeyTable ==
    [code \in AnyCode |->
        IF code \in Codes /\ code.command = a THEN k1
        ELSE IF code = Frame(p1, b) THEN k2
        ELSE NoKey]

NoShortIntervals == [protocol \in Protocols |-> 0]
=============================================================================
