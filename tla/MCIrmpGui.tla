----------------------------- MODULE MCIrmpGui -----------------------------
(***************************************************************************)
(* An instance of the configuration program for TLC.                       *)
(***************************************************************************)
EXTENDS IrmpGui

CONSTANTS c1, k1

OneEdit == {<<<<1, "irdata">>, c1>>}

OneFile == [p \in Parts |-> IF p = <<2, "key">> THEN k1 ELSE Erased]

=============================================================================
