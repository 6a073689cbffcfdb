---------------------------- MODULE MCIrmp4kbd ------------------------------
(***************************************************************************)
(* An instance of the VDR plugin for TLC: a key without and one with a     *)
(* modifier, the report of KEY_REFRESH, and an IR report, whose bytes are  *)
(* a protocol and a part of an address.                                    *)
(***************************************************************************)
EXTENDS Irmp4kbd

TwoKeys == {<<0, 4>>, <<2, 5>>}
KeyRefresh == <<0, 250>>
IrReport == <<2, 4>>
=============================================================================
