---------------------------- MODULE MCPinGetMut ----------------------------
(***************************************************************************)
(* An instance of PinGetMut for TLC: one reader, two files.                *)
(***************************************************************************)
EXTENDS PinGetMut

CONSTANTS f1, f2, a1, t1

ReadUses  == {[task |-> t1, async |-> a1, interest |-> "Read", kind |-> "io"]}
ReadEdges == {{"IN"}, {"IN", "OUT", "HUP", "ERR"}}
=============================================================================
