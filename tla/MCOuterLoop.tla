---------------------------- MODULE MCOuterLoop ----------------------------
(***************************************************************************)
(* Instances of OuterLoop for TLC.                                         *)
(***************************************************************************)
EXTENDS OuterLoop

CONSTANTS f1, f2, a1, a2, t1, t2

Use(t, a, i) == [task |-> t, async |-> a, interest |-> i, kind |-> "io"]

\* A reader and a writer of sockets.
PairUses == {Use(t1, a1, "Read"), Use(t2, a2, "Write")}
ReadUses == {Use(t1, a1, "Read")}

SocketEdges == {{"IN"}, {"OUT"}, {"IN", "OUT", "HUP", "ERR"}}
=============================================================================
