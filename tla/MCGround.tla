------------------------------ MODULE MCGround ------------------------------
(***************************************************************************)
(* Instances of Ground for TLC.  Files are stream sockets unless a name    *)
(* says otherwise.                                                         *)
(***************************************************************************)
EXTENDS Ground

CONSTANTS f1, f2, a1, a2, t1, t2

Use(t, a, i)   == [task |-> t, async |-> a, interest |-> i, kind |-> "io"]
CloseOf(t, a)  == [task |-> t, async |-> a, interest |-> "Write", kind |-> "close"]

\* A socket whose connection is reset reports everything at once.
SocketEdges == {{"IN"}, {"OUT"}, {"IN", "OUT", "HUP", "ERR"}}

\* As a reader sees it.
ReadEdges == {{"IN"}, {"IN", "OUT", "HUP", "ERR"}}

\* The read end of a pipe whose writer goes away reports only EPOLLHUP.
PipeEdges == {{"IN"}, {"HUP"}}

\* One task per Async: t1 reads from and writes to one that is split, t2 flushes
\* and closes the other one.
OwnedUses == {Use(t1, a1, "Read"), Use(t1, a1, "Write"), CloseOf(t2, a2)}

\* Two readers, each with its Async, for the liveness runs.
ReaderUses == {Use(t1, a1, "Read"), Use(t2, a2, "Read")}

\* The two halves of one Async in two tasks, and a half that closes it.
SplitUses      == {Use(t1, a1, "Read"), Use(t2, a1, "Write")}
SplitCloseUses == SplitUses \cup {CloseOf(t2, a1)}

\* A task reads one half of an Async and closes the other half.
JoinedCloseUses == {Use(t1, a1, "Read"), CloseOf(t1, a1)}

\* One reader after the other on the same Async.
HandoverUses == {Use(t1, a1, "Read"), Use(t2, a1, "Read")}

\* One task, one reader; one task whose operation needs either direction.
ReadUses      == {Use(t1, a1, "Read")}
ReadWriteUses == {Use(t1, a1, "ReadWrite")}
=============================================================================
