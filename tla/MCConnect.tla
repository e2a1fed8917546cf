----------------------------- MODULE MCConnect -----------------------------
(***************************************************************************)
(* Instances of Connect for TLC.                                           *)
(***************************************************************************)
EXTENDS Connect

CONSTANTS f1, f2, a1, a2, a3, a4, t1, t2

Use(t, a, i) == [task |-> t, async |-> a, interest |-> i, kind |-> "io"]

\* One task connects over TCP at a1 and gets its stream at a2, the other one
\* connects to a Unix socket at a3 and gets its stream at a4.
Tcp  == Use(t1, a1, "Write")
Unix == Use(t2, a3, "Write")

\* The TCP stream is then read.
TcpUses  == {Tcp, Use(t1, a2, "Read")}
BothUses == {Tcp, Unix}

\* The same beside a reader of another file, for the liveness run.
BusyUses == BothUses \cup {Use(t1, a4, "Read")}

JustTcp  == {Tcp}
JustUnix == {Unix}

TcpStream   == [c \in {Tcp} |-> a2]
UnixStream  == [c \in {Unix} |-> a4]
BothStreams == [c \in {Tcp, Unix} |-> IF c = Tcp THEN a2 ELSE a4]

StreamEdges == {{"IN"}, {"OUT"}}
=============================================================================
