------------------------------ MODULE ReadyIo ------------------------------
(***************************************************************************)
(* What a user of the crate may rely on, without a word about wakers,      *)
(* registrations or epoll: one thread performs operations on wrapped       *)
(* files; an operation completes when its file is ready for it, an         *)
(* operation whose file stays ready does complete, and the thread does not *)
(* sleep while any operation could proceed.                                *)
(***************************************************************************)
EXTENDS Naturals

CONSTANTS Fds, Waiters, Uses, None

VARIABLES level,  \* level[fd]: the readiness of the file
          inner,  \* inner[a]: the file that is wrapped at a, or None
          ops,    \* operations in flight
          asleep  \* the thread is blocked

vars == <<level, inner, ops, asleep>>

Flags == {"IN", "OUT", "ERR", "HUP"}

Asks(o) == CASE o.interest = "Read"      -> {"IN"}
             [] o.interest = "Write"     -> {"OUT"}
             [] o.interest = "ReadWrite" -> {"IN", "OUT"}

Ready(o) == inner[o.async] # None /\ level[inner[o.async]] \cap (Asks(o) \cup {"ERR", "HUP"}) # {}

Quiet == \A o \in ops : ~Ready(o)

Init ==
    /\ level \in [Fds -> SUBSET Flags]
    /\ inner = [a \in Waiters |-> None]
    /\ ops = {}
    /\ asleep = FALSE

Wrap(a, fd) ==
    /\ ~asleep /\ inner[a] = None /\ \A b \in Waiters : inner[b] # fd
    /\ inner' = [inner EXCEPT ![a] = fd]
    /\ UNCHANGED <<level, ops, asleep>>

\* The file leaves its wrapper, and is closed or not.
Unwrap(a) ==
    /\ ~asleep /\ inner[a] # None /\ \A o \in ops : o.async # a
    /\ inner' = [inner EXCEPT ![a] = None]
    /\ level' \in {level, [level EXCEPT ![inner[a]] = {}]}
    /\ UNCHANGED <<ops, asleep>>

Start(o) ==
    /\ ~asleep /\ o \notin ops /\ inner[o.async] # None
    /\ ops' = ops \cup {o}
    /\ UNCHANGED <<level, inner, asleep>>

\* The operation is dropped before it is ready, or it is a close that fails.
Cancel(o) ==
    /\ ~asleep /\ o \in ops
    /\ ops' = ops \ {o}
    /\ UNCHANGED <<level, inner, asleep>>

\* It takes of the file's readiness no more than it asked for.
Complete(o) ==
    /\ ~asleep /\ o \in ops /\ o.kind = "io" /\ Ready(o)
    /\ ops' = ops \ {o}
    /\ \E spent \in SUBSET Asks(o) : level' = [level EXCEPT ![inner[o.async]] = @ \ spent]
    /\ UNCHANGED <<inner, asleep>>

\* Other operations on the file stay in flight, and nothing is promised to them.
Close(o) ==
    /\ ~asleep /\ o \in ops /\ o.kind = "close" /\ inner[o.async] # None
    /\ ops' = ops \ {o}
    /\ inner' = [inner EXCEPT ![o.async] = None]
    /\ level' = [level EXCEPT ![inner[o.async]] = {}]
    /\ UNCHANGED asleep

\* The thread panics, or its program ends.
Abort ==
    /\ ops' = {} /\ asleep' = FALSE
    /\ UNCHANGED <<level, inner>>

\* Falling asleep and waking up.
Rest ==
    /\ asleep' \in BOOLEAN /\ (asleep' => Quiet)
    /\ UNCHANGED <<level, inner, ops>>

\* One file changes; readiness that somebody waits for does not find the
\* thread asleep.
Environment(fd) ==
    /\ \E l \in SUBSET Flags : level' = [level EXCEPT ![fd] = l]
    /\ asleep' \in BOOLEAN /\ (asleep' => Quiet')
    /\ UNCHANGED <<inner, ops>>

Next ==
    \/ \E a \in Waiters : Unwrap(a) \/ \E fd \in Fds : Wrap(a, fd)
    \/ \E o \in Uses : Start(o) \/ Cancel(o) \/ Complete(o) \/ Close(o)
    \/ Abort
    \/ Rest
    \/ \E fd \in Fds : Environment(fd)

Fairness == \A o \in Uses : WF_vars(Complete(o))

Spec == Init /\ [][Next]_vars
FairSpec == Spec /\ Fairness
=============================================================================
