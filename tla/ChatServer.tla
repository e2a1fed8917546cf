----------------------------- MODULE ChatServer -----------------------------
(***************************************************************************)
(* examples/chat-server.rs: one handle_client() task per connection with   *)
(* its recv_loop(), one send_loop() task per claimed name, and between     *)
(* them a table of names and a bounded channel per name.  A step is what a *)
(* task does between two points where it may have to wait.  Reading and    *)
(* writing a connection take their time, or for ever: the two tasks share  *)
(* one Async and overwrite each other's waker (run split_wakeup).          *)
(***************************************************************************)
EXTENDS Naturals, FiniteSets, SequencesExt

CONSTANTS
    Clients,   \* connections
    Names,     \* what a client may give as its name, "" among them
    Lines,     \* the user lists of the lines a client may write
    MaxLines,  \* lines per client
    Capacity,  \* of a channel; the code has 16
    Faults,    \* "write": writing to a client may fail; "accept": accepting one may
    None

VARIABLES
    phase,     \* "away", or handle_client() is "naming" | "receiving" | "left"
    name,      \* the name the client gave
    channels,  \* Peers::channels: the client whose Sender is under the name
    users,     \* recv_loop(): users to whom the current line is still to be sent
    lines,     \* lines read so far; it numbers the messages
    flushing,  \* the client whose channel this one's send() waits for
    queue,     \* messages in the client's channel
    parked,    \* who is parked in the channel, in this order
    loop       \* send_loop(): "none" | "next" | "writing" | "ended"

ASSUME NoneAssumption == None \notin Clients \cup Names
ASSUME LinesAssumption == Lines \subseteq Seq(Names)
ASSUME BoundsAssumption == MaxLines \in Nat /\ Capacity \in Nat

vars == <<phase, name, channels, users, lines, flushing, queue, parked, loop>>

Init ==
    /\ phase = [c \in Clients |-> "away"]
    /\ name = [c \in Clients |-> None]
    /\ channels = [n \in Names |-> None]
    /\ users = [c \in Clients |-> <<>>]
    /\ lines = [c \in Clients |-> 0]
    /\ flushing = [c \in Clients |-> None]
    /\ queue = [c \in Clients |-> <<>>]
    /\ parked = [c \in Clients |-> <<>>]
    /\ loop = [c \in Clients |-> "none"]

\* async_main() accepts and spawns handle_client().
Accept(c) ==
    /\ phase[c] = "away"
    /\ phase' = [phase EXCEPT ![c] = "naming"]
    /\ UNCHANGED <<name, channels, users, lines, flushing, queue, parked, loop>>

\* Accepting c fails: async_main() returns the error, executor::run() returns it in
\* turn, and every task is dropped with the table, the channels and the connections.
AcceptFails(c) ==
    /\ "accept" \in Faults
    /\ phase[c] = "away"
    /\ phase' = [d \in Clients |-> "left"]
    /\ channels' = [n \in Names |-> None]
    /\ users' = [d \in Clients |-> <<>>]
    /\ flushing' = [d \in Clients |-> None]
    /\ queue' = [d \in Clients |-> <<>>]
    /\ parked' = [d \in Clients |-> <<>>]
    /\ loop' = [d \in Clients |-> IF loop[d] = "none" THEN "none" ELSE "ended"]
    /\ UNCHANGED <<name, lines>>

Enter(c, n) ==
    /\ phase' = [phase EXCEPT ![c] = "receiving"]
    /\ channels' = [channels EXCEPT ![n] = c]
    /\ loop' = [loop EXCEPT ![c] = "next"]

\* A handle_client() that inserts without looking.
Claim_insert(c, n) ==
    /\ phase[c] = "naming"
    /\ name' = [name EXCEPT ![c] = n]
    /\ Enter(c, n)
    /\ UNCHANGED <<users, lines, flushing, queue, parked>>

\* The first line, or what there was of it before an error.
Claim(c, n) ==
    /\ phase[c] = "naming"
    /\ name' = [name EXCEPT ![c] = n]
    /\ IF channels[n] # None
       THEN phase' = [phase EXCEPT ![c] = "left"] /\ UNCHANGED <<channels, loop>>
       ELSE Enter(c, n)
    /\ UNCHANGED <<users, lines, flushing, queue, parked>>

-----------------------------------------------------------------------------
\* recv_loop()

Idle(c) == phase[c] = "receiving" /\ users[c] = <<>> /\ flushing[c] = None

ReadLine(c, to) ==
    /\ Idle(c) /\ lines[c] < MaxLines
    /\ users' = [users EXCEPT ![c] = to]
    /\ lines' = [lines EXCEPT ![c] = @ + 1]
    /\ UNCHANGED <<phase, name, channels, flushing, queue, parked, loop>>

To(c) == channels[Head(users[c])]

\* A recv_loop() that cannot tell whether the Receiver is gone.
Reachable_table(c) == To(c) # None

Reachable(c) == To(c) # None /\ loop[To(c)] # "ended"

\* A recv_loop() that tries again when the Receiver is gone.
SkipUser_insist(c) ==
    /\ users[c] # <<>> /\ flushing[c] = None
    /\ To(c) = None
    /\ users' = [users EXCEPT ![c] = Tail(@)]
    /\ UNCHANGED <<phase, name, channels, lines, flushing, queue, parked, loop>>

\* Nobody has the name, or its send_loop() is over and the Receiver gone.
SkipUser(c) ==
    /\ users[c] # <<>> /\ flushing[c] = None
    /\ ~Reachable(c)
    /\ users' = [users EXCEPT ![c] = Tail(@)]
    /\ UNCHANGED <<phase, name, channels, lines, flushing, queue, parked, loop>>

\* A recv_loop() that uses start_send(), and so does not flush.
SendUser_unflushed(c) ==
    /\ users[c] # <<>> /\ flushing[c] = None
    /\ Reachable(c)
    /\ queue' = [queue EXCEPT ![To(c)] = Append(@, [from |-> c, line |-> lines[c]])]
    /\ users' = [users EXCEPT ![c] = Tail(@)]
    /\ UNCHANGED <<phase, name, channels, lines, flushing, parked, loop>>

\* The Sender is a new clone, so it has a slot of its own: the message is queued
\* in any case, and when the channel was full the clone is parked, and send()
\* waits until it no longer is.
SendUser(c) ==
    /\ users[c] # <<>> /\ flushing[c] = None
    /\ Reachable(c)
    /\ queue' = [queue EXCEPT ![To(c)] = Append(@, [from |-> c, line |-> lines[c]])]
    /\ IF Len(queue[To(c)]) >= Capacity
       THEN /\ parked' = [parked EXCEPT ![To(c)] = Append(@, c)]
            /\ flushing' = [flushing EXCEPT ![c] = To(c)]
       ELSE UNCHANGED <<parked, flushing>>
    /\ users' = [users EXCEPT ![c] = Tail(@)]
    /\ UNCHANGED <<phase, name, channels, lines, loop>>

\* send() returns, also when the Receiver is gone, and the clone is dropped.
Flushed(c) ==
    /\ flushing[c] # None
    /\ c \notin Range(parked[flushing[c]])
    /\ flushing' = [flushing EXCEPT ![c] = None]
    /\ UNCHANGED <<phase, name, channels, users, lines, queue, parked, loop>>

\* A handle_client() that does not wait for what recv_loop() has begun.
Leave_early(c) ==
    /\ phase[c] = "receiving"
    /\ phase' = [phase EXCEPT ![c] = "left"]
    /\ channels' = [channels EXCEPT ![name[c]] = None]
    /\ UNCHANGED <<name, users, lines, flushing, queue, parked, loop>>

\* A handle_client() that leaves the name in the table.
Leave_unremoved(c) ==
    /\ Idle(c)
    /\ phase' = [phase EXCEPT ![c] = "left"]
    /\ UNCHANGED <<name, channels, users, lines, flushing, queue, parked, loop>>

\* The end of the lines or an error: recv_loop() is over and the Sender removed.
Leave(c) ==
    /\ Idle(c)
    /\ phase' = [phase EXCEPT ![c] = "left"]
    /\ channels' = [channels EXCEPT ![name[c]] = None]
    /\ UNCHANGED <<name, users, lines, flushing, queue, parked, loop>>

-----------------------------------------------------------------------------
\* send_loop()

\* receiver.next() takes a message and unparks the first parked Sender.
Take(c) ==
    /\ loop[c] = "next" /\ queue[c] # <<>>
    /\ queue' = [queue EXCEPT ![c] = Tail(@)]
    /\ parked' = [parked EXCEPT ![c] = IF @ = <<>> THEN @ ELSE Tail(@)]
    /\ loop' = [loop EXCEPT ![c] = "writing"]
    /\ UNCHANGED <<phase, name, channels, users, lines, flushing>>

\* write_all() is done.
Write(c) ==
    /\ loop[c] = "writing"
    /\ loop' = [loop EXCEPT ![c] = "next"]
    /\ UNCHANGED <<phase, name, channels, users, lines, flushing, queue, parked>>

\* write_all() fails, and the Receiver is dropped with all that is in it.
WriteFails(c) ==
    /\ "write" \in Faults
    /\ loop[c] = "writing"
    /\ loop' = [loop EXCEPT ![c] = "ended"]
    /\ queue' = [queue EXCEPT ![c] = <<>>]
    /\ parked' = [parked EXCEPT ![c] = <<>>]
    /\ UNCHANGED <<phase, name, channels, users, lines, flushing>>

\* receiver.next() returns None: no Sender is left.
EndLoop(c) ==
    /\ loop[c] = "next" /\ queue[c] = <<>>
    /\ c \notin Range(channels) \cup Range(flushing)
    /\ loop' = [loop EXCEPT ![c] = "ended"]
    /\ UNCHANGED <<phase, name, channels, users, lines, flushing, queue, parked>>

RecvLoop(c) == SkipUser(c) \/ SendUser(c) \/ Flushed(c)
SendLoop(c) == Take(c) \/ EndLoop(c)

Next == \E c \in Clients :
    \/ Accept(c) \/ AcceptFails(c)
    \/ \E n \in Names : Claim(c, n)
    \/ \E to \in Lines : ReadLine(c, to)
    \/ RecvLoop(c) \/ Leave(c)
    \/ SendLoop(c) \/ Write(c) \/ WriteFails(c)

\* Tasks that wait for a channel go on when they can.  Of write_all() nothing is
\* asked, not even for a client that reads: its wakeup may go to the read half.
Fairness == \A c \in Clients : WF_vars(RecvLoop(c)) /\ WF_vars(SendLoop(c))

Spec == Init /\ [][Next]_vars
FairSpec == Spec /\ Fairness
-----------------------------------------------------------------------------
TypeOK ==
    /\ phase \in [Clients -> {"away", "naming", "receiving", "left"}]
    /\ name \in [Clients -> Names \cup {None}]
    /\ channels \in [Names -> Clients \cup {None}]
    /\ lines \in [Clients -> 0..MaxLines]
    /\ flushing \in [Clients -> Clients \cup {None}]
    /\ \A c \in Clients : users[c] # <<>> \/ flushing[c] # None => phase[c] = "receiving"
    /\ \A c \in Clients : Range(parked[c]) \subseteq Clients
    /\ loop \in [Clients -> {"none", "next", "writing", "ended"}]

\* A name leads to the one client that is served under it, so that a recv_loop()
\* that ends finds its own Sender in the table: "debug_assert!(sender.is_some())".
NamesAreHeldOnce ==
    \A c \in Clients, n \in Names :
        channels[n] = c <=> phase[c] = "receiving" /\ name[c] = n

\* A channel holds at most one message per client in excess of its capacity:
\* whoever put it there is parked.
QueuesAreBounded ==
    \A c \in Clients :
        /\ Len(queue[c]) <= Capacity + Len(parked[c])
        /\ IsInjective(parked[c])
        /\ \A d \in Range(parked[c]) : flushing[d] = c

\* Whoever is parked in a channel waits for a send_loop() that is running and for
\* messages that are in front of its own: each time one is taken, somebody goes on,
\* and it is the one whose message has come within the capacity.
ParkedAreServed ==
    \A c \in Clients : parked[c] # <<>> =>
        /\ loop[c] \in {"next", "writing"}
        /\ Len(queue[c]) = Capacity + Len(parked[c])
        /\ \A i \in DOMAIN parked[c] : queue[c][Capacity + i].from = parked[c][i]

\* A line that was read is sent to all of its users, unless its sender waits for ever
\* for one of them: then that one's send_loop() never gets on with a write.  Nothing
\* else in the table, the channels or the other tasks can hold it up.
LinesAreSent ==
    \A c \in Clients :
        users[c] # <<>> ~>
            \/ users[c] = <<>> /\ flushing[c] = None
            \/ \E d \in Clients : [](flushing[c] = d /\ loop[d] = "writing")

\* When a client's connection has come to its end, the other half of it is closed
\* as well, after what was still queued for it, unless a write never gets on.
ConnectionsEnd ==
    \A c \in Clients :
        phase[c] = "left" ~> loop[c] \in {"none", "ended"} \/ [](loop[c] = "writing")
=============================================================================
