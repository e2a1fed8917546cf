------------------------------ MODULE DnsQuery ------------------------------
(***************************************************************************)
(* query() of src/dns.rs between a socket and a network that loses,        *)
(* duplicates, delays and reorders datagrams.  Waiting for the socket is   *)
(* what ReadyIo promises of an operation; a packet is the query it answers *)
(* (DnsParser looks inside).                                               *)
(***************************************************************************)
EXTENDS Naturals, FiniteSets, Sequences

CONSTANTS
    Queries,       \* calls of query()
    Ports,         \* local ports that bind(2) may pick, those of earlier calls among them
    Capacity,      \* datagrams that a socket's receive queue holds
    MaxStrangers,  \* datagrams from senders other than dns_server
    Faults,        \* what may happen: "loss", "duplicate", "error", "cancel"
    None

VARIABLES
    pc,         \* "start" | "send" | "receive" | "returned" | "dropped"
    port,       \* the port of the query's socket
    net,        \* datagrams under way: to the server or to a port
    queue,      \* queue[p]: what the socket at port p has received
    result,     \* what query() returned: the query that was answered, or "error"
    lost,       \* queries whose packet or answer did not arrive somewhere
    strangers   \* how many foreign datagrams there were

vars == <<pc, port, net, queue, result, lost, strangers>>

Server == "server"
\* An address is of a socket of the caller or of the server.
ASSUME PortsAssumption == None \notin Ports /\ Server \notin Ports
ASSUME BoundsAssumption == Capacity \in Nat /\ MaxStrangers \in Nat

Request(q)     == [to |-> Server, from |-> port[q], query |-> q]
Answer(d)      == [to |-> d.from, from |-> Server, query |-> d.query]
Foreign(p)     == [to |-> p, from |-> "stranger", query |-> "foreign"]

Bound(p) == \E q \in Queries : pc[q] \in {"send", "receive"} /\ port[q] = p

Init ==
    /\ pc = [q \in Queries |-> "start"]
    /\ port = [q \in Queries |-> None]
    /\ net = {}
    /\ queue = [p \in Ports |-> <<>>]
    /\ result = [q \in Queries |-> None]
    /\ lost = {}
    /\ strangers = 0

\* A query() that leaves the binding to a later step.
Bind_late(q) ==
    /\ pc[q] = "start"
    /\ pc' = [pc EXCEPT ![q] = "send"]
    /\ UNCHANGED <<port, net, queue, result, lost, strangers>>

\* UdpSocket::bind() of port 0: a port that no socket has, with an empty queue.
Bind(q) ==
    /\ pc[q] = "start"
    /\ \E p \in Ports :
         /\ ~Bound(p)
         /\ port' = [port EXCEPT ![q] = p]
         /\ queue' = [queue EXCEPT ![p] = <<>>]
    /\ pc' = [pc EXCEPT ![q] = "send"]
    /\ UNCHANGED <<net, result, lost, strangers>>

\* send_to() has gone through, once.
Send(q) ==
    /\ pc[q] = "send"
    /\ net' = net \cup {Request(q)}
    /\ pc' = [pc EXCEPT ![q] = "receive"]
    /\ UNCHANGED <<port, queue, result, lost, strangers>>

Returns(q, value) ==
    /\ result' = [result EXCEPT ![q] = value]
    /\ pc' = [pc EXCEPT ![q] = "returned"]

\* bind(), send_to() or recv_from() fails.
Fail(q) ==
    /\ "error" \in Faults
    /\ pc[q] \in {"start", "send", "receive"}
    /\ Returns(q, "error")
    /\ UNCHANGED <<port, net, queue, lost, strangers>>

\* A loop that does not look at the sender, and one that looks at the packet
\* before it takes it.
Receive_any(q) ==
    /\ pc[q] = "receive" /\ queue[port[q]] # <<>>
    /\ queue' = [queue EXCEPT ![port[q]] = Tail(@)]
    /\ Returns(q, Head(queue[port[q]]).query)
    /\ UNCHANGED <<port, net, lost, strangers>>

Receive_peek(q) ==
    /\ pc[q] = "receive" /\ queue[port[q]] # <<>>
    /\ Head(queue[port[q]]).from = Server
    /\ queue' = [queue EXCEPT ![port[q]] = Tail(@)]
    /\ Returns(q, Head(queue[port[q]]).query)
    /\ UNCHANGED <<port, net, lost, strangers>>

\* A loop that starts over with an empty socket after a foreign datagram.
Receive_reopen(q) ==
    /\ pc[q] = "receive" /\ queue[port[q]] # <<>>
    /\ LET d == Head(queue[port[q]])
       IN  /\ queue' = [queue EXCEPT ![port[q]] = IF d.from = Server THEN Tail(@) ELSE <<>>]
           /\ IF d.from = Server THEN Returns(q, d.query) ELSE UNCHANGED <<pc, result>>
    /\ UNCHANGED <<port, net, lost, strangers>>

\* One turn of the loop: recv_from() takes the oldest datagram, and only one of
\* the server is parsed and returned.
Receive(q) ==
    /\ pc[q] = "receive" /\ queue[port[q]] # <<>>
    /\ queue' = [queue EXCEPT ![port[q]] = Tail(@)]
    /\ LET d == Head(queue[port[q]])
       IN  IF d.from = Server THEN Returns(q, d.query) ELSE UNCHANGED <<pc, result>>
    /\ UNCHANGED <<port, net, lost, strangers>>

\* The future is dropped: the socket is closed.
Cancel(q) ==
    /\ "cancel" \in Faults
    /\ pc[q] \in {"send", "receive"}
    /\ pc' = [pc EXCEPT ![q] = "dropped"]
    /\ UNCHANGED <<port, net, queue, result, lost, strangers>>

-----------------------------------------------------------------------------
\* The network and the server

Gone(d) == net' = net \ {d} \/ ("duplicate" \in Faults /\ net' = net)

Serve(d) ==
    /\ d \in net /\ d.to = Server
    /\ \/ net' = (net \ {d}) \cup {Answer(d)}
       \/ "duplicate" \in Faults /\ net' = net \cup {Answer(d)} /\ net' # net
    /\ UNCHANGED <<pc, port, queue, result, lost, strangers>>

\* A datagram for a closed port vanishes, and so does one that finds the queue
\* of its socket full.
Deliver(d) ==
    /\ d \in net /\ d.to # Server
    /\ Gone(d)
    /\ LET fits == Bound(d.to) /\ Len(queue[d.to]) < Capacity
       IN  /\ queue' = IF fits THEN [queue EXCEPT ![d.to] = Append(@, d)] ELSE queue
           /\ lost'  = IF fits THEN lost ELSE lost \cup {d.query}
    /\ UNCHANGED <<pc, port, result, strangers>>

Lose(d) ==
    /\ "loss" \in Faults
    /\ d \in net
    /\ net' = net \ {d}
    /\ lost' = lost \cup {d.query}
    /\ UNCHANGED <<pc, port, queue, result, strangers>>

Intrude(p) ==
    /\ strangers < MaxStrangers
    /\ Bound(p) /\ Len(queue[p]) < Capacity
    /\ queue' = [queue EXCEPT ![p] = Append(@, Foreign(p))]
    /\ strangers' = strangers + 1
    /\ UNCHANGED <<pc, port, net, result, lost>>

Network ==
    \/ \E d \in net : Serve(d) \/ Deliver(d) \/ Lose(d)
    \/ \E p \in Ports : Intrude(p)

Query(q) == Bind(q) \/ Send(q) \/ Receive(q)

Next ==
    \/ \E q \in Queries : Query(q) \/ Fail(q) \/ Cancel(q)
    \/ Network

Datagrams == {[to |-> Server, from |-> p, query |-> q] : p \in Ports, q \in Queries}
               \cup {[to |-> p, from |-> Server, query |-> q] : p \in Ports, q \in Queries}

Fairness ==
    /\ \A q \in Queries : WF_vars(Query(q))
    /\ \A d \in Datagrams : WF_vars(Serve(d) \/ Deliver(d))

Spec == Init /\ [][Next]_vars
FairSpec == Spec /\ Fairness
-----------------------------------------------------------------------------
TypeOK ==
    /\ pc \in [Queries -> {"start", "send", "receive", "returned", "dropped"}]
    /\ port \in [Queries -> Ports \cup {None}]
    /\ net \subseteq Datagrams
    /\ \A p \in Ports : Len(queue[p]) <= Capacity
    /\ result \in [Queries -> Queries \cup {None, "error"}]
    /\ lost \subseteq Queries
    /\ strangers \in 0..MaxStrangers

\* The queries that had this port before.
LateFor(q) == {r \in Queries \ {q} : pc[r] \in {"returned", "dropped"} /\ port[r] = port[q]}

\* No identifier is compared, so what a query returns is an answer of the server to the
\* query itself or a late one to a query that ended before and had the same port: never
\* that of a query still open, nor a stranger's, whatever is queued or under way.
OwnOrLateAnswer ==
    \A q \in Queries : result[q] \in {q, None, "error"} \cup LateFor(q)

\* What a caller would like, and does not get: a query returns the answer to itself.
OwnAnswer == \A q \in Queries : result[q] \in {q, None, "error"}

\* While a query waits, its packet or an answer to it is under way or queued at its
\* socket, behind whatever came before, unless it was lost.
AnswerIsOnItsWay ==
    \A q \in Queries : pc[q] = "receive" =>
        \/ q \in lost
        \/ \E d \in net : d.query = q
        \/ \E i \in DOMAIN queue[port[q]] :
             queue[port[q]][i].from = Server /\ queue[port[q]][i].query = q

\* Nothing is sent again and nothing times out, but a query whose packet and
\* answer are not lost does not wait for ever, however many foreign datagrams
\* are queued before the answer.
WaitsOnlyForLostPackets ==
    \A q \in Queries : pc[q] = "send" ~> pc[q] \notin {"send", "receive"} \/ q \in lost
=============================================================================
