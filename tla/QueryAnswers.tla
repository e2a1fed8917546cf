---------------------------- MODULE QueryAnswers ----------------------------
(***************************************************************************)
(* Theorems about DnsQuery, for any number of queries and ports and every  *)
(* fault: its state is of its types, a waiting query has its packet or an  *)
(* answer ahead of it, and what a query returns is the answer to itself or *)
(* a late one to an earlier query of its port.                             *)
(***************************************************************************)
EXTENDS DnsQuery, TLAPS

Received == Datagrams \cup {Foreign(p) : p \in Ports}
Waiting(q) == pc[q] \in {"send", "receive"}

\* What is queued at a socket was sent to it.
QueueInv ==
    /\ queue \in [Ports -> Seq(Received)]
    /\ \A p \in Ports : \A i \in DOMAIN queue[p] : queue[p][i].to = p
    /\ \A q \in Queries : Waiting(q) => port[q] \in Ports
    /\ \A q \in Queries : pc[q] = "start" => port[q] = None

\* The port at the caller's end of a datagram.
CallersPort(d) == IF d.to = Server THEN d.from ELSE d.to

\* Sockets that are open have different ports, and what is under way about a query is
\* under way between the server and the query's own socket.
WayInv ==
    /\ \A q, r \in Queries : Waiting(q) /\ Waiting(r) /\ port[q] = port[r] => q = r
    /\ \A d \in net : port[d.query] = CallersPort(d)
    /\ AnswerIsOnItsWay

Ended(q) == pc[q] \in {"returned", "dropped"}

\* All that the server has sent to a port is about a query that had it, and a query that
\* has not begun has returned nothing.
RouteInv ==
    /\ \A p \in Ports : \A i \in DOMAIN queue[p] :
         queue[p][i].from = Server => port[queue[p][i].query] = p
    /\ \A q \in Queries : pc[q] = "start" => result[q] = None

LEMMA DatagramFacts ==
    /\ \A d \in Datagrams :
         /\ d.query \in Queries /\ CallersPort(d) \in Ports
         /\ d.to = Server => /\ d.from \in Ports
                             /\ Answer(d) \in Datagrams
                             /\ Answer(d).query = d.query
                             /\ CallersPort(Answer(d)) = CallersPort(d)
         /\ d.to # Server => d.to \in Ports /\ CallersPort(d) = d.to
    /\ \A p \in Ports : Foreign(p) \in Received /\ Foreign(p).to = p /\ Foreign(p).from # Server
    /\ \A d \in Received : d.from = Server => d.query \in Queries
    /\ Datagrams \subseteq Received
<1>1. ASSUME NEW d \in Datagrams
      PROVE  /\ d.query \in Queries /\ CallersPort(d) \in Ports
             /\ d.to = Server => /\ d.from \in Ports
                                 /\ Answer(d) \in Datagrams
                                 /\ Answer(d).query = d.query
                                 /\ CallersPort(Answer(d)) = CallersPort(d)
             /\ d.to # Server => d.to \in Ports /\ CallersPort(d) = d.to
  <2>1. CASE d \in {[to |-> Server, from |-> p, query |-> q] : p \in Ports, q \in Queries}
    <3>1. PICK p \in Ports, q \in Queries : d = [to |-> Server, from |-> p, query |-> q]
      BY <2>1
    <3>2. Answer(d) = [to |-> p, from |-> Server, query |-> q]
      BY <3>1 DEF Answer
    <3>3. Answer(d) \in Datagrams
      BY <3>2 DEF Datagrams
    <3>4. d.to = Server /\ d.from = p /\ d.query = q
      BY <3>1
    <3>5. Answer(d).to = p /\ Answer(d).query = q
      BY <3>2
    <3> QED BY <3>3, <3>4, <3>5, PortsAssumption DEF CallersPort
  <2>2. CASE d \in {[to |-> p, from |-> Server, query |-> q] : p \in Ports, q \in Queries}
    <3>1. PICK p \in Ports, q \in Queries : d = [to |-> p, from |-> Server, query |-> q]
      BY <2>2
    <3>2. d.to = p /\ d.query = q /\ p # Server
      BY <3>1, PortsAssumption
    <3> QED BY <3>2 DEF CallersPort
  <2> QED BY <2>1, <2>2 DEF Datagrams
<1>2. \A p \in Ports : Foreign(p) \in Received /\ Foreign(p).to = p /\ Foreign(p).from # Server
  BY DEF Foreign, Received, Server
<1>3. ASSUME NEW d \in Received, d.from = Server PROVE d.query \in Queries
  BY <1>1, <1>2, <1>3 DEF Received
<1> QED BY <1>1, <1>2, <1>3 DEF Received

-----------------------------------------------------------------------------
LEMMA InitTyped == Init => TypeOK /\ QueueInv
BY PortsAssumption, BoundsAssumption DEF Init, TypeOK, QueueInv, Waiting

\* Taking the oldest datagram of a queue, and adding one to it.
LEMMA QueueTail ==
    ASSUME NEW S, NEW s \in Seq(S), s # <<>>
    PROVE  /\ Head(s) \in S /\ 1 \in DOMAIN s /\ s[1] = Head(s)
           /\ Tail(s) \in Seq(S) /\ Len(Tail(s)) < Len(s)
           /\ \A i \in DOMAIN Tail(s) : i + 1 \in DOMAIN s /\ Tail(s)[i] = s[i + 1]
OBVIOUS

LEMMA QueueAppend ==
    ASSUME NEW S, NEW s \in Seq(S), NEW d \in S
    PROVE  /\ Append(s, d) \in Seq(S) /\ Len(Append(s, d)) = Len(s) + 1
           /\ \A i \in DOMAIN Append(s, d) :
                \/ i \in DOMAIN s /\ Append(s, d)[i] = s[i]
                \/ Append(s, d)[i] = d
OBVIOUS

LEMMA TypedStep == TypeOK /\ QueueInv /\ [Next]_vars => TypeOK' /\ QueueInv'
<1> SUFFICES ASSUME TypeOK, QueueInv, [Next]_vars PROVE TypeOK' /\ QueueInv'
  OBVIOUS
<1> USE DatagramFacts
<1>1. /\ pc \in [Queries -> {"start", "send", "receive", "returned", "dropped"}]
      /\ port \in [Queries -> Ports \cup {None}]
      /\ net \subseteq Datagrams
      /\ \A p \in Ports : Len(queue[p]) <= Capacity
      /\ result \in [Queries -> Queries \cup {None, "error"}]
      /\ lost \subseteq Queries /\ strangers \in 0..MaxStrangers
      /\ queue \in [Ports -> Seq(Received)]
  BY DEF TypeOK, QueueInv
<1>2. ASSUME NEW q \in Queries, Bind(q) PROVE TypeOK' /\ QueueInv'
  <2>1. PICK p \in Ports : /\ port' = [port EXCEPT ![q] = p]
                           /\ queue' = [queue EXCEPT ![p] = <<>>]
    BY <1>2 DEF Bind
  <2>2. pc[q] = "start" /\ pc' = [pc EXCEPT ![q] = "send"]
        /\ UNCHANGED <<net, result, lost, strangers>>
    BY <1>2 DEF Bind
  <2>3. TypeOK'
    BY <1>1, <2>1, <2>2, BoundsAssumption DEF TypeOK
  <2>4. QueueInv'
    BY <1>1, <2>1, <2>2, PortsAssumption DEF QueueInv, Waiting
  <2> QED BY <2>3, <2>4
<1>3. ASSUME NEW q \in Queries, Send(q) PROVE TypeOK' /\ QueueInv'
  <2>1. port[q] \in Ports
    BY <1>3 DEF Send, QueueInv, Waiting
  <2>2. Request(q) \in Datagrams
    BY <2>1 DEF Request, Datagrams
  <2>3. TypeOK'
    BY <1>1, <1>3, <2>2 DEF TypeOK, Send
  <2>4. QueueInv'
    BY <1>1, <1>3 DEF QueueInv, Waiting, Send
  <2> QED BY <2>3, <2>4
<1>4. ASSUME NEW q \in Queries, Receive(q) PROVE TypeOK' /\ QueueInv'
  <2> DEFINE p == port[q]
  <2>1. pc[q] = "receive" /\ queue[p] # <<>> /\ p \in Ports /\ queue[p] \in Seq(Received)
        /\ queue' = [queue EXCEPT ![p] = Tail(queue[p])] /\ UNCHANGED <<port, net, lost, strangers>>
    BY <1>1, <1>4 DEF Receive, QueueInv, Waiting
  <2>2. /\ Head(queue[p]) \in Received /\ Tail(queue[p]) \in Seq(Received)
        /\ Len(Tail(queue[p])) < Len(queue[p])
        /\ \A i \in DOMAIN Tail(queue[p]) :
             i + 1 \in DOMAIN queue[p] /\ Tail(queue[p])[i] = queue[p][i + 1]
    BY <2>1, QueueTail
  <2>3. \/ UNCHANGED <<pc, result>>
        \/ /\ result' = [result EXCEPT ![q] = Head(queue[p]).query]
           /\ pc' = [pc EXCEPT ![q] = "returned"]
           /\ Head(queue[p]).query \in Queries
    BY <1>4, <2>2 DEF Receive, Returns
  <2> HIDE DEF p
  <2>4. \A o \in Ports : Len(queue'[o]) <= Capacity
    BY <1>1, <2>1, <2>2, BoundsAssumption
  <2>5. TypeOK'
    BY <1>1, <2>1, <2>3, <2>4 DEF TypeOK
  <2>6. queue' \in [Ports -> Seq(Received)]
    BY <1>1, <2>1, <2>2
  <2>7. \A o \in Ports : \A i \in DOMAIN queue'[o] : queue'[o][i].to = o
    BY <1>1, <2>1, <2>2 DEF QueueInv
  <2>8. QueueInv'
    BY <1>1, <2>1, <2>3, <2>6, <2>7 DEF QueueInv, Waiting
  <2> QED BY <2>5, <2>8
<1>5. ASSUME NEW q \in Queries, Fail(q) PROVE TypeOK' /\ QueueInv'
  BY <1>1, <1>5 DEF TypeOK, QueueInv, Waiting, Fail, Returns
<1>6. ASSUME NEW q \in Queries, Cancel(q) PROVE TypeOK' /\ QueueInv'
  BY <1>1, <1>6 DEF TypeOK, QueueInv, Waiting, Cancel
<1>7. ASSUME NEW d \in net, Serve(d) PROVE TypeOK' /\ QueueInv'
  <2>1. net' \subseteq Datagrams
    BY <1>1, <1>7 DEF Serve
  <2> QED BY <1>1, <1>7, <2>1 DEF TypeOK, QueueInv, Waiting, Serve
<1>8. ASSUME NEW p \in Ports, NEW d \in Received, d.to = p, Len(queue[p]) < Capacity,
             queue' = [queue EXCEPT ![p] = Append(queue[p], d)], UNCHANGED <<pc, port>>
      PROVE  QueueInv' /\ \A o \in Ports : Len(queue'[o]) <= Capacity
  <2>1. /\ Append(queue[p], d) \in Seq(Received)
        /\ Len(Append(queue[p], d)) = Len(queue[p]) + 1 /\ Len(queue[p]) \in Nat
        /\ \A i \in DOMAIN Append(queue[p], d) :
             \/ i \in DOMAIN queue[p] /\ Append(queue[p], d)[i] = queue[p][i]
             \/ Append(queue[p], d)[i] = d
    BY <1>1, QueueAppend
  <2>2. queue' \in [Ports -> Seq(Received)]
    BY <1>1, <1>8, <2>1
  <2>3. \A o \in Ports : \A i \in DOMAIN queue'[o] : queue'[o][i].to = o
    BY <1>1, <1>8, <2>1 DEF QueueInv
  <2>4. \A o \in Ports : Len(queue'[o]) <= Capacity
    BY <1>1, <1>8, <2>1, BoundsAssumption
  <2> QED BY <1>8, <2>2, <2>3, <2>4 DEF QueueInv, Waiting
<1>9. ASSUME NEW d \in net, Deliver(d) PROVE TypeOK' /\ QueueInv'
  <2>1. d \in Received /\ d.to \in Ports /\ d.query \in Queries
        /\ net' \subseteq Datagrams /\ UNCHANGED <<pc, port, result, strangers>>
    BY <1>1, <1>9 DEF Deliver, Gone
  <2>2. CASE Bound(d.to) /\ Len(queue[d.to]) < Capacity
    <3>1. queue' = [queue EXCEPT ![d.to] = Append(queue[d.to], d)] /\ lost' = lost
      BY <1>9, <2>2 DEF Deliver
    <3> QED BY <1>1, <1>8, <2>1, <2>2, <3>1 DEF TypeOK
  <2>3. CASE ~(Bound(d.to) /\ Len(queue[d.to]) < Capacity)
    <3>1. queue' = queue /\ lost' = lost \cup {d.query}
      BY <1>9, <2>3 DEF Deliver
    <3> QED BY <1>1, <2>1, <3>1 DEF TypeOK, QueueInv, Waiting
  <2> QED BY <2>2, <2>3
<1>10. ASSUME NEW d \in net, Lose(d) PROVE TypeOK' /\ QueueInv'
  BY <1>1, <1>10 DEF TypeOK, QueueInv, Waiting, Lose
<1>11. ASSUME NEW p \in Ports, Intrude(p) PROVE TypeOK' /\ QueueInv'
  <2>1. /\ queue' = [queue EXCEPT ![p] = Append(queue[p], Foreign(p))] /\ Len(queue[p]) < Capacity
        /\ strangers < MaxStrangers /\ strangers' = strangers + 1
        /\ UNCHANGED <<pc, port, net, result, lost>>
    BY <1>11 DEF Intrude
  <2>2. strangers' \in 0..MaxStrangers
    BY <1>1, <2>1, BoundsAssumption
  <2> QED BY <1>1, <1>8, <2>1, <2>2 DEF TypeOK
<1>12. CASE UNCHANGED vars
  BY <1>1, <1>12 DEF TypeOK, QueueInv, Waiting, vars
<1> QED BY <1>2, <1>3, <1>4, <1>5, <1>6, <1>7, <1>9, <1>10, <1>11, <1>12
        DEF Next, Query, Network

\* The state of query(), its sockets and the network is of its types, whatever is lost,
\* duplicated or sent by a stranger; no receive queue grows beyond its capacity.
THEOREM QueryTypeOK == Spec => []TypeOK
BY InitTyped, TypedStep, PTL DEF Spec

-----------------------------------------------------------------------------
LEMMA InitWay == Init => WayInv
BY DEF Init, WayInv, Waiting, AnswerIsOnItsWay

LEMMA WayStep == TypeOK /\ QueueInv /\ WayInv /\ [Next]_vars => WayInv'
<1> SUFFICES ASSUME TypeOK, QueueInv, WayInv, [Next]_vars PROVE WayInv'
  OBVIOUS
<1> USE DatagramFacts
<1> DEFINE OnItsWay(q) ==
             \/ q \in lost
             \/ \E d \in net : d.query = q
             \/ \E i \in DOMAIN queue[port[q]] :
                  queue[port[q]][i].from = Server /\ queue[port[q]][i].query = q
<1>1. /\ pc \in [Queries -> {"start", "send", "receive", "returned", "dropped"}]
      /\ port \in [Queries -> Ports \cup {None}] /\ net \subseteq Datagrams
      /\ queue \in [Ports -> Seq(Received)]
      /\ \A q \in Queries : Waiting(q) => port[q] \in Ports
      /\ \A q \in Queries : pc[q] = "start" => port[q] = None
      /\ \A q, r \in Queries : Waiting(q) /\ Waiting(r) /\ port[q] = port[r] => q = r
      /\ \A d \in net : d.query \in Queries /\ port[d.query] = CallersPort(d)
      /\ \A q \in Queries : pc[q] = "receive" => OnItsWay(q)
  BY DEF TypeOK, QueueInv, WayInv, AnswerIsOnItsWay
<1>2. WayInv' <=>
        /\ \A q, r \in Queries : Waiting(q)' /\ Waiting(r)' /\ port'[q] = port'[r] => q = r
        /\ \A d \in net' : port'[d.query] = CallersPort(d)
        /\ \A q \in Queries : pc'[q] = "receive" => OnItsWay(q)'
  BY DEF WayInv, AnswerIsOnItsWay
<1>3. ASSUME NEW q \in Queries, Bind(q) PROVE WayInv'
  <2>1. PICK p \in Ports : ~Bound(p) /\ port' = [port EXCEPT ![q] = p]
                           /\ queue' = [queue EXCEPT ![p] = <<>>]
    BY <1>3 DEF Bind
  <2>2. pc[q] = "start" /\ pc' = [pc EXCEPT ![q] = "send"] /\ UNCHANGED <<net, lost>>
    BY <1>3 DEF Bind
  <2>3. \A r \in Queries : Waiting(r) => port[r] # p
    BY <2>1 DEF Bound, Waiting
  <2>4. \A r, o \in Queries : Waiting(r)' /\ Waiting(o)' /\ port'[r] = port'[o] => r = o
    BY <1>1, <2>1, <2>2, <2>3 DEF Waiting
  <2>5. \A d \in net' : port'[d.query] = CallersPort(d)
    BY <1>1, <2>1, <2>2, PortsAssumption
  <2>6. ASSUME NEW r \in Queries, pc'[r] = "receive" PROVE OnItsWay(r)'
    <3>1. r # q /\ pc[r] = "receive" /\ port'[r] = port[r] /\ port[r] \in Ports /\ port[r] # p
      BY <1>1, <2>1, <2>2, <2>3, <2>6 DEF Waiting
    <3>2. queue'[port'[r]] = queue[port[r]]
      BY <1>1, <2>1, <3>1
    <3> QED BY <1>1, <2>2, <3>1, <3>2
  <2> QED BY <1>2, <2>4, <2>5, <2>6
<1>4. ASSUME NEW q \in Queries, Send(q) PROVE WayInv'
  <2>1. Request(q).query = q /\ CallersPort(Request(q)) = port[q]
    BY DEF Request, CallersPort
  <2>2. pc[q] = "send" /\ pc' = [pc EXCEPT ![q] = "receive"]
        /\ net' = net \cup {Request(q)} /\ UNCHANGED <<port, queue, lost>>
    BY <1>4 DEF Send
  <2>3. \A r \in Queries : pc'[r] = "receive" => OnItsWay(r)'
    BY <1>1, <2>1, <2>2
  <2> QED BY <1>1, <1>2, <2>1, <2>2, <2>3 DEF Waiting
<1>5. ASSUME NEW q \in Queries, Receive(q) PROVE WayInv'
  <2> DEFINE p == port[q]
  <2>1. pc[q] = "receive" /\ queue[p] # <<>> /\ p \in Ports /\ queue[p] \in Seq(Received)
        /\ queue' = [queue EXCEPT ![p] = Tail(queue[p])] /\ UNCHANGED <<port, net, lost>>
    BY <1>1, <1>5 DEF Receive, Waiting
  <2>2. /\ pc' = pc \/ pc' = [pc EXCEPT ![q] = "returned"]
        /\ Head(queue[p]).from = Server => pc' = [pc EXCEPT ![q] = "returned"]
    BY <1>5 DEF Receive, Returns
  <2>3. ASSUME NEW r \in Queries, pc'[r] = "receive" PROVE OnItsWay(r)'
    <3>1. pc[r] = "receive" /\ port[r] \in Ports
      BY <1>1, <2>2, <2>3 DEF Waiting
    <3>2. CASE r # q
      <4>1. queue'[port'[r]] = queue[port[r]]
        BY <1>1, <2>1, <3>1, <3>2 DEF Waiting
      <4> QED BY <1>1, <2>1, <3>1, <4>1
    <3>3. CASE r = q
      <4>1. Head(queue[p]).from # Server /\ queue'[p] = Tail(queue[p])
        BY <1>1, <2>1, <2>2, <2>3, <3>3
      <4>2. ASSUME NEW i \in DOMAIN queue[p], queue[p][i].from = Server, queue[p][i].query = q
            PROVE  \E j \in DOMAIN Tail(queue[p]) : Tail(queue[p])[j] = queue[p][i]
        <5> DEFINE s == queue[p]
        <5>1. s \in Seq(Received) /\ s # <<>> /\ i \in DOMAIN s /\ i # 1
          BY <2>1, <4>1, <4>2, QueueTail
        <5> HIDE DEF s
        <5>2. i - 1 \in DOMAIN Tail(s) /\ Tail(s)[i - 1] = s[i]
          BY <5>1
        <5> QED BY <5>2 DEF s
      <4>3. CASE \E i \in DOMAIN queue[p] : queue[p][i].from = Server /\ queue[p][i].query = q
        <5>1. \E j \in DOMAIN queue'[p] : queue'[p][j].from = Server /\ queue'[p][j].query = q
          BY <4>1, <4>2, <4>3
        <5> QED BY <2>1, <3>3, <5>1
      <4>4. CASE q \in lost \/ \E d \in net : d.query = q
        BY <2>1, <3>3, <4>4
      <4> QED BY <1>1, <3>1, <3>3, <4>3, <4>4
    <3> QED BY <3>2, <3>3
  <2> QED BY <1>1, <1>2, <2>1, <2>2, <2>3 DEF Waiting
<1>6. ASSUME NEW q \in Queries, Fail(q) \/ Cancel(q) PROVE WayInv'
  <2>1. UNCHANGED <<port, net, queue, lost>> /\ (pc' = [pc EXCEPT ![q] = "returned"]
                                                   \/ pc' = [pc EXCEPT ![q] = "dropped"])
    BY <1>6 DEF Fail, Cancel, Returns
  <2> QED BY <1>1, <1>2, <2>1 DEF Waiting
<1>7. ASSUME NEW d \in net, Serve(d) PROVE WayInv'
  <2>1. /\ d.to = Server /\ UNCHANGED <<pc, port, queue, lost>> /\ Answer(d) \in net'
        /\ net' \subseteq net \cup {Answer(d)} /\ net \ {d} \subseteq net'
    BY <1>7 DEF Serve
  <2>2. Answer(d).query = d.query /\ CallersPort(Answer(d)) = CallersPort(d)
    BY <1>1, <2>1
  <2>3. \A r \in Queries : (\E e \in net : e.query = r) => \E e \in net' : e.query = r
    BY <2>1, <2>2
  <2>4. \A r \in Queries : pc'[r] = "receive" => OnItsWay(r)'
    BY <1>1, <2>1, <2>3
  <2>5. \A e \in net' : port'[e.query] = CallersPort(e)
    BY <1>1, <2>1, <2>2
  <2> QED BY <1>1, <1>2, <2>1, <2>4, <2>5 DEF Waiting
<1>8. ASSUME NEW p \in Ports, NEW d \in Received,
             queue' = [queue EXCEPT ![p] = Append(queue[p], d)],
             NEW r \in Queries, port[r] \in Ports, port' = port
      PROVE  (\E i \in DOMAIN queue[port[r]] :
                queue[port[r]][i].from = Server /\ queue[port[r]][i].query = r)
               => \E i \in DOMAIN queue'[port'[r]] :
                    queue'[port'[r]][i].from = Server /\ queue'[port'[r]][i].query = r
  <2> DEFINE s == queue[p]
             t == Append(s, d)
  <2>1. s \in Seq(Received) /\ queue' = [queue EXCEPT ![p] = t]
    BY <1>1, <1>8
  <2>2. DOMAIN s \subseteq DOMAIN t /\ \A i \in DOMAIN s : t[i] = s[i]
    <3> HIDE DEF s
    <3> QED BY <2>1
  <2> HIDE DEF t
  <2> QED BY <1>1, <1>8, <2>1, <2>2
<1>9. ASSUME NEW d \in net, Deliver(d) PROVE WayInv'
  <2>1. /\ d \in Received /\ d.to \in Ports /\ d.query \in Queries /\ port[d.query] = d.to
        /\ net' \subseteq net /\ net \ {d} \subseteq net' /\ UNCHANGED <<pc, port>>
        /\ d.from = Server
    BY <1>1, <1>9 DEF Deliver, Gone, Datagrams
  <2>2. CASE queue' = [queue EXCEPT ![d.to] = Append(queue[d.to], d)] /\ lost' = lost
    <3>1. ASSUME NEW r \in Queries, pc'[r] = "receive" PROVE OnItsWay(r)'
      <4>1. pc[r] = "receive" /\ port[r] \in Ports
        BY <1>1, <2>1, <3>1 DEF Waiting
      <4>2. CASE r = d.query
        <5>1. \E i \in DOMAIN queue'[d.to] : queue'[d.to][i] = d
          <6> DEFINE s == queue[d.to]
          <6>1. s \in Seq(Received) /\ queue'[d.to] = Append(s, d)
            BY <1>1, <2>1, <2>2
          <6> HIDE DEF s
          <6>2. Len(s) + 1 \in DOMAIN Append(s, d) /\ Append(s, d)[Len(s) + 1] = d
            BY <6>1
          <6> QED BY <6>1, <6>2
        <5> QED BY <2>1, <4>2, <5>1
      <4>3. CASE r # d.query
        <5>1. CASE \E i \in DOMAIN queue[port[r]] :
                      queue[port[r]][i].from = Server /\ queue[port[r]][i].query = r
          <6>1. \E i \in DOMAIN queue'[port'[r]] :
                  queue'[port'[r]][i].from = Server /\ queue'[port'[r]][i].query = r
            BY <1>8, <2>1, <2>2, <4>1, <5>1
          <6> QED BY <6>1
        <5>2. CASE r \in lost \/ \E e \in net : e.query = r
          BY <2>1, <2>2, <4>3, <5>2
        <5> QED BY <1>1, <4>1, <5>1, <5>2
      <4> QED BY <4>2, <4>3
    <3> QED BY <1>1, <1>2, <2>1, <3>1 DEF Waiting
  <2>3. CASE queue' = queue /\ lost' = lost \cup {d.query}
    <3>1. \A r \in Queries : pc'[r] = "receive" => OnItsWay(r)'
      BY <1>1, <2>1, <2>3
    <3> QED BY <1>1, <1>2, <2>1, <3>1 DEF Waiting
  <2> QED BY <1>9, <2>2, <2>3 DEF Deliver
<1>10. ASSUME NEW d \in net, Lose(d) PROVE WayInv'
  <2>1. net' = net \ {d} /\ lost' = lost \cup {d.query} /\ UNCHANGED <<pc, port, queue>>
    BY <1>10 DEF Lose
  <2>2. \A r \in Queries : pc'[r] = "receive" => OnItsWay(r)'
    BY <1>1, <2>1
  <2> QED BY <1>1, <1>2, <2>1, <2>2 DEF Waiting
<1>11. ASSUME NEW p \in Ports, Intrude(p) PROVE WayInv'
  <2>1. /\ queue' = [queue EXCEPT ![p] = Append(queue[p], Foreign(p))]
        /\ UNCHANGED <<pc, port, net, lost>>
    BY <1>11 DEF Intrude
  <2>2. \A r \in Queries : pc'[r] = "receive" => OnItsWay(r)'
    BY <1>1, <1>8, <2>1 DEF Waiting
  <2> QED BY <1>1, <1>2, <2>1, <2>2 DEF Waiting
<1>12. CASE UNCHANGED vars
  BY <1>1, <1>2, <1>12 DEF vars, Waiting
<1> QED BY <1>3, <1>4, <1>5, <1>6, <1>7, <1>9, <1>10, <1>11, <1>12
        DEF Next, Query, Network

\* A query that waits has its packet or an answer ahead of it, or it was lost: nothing that
\* query() does with foreign datagrams makes it lose its own answer.
THEOREM WaitingHasAReason == Spec => []AnswerIsOnItsWay
<1>1. Init => TypeOK /\ QueueInv /\ WayInv
  BY InitTyped, InitWay
<1>2. TypeOK /\ QueueInv /\ WayInv /\ [Next]_vars => (TypeOK /\ QueueInv /\ WayInv)'
  BY TypedStep, WayStep
<1>3. WayInv => AnswerIsOnItsWay
  BY DEF WayInv
<1> QED BY <1>1, <1>2, <1>3, PTL DEF Spec

-----------------------------------------------------------------------------
LEMMA InitRoutes == Init => RouteInv /\ OwnOrLateAnswer
BY DEF Init, RouteInv, OwnOrLateAnswer

\* What a query returned stays a late answer: a query that ended keeps its port.
LEMMA LateStaysLate ==
    ASSUME TypeOK, OwnOrLateAnswer, NEW o \in Queries,
           \A r \in Queries : Ended(r) => pc'[r] \in {"returned", "dropped"} /\ port'[r] = port[r],
           result'[o] = result[o], port'[o] = port[o]
    PROVE  result'[o] \in {o, None, "error"} \cup LateFor(o)'
BY DEF OwnOrLateAnswer, LateFor, Ended

LEMMA RouteStep ==
    TypeOK /\ QueueInv /\ WayInv /\ RouteInv /\ OwnOrLateAnswer /\ [Next]_vars
      => RouteInv' /\ OwnOrLateAnswer'
<1> SUFFICES ASSUME TypeOK, QueueInv, WayInv, RouteInv, OwnOrLateAnswer, [Next]_vars
             PROVE  RouteInv' /\ OwnOrLateAnswer'
  OBVIOUS
<1> USE DatagramFacts
<1>1. /\ port \in [Queries -> Ports \cup {None}] /\ net \subseteq Datagrams
      /\ pc \in [Queries -> {"start", "send", "receive", "returned", "dropped"}]
      /\ result \in [Queries -> Queries \cup {None, "error"}]
      /\ queue \in [Ports -> Seq(Received)]
  BY DEF TypeOK, QueueInv
\* A step that gives no query a port and lets none return.
<1>2. ASSUME UNCHANGED <<port, result>>,
             \A r \in Queries : Ended(r) => pc'[r] \in {"returned", "dropped"}
      PROVE  OwnOrLateAnswer'
  <2>1. ASSUME NEW o \in Queries PROVE result'[o] \in {o, None, "error"} \cup LateFor(o)'
    BY <1>2, LateStaysLate
  <2> QED BY <2>1 DEF OwnOrLateAnswer
<1>3. ASSUME NEW q \in Queries, Bind(q) PROVE RouteInv' /\ OwnOrLateAnswer'
  <2>1. PICK p \in Ports : /\ port' = [port EXCEPT ![q] = p]
                           /\ queue' = [queue EXCEPT ![p] = <<>>]
    BY <1>3 DEF Bind
  <2>2. /\ pc[q] = "start" /\ port[q] = None /\ result[q] = None
        /\ pc' = [pc EXCEPT ![q] = "send"] /\ UNCHANGED <<net, result>>
    BY <1>3 DEF Bind, QueueInv, RouteInv
  <2>3. \A r \in Queries : port[r] \in Ports => port'[r] = port[r]
    BY <1>1, <2>1, <2>2, PortsAssumption
  <2>4. ASSUME NEW o \in Ports, NEW i \in DOMAIN queue'[o], queue'[o][i].from = Server
        PROVE  port'[queue'[o][i].query] = o
    <3>1. o # p /\ queue'[o] = queue[o]
      BY <1>1, <2>1, <2>4
    <3>2. queue[o][i] \in Received /\ port[queue[o][i].query] = o
      BY <1>1, <2>4, <3>1 DEF RouteInv
    <3> QED BY <2>3, <2>4, <3>1, <3>2
  <2>5. \A r \in Queries : Ended(r) => pc'[r] \in {"returned", "dropped"} /\ port'[r] = port[r]
    BY <1>1, <2>1, <2>2 DEF Ended
  <2>6. ASSUME NEW o \in Queries PROVE result'[o] \in {o, None, "error"} \cup LateFor(o)'
    <3>1. CASE o = q
      BY <2>2, <3>1
    <3>2. CASE o # q
      BY <1>1, <2>1, <2>2, <2>5, <3>2, LateStaysLate
    <3> QED BY <3>1, <3>2
  <2>7. \A r \in Queries : pc'[r] = "start" => result'[r] = None
    BY <1>1, <2>2 DEF RouteInv
  <2> QED BY <2>4, <2>6, <2>7 DEF RouteInv, OwnOrLateAnswer
<1>4. ASSUME NEW q \in Queries, Send(q) PROVE RouteInv' /\ OwnOrLateAnswer'
  <2>1. /\ pc[q] = "send" /\ pc' = [pc EXCEPT ![q] = "receive"]
        /\ UNCHANGED <<port, queue, result>>
    BY <1>4 DEF Send
  <2>2. RouteInv'
    BY <1>1, <2>1 DEF RouteInv
  <2> QED BY <1>1, <1>2, <2>1, <2>2 DEF Ended
<1>5. ASSUME NEW q \in Queries, Receive(q) PROVE RouteInv' /\ OwnOrLateAnswer'
  <2> DEFINE p == port[q]
  <2>1. pc[q] = "receive" /\ queue[p] # <<>> /\ p \in Ports /\ queue[p] \in Seq(Received)
        /\ queue' = [queue EXCEPT ![p] = Tail(queue[p])] /\ UNCHANGED <<port, net>>
    BY <1>1, <1>5 DEF Receive, QueueInv, Waiting
  <2>2. /\ 1 \in DOMAIN queue[p] /\ queue[p][1] = Head(queue[p]) /\ Head(queue[p]) \in Received
        /\ \A i \in DOMAIN Tail(queue[p]) :
             i + 1 \in DOMAIN queue[p] /\ Tail(queue[p])[i] = queue[p][i + 1]
    BY <2>1, QueueTail
  <2>3. \A o \in Ports : \A i \in DOMAIN queue'[o] :
          queue'[o][i].from = Server => port[queue'[o][i].query] = o
    <3> HIDE DEF p
    <3> QED BY <1>1, <2>1, <2>2 DEF RouteInv
  <2>4. CASE Head(queue[p]).from = Server
    <3> DEFINE r == Head(queue[p]).query
    <3>1. r \in Queries /\ port[r] = p
      BY <2>1, <2>2, <2>4 DEF RouteInv
    <3>2. result' = [result EXCEPT ![q] = r] /\ pc' = [pc EXCEPT ![q] = "returned"]
      BY <1>5, <2>4 DEF Receive, Returns
    <3>3. \A o \in Queries : Ended(o) => pc'[o] \in {"returned", "dropped"} /\ port'[o] = port[o]
      BY <1>1, <2>1, <3>2 DEF Ended
    <3>4. r = q \/ Ended(r)
      <4>1. pc[r] # "start"
        BY <2>1, <3>1, PortsAssumption DEF QueueInv
      <4>2. Waiting(r) => r = q
        BY <2>1, <3>1 DEF WayInv, Waiting
      <4> QED BY <1>1, <3>1, <4>1, <4>2 DEF Ended, Waiting
    <3> HIDE DEF r
    <3>5. ASSUME NEW o \in Queries PROVE result'[o] \in {o, None, "error"} \cup LateFor(o)'
      <4>1. CASE o = q /\ r # q
        <5>1. r \in LateFor(q)'
          BY <2>1, <3>1, <3>3, <3>4, <4>1 DEF LateFor
        <5> QED BY <1>1, <3>2, <4>1, <5>1
      <4>2. CASE o = q /\ r = q
        BY <1>1, <3>2, <4>2
      <4>3. CASE o # q
        BY <1>1, <2>1, <3>2, <3>3, <4>3, LateStaysLate
      <4> QED BY <4>1, <4>2, <4>3
    <3>6. \A o \in Queries : pc'[o] = "start" => result'[o] = None
      BY <1>1, <3>2 DEF RouteInv
    <3> QED BY <2>1, <2>3, <3>5, <3>6 DEF RouteInv, OwnOrLateAnswer
  <2>5. CASE Head(queue[p]).from # Server
    <3>1. UNCHANGED <<pc, result>>
      BY <1>5, <2>5 DEF Receive
    <3>2. RouteInv'
      BY <2>1, <2>3, <3>1 DEF RouteInv
    <3> QED BY <1>2, <2>1, <3>1, <3>2 DEF Ended
  <2> QED BY <2>4, <2>5
<1>6. ASSUME NEW q \in Queries, Fail(q) PROVE RouteInv' /\ OwnOrLateAnswer'
  <2>1. /\ result' = [result EXCEPT ![q] = "error"] /\ pc' = [pc EXCEPT ![q] = "returned"]
        /\ UNCHANGED <<port, queue>>
    BY <1>6 DEF Fail, Returns
  <2>2. RouteInv'
    BY <1>1, <2>1 DEF RouteInv
  <2>3. \A r \in Queries : Ended(r) => pc'[r] \in {"returned", "dropped"} /\ port'[r] = port[r]
    BY <1>1, <2>1 DEF Ended
  <2>4. ASSUME NEW o \in Queries PROVE result'[o] \in {o, None, "error"} \cup LateFor(o)'
    <3>1. CASE o = q
      BY <1>1, <2>1, <3>1
    <3>2. CASE o # q
      BY <1>1, <2>1, <2>3, <3>2, LateStaysLate
    <3> QED BY <3>1, <3>2
  <2> QED BY <2>2, <2>4 DEF OwnOrLateAnswer
<1>7. ASSUME NEW q \in Queries, Cancel(q) PROVE RouteInv' /\ OwnOrLateAnswer'
  <2>1. pc' = [pc EXCEPT ![q] = "dropped"] /\ UNCHANGED <<port, queue, result>>
    BY <1>7 DEF Cancel
  <2>2. RouteInv'
    BY <1>1, <2>1 DEF RouteInv
  <2> QED BY <1>1, <1>2, <2>1, <2>2 DEF Ended
<1>8. ASSUME NEW d \in net, Serve(d) PROVE RouteInv' /\ OwnOrLateAnswer'
  BY <1>2, <1>8 DEF RouteInv, Serve, Ended
<1>9. ASSUME NEW p \in Ports, NEW d \in Received, d.from = Server => port[d.query] = p,
             queue' = [queue EXCEPT ![p] = Append(queue[p], d)], UNCHANGED port
      PROVE  \A o \in Ports : \A i \in DOMAIN queue'[o] :
               queue'[o][i].from = Server => port'[queue'[o][i].query] = o
  <2>1. \A i \in DOMAIN Append(queue[p], d) :
          \/ i \in DOMAIN queue[p] /\ Append(queue[p], d)[i] = queue[p][i]
          \/ Append(queue[p], d)[i] = d
    BY <1>1, QueueAppend
  <2> QED BY <1>1, <1>9, <2>1 DEF RouteInv
<1>10. ASSUME NEW d \in net, Deliver(d) PROVE RouteInv' /\ OwnOrLateAnswer'
  <2>1. d \in Received /\ d.to \in Ports /\ port[d.query] = d.to
        /\ net' \subseteq net /\ UNCHANGED <<pc, port, result>>
    BY <1>1, <1>10 DEF Deliver, Gone, WayInv
  <2>2. CASE UNCHANGED queue
    BY <1>2, <2>1, <2>2 DEF RouteInv, Ended
  <2>3. CASE queue' = [queue EXCEPT ![d.to] = Append(queue[d.to], d)]
    <3>1. RouteInv'
      BY <1>9, <2>1, <2>3 DEF RouteInv
    <3> QED BY <1>2, <2>1, <3>1 DEF Ended
  <2> QED BY <1>10, <2>2, <2>3 DEF Deliver
<1>11. ASSUME NEW d \in net, Lose(d) PROVE RouteInv' /\ OwnOrLateAnswer'
  BY <1>2, <1>11 DEF RouteInv, Lose, Ended
<1>12. ASSUME NEW p \in Ports, Intrude(p) PROVE RouteInv' /\ OwnOrLateAnswer'
  <2>1. /\ queue' = [queue EXCEPT ![p] = Append(queue[p], Foreign(p))]
        /\ UNCHANGED <<pc, port, net, result>>
    BY <1>12 DEF Intrude
  <2>2. RouteInv'
    BY <1>9, <2>1 DEF RouteInv
  <2> QED BY <1>2, <2>1, <2>2 DEF Ended
<1>13. CASE UNCHANGED vars
  BY <1>2, <1>13 DEF RouteInv, vars, Ended
<1> QED BY <1>3, <1>4, <1>5, <1>6, <1>7, <1>8, <1>10, <1>11, <1>12, <1>13
        DEF Next, Query, Network

\* Although no identifier of the packets is compared and the system may bind a port again,
\* query() returns the answer to its own question, an error, or the late answer to a query
\* that ended before on the same port.
THEOREM AnswersAreOwnOrLate == Spec => []OwnOrLateAnswer
<1>1. Init => TypeOK /\ QueueInv /\ WayInv /\ RouteInv /\ OwnOrLateAnswer
  BY InitTyped, InitWay, InitRoutes
<1>2. TypeOK /\ QueueInv /\ WayInv /\ RouteInv /\ OwnOrLateAnswer /\ [Next]_vars
        => (TypeOK /\ QueueInv /\ WayInv /\ RouteInv /\ OwnOrLateAnswer)'
  BY TypedStep, WayStep, RouteStep
<1> QED BY <1>1, <1>2, PTL DEF Spec
=============================================================================
