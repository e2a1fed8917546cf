---------------------------- MODULE ChatChannels ----------------------------
(***************************************************************************)
(* Theorems about ChatServer, for any number of clients, names, lines and  *)
(* any capacity: its state is of its types, a name leads to the client     *)
(* that is served under it, and the channels stay within their bound.      *)
(***************************************************************************)
EXTENDS ChatServer, TLAPS

Messages == [from : Clients, line : 0..MaxLines]

Sequences ==
    /\ users \in [Clients -> Seq(Names)]
    /\ queue \in [Clients -> Seq(Messages)]
    /\ parked \in [Clients -> Seq(Clients)]

\* A client that is being received from has given a name.
Named == \A c \in Clients : phase[c] = "receiving" => name[c] \in Names

\* ... and has had a send_loop() spawned for it.
Spawned == \A c \in Clients : phase[c] = "receiving" => loop[c] # "none"

Inv ==
    /\ TypeOK /\ Sequences /\ Named /\ Spawned
    /\ NamesAreHeldOnce
    /\ QueuesAreBounded
    /\ ParkedAreServed

\* A sequence without repetitions, when its head leaves it and when someone who is not
\* in it joins.
LEMMA TailParked ==
    ASSUME NEW s \in Seq(Clients), s # <<>>
    PROVE  /\ Tail(s) \in Seq(Clients) /\ Len(Tail(s)) = Len(s) - 1
           /\ Range(Tail(s)) \subseteq Range(s)
           /\ IsInjective(s) => IsInjective(Tail(s))
<1>1. /\ Tail(s) \in Seq(Clients) /\ Len(Tail(s)) = Len(s) - 1 /\ Len(s) \in Nat
      /\ \A i \in DOMAIN Tail(s) : i + 1 \in DOMAIN s /\ Tail(s)[i] = s[i + 1] /\ i \in Int
  OBVIOUS
<1>2. Range(Tail(s)) \subseteq Range(s)
  BY <1>1 DEF Range
<1>3. ASSUME IsInjective(s), NEW i \in DOMAIN Tail(s), NEW j \in DOMAIN Tail(s),
             Tail(s)[i] = Tail(s)[j]
      PROVE  i = j
  <2>1. s[i + 1] = s[j + 1] /\ i + 1 \in DOMAIN s /\ j + 1 \in DOMAIN s
    BY <1>1, <1>3
  <2>2. i + 1 = j + 1
    BY <1>3, <2>1 DEF IsInjective
  <2> QED BY <1>1, <2>2
<1> QED BY <1>1, <1>2, <1>3 DEF IsInjective

LEMMA AppendParked ==
    ASSUME NEW s \in Seq(Clients), NEW c \in Clients
    PROVE  /\ Append(s, c) \in Seq(Clients) /\ Len(Append(s, c)) = Len(s) + 1
           /\ Range(Append(s, c)) = Range(s) \cup {c}
           /\ IsInjective(s) /\ c \notin Range(s) => IsInjective(Append(s, c))
<1> DEFINE t == Append(s, c)
<1>1. /\ t \in Seq(Clients) /\ Len(t) = Len(s) + 1 /\ Len(s) \in Nat
      /\ DOMAIN s = 1..Len(s) /\ DOMAIN t = DOMAIN s \cup {Len(s) + 1}
      /\ t[Len(s) + 1] = c /\ \A i \in DOMAIN s : t[i] = s[i]
  OBVIOUS
<1> HIDE DEF t
<1>2. Range(t) = Range(s) \cup {c}
  BY <1>1 DEF Range
<1>3. ASSUME IsInjective(s), c \notin Range(s), NEW i \in DOMAIN t, NEW j \in DOMAIN t, t[i] = t[j]
      PROVE  i = j
  BY <1>1, <1>3 DEF IsInjective, Range
<1>4. IsInjective(s) /\ c \notin Range(s) => IsInjective(t)
  BY <1>3 DEF IsInjective
<1> QED BY <1>1, <1>2, <1>4 DEF t

LEMMA QueueFacts ==
    ASSUME NEW s \in Seq(Messages), NEW m \in Messages
    PROVE  /\ Append(s, m) \in Seq(Messages) /\ Len(Append(s, m)) = Len(s) + 1
           /\ s # <<>> => Tail(s) \in Seq(Messages) /\ Len(Tail(s)) = Len(s) - 1
           /\ Len(s) \in Nat
OBVIOUS

\* The parked senders stay beside their messages when one joins them and when one goes on.
LEMMA AppendAligned ==
    ASSUME NEW q \in Seq(Messages), NEW m \in Messages, NEW p \in Seq(Clients), NEW k \in Nat,
           Len(q) = k + Len(p), \A i \in DOMAIN p : q[k + i].from = p[i]
    PROVE  \A i \in DOMAIN Append(p, m.from) : Append(q, m)[k + i].from = Append(p, m.from)[i]
<1> SUFFICES ASSUME NEW i \in DOMAIN Append(p, m.from)
             PROVE  Append(q, m)[k + i].from = Append(p, m.from)[i]
  OBVIOUS
<1>1. CASE i = Len(p) + 1
  BY <1>1
<1>2. CASE i \in 1..Len(p)
  <2>1. k + i \in 1..Len(q)
    BY <1>2
  <2> QED BY <1>2, <2>1
<1>3. i \in 1..(Len(p) + 1)
  OBVIOUS
<1> QED BY <1>1, <1>2, <1>3

LEMMA TailAligned ==
    ASSUME NEW q \in Seq(Messages), NEW p \in Seq(Clients), p # <<>>, NEW k \in Nat,
           Len(q) = k + Len(p), \A i \in DOMAIN p : q[k + i].from = p[i]
    PROVE  \A i \in DOMAIN Tail(p) : Tail(q)[k + i].from = Tail(p)[i]
<1> SUFFICES ASSUME NEW i \in DOMAIN Tail(p) PROVE Tail(q)[k + i].from = Tail(p)[i]
  OBVIOUS
<1>1. i \in Nat /\ i + 1 \in DOMAIN p /\ Tail(p)[i] = p[i + 1]
  OBVIOUS
<1>2. k + i \in 1..(Len(q) - 1) /\ q # <<>>
  BY <1>1
<1>3. Tail(q)[k + i] = q[k + i + 1]
  BY <1>2
<1>4. k + i + 1 = k + (i + 1)
  BY <1>1
<1> QED BY <1>1, <1>3, <1>4

LEMMA InitInv == Init => Inv
<1> SUFFICES ASSUME Init PROVE Inv
  OBVIOUS
<1>1. TypeOK /\ Sequences /\ Named /\ Spawned
  BY NoneAssumption, BoundsAssumption DEF Init, TypeOK, Sequences, Named, Spawned, Range
<1>2. NamesAreHeldOnce
  BY NoneAssumption DEF Init, NamesAreHeldOnce
<1>3. QueuesAreBounded
  BY BoundsAssumption DEF Init, QueuesAreBounded, Range, IsInjective
<1>4. ParkedAreServed
  BY DEF Init, ParkedAreServed
<1> QED BY <1>1, <1>2, <1>3, <1>4 DEF Inv

-----------------------------------------------------------------------------
LEMMA ToIsClient ==
    ASSUME TypeOK, Sequences, NEW c \in Clients, users[c] # <<>>, Reachable(c)
    PROVE  To(c) \in Clients
<1>1. Head(users[c]) \in Names
  BY DEF Sequences
<1> QED BY <1>1 DEF TypeOK, Reachable, To

LEMMA TypesStep == Inv /\ [Next]_vars => TypeOK' /\ Sequences' /\ Named'
<1> SUFFICES ASSUME Inv, [Next]_vars PROVE TypeOK' /\ Sequences' /\ Named'
  OBVIOUS
<1>1. TypeOK /\ Sequences /\ Named
  BY DEF Inv
<1>2. ASSUME NEW c \in Clients, Accept(c) PROVE TypeOK' /\ Sequences' /\ Named'
  BY <1>1, <1>2 DEF TypeOK, Sequences, Named, Accept
<1>3. ASSUME NEW c \in Clients, AcceptFails(c) PROVE TypeOK' /\ Sequences' /\ Named'
  <2>1. Range(<<>>) = {}
    BY DEF Range
  <2> QED BY <1>1, <1>3, <2>1 DEF TypeOK, Sequences, Named, AcceptFails
<1>4. ASSUME NEW c \in Clients, NEW n \in Names, Claim(c, n) PROVE TypeOK' /\ Sequences' /\ Named'
  <2>1. Sequences'
    BY <1>1, <1>4 DEF Sequences, Claim
  <2>2. CASE channels[n] # None
    BY <1>1, <1>4, <2>1, <2>2, NoneAssumption DEF TypeOK, Named, Claim
  <2>3. CASE channels[n] = None
    <3>1. /\ phase[c] = "naming" /\ phase' = [phase EXCEPT ![c] = "receiving"]
          /\ channels' = [channels EXCEPT ![n] = c] /\ loop' = [loop EXCEPT ![c] = "next"]
          /\ name' = [name EXCEPT ![c] = n]
          /\ UNCHANGED <<users, lines, flushing, queue, parked>>
      BY <1>4, <2>3 DEF Claim, Enter
    <3>2. Named'
      BY <1>1, <3>1 DEF TypeOK, Named
    <3>3. \A d \in Clients : users'[d] # <<>> \/ flushing'[d] # None => phase'[d] = "receiving"
      BY <1>1, <3>1 DEF TypeOK
    <3>4. TypeOK'
      BY <1>1, <3>1, <3>3 DEF TypeOK
    <3> QED BY <2>1, <3>2, <3>4
  <2> QED BY <2>2, <2>3
<1>5. ASSUME NEW c \in Clients, NEW to \in Lines, ReadLine(c, to)
      PROVE  TypeOK' /\ Sequences' /\ Named'
  <2>1. to \in Seq(Names)
    BY LinesAssumption
  <2> QED BY <1>1, <1>5, <2>1, BoundsAssumption DEF TypeOK, Sequences, Named, ReadLine, Idle
<1>6. ASSUME NEW c \in Clients, users[c] # <<>>
      PROVE  Tail(users[c]) \in Seq(Names) /\ phase[c] = "receiving"
  BY <1>1, <1>6 DEF TypeOK, Sequences
<1>7. ASSUME NEW c \in Clients, SkipUser(c) PROVE TypeOK' /\ Sequences' /\ Named'
  BY <1>1, <1>6, <1>7 DEF TypeOK, Sequences, Named, SkipUser
<1>8. ASSUME NEW c \in Clients, SendUser(c) PROVE TypeOK' /\ Sequences' /\ Named'
  <2> DEFINE to == To(c)
             m  == [from |-> c, line |-> lines[c]]
  <2>1. to \in Clients /\ to # None
    BY <1>1, <1>8, ToIsClient, NoneAssumption DEF SendUser
  <2>2. /\ users' = [users EXCEPT ![c] = Tail(users[c])] /\ users[c] # <<>>
        /\ queue' = [queue EXCEPT ![to] = Append(queue[to], m)]
        /\ \/ UNCHANGED <<parked, flushing>>
           \/ /\ parked' = [parked EXCEPT ![to] = Append(parked[to], c)]
              /\ flushing' = [flushing EXCEPT ![c] = to]
        /\ UNCHANGED <<phase, name, channels, lines, loop>>
    BY <1>8 DEF SendUser
  <2>3. m \in Messages
    BY <1>1 DEF Messages, TypeOK
  <2> HIDE DEF to, m
  <2>4. queue[to] \in Seq(Messages) /\ parked[to] \in Seq(Clients)
    BY <1>1, <2>1 DEF Sequences
  <2>5. Append(queue[to], m) \in Seq(Messages) /\ Append(parked[to], c) \in Seq(Clients)
    BY <2>3, <2>4, QueueFacts, AppendParked
  <2>6. Range(Append(parked[to], c)) \subseteq Clients
    BY <1>1, <2>1, <2>4, AppendParked DEF TypeOK
  <2>7. Sequences'
    BY <1>1, <1>6, <2>1, <2>2, <2>5 DEF Sequences
  <2>8. \A d \in Clients : Range(parked'[d]) \subseteq Clients
    BY <1>1, <2>1, <2>2, <2>6 DEF TypeOK, Sequences
  <2>9. \A d \in Clients : users'[d] # <<>> \/ flushing'[d] # None => phase'[d] = "receiving"
    BY <1>1, <1>6, <2>1, <2>2 DEF TypeOK, Sequences
  <2>10. flushing' \in [Clients -> Clients \cup {None}]
    BY <1>1, <2>1, <2>2 DEF TypeOK
  <2>11. TypeOK'
    BY <1>1, <2>2, <2>8, <2>9, <2>10 DEF TypeOK
  <2> QED BY <1>1, <2>2, <2>7, <2>11 DEF Named
<1>9. ASSUME NEW c \in Clients, Flushed(c) PROVE TypeOK' /\ Sequences' /\ Named'
  BY <1>1, <1>9 DEF TypeOK, Sequences, Named, Flushed
<1>10. ASSUME NEW c \in Clients, Leave(c) PROVE TypeOK' /\ Sequences' /\ Named'
  BY <1>1, <1>10 DEF TypeOK, Sequences, Named, Leave, Idle
<1>11. ASSUME NEW c \in Clients, Take(c) PROVE TypeOK' /\ Sequences' /\ Named'
  <2> DEFINE rest == IF parked[c] = <<>> THEN parked[c] ELSE Tail(parked[c])
  <2>1. /\ queue' = [queue EXCEPT ![c] = Tail(queue[c])] /\ queue[c] # <<>>
        /\ parked' = [parked EXCEPT ![c] = rest]
        /\ loop' = [loop EXCEPT ![c] = "writing"]
        /\ UNCHANGED <<phase, name, channels, users, lines, flushing>>
    BY <1>11 DEF Take
  <2>2. queue[c] \in Seq(Messages) /\ parked[c] \in Seq(Clients) /\ Range(parked[c]) \subseteq Clients
    BY <1>1 DEF Sequences, TypeOK
  <2>3. rest \in Seq(Clients) /\ Range(rest) \subseteq Clients
    BY <2>2, TailParked
  <2>4. Tail(queue[c]) \in Seq(Messages)
    BY <2>1, <2>2
  <2> HIDE DEF rest
  <2>5. \A d \in Clients : Range(parked'[d]) \subseteq Clients
    BY <1>1, <2>1, <2>3 DEF TypeOK, Sequences
  <2> QED BY <1>1, <2>1, <2>3, <2>4, <2>5 DEF TypeOK, Sequences, Named
<1>12. ASSUME NEW c \in Clients, Write(c) PROVE TypeOK' /\ Sequences' /\ Named'
  BY <1>1, <1>12 DEF TypeOK, Sequences, Named, Write
<1>13. ASSUME NEW c \in Clients, WriteFails(c) PROVE TypeOK' /\ Sequences' /\ Named'
  <2>1. Range(<<>>) = {}
    BY DEF Range
  <2>2. \A d \in Clients : Range(parked'[d]) \subseteq Clients
    BY <1>1, <1>13, <2>1 DEF TypeOK, Sequences, WriteFails
  <2> QED BY <1>1, <1>13, <2>2 DEF TypeOK, Sequences, Named, WriteFails
<1>14. ASSUME NEW c \in Clients, EndLoop(c) PROVE TypeOK' /\ Sequences' /\ Named'
  BY <1>1, <1>14 DEF TypeOK, Sequences, Named, EndLoop
<1>15. CASE UNCHANGED vars
  BY <1>1, <1>15 DEF TypeOK, Sequences, Named, vars
<1> QED BY <1>2, <1>3, <1>4, <1>5, <1>7, <1>8, <1>9, <1>10, <1>11, <1>12, <1>13, <1>14, <1>15
        DEF Next, RecvLoop, SendLoop

LEMMA NamesStep == Inv /\ [Next]_vars => NamesAreHeldOnce'
<1> SUFFICES ASSUME Inv, [Next]_vars PROVE NamesAreHeldOnce'
  OBVIOUS
<1>1. TypeOK /\ Named /\ NamesAreHeldOnce
  BY DEF Inv
<1>2. ASSUME NEW c \in Clients, Accept(c) PROVE NamesAreHeldOnce'
  BY <1>1, <1>2 DEF TypeOK, NamesAreHeldOnce, Accept
<1>3. ASSUME NEW c \in Clients, AcceptFails(c) PROVE NamesAreHeldOnce'
  BY <1>3, NoneAssumption DEF NamesAreHeldOnce, AcceptFails
<1>4. ASSUME NEW c \in Clients, NEW n \in Names, Claim(c, n) PROVE NamesAreHeldOnce'
  <2>1. CASE channels[n] # None
    BY <1>1, <1>4, <2>1 DEF TypeOK, NamesAreHeldOnce, Claim
  <2>2. CASE channels[n] = None
    BY <1>1, <1>4, <2>2, NoneAssumption DEF TypeOK, NamesAreHeldOnce, Claim, Enter
  <2> QED BY <2>1, <2>2
<1>5. ASSUME NEW c \in Clients, Leave(c) PROVE NamesAreHeldOnce'
  <2>1. name[c] \in Names /\ channels[name[c]] = c
    BY <1>1, <1>5 DEF Leave, Idle, Named, NamesAreHeldOnce
  <2> QED BY <1>1, <1>5, <2>1, NoneAssumption DEF TypeOK, NamesAreHeldOnce, Leave, Idle
<1>6. CASE UNCHANGED <<phase, name, channels>>
  BY <1>1, <1>6 DEF NamesAreHeldOnce
<1> QED BY <1>2, <1>3, <1>4, <1>5, <1>6
        DEF Next, RecvLoop, SendLoop, ReadLine, SkipUser, SendUser, Flushed, Take, Write,
            WriteFails, EndLoop, vars

LEMMA BoundsStep == Inv /\ [Next]_vars => QueuesAreBounded'
<1> SUFFICES ASSUME Inv, [Next]_vars PROVE QueuesAreBounded'
  OBVIOUS
<1>1. TypeOK /\ Sequences /\ QueuesAreBounded
  BY DEF Inv
<1>2. /\ flushing \in [Clients -> Clients \cup {None}]
      /\ queue \in [Clients -> Seq(Messages)] /\ parked \in [Clients -> Seq(Clients)]
      /\ \A c \in Clients : Range(parked[c]) \subseteq Clients
  BY <1>1 DEF TypeOK, Sequences
<1>3. \A c \in Clients : Len(queue[c]) \in Nat /\ Len(parked[c]) \in Nat
  BY <1>2
<1>4. ASSUME NEW c \in Clients, SendUser(c) PROVE QueuesAreBounded'
  <2> DEFINE to == To(c)
             m  == [from |-> c, line |-> lines[c]]
  <2>1. to \in Clients /\ flushing[c] = None
    BY <1>1, <1>4, ToIsClient DEF SendUser
  <2>2. m \in Messages
    BY <1>1 DEF Messages, TypeOK
  <2>3. queue' = [queue EXCEPT ![to] = Append(queue[to], m)]
    BY <1>4 DEF SendUser
  <2>4. \/ Len(queue[to]) < Capacity /\ UNCHANGED <<parked, flushing>>
        \/ /\ parked' = [parked EXCEPT ![to] = Append(parked[to], c)]
           /\ flushing' = [flushing EXCEPT ![c] = to]
    BY <1>3, <1>4, <2>1, BoundsAssumption DEF SendUser
  <2> HIDE DEF to, m
  <2>5. Len(Append(queue[to], m)) = Len(queue[to]) + 1
    BY <1>2, <2>1, <2>2, QueueFacts
  <2>6. \A d \in Clients : c \notin Range(parked[d])
    BY <1>1, <2>1, NoneAssumption DEF QueuesAreBounded
  <2>7. CASE Len(queue[to]) < Capacity /\ UNCHANGED <<parked, flushing>>
    <3>1. \A d \in Clients : Len(queue'[d]) <= Capacity + Len(parked'[d])
      BY <1>1, <1>2, <1>3, <2>1, <2>3, <2>5, <2>7, BoundsAssumption DEF QueuesAreBounded
    <3> QED BY <1>1, <2>7, <3>1 DEF QueuesAreBounded
  <2>8. CASE /\ parked' = [parked EXCEPT ![to] = Append(parked[to], c)]
             /\ flushing' = [flushing EXCEPT ![c] = to]
    <3>1. /\ Len(Append(parked[to], c)) = Len(parked[to]) + 1
          /\ Range(Append(parked[to], c)) = Range(parked[to]) \cup {c}
          /\ IsInjective(Append(parked[to], c))
      BY <1>1, <1>2, <2>1, <2>6, AppendParked DEF QueuesAreBounded
    <3>2. \A d \in Clients : Len(queue'[d]) <= Capacity + Len(parked'[d])
      BY <1>1, <1>2, <1>3, <2>1, <2>3, <2>5, <2>8, <3>1, BoundsAssumption DEF QueuesAreBounded
    <3>3. \A d \in Clients : IsInjective(parked'[d])
      BY <1>1, <1>2, <2>8, <3>1 DEF QueuesAreBounded
    <3>4. \A d \in Clients : \A e \in Range(parked'[d]) : flushing'[e] = d
      BY <1>1, <1>2, <2>1, <2>6, <2>8, <3>1 DEF QueuesAreBounded
    <3> QED BY <3>2, <3>3, <3>4 DEF QueuesAreBounded
  <2> QED BY <2>4, <2>7, <2>8
<1>5. ASSUME NEW c \in Clients, Flushed(c) PROVE QueuesAreBounded'
  <2>1. \A d \in Clients : c \notin Range(parked[d])
    BY <1>1, <1>5 DEF Flushed, QueuesAreBounded
  <2> QED BY <1>1, <1>2, <1>5, <2>1 DEF Flushed, QueuesAreBounded
<1>6. ASSUME NEW c \in Clients, Take(c) PROVE QueuesAreBounded'
  <2> DEFINE rest == IF parked[c] = <<>> THEN parked[c] ELSE Tail(parked[c])
  <2>1. /\ queue' = [queue EXCEPT ![c] = Tail(queue[c])] /\ queue[c] # <<>>
        /\ parked' = [parked EXCEPT ![c] = rest]
        /\ UNCHANGED flushing
    BY <1>6 DEF Take
  <2>2. queue[c] \in Seq(Messages) /\ parked[c] \in Seq(Clients)
    BY <1>2
  <2>3. Len(Tail(queue[c])) = Len(queue[c]) - 1
    BY <2>1, <2>2
  <2>4. /\ IsInjective(rest) /\ Range(rest) \subseteq Range(parked[c])
        /\ Len(queue[c]) - 1 <= Capacity + Len(rest)
    <3>1. CASE parked[c] = <<>>
      <4>1. Len(parked[c]) = 0
        BY <3>1
      <4> QED BY <1>1, <1>3, <3>1, <4>1, BoundsAssumption DEF QueuesAreBounded
    <3>2. CASE parked[c] # <<>>
      <4>1. /\ Len(Tail(parked[c])) = Len(parked[c]) - 1
            /\ Range(Tail(parked[c])) \subseteq Range(parked[c])
            /\ IsInjective(Tail(parked[c]))
        BY <1>1, <2>2, <3>2, TailParked DEF QueuesAreBounded
      <4> QED BY <1>1, <1>3, <3>2, <4>1, BoundsAssumption DEF QueuesAreBounded
    <3> QED BY <3>1, <3>2
  <2> HIDE DEF rest
  <2>5. \A d \in Clients : Len(queue'[d]) <= Capacity + Len(parked'[d])
    BY <1>1, <1>2, <2>1, <2>3, <2>4 DEF QueuesAreBounded
  <2>6. \A d \in Clients : IsInjective(parked'[d]) /\ Range(parked'[d]) \subseteq Range(parked[d])
    BY <1>1, <1>2, <2>1, <2>4 DEF QueuesAreBounded
  <2> QED BY <1>1, <2>1, <2>5, <2>6 DEF QueuesAreBounded
<1>7. ASSUME NEW c \in Clients, WriteFails(c) PROVE QueuesAreBounded'
  <2>1. Len(<<>>) = 0 /\ Range(<<>>) = {} /\ IsInjective(<<>>)
    BY DEF Range, IsInjective
  <2>2. /\ queue' = [queue EXCEPT ![c] = <<>>] /\ parked' = [parked EXCEPT ![c] = <<>>]
        /\ UNCHANGED flushing
    BY <1>7 DEF WriteFails
  <2> QED BY <1>1, <1>2, <2>1, <2>2, BoundsAssumption DEF QueuesAreBounded
<1>8. ASSUME NEW c \in Clients, AcceptFails(c) PROVE QueuesAreBounded'
  <2>1. Len(<<>>) = 0 /\ Range(<<>>) = {} /\ IsInjective(<<>>)
    BY DEF Range, IsInjective
  <2>2. \A d \in Clients : queue'[d] = <<>> /\ parked'[d] = <<>>
    BY <1>8 DEF AcceptFails
  <2> QED BY <2>1, <2>2, BoundsAssumption DEF QueuesAreBounded
<1>9. CASE UNCHANGED <<flushing, queue, parked>>
  BY <1>1, <1>9 DEF QueuesAreBounded
<1> QED BY <1>4, <1>5, <1>6, <1>7, <1>8, <1>9
        DEF Next, RecvLoop, SendLoop, Accept, Claim, ReadLine, SkipUser, Leave, Write, EndLoop, vars

LEMMA SpawnedStep == Inv /\ [Next]_vars => Spawned'
<1> SUFFICES ASSUME Inv, [Next]_vars PROVE Spawned'
  OBVIOUS
<1>1. TypeOK /\ Spawned
  BY DEF Inv
<1>2. ASSUME NEW c \in Clients, NEW n \in Names, Claim(c, n) PROVE Spawned'
  BY <1>1, <1>2 DEF TypeOK, Spawned, Claim, Enter
<1>3. ASSUME NEW c \in Clients, \/ Accept(c) \/ AcceptFails(c) \/ Leave(c) \/ Take(c)
                                \/ Write(c) \/ WriteFails(c) \/ EndLoop(c)
      PROVE  Spawned'
  BY <1>1, <1>3 DEF TypeOK, Spawned, Accept, AcceptFails, Leave, Take, Write, WriteFails, EndLoop
<1>4. CASE UNCHANGED <<phase, loop>>
  BY <1>1, <1>4 DEF Spawned
<1> QED BY <1>2, <1>3, <1>4
        DEF Next, RecvLoop, SendLoop, ReadLine, SkipUser, SendUser, Flushed, vars

LEMMA ServedStep == Inv /\ [Next]_vars => ParkedAreServed'
<1> SUFFICES ASSUME Inv, [Next]_vars PROVE ParkedAreServed'
  OBVIOUS
<1>1. TypeOK /\ Sequences /\ Spawned /\ NamesAreHeldOnce /\ QueuesAreBounded /\ ParkedAreServed
  BY DEF Inv
<1>2. /\ loop \in [Clients -> {"none", "next", "writing", "ended"}]
      /\ queue \in [Clients -> Seq(Messages)] /\ parked \in [Clients -> Seq(Clients)]
      /\ \A c \in Clients : Len(queue[c]) \in Nat /\ Len(parked[c]) \in Nat
      /\ \A c \in Clients : parked[c] = <<>> <=> Len(parked[c]) = 0
  BY <1>1 DEF TypeOK, Sequences
<1>3. ASSUME NEW c \in Clients, NEW n \in Names, Claim(c, n) PROVE ParkedAreServed'
  BY <1>1, <1>2, <1>3 DEF ParkedAreServed, Claim, Enter
<1>4. ASSUME NEW c \in Clients, SendUser(c) PROVE ParkedAreServed'
  <2> DEFINE to == To(c)
             m  == [from |-> c, line |-> lines[c]]
  <2>1. to \in Clients
    BY <1>1, <1>4, ToIsClient DEF SendUser
  <2>2. loop[to] \in {"next", "writing"}
    <3>1. Head(users[c]) \in Names
      BY <1>1, <1>4 DEF Sequences, SendUser
    <3>2. phase[to] = "receiving"
      BY <1>1, <2>1, <3>1 DEF NamesAreHeldOnce, To
    <3> QED BY <1>1, <1>2, <1>4, <2>1, <3>2 DEF Spawned, SendUser, Reachable
  <2>3. m \in Messages
    BY <1>1 DEF Messages, TypeOK
  <2>4. queue' = [queue EXCEPT ![to] = Append(queue[to], m)] /\ UNCHANGED loop
    BY <1>4 DEF SendUser
  <2>5. \/ Len(queue[to]) < Capacity /\ UNCHANGED parked
        \/ Len(queue[to]) >= Capacity /\ parked' = [parked EXCEPT ![to] = Append(parked[to], c)]
    BY <1>2, <1>4, <2>1, BoundsAssumption DEF SendUser
  <2> HIDE DEF to, m
  <2>6. Len(Append(queue[to], m)) = Len(queue[to]) + 1
    BY <1>2, <2>1, <2>3, QueueFacts
  <2>7. CASE Len(queue[to]) < Capacity /\ UNCHANGED parked
    <3>1. parked[to] = <<>>
      BY <1>1, <1>2, <2>1, <2>7, BoundsAssumption DEF ParkedAreServed
    <3> QED BY <1>1, <1>2, <2>1, <2>4, <2>7, <3>1 DEF ParkedAreServed
  <2>8. CASE Len(queue[to]) >= Capacity /\ parked' = [parked EXCEPT ![to] = Append(parked[to], c)]
    <3>1. Len(queue[to]) = Capacity + Len(parked[to])
      BY <1>1, <1>2, <2>1, <2>8, BoundsAssumption DEF ParkedAreServed, QueuesAreBounded
    <3>2. Len(Append(parked[to], c)) = Len(parked[to]) + 1
      BY <1>2, <2>1, AppendParked
    <3>3. Len(queue'[to]) = Capacity + Len(parked'[to])
      BY <1>2, <2>1, <2>4, <2>6, <2>8, <3>1, <3>2, BoundsAssumption
    <3>4. \A i \in DOMAIN parked'[to] : queue'[to][Capacity + i].from = parked'[to][i]
      <4>1. queue'[to] = Append(queue[to], m) /\ parked'[to] = Append(parked[to], c)
        BY <1>2, <2>1, <2>4, <2>8
      <4>2. \A i \in DOMAIN parked[to] : queue[to][Capacity + i].from = parked[to][i]
        BY <1>1, <1>2, <2>1 DEF ParkedAreServed
      <4>3. m.from = c
        BY DEF m
      <4>4. /\ queue[to] \in Seq(Messages) /\ parked[to] \in Seq(Clients)
            /\ Capacity \in Nat /\ Len(queue[to]) = Capacity + Len(parked[to])
        BY <1>2, <2>1, <3>1, BoundsAssumption
      <4>5. \A i \in DOMAIN Append(parked[to], m.from) :
              Append(queue[to], m)[Capacity + i].from = Append(parked[to], m.from)[i]
        BY <2>3, <4>2, <4>4, AppendAligned
      <4> QED BY <4>1, <4>3, <4>5
    <3> QED BY <1>1, <1>2, <2>1, <2>2, <2>4, <2>8, <3>3, <3>4 DEF ParkedAreServed
  <2> QED BY <2>5, <2>7, <2>8
<1>5. ASSUME NEW c \in Clients, Take(c) PROVE ParkedAreServed'
  <2>1. /\ queue' = [queue EXCEPT ![c] = Tail(queue[c])] /\ queue[c] # <<>>
        /\ parked' = [parked EXCEPT ![c] = IF parked[c] = <<>> THEN parked[c] ELSE Tail(parked[c])]
        /\ loop' = [loop EXCEPT ![c] = "writing"]
    BY <1>5 DEF Take
  <2>2. Len(Tail(queue[c])) = Len(queue[c]) - 1
    BY <1>2, <2>1
  <2>3. parked'[c] # <<>> => Len(queue'[c]) = Capacity + Len(parked'[c])
    <3>1. CASE parked[c] = <<>>
      BY <1>2, <2>1, <3>1
    <3>2. CASE parked[c] # <<>>
      <4>1. Len(Tail(parked[c])) = Len(parked[c]) - 1
        BY <1>2, <3>2, TailParked
      <4>2. queue'[c] = Tail(queue[c]) /\ parked'[c] = Tail(parked[c])
        BY <1>2, <2>1, <3>2
      <4>3. Len(queue[c]) = Capacity + Len(parked[c])
        BY <1>1, <3>2 DEF ParkedAreServed
      <4>4. Len(Tail(queue[c])) = Capacity + Len(Tail(parked[c]))
        <5>1. \A m, n, k \in Nat : m = k + n => m - 1 = k + (n - 1)
          OBVIOUS
        <5>2. Len(queue[c]) \in Nat /\ Len(parked[c]) \in Nat /\ Capacity \in Nat
          BY <1>2, BoundsAssumption
        <5>3. Len(queue[c]) - 1 = Capacity + (Len(parked[c]) - 1)
          BY <4>3, <5>1, <5>2
        <5> QED BY <2>2, <4>1, <5>3
      <4> QED BY <4>2, <4>4
    <3> QED BY <3>1, <3>2
  <2>4. \A i \in DOMAIN parked'[c] : queue'[c][Capacity + i].from = parked'[c][i]
    <3>1. CASE parked[c] = <<>>
      BY <1>2, <2>1, <3>1
    <3>2. CASE parked[c] # <<>>
      <4>1. queue'[c] = Tail(queue[c]) /\ parked'[c] = Tail(parked[c])
        BY <1>2, <2>1, <3>2
      <4>2. /\ Len(queue[c]) = Capacity + Len(parked[c])
            /\ \A i \in DOMAIN parked[c] : queue[c][Capacity + i].from = parked[c][i]
        BY <1>1, <3>2 DEF ParkedAreServed
      <4>3. queue[c] \in Seq(Messages) /\ parked[c] \in Seq(Clients) /\ Capacity \in Nat
        BY <1>2, BoundsAssumption
      <4>4. \A i \in DOMAIN Tail(parked[c]) :
              Tail(queue[c])[Capacity + i].from = Tail(parked[c])[i]
        BY <3>2, <4>2, <4>3, TailAligned
      <4> QED BY <4>1, <4>4
    <3> QED BY <3>1, <3>2
  <2> QED BY <1>1, <1>2, <2>1, <2>3, <2>4 DEF ParkedAreServed
<1>6. ASSUME NEW c \in Clients, Write(c) PROVE ParkedAreServed'
  BY <1>1, <1>2, <1>6 DEF ParkedAreServed, Write
<1>7. ASSUME NEW c \in Clients, WriteFails(c) PROVE ParkedAreServed'
  BY <1>1, <1>2, <1>7 DEF ParkedAreServed, WriteFails
<1>8. ASSUME NEW c \in Clients, EndLoop(c) PROVE ParkedAreServed'
  <2>1. Len(queue[c]) = 0
    BY <1>8 DEF EndLoop
  <2>2. parked[c] = <<>>
    BY <1>1, <1>2, <2>1, BoundsAssumption DEF ParkedAreServed
  <2> QED BY <1>1, <1>2, <1>8, <2>2 DEF ParkedAreServed, EndLoop
<1>9. ASSUME NEW c \in Clients, AcceptFails(c) PROVE ParkedAreServed'
  BY <1>9 DEF ParkedAreServed, AcceptFails
<1>10. CASE UNCHANGED <<queue, parked, loop>>
  BY <1>1, <1>10 DEF ParkedAreServed
<1> QED BY <1>3, <1>4, <1>5, <1>6, <1>7, <1>8, <1>9, <1>10
        DEF Next, RecvLoop, SendLoop, Accept, ReadLine, SkipUser, Flushed, Leave, vars

-----------------------------------------------------------------------------
\* The inductive invariant of the chat server.
THEOREM ChatInvariant == Spec => []Inv
<1>1. Inv /\ [Next]_vars => Inv'
  BY TypesStep, NamesStep, BoundsStep, SpawnedStep, ServedStep DEF Inv
<1> QED BY InitInv, <1>1, PTL DEF Spec

\* The state of the tasks, the table of names and the channels is of its types; only a
\* recv_loop() that is running has users to send to or a send() to wait for.
THEOREM ChatTypeOK == Spec => []TypeOK
<1>1. Inv => TypeOK
  BY DEF Inv
<1> QED BY <1>1, ChatInvariant, PTL

\* A name is held by one client at most, and it is in the table exactly while this client's
\* recv_loop() runs, so that its removal at the end finds it.
THEOREM NamesLeadToTheirClients == Spec => []NamesAreHeldOnce
<1>1. Inv => NamesAreHeldOnce
  BY DEF Inv
<1> QED BY <1>1, ChatInvariant, PTL

\* A channel never holds more than its capacity and a message of each parked sender, and
\* a sender is parked in the one channel it waits for, once.
THEOREM ChannelsAreBounded == Spec => []QueuesAreBounded
<1>1. Inv => QueuesAreBounded
  BY DEF Inv
<1> QED BY <1>1, ChatInvariant, PTL

\* Nobody is parked in a channel that has room or that nobody reads from: the safety half of
\* the promise that send() returns.
THEOREM SendersAreServed == Spec => []ParkedAreServed
<1>1. Inv => ParkedAreServed
  BY DEF Inv
<1> QED BY <1>1, ChatInvariant, PTL
=============================================================================
