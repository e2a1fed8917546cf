-------------------------- MODULE ConnectOutcomes --------------------------
(***************************************************************************)
(* What connect() returns is what became of the socket, proved for any     *)
(* number of TCP and Unix connects, of files and of tasks, and with all    *)
(* the Faults: a TCP connect is answered from take_error() and not from    *)
(* the network, so this rests on a second invocation of its closure        *)
(* finding the connection decided.                                         *)
(***************************************************************************)
EXTENDS Connect, GroundWakeups

\* A file that an Async wraps is open, and one that is open outside of any
\* Async was taken out of a connect() that had succeeded.
SocketInv ==
    /\ \A a \in Waiters : inner[a] # None => sock[inner[a]] # "none"
    /\ \A fd \in Fds : Unwrapped(fd) => sock[fd] \in {"none", "established", "reset"}

\* A connect() with a result has invoked its closure and is not in flight.
OutcomeInv == \A c \in Connects : outcome[c] # "none" => c \in called_connect \ ops

\* A TCP closure that was invoked has left the idle state behind.
CalledInv ==
    \A c \in TcpConnects \cap called_connect :
        SocketOf(c) # None => sock[SocketOf(c)] # "idle"

\* No event is reported for a socket whose connection is undecided...
UndecidedInv ==
    /\ \A fd \in Fds : sock[fd] = "connecting" => level[fd] = {}
    /\ \A e \in buffer : sock[inner[e.data]] # "connecting"

\* ...so the early return of poll_nonblocking() keeps the closure from being
\* invoked again before the network has decided.
WaitsInv ==
    \A c \in TcpConnects \cap called_connect \cap ops :
        SocketOf(c) # None /\ sock[SocketOf(c)] = "connecting" =>
            blocked = c \/ "OUT" \in waiting_for[c.async]

ConnectInv ==
    /\ ConnectTypeOK
    /\ SocketInv
    /\ OutcomeInv
    /\ CalledInv
    /\ UndecidedInv
    /\ WaitsInv
    /\ OkIsEstablished
    /\ ErrIsFailure

-----------------------------------------------------------------------------
\* Where the connects and their results live.
LEMMA ConnectFacts ==
  /\ Connects \subseteq Uses \ {None}
  /\ TcpConnects \subseteq Connects /\ UnixConnects \subseteq Connects
  /\ \A c \in Connects :
       /\ c.task \in Tasks /\ c.async \in Waiters /\ StreamOf[c] \in Waiters
       /\ as_events(c.interest) = {"OUT"} /\ c.kind = "io"
  /\ \A c, d \in Connects : StreamOf[c] # d.async
  /\ \A c, d \in Connects : c # d => c.async # d.async
BY GroundAssumption, ConnectAssumption DEF Connects, as_events

-----------------------------------------------------------------------------
\* The actions of Connect that are not actions of Ground: the closure decides
\* by itself what becomes of the socket's readiness.
Closure(t, c) == TcpConnect(t, c) \/ TakeError(t, c) \/ UnixConnect(t, c)

\* Any other step is one of the crate's, with an account kept of the sockets.
LEMMA ConnectSteps ==
  ASSUME [ConnectNext]_<<vars, connectVars>>
  PROVE  \/ [Next]_vars
         \/ \E t \in Tasks, c \in Connects : Closure(t, c) \/ \E fd \in Fds : Open(t, c, fd)
         \/ \E fd \in Fds : \E mask \in SUBSET Readiness : KernelRaise(fd, mask)
<1> USE GroundAssumption, EpollAssumption, ConnectAssumption
<1>1. Connects \subseteq Uses /\ StreamOf \in [Connects -> Waiters]
      /\ \A c \in Connects : c.async \in Waiters
  BY DEF Connects
<1>2. ASSUME NEW t \in Tasks, NEW c \in Connects, Body(t, c)
      PROVE  Next
  BY <1>1, <1>2
     DEF Body, PathFails, BeginConnect, TakeSocket, WrapStream, DropSocket, Next, TaskStep, Ownership
<1>3. ASSUME NEW t \in Tasks, NEW c \in Connects, Abandon(t, c) \/ DropStream(t, c)
      PROVE  Next
  BY <1>1, <1>3 DEF Abandon, DropStream, Next, TaskStep, Ownership
<1>4. ASSUME NEW t \in Tasks, NEW c \in Connects, PollConnect(t, c)
      PROVE  Next \/ Closure(t, c)
  BY <1>1, <1>4 DEF PollConnect, Closure, Next, TaskStep, Poll
<1>5. ASSUME NEW t \in Tasks, NEW o \in Uses, UseStream(t, o)
      PROVE  Next
  BY <1>5 DEF UseStream, PollStream, Next, TaskStep, Poll
<1>6. ASSUME NEW t \in Tasks, EndTurn(t) \/ \E other \in Tasks : Wake(t, other)
      PROVE  Next
  BY <1>6 DEF Next, TaskStep
<1>7. ASSUME NEW t \in Tasks, ConnectTask(t)
      PROVE  \/ [Next]_vars
             \/ \E c \in Connects : Closure(t, c) \/ \E fd \in Fds : Open(t, c, fd)
  BY <1>2, <1>3, <1>4, <1>5, <1>6, <1>7 DEF ConnectTask, OpenFails
<1>8. ASSUME ConnectKernel
      PROVE  \E fd \in Fds : \E mask \in SUBSET Readiness : KernelRaise(fd, mask)
  <2>1. {"OUT"} \in SUBSET Readiness /\ Readiness \in SUBSET Readiness
        /\ Edges \subseteq SUBSET Readiness
    BY DEF Readiness
  <2>. QED
    BY <1>8, <2>1 DEF ConnectKernel, Network
<1>. QED
  BY <1>7, <1>8 DEF ConnectNext, ConnectExecutor, Listener, Next

\* The types survive them.
LEMMA ConnectTypeStep ==
  ASSUME TypeInv, [ConnectNext]_<<vars, connectVars>>
  PROVE  TypeInv'
<1> USE EpollAssumption, TasksAssumption, GroundAssumption, ConnectAssumption
<1>1. ASSUME NEW t \in Tasks, NEW c \in Connects, NEW fd \in Fds, Open(t, c, fd)
      PROVE  TypeInv'
  <2>1. c.async \in Waiters
    BY DEF Connects
  <2>. QED
    BY <1>1, <2>1 DEF Open, new, Running, TypeInv, BlockedHasFile, ReadyListInv, Registered, TypeOK,
       EpollTypeOK, ReactorTypeOK, AsyncTypeOK, EventMask, Readiness, Always, epollVars,
       dispatchVars, taskVars
<1>2. ASSUME NEW t \in Tasks, NEW c \in Connects, Closure(t, c)
      PROVE  TypeInv'
  <2>1. /\ Attempt(t, c) /\ (Completed(c) \/ WouldBlock(c))
        /\ level' \in {level, [level EXCEPT ![inner[c.async]] = {}],
                       [level EXCEPT ![inner[c.async]] = {"OUT"}]}
    BY <1>2 DEF Closure, TcpConnect, TakeError, UnixConnect, SocketOf
  <2>2. level' \in [Fds -> SUBSET Readiness]
    BY <2>1 DEF Readiness, TypeInv, TypeOK, EpollTypeOK
  <2>3. /\ c \in ops /\ phase = "poll" /\ failure = "none" /\ current # None
        /\ blocked = None /\ inner[c.async] # None
    BY <2>1 DEF Attempt, Polling, Running, OpsOf
  <2>4. UNCHANGED <<epollVars, waiterVars, dispatchVars, woken, asyncVars, current,
                    done, phase, failure>>
    BY <2>1 DEF Completed, WouldBlock
  <2>5. \/ ops' = ops \ {c} /\ todo' = todo \ {c} /\ blocked' = None
        \/ ops' = ops /\ todo' = todo \ {c} /\ blocked' = c
    BY <2>1, <2>3 DEF Completed, WouldBlock
  <2>. QED
    BY <2>2, <2>3, <2>4, <2>5 DEF TypeInv, BlockedHasFile, ReadyListInv, Registered, TypeOK, EpollTypeOK,
       ReactorTypeOK, AsyncTypeOK, epollVars, waiterVars, dispatchVars, asyncVars
<1>3. ASSUME NEW fd \in Fds, NEW mask \in SUBSET Readiness, KernelRaise(fd, mask)
      PROVE  TypeInv'
  BY <1>3 DEF KernelRaise, Raise, LinkIfReady, TypeInv, BlockedHasFile, ReadyListInv,
     Registered, TypeOK, EpollTypeOK, ReactorTypeOK, AsyncTypeOK, waiterVars, dispatchVars,
     asyncVars, taskVars
<1>. QED
  BY <1>1, <1>2, <1>3, ConnectSteps, TypeStep

\* So does who owns what.
LEMMA ConnectStructureStep ==
  ASSUME TypeInv, Structure, [ConnectNext]_<<vars, connectVars>>
  PROVE  Structure'
<1> USE EpollAssumption, TasksAssumption, GroundAssumption, ConnectAssumption
    DEF TypeInv, TypeOK, EpollTypeOK, ReactorTypeOK, AsyncTypeOK
<1>1. ControlInv /\ BorrowInv /\ OwnerInv /\ PointerInv /\ RegistrationAgrees
  BY DEF Structure
<1>2. ASSUME NEW t \in Tasks, NEW c \in Connects, NEW fd \in Fds, Open(t, c, fd)
      PROVE  Structure'
  <2>1. c.async \in Waiters
    BY DEF Connects
  <2> USE <1>1, <1>2, <2>1 DEF Open, new, Unwrapped, Running, epollVars, dispatchVars, taskVars
  <2>2. OwnerInv'
    BY DEF OwnerInv
  <2>3. RegistrationAgrees'
    <3>1. \A f \in Fds : data'[f] # c.async
      BY DEF PointerInv
    <3>. QED
      BY <3>1 DEF RegistrationAgrees, Agreement
  <2>4. ControlInv' /\ BorrowInv' /\ PointerInv'
    BY DEF ControlInv, BorrowInv, PointerInv
  <2>. QED
    BY <2>2, <2>3, <2>4 DEF Structure
<1>3. ASSUME NEW t \in Tasks, NEW c \in Connects, Closure(t, c)
      PROVE  Structure'
  <2>1. Attempt(t, c) /\ (Completed(c) \/ WouldBlock(c))
    BY <1>3 DEF Closure, TcpConnect, TakeError, UnixConnect
  <2> USE <1>1, <2>1 DEF Attempt, Completed, WouldBlock, Polling, Running, OpsOf,
            epollVars, waiterVars, dispatchVars, asyncVars
  <2>2. ControlInv'
    BY DEF ControlInv
  <2>3. BorrowInv' /\ OwnerInv' /\ PointerInv' /\ RegistrationAgrees'
    BY DEF BorrowInv, OwnerInv, PointerInv, RegistrationAgrees, Agreement
  <2>. QED
    BY <2>2, <2>3 DEF Structure
<1>4. ASSUME NEW fd \in Fds, NEW mask \in SUBSET Readiness, KernelRaise(fd, mask)
      PROVE  Structure'
  BY <1>1, <1>4 DEF KernelRaise, Raise, ControlInv, BorrowInv, OwnerInv, PointerInv,
     RegistrationAgrees, Agreement, Structure, waiterVars, dispatchVars,
     asyncVars, taskVars
<1>. QED
  BY <1>2, <1>3, <1>4, ConnectSteps, StructureStep

-----------------------------------------------------------------------------
\* The steps that leave a connect() where it is: what they change of sockets,
\* operations and events does not touch what ConnectInv says.
LEMMA FrameStep ==
  ASSUME ConnectInv, Structure, Structure', TypeInv', OutcomeInv',
         UNCHANGED <<called_connect, outcome>>,
         sock' \in [Fds -> {"none", "idle", "connecting", "established", "reset", "refused"}],
         listener' \in {"accepting", "full", "closed"},
         \A a \in Waiters : inner'[a] # None =>
             inner'[a] = inner[a] /\ sock'[inner[a]] = sock[inner[a]],
         \A fd \in Fds : Unwrapped(fd)' => sock'[fd] \in {"none", "established", "reset"},
         \A fd \in Fds : level'[fd] \subseteq level[fd],
         \A e \in buffer' : sock'[inner'[e.data]] # "connecting",
         WaitsInv'
  PROVE  ConnectInv'
<1> USE EpollAssumption, ConnectFacts DEF ConnectInv, TypeInv, TypeOK, EpollTypeOK, AsyncTypeOK, SocketOf
<1>1. ConnectTypeOK'
  BY DEF ConnectTypeOK
<1>2. SocketInv' /\ CalledInv'
  BY DEF SocketInv, CalledInv
<1>3. ASSUME NEW fd \in Fds, sock'[fd] = "connecting"
      PROVE  level'[fd] = {}
  <2>1. PICK a \in Waiters : inner'[a] = fd
    BY <1>3 DEF Unwrapped
  <2>2. sock[fd] = "connecting"
    BY <1>3, <2>1
  <2>. QED
    BY <2>2 DEF UndecidedInv
<1>4. UndecidedInv'
  BY <1>3 DEF UndecidedInv
<1>5. OkIsEstablished' /\ ErrIsFailure'
  BY DEF OkIsEstablished, ErrIsFailure
<1>. QED
  BY <1>1, <1>2, <1>4, <1>5

\* Operations come, wait, complete and go without touching the sockets.
LEMMA OperationStep ==
  ASSUME ConnectInv, Structure, Structure', TypeInv', NEW t \in Tasks, UNCHANGED connectVars,
         \/ EndTurn(t) \/ \E other \in Tasks : Wake(t, other)
         \/ \E o \in Uses \ Connects : Begin(t, o) \/ PollReady(t, o) \/ PollWouldBlock(t, o)
         \/ \E o \in Uses : Cancel(t, o) \/ PollPending(t, o)
         \/ \E c \in Connects : BeginConnect(t, c)
  PROVE  ConnectInv'
<1> USE ConnectFacts
    DEF Running, EndTurn, Suspend, Finish, Wake, Begin, Cancel, PollPending, PollReady,
        PollWouldBlock, BeginConnect, Attempt, Completed, WouldBlock, Polling, OpsOf,
        epollVars, waiterVars, dispatchVars, asyncVars, taskVars, connectVars
<1>1. UNCHANGED <<sock, called_connect, outcome, listener, live, inner, buffer, waiting_for>>
  OBVIOUS
<1>2. /\ blocked = None
      /\ \A c \in Connects : c \in ops' => c \in ops \/ c \notin called_connect
  OBVIOUS
<1>3. \A fd \in Fds : level'[fd] \subseteq level[fd]
  BY DEF Consume, ConnectInv, ConnectTypeOK, TypeOK, EpollTypeOK
<1>4. OutcomeInv' /\ WaitsInv'
  BY <1>1, <1>2 DEF ConnectInv, OutcomeInv, WaitsInv, SocketOf
<1>. QED
  BY <1>1, <1>3, <1>4, FrameStep
     DEF ConnectInv, ConnectTypeOK, SocketInv, UndecidedInv, Unwrapped

\* Closing what is left unwrapped does not change what is wrapped.
LEMMA CloseStep ==
  ASSUME ConnectInv, Structure', TypeInv', CloseUnwrapped
  PROVE  /\ sock' \in [Fds -> {"none", "idle", "connecting", "established", "reset", "refused"}]
         /\ \A a \in Waiters : inner'[a] # None => sock'[inner'[a]] = sock[inner'[a]]
         /\ \A fd \in Fds : Unwrapped(fd)' => sock'[fd] = "none"
         /\ \A fd \in Fds : sock'[fd] \in {"none", sock[fd]}
BY DEF ConnectInv, ConnectTypeOK, CloseUnwrapped, Unwrapped, Structure, OwnerInv,
   TypeInv, TypeOK, AsyncTypeOK

\* connect() ends: its local Async goes, or the stream does.
LEMMA DropStep ==
  ASSUME ConnectInv, Structure, Structure', TypeInv', NEW t \in Tasks, NEW a \in Waiters,
         Drop(t, a), CloseUnwrapped, UNCHANGED <<called_connect, outcome, listener>>
  PROVE  ConnectInv'
<1> USE DEF Running, Drop, dispatchVars, taskVars
<1>1. /\ UNCHANGED <<ops, blocked, waiting_for, buffer>> /\ buffer = {}
      /\ inner' = [inner EXCEPT ![a] = None]
  BY DEF drop, Structure, ControlInv
<1>2. \A b \in Waiters : inner'[b] # None => inner'[b] = inner[b]
  BY <1>1 DEF ConnectInv, ConnectTypeOK, TypeOK, AsyncTypeOK
<1>3. \A fd \in Fds : level'[fd] \subseteq level[fd]
  BY DEF drop, Close, ConnectInv, ConnectTypeOK, TypeOK, EpollTypeOK
<1>4. OutcomeInv'
  BY <1>1 DEF ConnectInv, OutcomeInv
<1>5. WaitsInv'
  <2> SUFFICES ASSUME NEW c \in TcpConnects \cap called_connect \cap ops,
                      inner'[c.async] # None, sock'[inner'[c.async]] = "connecting"
               PROVE  blocked = c \/ "OUT" \in waiting_for[c.async]
    BY <1>1 DEF WaitsInv, SocketOf
  <2>1. c.async \in Waiters /\ inner'[c.async] = inner[c.async]
    BY <1>2, ConnectFacts
  <2>. QED
    BY <2>1, CloseStep DEF ConnectInv, WaitsInv, SocketOf
<1>. QED
  BY <1>1, <1>2, <1>3, <1>4, <1>5, CloseStep, FrameStep DEF ConnectInv, ConnectTypeOK

\* take_inner() gives the socket of a successful connect() away...
LEMMA TakeSocketStep ==
  ASSUME ConnectInv, Structure, Structure', TypeInv', NEW t \in Tasks, NEW c \in Connects,
         TakeSocket(t, c)
  PROVE  ConnectInv'
<1> USE DEF TakeSocket, TakeInner, Running, dispatchVars, taskVars, connectVars
<1>1. /\ UNCHANGED <<ops, blocked, waiting_for, buffer, live, level>> /\ buffer = {}
      /\ UNCHANGED <<sock, called_connect, outcome, listener>>
      /\ inner[c.async] # None /\ c.async \in live
      /\ inner' = [inner EXCEPT ![c.async] = None]
  BY DEF take_inner, Structure, ControlInv
<1>2. \A b \in Waiters : inner'[b] # None => inner'[b] = inner[b]
  BY <1>1 DEF ConnectInv, ConnectTypeOK, TypeOK, AsyncTypeOK
<1>3. sock[inner[c.async]] \in {"established", "reset"}
  BY <1>1 DEF ConnectInv, OkIsEstablished, SocketOf
<1>4. \A fd \in Fds : Unwrapped(fd)' => sock[fd] \in {"none", "established", "reset"}
  BY <1>1, <1>3 DEF Unwrapped, ConnectInv, ConnectTypeOK, TypeOK, AsyncTypeOK, SocketInv
<1>5. OutcomeInv' /\ WaitsInv'
  BY <1>1, <1>2, ConnectFacts DEF ConnectInv, OutcomeInv, WaitsInv, SocketOf
<1>. QED
  BY <1>1, <1>2, <1>4, <1>5, FrameStep DEF ConnectInv, ConnectTypeOK

\* ...and Async::new() makes it a stream.
LEMMA WrapStreamStep ==
  ASSUME ConnectInv, Structure, Structure', TypeInv', NEW t \in Tasks, NEW c \in Connects,
         NEW fd \in Fds, WrapStream(t, c, fd)
  PROVE  ConnectInv'
<1> USE EpollAssumption, ConnectFacts
    DEF WrapStream, New, new, Running, epollVars, dispatchVars, taskVars, connectVars, TypeInv,
        ConnectInv, ConnectTypeOK, TypeOK, EpollTypeOK, ReactorTypeOK, AsyncTypeOK, SocketOf
<1>1. /\ UNCHANGED <<ops, blocked, buffer, level, sock, called_connect, outcome, listener>>
      /\ buffer = {} /\ Unwrapped(fd) /\ sock[fd] \in {"established", "reset"}
      /\ live' = live \cup {StreamOf[c]} /\ StreamOf[c] \notin live
      /\ inner' = [inner EXCEPT ![StreamOf[c]] = fd]
  BY DEF SocketInv, Structure, ControlInv
<1>2. \A b \in Waiters : b # StreamOf[c] => inner'[b] = inner[b]
  BY <1>1
<1>3. ConnectTypeOK' /\ OutcomeInv' /\ UndecidedInv'
  BY <1>1 DEF OutcomeInv, UndecidedInv
<1>4. SocketInv'
  BY <1>1, <1>2 DEF SocketInv, Unwrapped
<1>5. \A d \in Connects : inner'[d.async] = inner[d.async]
  BY <1>2
<1>6. CalledInv'
  BY <1>1, <1>5 DEF CalledInv
<1>7. WaitsInv'
  BY <1>1, <1>5 DEF WaitsInv
<1>8. OkIsEstablished' /\ ErrIsFailure'
  BY <1>1, <1>2, <1>5 DEF OkIsEstablished, ErrIsFailure
<1>. QED
  BY <1>3, <1>4, <1>6, <1>7, <1>8

\* connect() starts over with a fresh socket.
LEMMA OpenStep ==
  ASSUME ConnectInv, Structure, Structure', TypeInv', NEW t \in Tasks, NEW c \in Connects,
         NEW fd \in Fds, Open(t, c, fd)
  PROVE  ConnectInv'
<1> USE EpollAssumption, ConnectFacts
    DEF Open, new, Running, Returns, epollVars, dispatchVars, taskVars, TypeInv,
        ConnectInv, ConnectTypeOK, TypeOK, EpollTypeOK, ReactorTypeOK, AsyncTypeOK, SocketOf
<1>1. /\ UNCHANGED <<ops, blocked, buffer, listener>> /\ buffer = {} /\ Unwrapped(fd)
      /\ live' = live \cup {c.async} /\ c.async \notin live
      /\ inner' = [inner EXCEPT ![c.async] = fd]
      /\ sock' = [sock EXCEPT ![fd] = "idle"]
      /\ called_connect' = called_connect \ {c}
      /\ outcome' = [outcome EXCEPT ![c] = "none"]
      /\ level' = [level EXCEPT ![fd] = {"OUT", "HUP"}]
  BY DEF Structure, ControlInv
<1>2. \A b \in Waiters : b # c.async => inner'[b] = inner[b] /\ inner[b] # fd
  BY <1>1 DEF Unwrapped, Structure, OwnerInv
<1>3. ConnectTypeOK' /\ OutcomeInv' /\ UndecidedInv'
  BY <1>1 DEF OutcomeInv, UndecidedInv
<1>4. SocketInv'
  BY <1>1, <1>2 DEF SocketInv, Unwrapped
<1>5. \A d \in Connects : d # c => inner'[d.async] = inner[d.async] /\ inner[d.async] # fd
  BY <1>2
<1>6. CalledInv'
  BY <1>1, <1>5 DEF CalledInv
<1>7. WaitsInv'
  BY <1>1, <1>5 DEF WaitsInv
<1>8. \A d \in Connects : inner'[StreamOf[d]] = inner[StreamOf[d]] /\ inner[StreamOf[d]] # fd
  BY <1>2
<1>9. OkIsEstablished' /\ ErrIsFailure'
  BY <1>1, <1>5, <1>8 DEF OkIsEstablished, ErrIsFailure
<1>. QED
  BY <1>3, <1>4, <1>6, <1>7, <1>9

\* A connect() that gets no socket has not been begun.
LEMMA OpenFailsStep ==
  ASSUME ConnectInv, NEW t \in Tasks, NEW c \in Connects, OpenFails(t, c)
  PROVE  ConnectInv'
<1>1. /\ UNCHANGED <<vars, sock, listener>>
      /\ called_connect' = called_connect \ {c}
      /\ outcome' = [outcome EXCEPT ![c] = "none"]
  BY DEF OpenFails, Returns
<1>2. ConnectTypeOK' /\ OutcomeInv'
  BY <1>1 DEF ConnectInv, ConnectTypeOK, OutcomeInv, TypeOK, EpollTypeOK, ReactorTypeOK, AsyncTypeOK,
     vars, epollVars, waiterVars, dispatchVars, asyncVars, taskVars
<1>3. SocketInv' /\ UndecidedInv'
  BY <1>1 DEF ConnectInv, SocketInv, UndecidedInv, Unwrapped, vars, dispatchVars, asyncVars
<1>4. CalledInv' /\ WaitsInv'
  BY <1>1 DEF ConnectInv, CalledInv, WaitsInv, SocketOf, vars, waiterVars, asyncVars, taskVars
<1>5. OkIsEstablished' /\ ErrIsFailure'
  BY <1>1 DEF ConnectInv, ConnectTypeOK, OkIsEstablished, ErrIsFailure, SocketOf, vars, asyncVars
<1>. QED
  BY <1>2, <1>3, <1>4, <1>5 DEF ConnectInv

\* The closure finds the socket in its wrapper; when it was invoked before, on
\* a TCP socket, the connection has been decided since.
LEMMA DecidedWhenInvokedAgain ==
  ASSUME ConnectInv, NEW t \in Tasks, NEW c \in TcpConnects \cap called_connect, Attempt(t, c)
  PROVE  sock[SocketOf(c)] \in {"established", "reset", "refused"}
<1>1. /\ c \in ops /\ blocked = None /\ c # None /\ SocketOf(c) # None
      /\ c.async \in Waiters /\ "OUT" \notin waiting_for[c.async]
  BY ConnectFacts DEF Attempt, Polling, Running, OpsOf, StillWaiting, SocketOf
<1>2. sock[SocketOf(c)] \notin {"none", "idle", "connecting"}
  BY <1>1 DEF ConnectInv, SocketInv, CalledInv, WaitsInv, SocketOf
<1>. QED
  BY <1>1, <1>2 DEF SocketOf, ConnectInv, ConnectTypeOK, TypeOK, AsyncTypeOK

\* The closure returns: Ok for an established connection, an error for one
\* that failed, WouldBlock for one that is under way or not begun.
LEMMA ClosureStep ==
  ASSUME ConnectInv, Structure, Structure', TypeInv', NEW t \in Tasks, NEW c \in Connects,
         Closure(t, c)
  PROVE  ConnectInv'
<1> DEFINE fd == inner[c.async]
<1> USE EpollAssumption, ConnectFacts
    DEF TypeInv, ConnectInv, ConnectTypeOK, TypeOK, EpollTypeOK, AsyncTypeOK, SocketOf
<1>1. Attempt(t, c) /\ c \in ops /\ fd \in Fds /\ c.async \in live /\ blocked = None /\ buffer = {}
  BY DEF Closure, TcpConnect, TakeError, UnixConnect, Attempt, Polling, Running, OpsOf,
     Structure, ControlInv, BorrowInv
<1>2. /\ UNCHANGED <<live, inner, waiting_for, buffer, listener>>
      /\ called_connect' \in {called_connect, called_connect \cup {c}}
      /\ c \in called_connect'
  BY DEF Closure, TcpConnect, TakeError, UnixConnect, Completed, WouldBlock, asyncVars,
     waiterVars, dispatchVars
<1>3. /\ outcome[c] = "none"
      /\ \A b \in Waiters : b # c.async => inner[b] # fd
  BY <1>1 DEF OutcomeInv, Structure, OwnerInv
<1>4. \A d \in Connects : inner[StreamOf[d]] # fd /\ (d # c => inner[d.async] # fd)
  BY <1>3
<1>5. ASSUME WouldBlock(c), outcome' = outcome,
             \/ sock' = sock /\ level' = level /\ c \notin TcpConnects
             \/ /\ sock' = [sock EXCEPT ![fd] = "connecting"]
                /\ level' = [level EXCEPT ![fd] = {}]
      PROVE  ConnectInv'
  <2>1. ops' = ops /\ blocked' = c
    BY <1>5 DEF WouldBlock
  <2>2. ConnectTypeOK' /\ OutcomeInv' /\ UndecidedInv'
    BY <1>1, <1>2, <1>3, <1>5, <2>1 DEF OutcomeInv, UndecidedInv
  <2>3. SocketInv'
    BY <1>1, <1>2, <1>5, <2>1 DEF SocketInv, Unwrapped
  <2>4. CalledInv' /\ WaitsInv'
    BY <1>1, <1>2, <1>4, <1>5, <2>1 DEF CalledInv, WaitsInv
  <2>5. OkIsEstablished' /\ ErrIsFailure'
    BY <1>1, <1>2, <1>3, <1>4, <1>5 DEF OkIsEstablished, ErrIsFailure
  <2>. QED
    BY <2>2, <2>3, <2>4, <2>5
<1>6. ASSUME Completed(c), NEW r \in {"ok", "err"}, outcome' = [outcome EXCEPT ![c] = r],
             NEW k \in {"established", "reset", "refused"}, sock' = [sock EXCEPT ![fd] = k],
             r = "ok" => k \in {"established", "reset"},
             r = "err" => k \in {"refused", "reset"},
             level' \in {level, [level EXCEPT ![fd] = {"OUT"}]}
      PROVE  ConnectInv'
  <2>1. ops' = ops \ {c} /\ blocked' = None
    BY <1>1, <1>6 DEF Completed
  <2>2. ConnectTypeOK' /\ OutcomeInv' /\ UndecidedInv'
    BY <1>1, <1>2, <1>3, <1>6, <2>1 DEF OutcomeInv, UndecidedInv
  <2>3. SocketInv'
    BY <1>1, <1>2, <1>6, <2>1 DEF SocketInv, Unwrapped
  <2>4. CalledInv' /\ WaitsInv'
    BY <1>1, <1>2, <1>4, <1>6, <2>1 DEF CalledInv, WaitsInv
  <2>5. OkIsEstablished' /\ ErrIsFailure'
    BY <1>1, <1>2, <1>3, <1>4, <1>6 DEF OkIsEstablished, ErrIsFailure
  <2>. QED
    BY <2>2, <2>3, <2>4, <2>5
<1>7. CASE TcpConnect(t, c)
  BY <1>1, <1>5, <1>6, <1>7 DEF TcpConnect, Becomes, Returns
<1>8. CASE TakeError(t, c)
  <2>1. sock[fd] \in {"established", "reset", "refused"} /\ sock' = [sock EXCEPT ![fd] = sock[fd]]
    BY <1>1, <1>8, DecidedWhenInvokedAgain DEF TakeError
  <2>. QED
    BY <1>1, <1>6, <1>8, <2>1 DEF TakeError, Returns
<1>9. CASE UnixConnect(t, c)
  <2>1. c \notin TcpConnects
    BY <1>9, ConnectAssumption DEF UnixConnect
  <2>. QED
    BY <1>1, <1>5, <1>6, <1>9, <2>1 DEF UnixConnect, Becomes, Returns
<1>. QED
  BY <1>7, <1>8, <1>9 DEF Closure

\* A connection that was established or failed stays what connect() said it is.
LEMMA OutcomesKept ==
  ASSUME TypeInv, OkIsEstablished, ErrIsFailure, UNCHANGED <<inner, outcome>>,
         \A fd \in Fds :
             /\ sock[fd] \in {"established", "reset"} => sock'[fd] \in {"established", "reset"}
             /\ sock[fd] \in {"refused", "reset"} => sock'[fd] = sock[fd]
  PROVE  OkIsEstablished' /\ ErrIsFailure'
<1>1. \A a \in Waiters : inner[a] # None => inner[a] \in Fds
  BY DEF TypeInv, TypeOK, AsyncTypeOK
<1>2. ASSUME NEW c \in Connects
      PROVE  /\ outcome[c] = "ok" /\ inner[c.async] # None =>
                  sock'[inner[c.async]] \in {"established", "reset"}
             /\ outcome[c] = "err" /\ inner[c.async] # None =>
                  sock'[inner[c.async]] \in {"refused", "reset"}
  BY <1>1, ConnectFacts DEF OkIsEstablished, ErrIsFailure, SocketOf
<1>3. ASSUME NEW c \in Connects, inner[StreamOf[c]] # None
      PROVE  sock'[inner[StreamOf[c]]] \in {"established", "reset"}
  BY <1>1, <1>3, ConnectFacts DEF OkIsEstablished
<1>. QED
  BY <1>2, <1>3 DEF OkIsEstablished, ErrIsFailure, SocketOf

\* The network changes sockets that are wrapped or given away successfully.
LEMMA NetworkStep ==
  ASSUME ConnectInv, TypeInv, Structure, Structure', TypeInv', ConnectKernel
  PROVE  ConnectInv'
<1> USE EpollAssumption, ConnectFacts
    DEF TypeInv, ConnectInv, ConnectTypeOK, TypeOK, EpollTypeOK, AsyncTypeOK, SocketOf
<1>1. PICK fd \in Fds, mask \in SUBSET Readiness :
        /\ level' = [level EXCEPT ![fd] = @ \cup mask]
        /\ \/ sock[fd] = "connecting" /\ \E to \in {"established", "refused"} :
                sock' = [sock EXCEPT ![fd] = to]
           \/ sock[fd] = "established" /\ \E to \in {"established", "reset"} :
                sock' = [sock EXCEPT ![fd] = to]
  BY DEF ConnectKernel, Network, KernelRaise, Raise, Readiness
<1>2. UNCHANGED <<live, inner, ops, blocked, waiting_for, buffer, called_connect, outcome, listener>>
  BY DEF ConnectKernel, Network, KernelRaise, waiterVars, dispatchVars, asyncVars, taskVars
<1>3. ConnectTypeOK' /\ OutcomeInv'
  BY <1>1, <1>2 DEF OutcomeInv
<1>4. SocketInv'
  BY <1>1, <1>2 DEF SocketInv, Unwrapped
<1>5. \A e \in buffer : inner[e.data] \in Fds
  BY DEF ReactorTypeOK, Event, Structure, PointerInv
<1>6. UndecidedInv'
  BY <1>1, <1>2, <1>5 DEF UndecidedInv
<1>7. CalledInv' /\ WaitsInv'
  BY <1>1, <1>2 DEF CalledInv, WaitsInv
<1>8. \A f \in Fds :
        /\ sock[f] \in {"established", "reset"} => sock'[f] \in {"established", "reset"}
        /\ sock[f] \in {"refused", "reset"} => sock'[f] = sock[f]
  BY <1>1
<1>9. OkIsEstablished' /\ ErrIsFailure'
  BY <1>2, <1>8, OutcomesKept
<1>. QED
  BY <1>3, <1>4, <1>6, <1>7, <1>9

\* The executor and dispatch(): no event for an undecided connection is
\* collected, and so none takes away what its operation waits for.
LEMMA ExecutorStep ==
  ASSUME ConnectInv, Structure, TypeInv, Structure', TypeInv', ConnectExecutor
  PROVE  ConnectInv'
<1> USE EpollAssumption, ConnectFacts
    DEF ConnectInv, ConnectTypeOK, TypeOK, EpollTypeOK, ReactorTypeOK, AsyncTypeOK, SocketOf,
        epollVars, waiterVars, dispatchVars, asyncVars, taskVars
<1>1. Executor /\ UNCHANGED <<called_connect, outcome, listener>> /\ CloseUnwrapped
  BY DEF ConnectExecutor
<1>2. /\ sock' \in [Fds -> {"none", "idle", "connecting", "established", "reset", "refused"}]
      /\ \A a \in Waiters : inner'[a] # None => sock'[inner'[a]] = sock[inner'[a]]
      /\ \A fd \in Fds : Unwrapped(fd)' => sock'[fd] \in {"none", "established", "reset"}
      /\ \A fd \in Fds : sock'[fd] \in {"none", sock[fd]}
  BY <1>1, CloseStep
<1>3. ASSUME UNCHANGED <<inner, level>>, ops' \subseteq ops,
             \A e \in buffer' : sock[inner[e.data]] # "connecting",
             \A c \in TcpConnects \cap called_connect \cap ops' :
                 /\ inner[c.async] # None /\ sock[inner[c.async]] = "connecting"
                 /\ blocked = c \/ "OUT" \in waiting_for[c.async]
                 => blocked' = c \/ "OUT" \in waiting_for'[c.async]
      PROVE  ConnectInv'
  <2>1. \A e \in buffer' : inner[e.data] \in Fds
    BY <1>3 DEF Event, TypeInv, Structure, PointerInv
  <2>2. \A e \in buffer' : sock'[inner'[e.data]] # "connecting"
    BY <1>2, <1>3, <2>1
  <2>3. OutcomeInv'
    BY <1>1, <1>3 DEF OutcomeInv
  <2>4. WaitsInv'
    BY <1>1, <1>2, <1>3 DEF WaitsInv
  <2>. QED
    BY <1>1, <1>2, <1>3, <2>2, <2>3, <2>4, FrameStep
<1>4. CASE PollRegister
  <2>1. /\ UNCHANGED <<inner, level, ops, buffer>> /\ blocked' = None /\ blocked \in Uses
        /\ waiting_for' = [waiting_for EXCEPT ![blocked.async] =
                             @ \cup as_events(blocked.interest)]
    BY <1>4 DEF PollRegister, start_waiting
  <2>2. \A c \in Connects : blocked = c \/ "OUT" \in waiting_for[c.async]
                              => "OUT" \in waiting_for'[c.async]
    BY <2>1
  <2>. QED
    BY <1>3, <2>1, <2>2 DEF UndecidedInv
<1>5. CASE PollRegisterPanics \/ DispatchInterrupted
  BY <1>3, <1>5 DEF PollRegisterPanics, DispatchInterrupted, Panic, UndecidedInv
<1>6. ASSUME NEW t \in Tasks, Schedule(t)
      PROVE  ConnectInv'
  BY <1>3, <1>6 DEF Schedule, UndecidedInv
<1>7. CASE Stall \/ Return \/ DispatchEnd \/ \E a \in Waiters : TeardownPanics(a)
  BY <1>3, <1>7 DEF Stall, Return, DispatchEnd, dispatch_end, TeardownPanics, UndecidedInv
<1>8. ASSUME NEW reported \in SUBSET Fds, DispatchWait(reported)
      PROVE  ConnectInv'
  <2>1. /\ UNCHANGED <<inner, level, ops, blocked, waiting_for>>
        /\ buffer' = EventsOf(reported) /\ reported \subseteq Deliverable
    BY <1>8 DEF DispatchWait, dispatch_wait, epoll_wait
  <2>2. ASSUME NEW fd \in reported
        PROVE  sock[inner[data[fd]]] # "connecting"
    <3>1. fd \in Fds /\ level[fd] # {} /\ data[fd] # None
      BY <2>1 DEF Deliverable, Revents, TypeInv, ReadyListInv, Registered
    <3>2. inner[data[fd]] = fd
      BY <3>1 DEF Structure, PointerInv
    <3>. QED
      BY <3>1, <3>2 DEF UndecidedInv
  <2>. QED
    BY <1>3, <2>1, <2>2 DEF EventsOf
<1>9. ASSUME NEW e \in buffer, DispatchNext(e)
      PROVE  ConnectInv'
  <2>1. /\ UNCHANGED <<inner, level, ops, blocked>> /\ buffer' = buffer \ {e}
        /\ waiting_for' = [waiting_for EXCEPT ![e.data] = @ \ e.events]
    BY <1>9 DEF DispatchNext, dispatch_next, deliver
  <2>2. sock[inner[e.data]] # "connecting"
    BY DEF UndecidedInv
  <2>3. \A c \in Connects : c.async # e.data => waiting_for'[c.async] = waiting_for[c.async]
    BY <2>1
  <2>. QED
    BY <1>3, <2>1, <2>2, <2>3 DEF UndecidedInv
<1>10. ASSUME NEW a \in Waiters, Teardown(a)
       PROVE  ConnectInv'
  <2>1. /\ ops = {} /\ ops' = {} /\ buffer = {} /\ buffer' = {}
        /\ inner' = [inner EXCEPT ![a] = None]
        /\ \A fd \in Fds : level'[fd] \subseteq level[fd]
    BY <1>10 DEF Teardown, TearingDown, drop, Close, Structure, ControlInv
  <2>2. \A b \in Waiters : inner'[b] # None => inner'[b] = inner[b]
    BY <2>1
  <2>3. OutcomeInv' /\ WaitsInv'
    BY <1>1, <2>1 DEF OutcomeInv, WaitsInv
  <2>. QED
    BY <1>1, <1>2, <2>1, <2>2, <2>3, FrameStep
<1>. QED
  BY <1>1, <1>4, <1>5, <1>6, <1>7, <1>8, <1>9, <1>10 DEF Executor

-----------------------------------------------------------------------------
\* The listener changes its mind, or nothing happens.
LEMMA IdleStep ==
  ASSUME ConnectInv, Listener \/ (UNCHANGED vars /\ UNCHANGED connectVars)
  PROVE  ConnectInv'
<1>1. UNCHANGED <<vars, sock, called_connect, outcome>> /\ listener' \in {"accepting", "full", "closed"}
  BY DEF Listener, connectVars, ConnectInv, ConnectTypeOK
<1>. QED
  BY <1>1 DEF ConnectInv, ConnectTypeOK, TypeOK, EpollTypeOK, ReactorTypeOK, AsyncTypeOK,
     SocketInv, OutcomeInv, CalledInv, UndecidedInv, WaitsInv, OkIsEstablished, ErrIsFailure,
     SocketOf, Unwrapped, vars, epollVars, waiterVars, dispatchVars, asyncVars, taskVars

\* What became of the sockets, and what connect() says of it, in every
\* reachable state.
THEOREM ConnectInvariant == ConnectSpec => [](TypeInv /\ Structure /\ ConnectInv)
<1>1. ConnectInit => TypeInv /\ Structure /\ ConnectInv
  <2> SUFFICES ASSUME ConnectInit PROVE TypeInv /\ Structure /\ ConnectInv
    OBVIOUS
  <2>1. TypeInv /\ Structure
    BY TypeInit, StructureInit DEF ConnectInit
  <2>2. ConnectTypeOK
    BY <2>1 DEF ConnectInit, ConnectTypeOK, TypeInv
  <2>3. SocketInv /\ OutcomeInv /\ CalledInv /\ UndecidedInv /\ WaitsInv
    BY ConnectFacts DEF ConnectInit, Init, ReactorInit, AsyncInit, SocketInv, OutcomeInv, CalledInv,
       UndecidedInv, WaitsInv
  <2>4. OkIsEstablished /\ ErrIsFailure
    BY ConnectFacts DEF ConnectInit, Init, AsyncInit, OkIsEstablished, ErrIsFailure
  <2>. QED
    BY <2>1, <2>2, <2>3, <2>4 DEF ConnectInv
<1>2. TypeInv /\ Structure /\ ConnectInv /\ [ConnectNext]_<<vars, connectVars>>
        => (TypeInv /\ Structure /\ ConnectInv)'
  <2> SUFFICES ASSUME TypeInv, Structure, ConnectInv, [ConnectNext]_<<vars, connectVars>>
               PROVE  (TypeInv /\ Structure /\ ConnectInv)'
    OBVIOUS
  <2>1. TypeInv' /\ Structure'
    BY ConnectTypeStep, ConnectStructureStep
  <2>2. ASSUME NEW t \in Tasks, ConnectTask(t)
        PROVE  ConnectInv'
    <3>1. ASSUME NEW c \in Connects, Body(t, c)
          PROVE  ConnectInv'
      <4>1. CASE DropSocket(t, c) \/ PathFails(t, c)
        BY <2>1, <4>1, DropStep, ConnectFacts DEF DropSocket, PathFails
      <4>2. CASE BeginConnect(t, c)
        BY <2>1, <4>2, OperationStep DEF BeginConnect
      <4>. QED
        BY <2>1, <3>1, <4>1, <4>2, TakeSocketStep, WrapStreamStep DEF Body
    <3>2. ASSUME NEW c \in Connects, PollConnect(t, c) \/ Abandon(t, c)
          PROVE  ConnectInv'
      BY <2>1, <3>2, ClosureStep, OperationStep, ConnectFacts DEF PollConnect, Abandon, Closure
    <3>3. ASSUME NEW c \in Connects, DropStream(t, c)
          PROVE  ConnectInv'
      BY <2>1, <3>3, DropStep, ConnectFacts DEF DropStream
    <3>4. ASSUME NEW o \in Uses, UseStream(t, o)
          PROVE  ConnectInv'
      BY <2>1, <3>4, OperationStep DEF UseStream, PollStream
    <3>5. CASE (EndTurn(t) \/ \E other \in Tasks : Wake(t, other)) /\ UNCHANGED connectVars
      BY <2>1, <3>5, OperationStep
    <3>. QED
      BY <2>1, <2>2, <3>1, <3>2, <3>3, <3>4, <3>5, OpenStep, OpenFailsStep DEF ConnectTask
  <2>3. CASE Listener \/ (UNCHANGED vars /\ UNCHANGED connectVars)
    BY <2>1, <2>3, IdleStep
  <2>4. CASE ConnectExecutor \/ ConnectKernel
    BY <2>1, <2>4, ExecutorStep, NetworkStep
  <2>. QED
    BY <2>1, <2>2, <2>3, <2>4 DEF ConnectNext, Terminated
<1>. QED
  BY <1>1, <1>2, PTL DEF ConnectSpec

\* Every variable of the connects keeps its type.
THEOREM ConnectTypeCorrect == ConnectSpec => []ConnectTypeOK
<1>1. ConnectInv => ConnectTypeOK
  BY DEF ConnectInv
<1>. QED
  BY <1>1, ConnectInvariant, PTL

\* connect() reports success only for a connection that was established, and
\* what it hands out as a stream is one.
THEOREM OkMeansEstablished == ConnectSpec => []OkIsEstablished
<1>1. ConnectInv => OkIsEstablished
  BY DEF ConnectInv
<1>. QED
  BY <1>1, ConnectInvariant, PTL

\* connect() reports an error only for a connection that failed.
THEOREM ErrMeansFailure == ConnectSpec => []ErrIsFailure
<1>1. ConnectInv => ErrIsFailure
  BY DEF ConnectInv
<1>. QED
  BY <1>1, ConnectInvariant, PTL

-----------------------------------------------------------------------------
\* The network's decision reaches connect().  The wakeups of GroundWakeups hold
\* for the local Async of every TCP connect(), whatever the other Asyncs are used
\* for.  They do not hold for a Unix one: its closure may answer EAGAIN although
\* the socket is writable.
ServedInv == \A c \in TcpConnects : WakeupsAt(c.async) /\ FilesAt(c.async)

\* A connection that was decided and not reported has made its socket writable.
DecidedInv ==
    \A c \in TcpConnects :
        /\ SocketOf(c) # None /\ outcome[c] = "none"
        /\ sock[SocketOf(c)] \in {"established", "refused", "reset"}
        => "OUT" \in level[SocketOf(c)]

\* A new socket at c's address has no waiter yet; another file is no concern of c's.
LEMMA OpenServes ==
  ASSUME TypeInv, Structure, NEW c \in TcpConnects, WakeupsAt(c.async),
         NEW t \in Tasks, NEW d \in Connects, NEW fd \in Fds, Open(t, d, fd)
  PROVE  WakeupsAt(c.async)'
<1> DEFINE w == c.async
<1> USE ConnectFacts, GroundAssumption, EpollAssumption, TasksAssumption
    DEF TypeInv, TypeOK, EpollTypeOK, ReactorTypeOK, AsyncTypeOK
<1>1. /\ UNCHANGED <<epollVars, dispatchVars, woken, taskVars, failure>> /\ blocked = None
      /\ live' = live \cup {d.async} /\ inner' = [inner EXCEPT ![d.async] = fd]
      /\ waiting_for' = [waiting_for EXCEPT ![d.async] = {}]
      /\ waker' = [waker EXCEPT ![d.async] = None]
      /\ level' = [level EXCEPT ![fd] = {"OUT", "HUP"}]
      /\ d.async \notin live /\ \A b \in live : inner[b] # fd
  BY DEF Open, new, Running, Unwrapped
<1>2. /\ EdgeAt(w) /\ ParkedAt(w) /\ WakerAt(w) /\ BorrowInv
  BY DEF WakeupsAt, Structure
<1> USE DEF epollVars, dispatchVars, taskVars
<1>3. EdgeAt(w)'
  <2>1. CASE w = d.async
    BY <1>1, <2>1 DEF EdgeAt
  <2>2. CASE w # d.async
    BY <1>1, <1>2, <2>2 DEF EdgeAt
  <2>. QED
    BY <2>1, <2>2
<1>4. BlockedAt(w)' /\ WakerAt(w)'
  BY <1>1, <1>2 DEF BlockedAt, WakerAt
<1>5. ParkedAt(w)'
  BY <1>1, <1>2 DEF ParkedAt, Parked, StillWaiting, BorrowInv
<1>. QED
  BY <1>3, <1>4, <1>5 DEF WakeupsAt

\* connect(2) in the closure: while the connection is under way the socket is not
\* writable, so the edge is still to come; if it is decided at once, nobody waits.
LEMMA ClosureServes ==
  ASSUME TypeInv, Structure, NEW c \in TcpConnects, WakeupsAt(c.async),
         NEW t \in Tasks, NEW d \in Connects, Closure(t, d)
  PROVE  WakeupsAt(c.async)'
<1> DEFINE w == c.async
<1> USE ConnectFacts, GroundAssumption, EpollAssumption, TasksAssumption
    DEF TypeInv, TypeOK, EpollTypeOK, ReactorTypeOK, AsyncTypeOK
<1>1. /\ d \in ops /\ inner[d.async] # None /\ "OUT" \notin waiting_for[d.async]
      /\ blocked = None /\ d # None
  BY DEF Closure, TcpConnect, TakeError, UnixConnect, Attempt, Polling, Running, OpsOf, StillWaiting
<1>2. /\ UNCHANGED <<epollVars, waiterVars, dispatchVars, woken, asyncVars, failure>>
      /\ \/ ops' = ops \ {d} /\ todo' = todo \ {d} /\ blocked' = None
         \/ ops' = ops /\ todo' = todo \ {d} /\ blocked' = d
  BY <1>1 DEF Closure, TcpConnect, TakeError, UnixConnect, Completed, WouldBlock
<1>3. \/ level' = level /\ (ops' = ops => d \notin TcpConnects)
      \/ level' = [level EXCEPT ![inner[d.async]] = {"OUT"}] /\ blocked' = None
      \/ level' = [level EXCEPT ![inner[d.async]] = {}]
  BY <1>1, ConnectAssumption
     DEF Closure, TcpConnect, TakeError, UnixConnect, Completed, WouldBlock, SocketOf
<1>4. /\ EdgeAt(w) /\ ParkedAt(w) /\ WakerAt(w) /\ OwnerInv
  BY DEF WakeupsAt, Structure
<1>5. w # d.async /\ inner[w] # None => inner[w] # inner[d.async]
  BY <1>1, <1>4 DEF OwnerInv
<1> USE DEF epollVars, waiterVars, dispatchVars, asyncVars
<1>6. EdgeAt(w)'
  BY <1>1, <1>2, <1>3, <1>4, <1>5 DEF EdgeAt
<1>7. BlockedAt(w)'
  <2>1. blocked' # None /\ blocked'.async = w => d = c /\ inner[w] \in Fds
    BY <1>1, <1>2, ConnectFacts
  <2>2. d = c /\ blocked' # None => "OUT" \notin level'[inner[w]]
    BY <1>1, <1>2, <1>3
  <2>3. blocked' # None => blocked' = d
    BY <1>1, <1>2
  <2>4. inner' = inner
    BY <1>2
  <2>5. blocked' # None /\ blocked'.async = w
        => as_events(blocked'.interest) = {"OUT"} /\ "OUT" \notin level'[inner'[w]]
    BY <2>1, <2>2, <2>3, <2>4
  <2> HIDE ConnectFacts, GroundAssumption, EpollAssumption, TasksAssumption
      DEF TypeInv, TypeOK, EpollTypeOK, ReactorTypeOK, AsyncTypeOK, w
  <2>. QED
    BY <2>5 DEF BlockedAt
<1>8. ParkedAt(w)'
  BY <1>1, <1>2, <1>4 DEF ParkedAt, Parked, StillWaiting
<1>9. WakerAt(w)'
  BY <1>2, <1>4 DEF WakerAt
<1>. QED
  BY <1>6, <1>7, <1>8, <1>9 DEF WakeupsAt

\* Everything else is a step of the crate or a readiness the kernel raises.  Nothing
\* but connect() itself uses its local Async, so the socket stays there with it.
LEMMA ServedStep ==
  ASSUME TypeInv, Structure, ServedInv, [ConnectNext]_<<vars, connectVars>>
  PROVE  ServedInv'
<1> SUFFICES ASSUME NEW c \in TcpConnects PROVE WakeupsAt(c.async)' /\ FilesAt(c.async)'
  BY DEF ServedInv
<1>1. c.async \in Waiters /\ WakeupsAt(c.async) /\ FilesAt(c.async)
  BY ConnectFacts DEF ServedInv
<1>2. UsedByOne(c.async) /\ ClosedWholeAt(c.async)
  BY ConnectFacts, ConnectAssumption DEF UsedByOne, ClosedWholeAt
<1>3. WakeupsAt(c.async)'
  BY <1>1, <1>2, ConnectSteps, WakeupsAtStep, RaiseStep, OpenServes, ClosureServes
<1>4. ASSUME ops' \subseteq ops, \A o \in ops' : inner[o.async] # None => inner'[o.async] # None
      PROVE  FilesAt(c.async)'
  BY <1>1, <1>4 DEF FilesAt
<1>5. ASSUME NEW t \in Tasks, NEW d \in Connects, NEW fd \in Fds, Open(t, d, fd)
      PROVE  FilesAt(c.async)'
  BY <1>4, <1>5, EpollAssumption, ConnectFacts DEF Open, new, taskVars, TypeInv, TypeOK, AsyncTypeOK
<1>6. ASSUME NEW t \in Tasks, NEW d \in Connects, Closure(t, d)
      PROVE  FilesAt(c.async)'
  BY <1>4, <1>6 DEF Closure, TcpConnect, TakeError, UnixConnect, Completed, WouldBlock, asyncVars
<1>7. ASSUME NEW fd \in Fds, NEW mask \in SUBSET Readiness, KernelRaise(fd, mask)
      PROVE  FilesAt(c.async)'
  BY <1>4, <1>7 DEF KernelRaise, asyncVars, taskVars
<1>8. FilesAt(c.async)'
  BY <1>1, <1>2, <1>5, <1>6, <1>7, ConnectSteps, FilesAtStep
<1>. QED
  BY <1>3, <1>8

\* A step that keeps the socket, its state and its being writable keeps DecidedInv.
LEMMA DecidedFrame ==
  ASSUME DecidedInv, UNCHANGED outcome,
         \A c \in TcpConnects :
             inner'[c.async] # None =>
                 /\ inner'[c.async] = inner[c.async]
                 /\ sock'[inner[c.async]] = sock[inner[c.async]]
                 /\ "OUT" \in level[inner[c.async]] => "OUT" \in level'[inner[c.async]]
  PROVE  DecidedInv'
BY DEF DecidedInv, SocketOf

\* Dropping an Async closes its own file, and no other.
LEMMA DropKeepsDecided ==
  ASSUME ConnectInv, Structure, Structure', TypeInv', DecidedInv, NEW a \in Waiters, drop(a),
         CloseUnwrapped, UNCHANGED outcome
  PROVE  DecidedInv'
<1> SUFFICES ASSUME NEW c \in TcpConnects, inner'[c.async] # None
             PROVE  /\ inner'[c.async] = inner[c.async]
                    /\ sock'[inner[c.async]] = sock[inner[c.async]]
                    /\ "OUT" \in level[inner[c.async]] => "OUT" \in level'[inner[c.async]]
  BY DecidedFrame
<1>1. /\ inner' = [inner EXCEPT ![a] = None] /\ c.async \in Waiters
      /\ level' = IF inner[a] = None THEN level ELSE [level EXCEPT ![inner[a]] = {}]
      /\ inner \in [Waiters -> Fds \cup {None}] /\ level \in [Fds -> SUBSET Readiness]
  BY ConnectFacts DEF drop, Close, ConnectInv, ConnectTypeOK, TypeOK, EpollTypeOK, AsyncTypeOK
<1>2. c.async # a /\ inner'[c.async] = inner[c.async]
  BY <1>1
<1>3. inner[c.async] # inner[a]
  BY <1>1, <1>2 DEF Structure, OwnerInv
<1>4. sock'[inner[c.async]] = sock[inner[c.async]]
  <2>1. \A b \in Waiters : inner'[b] # None => sock'[inner'[b]] = sock[inner'[b]]
    BY <1>1 DEF CloseUnwrapped, Unwrapped, Structure, OwnerInv, TypeInv, TypeOK, AsyncTypeOK
  <2>. QED
    BY <1>1, <1>2, <2>1
<1>. QED
  BY <1>1, <1>2, <1>3, <1>4

\* The steps that touch no socket: a completed operation uses up the readiness of
\* its own file, which is not that of a connect() in flight.
LEMMA OperationKeepsDecided ==
  ASSUME TypeInv, Structure, DecidedInv, NEW t \in Tasks, UNCHANGED connectVars,
         \/ EndTurn(t) \/ \E other \in Tasks : Wake(t, other)
         \/ \E o \in Uses \ Connects : Begin(t, o) \/ PollReady(t, o) \/ PollWouldBlock(t, o)
         \/ \E o \in Uses : Cancel(t, o) \/ PollPending(t, o)
         \/ \E c \in Connects : BeginConnect(t, c) \/ TakeSocket(t, c)
         \/ \E c \in Connects, fd \in Fds : WrapStream(t, c, fd)
  PROVE  DecidedInv'
<1> USE ConnectFacts DEF connectVars, asyncVars, TypeInv, TypeOK, EpollTypeOK, AsyncTypeOK
<1>1. UNCHANGED <<sock, outcome>>
  OBVIOUS
<1>2. CASE UNCHANGED level /\ \A c \in TcpConnects : inner'[c.async] \in {inner[c.async], None}
  BY <1>1, <1>2, DecidedFrame
<1>3. ASSUME NEW o \in Uses \ Connects, PollReady(t, o)
      PROVE  DecidedInv'
  <2>1. /\ inner' = inner /\ inner[o.async] \in Fds
        /\ \E spent \in SUBSET Readiness : level' = [level EXCEPT ![inner[o.async]] = @ \ spent]
    BY <1>3, GroundAssumption
       DEF PollReady, Attempt, Completed, Consume, as_events, Interest, Readiness
  <2>2. ASSUME NEW c \in TcpConnects, inner[c.async] # None
        PROVE  inner[c.async] # inner[o.async]
    BY <2>1, <2>2, ConnectAssumption, GroundAssumption DEF Structure, OwnerInv
  <2>. QED
    BY <1>1, <2>1, <2>2, DecidedFrame
<1>4. ASSUME NEW c \in Connects, NEW fd \in Fds, WrapStream(t, c, fd)
      PROVE  UNCHANGED level /\ \A d \in TcpConnects : inner'[d.async] = inner[d.async]
  BY <1>4 DEF WrapStream, New, new
<1>. QED
  BY <1>2, <1>3, <1>4
     DEF EndTurn, Suspend, Finish, Wake, Begin, Cancel, PollPending, PollWouldBlock,
         WouldBlock, BeginConnect, TakeSocket, TakeInner, take_inner

\* The socket of a new connect() is idle, and its closure reports what it decides.
LEMMA ClosureKeepsDecided ==
  ASSUME ConnectInv, Structure, DecidedInv, NEW t \in Tasks, NEW c \in Connects,
         Closure(t, c) \/ \E fd \in Fds : Open(t, c, fd)
  PROVE  DecidedInv'
<1> USE ConnectFacts
    DEF ConnectInv, ConnectTypeOK, TypeOK, EpollTypeOK, AsyncTypeOK, SocketOf, Returns, Becomes
<1>1. ASSUME NEW fd \in Fds, Open(t, c, fd)
      PROVE  DecidedInv'
  <2>1. /\ inner' = [inner EXCEPT ![c.async] = fd] /\ sock' = [sock EXCEPT ![fd] = "idle"]
        /\ outcome' = [outcome EXCEPT ![c] = "none"]
        /\ level' = [level EXCEPT ![fd] = {"OUT", "HUP"}]
    BY <1>1 DEF Open, new
  <2>. QED
    BY <2>1 DEF DecidedInv
<1>2. CASE Closure(t, c)
  <2> DEFINE fd == inner[c.async]
  <2>1. fd \in Fds /\ inner' = inner
    BY <1>2 DEF Closure, TcpConnect, TakeError, UnixConnect, Attempt, Completed, WouldBlock,
       asyncVars
  <2>2. \A d \in TcpConnects : d # c /\ inner[d.async] # None => inner[d.async] # fd
    BY <2>1 DEF Structure, OwnerInv
  <2>3. /\ level' = level \/ \E l \in SUBSET Readiness : level' = [level EXCEPT ![fd] = l]
        /\ sock' = sock \/ \E k \in {"connecting", "established", "refused"} :
                               sock' = [sock EXCEPT ![fd] = k]
        /\ outcome' = outcome \/ \E r \in {"ok", "err"} : outcome' = [outcome EXCEPT ![c] = r]
    BY <1>2 DEF Closure, TcpConnect, TakeError, UnixConnect, Readiness
  <2>4. c \in TcpConnects /\ outcome' = outcome => sock' = [sock EXCEPT ![fd] = "connecting"]
    <3>1. outcome[c] = "none"
      BY <1>2 DEF OutcomeInv, Closure, TcpConnect, TakeError, UnixConnect, Attempt, Polling, OpsOf
    <3>. QED
      BY <1>2, <3>1, ConnectAssumption DEF Closure, TcpConnect, TakeError, UnixConnect
  <2>. QED
    BY <2>1, <2>2, <2>3, <2>4 DEF DecidedInv
<1>. QED
  BY <1>1, <1>2

\* Each decision of the network makes the socket writable.
LEMMA NetworkKeepsDecided ==
  ASSUME ConnectInv, DecidedInv, ConnectKernel
  PROVE  DecidedInv'
<1> USE ConnectFacts, EpollAssumption
    DEF ConnectInv, ConnectTypeOK, TypeOK, EpollTypeOK, AsyncTypeOK, SocketOf
<1>1. PICK fd \in Fds, mask \in SUBSET Readiness, k \in {"established", "refused", "reset"} :
        /\ level' = [level EXCEPT ![fd] = @ \cup mask]
        /\ sock' = [sock EXCEPT ![fd] = k]
        /\ "OUT" \in mask \/ sock[fd] = "established"
  <2> DEFINE Decides(fd, mask, k) == /\ level' = [level EXCEPT ![fd] = @ \cup mask]
                                     /\ sock' = [sock EXCEPT ![fd] = k]
                                     /\ "OUT" \in mask \/ sock[fd] = "established"
  <2>1. ASSUME NEW fd \in Fds, NEW mask \in SUBSET Readiness, NEW from,
               NEW k \in {"established", "refused", "reset"}, Network(fd, from, k, mask),
               "OUT" \in mask \/ from = "established"
        PROVE  Decides(fd, mask, k)
    BY <2>1 DEF Network, KernelRaise, Raise
  <2>2. {"OUT"} \in SUBSET Readiness /\ "OUT" \in Readiness /\ Edges \subseteq SUBSET Readiness
    BY DEF Readiness
  <2> HIDE DEF Decides
  <2>3. \E fd \in Fds, mask \in SUBSET Readiness, k \in {"established", "refused", "reset"} :
            Decides(fd, mask, k)
    BY <2>1, <2>2 DEF ConnectKernel
  <2>. QED
    BY <2>3 DEF Decides
<1>2. UNCHANGED <<inner, outcome>>
  BY DEF ConnectKernel, Network, KernelRaise, asyncVars
<1>. QED
  BY <1>1, <1>2 DEF DecidedInv

LEMMA DecidedStep ==
  ASSUME TypeInv, Structure, ConnectInv, DecidedInv, TypeInv', Structure',
         [ConnectNext]_<<vars, connectVars>>
  PROVE  DecidedInv'
<1>1. ASSUME NEW t \in Tasks, ConnectTask(t)
      PROVE  DecidedInv'
  <2>1. ASSUME NEW c \in Connects, Body(t, c)
        PROVE  DecidedInv'
    BY <2>1, OperationKeepsDecided, DropKeepsDecided, ConnectFacts
       DEF Body, DropSocket, PathFails, Drop, BeginConnect, TakeSocket, WrapStream
  <2>2. ASSUME NEW c \in Connects, PollConnect(t, c) \/ Abandon(t, c) \/ DropStream(t, c)
        PROVE  DecidedInv'
    BY <2>2, OperationKeepsDecided, ClosureKeepsDecided, DropKeepsDecided, ConnectFacts
       DEF PollConnect, Abandon, DropStream, Drop, Closure
  <2>3. ASSUME NEW o \in Uses, UseStream(t, o)
        PROVE  DecidedInv'
    BY <2>3, OperationKeepsDecided DEF UseStream, PollStream
  <2>4. CASE (EndTurn(t) \/ \E other \in Tasks : Wake(t, other)) /\ UNCHANGED connectVars
    BY <2>4, OperationKeepsDecided
  <2>5. ASSUME NEW c \in Connects, OpenFails(t, c)
        PROVE  DecidedInv'
    <3>1. /\ UNCHANGED <<inner, level, sock>> /\ c.async \notin live
          /\ \A d \in Connects : d # c => outcome'[d] = outcome[d]
      BY <2>5 DEF OpenFails, Returns, vars, asyncVars, ConnectInv, ConnectTypeOK
    <3>2. SocketOf(c) = None
      BY <3>1, ConnectFacts DEF SocketOf, Structure, OwnerInv, TypeInv, TypeOK, AsyncTypeOK
    <3>. QED
      BY <3>1, <3>2, ConnectFacts DEF DecidedInv, SocketOf
  <2>. QED
    BY <1>1, <2>1, <2>2, <2>3, <2>4, <2>5, ClosureKeepsDecided DEF ConnectTask
<1>2. CASE ConnectExecutor
  <2>1. CASE \E a \in Waiters : Teardown(a)
    BY <1>2, <2>1, DropKeepsDecided DEF ConnectExecutor, Teardown
  <2>2. CASE UNCHANGED <<inner, level>>
    <3>1. \A a \in Waiters : inner[a] # None => sock'[inner[a]] = sock[inner[a]]
      BY <1>2, <2>2, CloseStep DEF ConnectExecutor
    <3>. QED
      BY <1>2, <2>2, <3>1, DecidedFrame, ConnectFacts DEF ConnectExecutor
  <2>. QED
    BY <1>2, <2>1, <2>2
       DEF ConnectExecutor, Executor, PollRegister, PollRegisterPanics, Schedule, Stall, Return,
           DispatchWait, DispatchInterrupted, DispatchNext, DispatchEnd, TeardownPanics, asyncVars
<1>3. CASE UNCHANGED <<vars, sock, outcome>>
  BY <1>3 DEF DecidedInv, SocketOf, vars, asyncVars
<1>. QED
  BY <1>1, <1>2, <1>3, NetworkKeepsDecided DEF ConnectNext, Listener, Terminated, connectVars

\* The wakeups that a TCP connect() relies on are there in every reachable state.
THEOREM DecisionInvariant == ConnectSpec => [](ServedInv /\ DecidedInv)
<1>1. ConnectInit => ServedInv /\ DecidedInv
  BY QuietInit, ConnectFacts
     DEF ConnectInit, Init, AsyncInit, ServedInv, FilesAt, DecidedInv, SocketOf
<1>2. TypeInv /\ Structure /\ ConnectInv /\ (TypeInv /\ Structure /\ ConnectInv)'
        /\ ServedInv /\ DecidedInv /\ [ConnectNext]_<<vars, connectVars>>
        => (ServedInv /\ DecidedInv)'
  BY ServedStep, DecidedStep
<1>. QED
  BY <1>1, <1>2, ConnectInvariant, PTL DEF ConnectSpec

\* The decision of the network about a TCP connection is not missed, whenever it
\* comes: whoever waits for it has an event queued that wakes its own task.
THEOREM DecisionsAreDelivered == ConnectSpec => []NoDecisionIsLost
<1>1. TypeInv /\ Structure /\ ConnectInv /\ ServedInv /\ DecidedInv => NoDecisionIsLost
  <2> SUFFICES ASSUME TypeInv, Structure, ConnectInv, ServedInv, DecidedInv,
                      NEW c \in TcpConnects \cap ops, Parked(c),
                      sock[SocketOf(c)] \in {"established", "refused", "reset"}
               PROVE  EventQueued(c.async) /\ waker[c.async] = c.task
    BY DEF NoDecisionIsLost
  <2>1. /\ WakeupsAt(c.async) /\ FilesAt(c.async) /\ UsedByOne(c.async)
        /\ c.async \in Waiters /\ as_events(c.interest) = {"OUT"}
    BY ConnectFacts, ConnectAssumption DEF ServedInv, UsedByOne
  <2>2. SocketOf(c) # None /\ outcome[c] = "none"
    BY <2>1, ConnectFacts
       DEF FilesAt, SocketOf, ConnectInv, OutcomeInv, ConnectTypeOK
  <2>3. "OUT" \in level[inner[c.async]]
    BY <2>2 DEF DecidedInv, SocketOf
  <2>. QED
    BY <2>1, <2>2, <2>3, FlagIsQueued DEF SocketOf
<1>. QED
  BY <1>1, ConnectInvariant, DecisionInvariant, PTL

\* run() enters dispatch() here too only with all woken tasks run.
LEMMA ConnectStallStep ==
  ASSUME Structure, StallInv, [ConnectNext]_<<vars, connectVars>>
  PROVE  StallInv'
<1>1. ASSUME NEW t \in Tasks, NEW c \in Connects, Closure(t, c) \/ \E fd \in Fds : Open(t, c, fd)
      PROVE  StallInv'
  BY <1>1 DEF Closure, TcpConnect, TakeError, UnixConnect, Attempt, Polling, Completed, WouldBlock,
     Open, Running, StallInv
<1>2. ASSUME NEW fd \in Fds, NEW mask \in SUBSET Readiness, KernelRaise(fd, mask)
      PROVE  StallInv'
  BY <1>2 DEF KernelRaise, StallInv, dispatchVars, taskVars
<1>. QED
  BY <1>1, <1>2, ConnectSteps, StallStep

\* When the thread sleeps in epoll_wait(), no TCP connect() is decided: the others that
\* are in flight, Unix connects among them, cannot keep its answer from the program.
SleepsOnlyUndecided ==
    Asleep => \A c \in TcpConnects \cap ops :
                  sock[SocketOf(c)] \notin {"established", "refused", "reset"}

THEOREM ConnectsSleepUndecided == ConnectSpec => []SleepsOnlyUndecided
<1>1. ConnectInit => StallInv
  BY DEF ConnectInit, Init, StallInv
<1>2. TypeInv /\ Structure /\ StallInv /\ NoDecisionIsLost => SleepsOnlyUndecided
  <2> SUFFICES ASSUME TypeInv, Structure, StallInv, NoDecisionIsLost, Asleep,
                      NEW c \in TcpConnects \cap ops
               PROVE  sock[SocketOf(c)] \notin {"established", "refused", "reset"}
    BY DEF SleepsOnlyUndecided
  <2>1. /\ todo = {} /\ buffer = {} /\ blocked = None /\ woken \subseteq done
        /\ Deliverable = {}
    BY AsleepIsIdle DEF Asleep
  <2>2. Parked(c)
    BY <2>1, ConnectFacts DEF Parked, Structure, BorrowInv
  <2>3. ~EventQueued(c.async)
    BY <2>1 DEF EventQueued
  <2>. QED
    BY <2>2, <2>3 DEF NoDecisionIsLost
<1>3. Structure /\ StallInv /\ [ConnectNext]_<<vars, connectVars>> => StallInv'
  BY ConnectStallStep
<1>. QED
  BY <1>1, <1>2, <1>3, ConnectInvariant, DecisionsAreDelivered, PTL DEF ConnectSpec

\* take_inner() hands a registered socket from one Async to another: no pointer to the
\* old one is left in the kernel or in dispatch()'s array.
THEOREM ConnectPointersArePinned == ConnectSpec => [](PointersPinned /\ RegistrationAgrees)
<1>1. Structure => PointersPinned /\ RegistrationAgrees
  BY DEF Structure, PointerInv, PointersPinned
<1>. QED
  BY <1>1, ConnectInvariant, PTL
=============================================================================
