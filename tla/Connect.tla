------------------------------ MODULE Connect ------------------------------
(***************************************************************************)
(* Async::<TcpStream>::connect() of src/net.rs and                         *)
(* Async::<UnixStream>::connect() of src/unix.rs, on top of Ground: each   *)
(* opens a socket, wraps it, awaits one non-blocking operation whose       *)
(* closure does the connecting, takes the socket out of its wrapper and    *)
(* wraps it again as a stream.                                             *)
(***************************************************************************)
EXTENDS Ground

CONSTANTS TcpConnects, UnixConnects, \* the uses that are the awaited operation
          StreamOf                   \* StreamOf[c]: where the result of c lives

Connects == TcpConnects \cup UnixConnects

\* The Async that is connected is a local variable of connect(): nobody else uses it.
ASSUME ConnectAssumption ==
    /\ Connects \subseteq {u \in Uses : u.kind = "io" /\ u.interest = "Write"}
    /\ TcpConnects \cap UnixConnects = {}
    /\ StreamOf \in [Connects -> Waiters]
    /\ \A c, d \in Connects : c # d => StreamOf[c] # StreamOf[d]
    /\ \A c \in Connects, u \in Uses : u.async = c.async => u = c
    /\ \A c, d \in Connects : StreamOf[c] # d.async

VARIABLES sock,           \* what has become of the socket with this number
          called_connect, \* connects whose closure has been invoked
          outcome,        \* outcome[c]: what the awaited operation returned
          listener        \* the Unix socket at the path that is connected to

connectVars == <<sock, called_connect, outcome, listener>>

ConnectTypeOK ==
    /\ TypeOK
    /\ sock \in [Fds -> {"none", "idle", "connecting", "established", "reset", "refused"}]
    /\ called_connect \in SUBSET Connects
    /\ outcome \in [Connects -> {"none", "ok", "err"}]
    /\ listener \in {"accepting", "full", "closed"}

ConnectInit ==
    /\ Init
    /\ level = [fd \in Fds |-> {}]
    /\ sock = [fd \in Fds |-> "none"]
    /\ called_connect = {}
    /\ outcome = [c \in Connects |-> "none"]
    /\ listener \in {"accepting", "full", "closed"}

SocketOf(c) == inner[c.async]

\* connect() is past its first line and is not waiting for the operation: it
\* goes on without returning to the executor.
Underway(t, c) == c.task = t /\ c.async \in live /\ c \notin ops
Busy(t) == \E c \in Connects : Underway(t, c)

Becomes(c, state) == sock' = [sock EXCEPT ![SocketOf(c)] = state]
Returns(c, result) == outcome' = [outcome EXCEPT ![c] = result]

\* Files nobody owns any more are closed.
CloseUnwrapped ==
    sock' = [fd \in Fds |-> IF Unwrapped(fd)' THEN "none" ELSE sock[fd]]

-----------------------------------------------------------------------------
\* The body of connect().  A socket that is not connected polls as writable
\* and hung up.
Open(t, c, fd) ==
    /\ Running(t) /\ c.task = t /\ ~Busy(t)
    /\ sock[fd] = "none" /\ StreamOf[c] \notin live
    /\ new(c.async, fd)
    /\ level' = [level EXCEPT ![fd] = {"OUT", "HUP"}]
    /\ sock' = [sock EXCEPT ![fd] = "idle"]
    /\ called_connect' = called_connect \ {c}
    /\ Returns(c, "none")
    /\ UNCHANGED <<epollVars, dispatchVars, woken, taskVars, phase, failure, listener>>

\* Socket::new() fails: connect() returns before it has anything to await.
OpenFails(t, c) ==
    /\ Running(t) /\ c.task = t /\ ~Busy(t)
    /\ c.async \notin live /\ StreamOf[c] \notin live
    /\ called_connect' = called_connect \ {c}
    /\ Returns(c, "none")
    /\ UNCHANGED <<vars, sock, listener>>

\* SockAddr::unix() does not take the path: the wrapped socket is dropped again.
PathFails(t, c) ==
    /\ Underway(t, c) /\ c \in UnixConnects \ called_connect
    /\ Drop(t, c.async)
    /\ CloseUnwrapped
    /\ UNCHANGED <<called_connect, outcome, listener>>

BeginConnect(t, c) ==
    /\ Underway(t, c) /\ c \notin called_connect
    /\ Begin(t, c)
    /\ UNCHANGED connectVars

\* The first invocation of the TCP closure.
TcpConnect(t, c) ==
    /\ Attempt(t, c) /\ c \in TcpConnects \ called_connect
    /\ called_connect' = called_connect \cup {c}
    /\ \/ /\ Becomes(c, "connecting")       \* EINPROGRESS, as WouldBlock
          /\ level' = [level EXCEPT ![SocketOf(c)] = {}]
          /\ WouldBlock(c)
          /\ UNCHANGED outcome
       \/ /\ Becomes(c, "established")
          /\ level' = [level EXCEPT ![SocketOf(c)] = {"OUT"}]
          /\ Completed(c)
          /\ Returns(c, "ok")
       \/ /\ Becomes(c, "refused")
          /\ UNCHANGED level
          /\ Completed(c)
          /\ Returns(c, "err")
    /\ UNCHANGED listener

\* A closure that calls connect(2) every time: EISCONN, EALREADY or the error.
TakeError_reconnect(t, c) ==
    /\ Attempt(t, c) /\ c \in TcpConnects \cap called_connect
    /\ Completed(c)
    /\ Returns(c, "err")
    /\ UNCHANGED <<level, sock, called_connect, listener>>

\* Any later one: take_error() says whether an error is pending.
TakeError(t, c) ==
    /\ Attempt(t, c) /\ c \in TcpConnects \cap called_connect
    /\ Completed(c)
    /\ Returns(c, IF sock[SocketOf(c)] \in {"refused", "reset"} THEN "err" ELSE "ok")
    /\ UNCHANGED <<level, sock, called_connect, listener>>

\* Every invocation of the Unix closure calls connect(2), which decides at
\* once: the listener has room, or has none (EAGAIN), or is not there.
UnixConnect(t, c) ==
    /\ Attempt(t, c) /\ c \in UnixConnects
    /\ called_connect' = called_connect \cup {c}
    /\ \/ /\ listener = "accepting"
          /\ Becomes(c, "established")
          /\ level' = [level EXCEPT ![SocketOf(c)] = {"OUT"}]
          /\ Completed(c)
          /\ Returns(c, "ok")
       \/ /\ listener = "full"
          /\ WouldBlock(c)
          /\ UNCHANGED <<level, sock, outcome>>
       \/ /\ listener = "closed"
          /\ Becomes(c, "refused")
          /\ UNCHANGED level
          /\ Completed(c)
          /\ Returns(c, "err")
    /\ UNCHANGED listener

\* The caller drops the future of connect() while it waits.
Abandon(t, c) ==
    /\ c \in called_connect
    /\ Cancel(t, c)
    /\ UNCHANGED connectVars

\* socket.take_inner(), once the operation has returned Ok.
TakeSocket(t, c) ==
    /\ Underway(t, c) /\ outcome[c] = "ok"
    /\ TakeInner(t, c.async)
    /\ UNCHANGED connectVars

\* Async::new(stream).
WrapStream(t, c, fd) ==
    /\ Underway(t, c) /\ outcome[c] = "ok" /\ SocketOf(c) = None
    /\ sock[fd] # "none"
    /\ New(t, StreamOf[c], fd)
    /\ UNCHANGED connectVars

\* connect() returns, or was abandoned: its local Async is dropped.
DropSocket(t, c) ==
    /\ Underway(t, c) /\ c \in called_connect
    /\ outcome[c] = "ok" => SocketOf(c) = None /\ StreamOf[c] \in live
    /\ Drop(t, c.async)
    /\ CloseUnwrapped
    /\ UNCHANGED <<called_connect, outcome, listener>>

Body(t, c) ==
    \/ PathFails(t, c)
    \/ BeginConnect(t, c)
    \/ TakeSocket(t, c)
    \/ \E fd \in Fds : WrapStream(t, c, fd)
    \/ DropSocket(t, c)

\* poll_nonblocking() on behalf of c.
PollConnect(t, c) ==
    \/ TcpConnect(t, c)
    \/ TakeError(t, c)
    \/ UnixConnect(t, c)
    \/ PollPending(t, c) /\ UNCHANGED connectVars

\* What a task does apart from connecting: it uses the streams.
PollStream(t, o) ==
    /\ ~Busy(t) /\ o \notin Connects
    /\ PollPending(t, o) \/ PollReady(t, o) \/ PollWouldBlock(t, o)
    /\ UNCHANGED connectVars

UseStream(t, o) ==
    \/ /\ ~Busy(t) /\ o \notin Connects
       /\ Begin(t, o) \/ Cancel(t, o)
       /\ UNCHANGED connectVars
    \/ PollStream(t, o)

DropStream(t, c) ==
    /\ ~Busy(t)
    /\ Drop(t, StreamOf[c])
    /\ CloseUnwrapped
    /\ UNCHANGED <<called_connect, outcome, listener>>

ConnectTask(t) ==
    \/ \E c \in Connects, fd \in Fds : Open(t, c, fd)
    \/ \E c \in Connects : OpenFails(t, c) \/ Body(t, c)
    \/ ~Busy(t) /\ \E c \in Connects : PollConnect(t, c) \/ Abandon(t, c)
    \/ \E c \in Connects : DropStream(t, c)
    \/ \E o \in Uses : UseStream(t, o)
    \/ /\ ~Busy(t)
       /\ EndTurn(t) \/ \E other \in Tasks : Wake(t, other)
       /\ UNCHANGED connectVars

-----------------------------------------------------------------------------
\* The executor as in Ground; when run() ends, the sockets are closed.
ConnectExecutor ==
    /\ Executor
    /\ CloseUnwrapped
    /\ UNCHANGED <<called_connect, outcome, listener>>

\* The network decides, data and space come and go, peers reset.
Network(fd, from, to, mask) ==
    /\ sock[fd] = from
    /\ sock' = [sock EXCEPT ![fd] = to]
    /\ KernelRaise(fd, mask)
    /\ UNCHANGED <<called_connect, outcome, listener>>

ConnectKernel ==
    \E fd \in Fds :
        \/ Network(fd, "connecting", "established", {"OUT"})
        \/ Network(fd, "connecting", "refused", Readiness)
        \/ Network(fd, "established", "reset", Readiness)
        \/ \E mask \in Edges : Network(fd, "established", "established", mask)

\* The listener's owner accepts, others fill its backlog, it goes and comes back.
Listener ==
    /\ listener' \in {"accepting", "full", "closed"}
    /\ UNCHANGED <<vars, sock, called_connect, outcome>>

ConnectNext ==
    \/ \E t \in Tasks : ConnectTask(t)
    \/ ConnectExecutor
    \/ ConnectKernel
    \/ Listener
    \/ Terminated /\ UNCHANGED connectVars

ConnectSpec == ConnectInit /\ [][ConnectNext]_<<vars, connectVars>>

\* As Fairness in Ground, and connect() runs on once its operation is over.
ConnectFairness ==
    /\ WF_<<vars, connectVars>>(ConnectExecutor)
    /\ \A c \in Connects :
         /\ SF_<<vars, connectVars>>(\E t \in Tasks : PollConnect(t, c))
         /\ WF_<<vars, connectVars>>(\E t \in Tasks : Body(t, c))
    /\ \A o \in Uses : SF_<<vars, connectVars>>(\E t \in Tasks : PollStream(t, o))
    /\ \A t \in Tasks : SF_<<vars, connectVars>>(~Busy(t) /\ EndTurn(t) /\ UNCHANGED connectVars)
    /\ \A fd \in Fds :
         SF_<<vars, connectVars>>(/\ \E reported \in SUBSET Fds :
                                         fd \in reported /\ DispatchWait(reported)
                                  /\ UNCHANGED connectVars)

ConnectFairSpec == ConnectSpec /\ ConnectFairness
-----------------------------------------------------------------------------
\* connect() reports success only for a connection that was established: the
\* second invocation of the TCP closure "should either be connected already at
\* this point, or the connection should have failed".
OkIsEstablished ==
    \A c \in Connects :
        /\ outcome[c] = "ok" /\ SocketOf(c) # None =>
               sock[SocketOf(c)] \in {"established", "reset"}
        /\ inner[StreamOf[c]] # None =>
               sock[inner[StreamOf[c]]] \in {"established", "reset"}

\* It reports an error only for a connection that failed.
ErrIsFailure ==
    \A c \in Connects :
        outcome[c] = "err" /\ SocketOf(c) # None =>
            sock[SocketOf(c)] \in {"refused", "reset"}

\* The network's decision is not missed: between the WouldBlock of the first
\* invocation and the registration, or in an event that is taken for another one.
\* Whoever still waits for it has an event queued that wakes its own task.
NoDecisionIsLost ==
    \A c \in TcpConnects \cap ops :
        Parked(c) /\ sock[SocketOf(c)] \in {"established", "refused", "reset"} =>
            EventQueued(c.async) /\ waker[c.async] = c.task

\* Once the network has decided on a TCP connection, connect() returns.
DecidedConnectsReturn ==
    \A c \in TcpConnects :
        []<>~(c \in ops /\ sock[SocketOf(c)] \in {"established", "refused", "reset"})

\* While the listener keeps accepting, connect() to a Unix socket returns.
AcceptedConnectsReturn ==
    \A c \in UnixConnects : []<>~(c \in ops /\ listener = "accepting")
=============================================================================
