------------------------------- MODULE Ground -------------------------------
(***************************************************************************)
(* The crate at work: tasks that perform I/O through Asyncs, the executor  *)
(* of executor/src/lib.rs that polls the tasks and blocks in the reactor,  *)
(* and the kernel that changes the readiness of files at any moment.       *)
(*                                                                         *)
(* Everything but the kernel is one thread.  Its steps are cut where the   *)
(* kernel can come in between: at the operation inside poll_nonblocking(), *)
(* at epoll_ctl() and at epoll_wait().                                     *)
(*                                                                         *)
(* An operation in flight is a future returned by Async::nonblocking(), or *)
(* a poll_read / poll_write / poll_close that a task repeats until it is   *)
(* ready.  A task polls all its operations whenever it runs (join, select) *)
(* and goes to sleep once all of them have returned Poll::Pending.         *)
(***************************************************************************)
EXTENDS AsyncIo

CONSTANTS Uses,    \* the operations tasks perform: who, on what, for which I/O
          Split,   \* Asyncs with several operations in flight at once: split
                   \* into halves, or polled by hand
          Main,    \* the task whose result executor::run() returns
          Faults   \* "wake": tasks wake each other; "signal": epoll_wait() is
                   \* interrupted; "ctl": epoll_ctl() runs out of resources

Kinds == {"io", "close"}

ASSUME GroundAssumption ==
    /\ Uses \subseteq [task : Tasks, async : Waiters, interest : Interest, kind : Kinds]
    /\ \A u \in Uses : u.kind = "close" => u.interest = "Write"
    /\ None \notin Uses
    /\ Split \subseteq Waiters
    /\ Main \in Tasks
    /\ Faults \subseteq {"wake", "signal", "ctl"}

VARIABLES ops,      \* operations in flight
          todo,     \* those the running task has still to poll in this turn
          blocked,  \* the one that just got WouldBlock and is about to register
          current,  \* the task being polled
          done,     \* tasks that have completed
          phase,    \* where executor::run() is
          failure   \* whether the thread is panicking

taskVars == <<ops, todo, blocked, current, done>>
vars == <<level, epollVars, waiterVars, dispatchVars, woken, asyncVars, taskVars,
          phase, failure>>

TypeOK ==
    /\ EpollTypeOK /\ ReactorTypeOK /\ AsyncTypeOK
    /\ ops \in SUBSET Uses
    /\ todo \in SUBSET ops
    /\ blocked \in ops \cup {None}
    /\ current \in Tasks \cup {None}
    /\ done \in SUBSET Tasks
    /\ phase \in {"poll", "dispatch", "returned"}
    /\ failure \in {"none", "panic", "abort"}

Init ==
    /\ EpollInit /\ ReactorInit /\ AsyncInit
    /\ ops = {} /\ todo = {} /\ blocked = None
    /\ current = None /\ done = {}
    /\ phase = "poll" /\ failure = "none"

OpsOf(t) == {o \in ops : o.task = t}
OpsOn(a) == {o \in ops : o.async = a}

Running(t) ==
    failure = "none" /\ phase = "poll" /\ current = t /\ blocked = None

-----------------------------------------------------------------------------
\* What a running task does with its Asyncs.

New(t, a, fd) ==
    /\ Running(t)
    /\ new(a, fd)
    /\ UNCHANGED <<level, epollVars, dispatchVars, woken, taskVars, phase, failure>>

IntoInner(t, a) ==
    /\ Running(t)
    /\ into_inner(a)
    /\ UNCHANGED <<level, epollVars, waiterVars, dispatchVars, woken, taskVars,
                   phase, failure>>

\* Taking or dropping an Async needs it not to be borrowed by an operation;
\* take_inner() gets it pinned.
\* deregister() would panic if the kernel did not know the file; that this
\* never happens here is part of RegistrationAgrees.
TakeInner(t, a) ==
    /\ Running(t)
    /\ a \in live /\ OpsOn(a) = {}
    /\ take_inner(a)
    /\ pinned' = pinned \cup {a}
    /\ UNCHANGED <<level, waker, waiting_for, dispatchVars, woken, live, taskVars,
                   phase, failure>>

Drop(t, a) ==
    /\ Running(t)
    /\ a \in live /\ OpsOn(a) = {}
    /\ drop(a)
    /\ UNCHANGED <<waker, waiting_for, dispatchVars, woken, taskVars, phase, failure>>

\* An operation borrows the Async, so a second one is begun beside it only if the
\* Async is split; even then never two for the same events.  A program does not
\* go on to use an Async whose file it has seen taken.
Begin(t, o) ==
    /\ Running(t)
    /\ o.task = t /\ o \notin ops
    /\ o.async \in live /\ inner[o.async] # None
    /\ o.async \in Split \/ OpsOn(o.async) = {}
    /\ \A p \in OpsOn(o.async) : as_events(p.interest) \cap as_events(o.interest) = {}
    /\ ops' = ops \cup {o}
    /\ todo' = todo \cup {o}
    /\ pinned' = pinned \cup {o.async}
    /\ UNCHANGED <<level, epollVars, waiterVars, dispatchVars, woken, live, inner,
                   blocked, current, done, phase, failure>>

\* The future is dropped before it is ready (a timeout, a lost select!).
Cancel_unfinished(t, o) ==
    /\ Running(t)
    /\ o \in OpsOf(t)
    /\ ops' = ops \ {o}
    /\ UNCHANGED <<level, epollVars, waiterVars, dispatchVars, woken, asyncVars,
                   todo, blocked, current, done, phase, failure>>

Cancel(t, o) ==
    /\ Running(t)
    /\ o \in OpsOf(t)
    /\ ops' = ops \ {o}
    /\ todo' = todo \ {o}
    /\ UNCHANGED <<level, epollVars, waiterVars, dispatchVars, woken, asyncVars,
                   blocked, current, done, phase, failure>>

\* A running task wakes a task itself (through a channel, say).
Wake(t, other) ==
    /\ Running(t)
    /\ "wake" \in Faults
    /\ woken' = woken \cup {other}
    /\ UNCHANGED <<level, epollVars, waiterVars, dispatchVars, asyncVars, taskVars,
                   phase, failure>>

-----------------------------------------------------------------------------
\* Async::poll_nonblocking(), as the running task calls it for operation o.

Polling(t, o) == Running(t) /\ o \in todo \cap OpsOf(t)

\* A panic unwinds out of executor::run(): every task is dropped.
Panic ==
    /\ failure' = "panic"
    /\ ops' = {} /\ todo' = {} /\ blocked' = None /\ current' = None

\* expect("Inner already taken").
PollTaken(t, o) ==
    /\ Polling(t, o)
    /\ inner[o.async] = None
    /\ Panic
    /\ UNCHANGED <<level, epollVars, waiterVars, dispatchVars, woken, asyncVars,
                   done, phase>>

\* The early return.
PollPending(t, o) ==
    /\ Polling(t, o)
    /\ inner[o.async] # None
    /\ StillWaiting(o.async, o.interest)
    /\ todo' = todo \ {o}
    /\ UNCHANGED <<level, epollVars, waiterVars, dispatchVars, woken, asyncVars,
                   ops, blocked, current, done, phase, failure>>

\* The closure is invoked on the file.
Attempt(t, o) ==
    /\ Polling(t, o)
    /\ inner[o.async] # None
    /\ ~StillWaiting(o.async, o.interest)

\* It completes: Poll::Ready.
Completed(o) ==
    /\ ops' = ops \ {o}
    /\ todo' = todo \ {o}
    /\ UNCHANGED <<epollVars, waiterVars, dispatchVars, woken, asyncVars, blocked,
                   current, done, phase, failure>>

PollReady(t, o) ==
    /\ Attempt(t, o) /\ o.kind = "io"
    /\ CanProceed(o.async, o.interest)
    /\ Consume(inner[o.async], o.interest)
    /\ Completed(o)

\* poll_close(): the flush completes (it always may: most types buffer
\* nothing), then the file is taken out and dropped.  Nobody tells the other
\* operations on the Async.
PollClose(t, o) ==
    /\ Attempt(t, o) /\ o.kind = "close"
    /\ take_inner(o.async)
    /\ Close(inner[o.async])
    /\ ops' = ops \ {o}
    /\ todo' = todo \ {o}
    /\ UNCHANGED <<waker, waiting_for, dispatchVars, woken, live, pinned, blocked,
                   current, done, phase, failure>>

\* The flush fails: poll_close() returns the error, and the file stays.
PollCloseFails(t, o) ==
    /\ Attempt(t, o) /\ o.kind = "close"
    /\ UNCHANGED level
    /\ Completed(o)

\* The closure returns WouldBlock.  The kernel may act before the task has
\* registered, so the rest of this arm is a step of its own.
WouldBlock(o) ==
    /\ blocked' = o
    /\ todo' = todo \ {o}
    /\ UNCHANGED <<epollVars, waiterVars, dispatchVars, woken, asyncVars, ops,
                   current, done, phase, failure>>

PollWouldBlock(t, o) ==
    /\ Attempt(t, o)
    /\ ~CanProceed(o.async, o.interest)
    /\ UNCHANGED level
    /\ WouldBlock(o)

PollRegister ==
    /\ failure = "none" /\ blocked # None
    /\ start_waiting(blocked.async, blocked.interest, current)
    /\ ensure_registered(blocked.async, blocked.interest)
    /\ blocked' = None
    /\ UNCHANGED <<level, dispatchVars, woken, asyncVars, ops, todo, current, done,
                   phase, failure>>

\* expect("Failed to register with epoll").
PollRegisterPanics ==
    /\ failure = "none" /\ blocked # None
    /\ "ctl" \in Faults \/ RegistrationRefused(blocked.async, blocked.interest)
    /\ start_waiting(blocked.async, blocked.interest, current)
    /\ ensure_registered_fails(blocked.async, blocked.interest)
    /\ Panic
    /\ UNCHANGED <<level, dispatchVars, woken, asyncVars, done, phase>>

-----------------------------------------------------------------------------
\* executor::run(): pool.run_until_stalled(), then the check for the result,
\* then REACTOR.dispatch(), in a loop.

Schedule(t) ==
    /\ failure = "none" /\ phase = "poll" /\ current = None
    /\ t \in woken \ done
    /\ current' = t
    /\ woken' = woken \ {t}
    /\ todo' = OpsOf(t)
    /\ UNCHANGED <<level, epollVars, waiterVars, dispatchVars, asyncVars, ops,
                   blocked, done, phase, failure>>

\* The task's future returns Poll::Pending.
Suspend(t) ==
    /\ Running(t)
    /\ todo = {} /\ OpsOf(t) # {}
    /\ current' = None
    /\ UNCHANGED <<level, epollVars, waiterVars, dispatchVars, woken, asyncVars,
                   ops, todo, blocked, done, phase, failure>>

\* The task's future returns Poll::Ready.
Finish(t) ==
    /\ Running(t)
    /\ OpsOf(t) = {}
    /\ current' = None
    /\ done' = done \cup {t}
    /\ UNCHANGED <<level, epollVars, waiterVars, dispatchVars, woken, asyncVars,
                   ops, todo, blocked, phase, failure>>

Stalled == failure = "none" /\ phase = "poll" /\ current = None /\ woken \subseteq done

\* The pool has stalled without a result: block in the reactor.
Stall ==
    /\ Stalled /\ Main \notin done
    /\ phase' = "dispatch"
    /\ UNCHANGED <<level, epollVars, waiterVars, dispatchVars, woken, asyncVars,
                   taskVars, failure>>

\* The result is there: run() returns and the pool drops its other tasks.
Return ==
    /\ Stalled /\ Main \in done
    /\ phase' = "returned"
    /\ ops' = {} /\ todo' = {}
    /\ UNCHANGED <<level, epollVars, waiterVars, dispatchVars, woken, asyncVars,
                   blocked, current, done, failure>>

DispatchWait(reported) ==
    /\ failure = "none" /\ phase = "dispatch"
    /\ dispatch_wait(reported)
    /\ UNCHANGED <<level, waiterVars, woken, asyncVars, taskVars, phase, failure>>

\* A dispatch() that sets is_dispatching before the call that may fail.
DispatchInterrupted_flagged ==
    /\ failure = "none" /\ phase = "dispatch" /\ ~is_dispatching
    /\ "signal" \in Faults
    /\ is_dispatching' = TRUE
    /\ Panic
    /\ UNCHANGED <<level, epollVars, waiterVars, buffer, woken, asyncVars, done, phase>>

\* epoll_wait() returns EINTR: dispatch() returns the error before it has
\* touched anything, and run() panics on it.
DispatchInterrupted ==
    /\ failure = "none" /\ phase = "dispatch" /\ ~is_dispatching
    /\ "signal" \in Faults
    /\ Panic
    /\ UNCHANGED <<level, epollVars, waiterVars, dispatchVars, woken, asyncVars,
                   done, phase>>

DispatchNext(e) ==
    /\ failure = "none" /\ phase = "dispatch"
    /\ dispatch_next(e)
    /\ UNCHANGED <<level, epollVars, waker, register_for, asyncVars, taskVars,
                   phase, failure>>

DispatchEnd ==
    /\ failure = "none" /\ phase = "dispatch"
    /\ dispatch_end
    /\ phase' = "poll"
    /\ UNCHANGED <<level, epollVars, waiterVars, woken, asyncVars, taskVars, failure>>

\* The Asyncs of the dropped tasks are dropped.  A failing deregister() is a
\* panic, and a panic while unwinding aborts the process.
TearingDown == failure = "panic" \/ (failure = "none" /\ phase = "returned")

Teardown(a) ==
    /\ TearingDown /\ a \in live
    /\ drop(a)
    /\ UNCHANGED <<waker, waiting_for, dispatchVars, woken, taskVars, phase, failure>>

TeardownPanics(a) ==
    /\ TearingDown /\ a \in live
    /\ deregister_fails(a)
    /\ failure' = IF failure = "panic" THEN "abort" ELSE "panic"
    /\ UNCHANGED <<level, epollVars, waiterVars, dispatchVars, woken, asyncVars,
                   taskVars, phase>>

Terminated ==
    /\ failure = "abort" \/ (TearingDown /\ live = {})
    /\ UNCHANGED vars

-----------------------------------------------------------------------------
\* The kernel.

KernelRaise(fd, mask) ==
    /\ Raise(fd, mask)
    /\ UNCHANGED <<waiterVars, dispatchVars, woken, asyncVars, taskVars, phase, failure>>

KernelRecede(fd, flag) ==
    /\ Recede(fd, flag)
    /\ UNCHANGED <<waiterVars, dispatchVars, woken, asyncVars, taskVars, phase, failure>>

-----------------------------------------------------------------------------
Ownership(t) ==
    \E a \in Waiters :
        \/ \E fd \in Fds : New(t, a, fd)
        \/ IntoInner(t, a)
        \/ TakeInner(t, a)
        \/ Drop(t, a)

Poll(t, o) ==
    \/ PollTaken(t, o)
    \/ PollPending(t, o)
    \/ PollReady(t, o)
    \/ PollClose(t, o)
    \/ PollCloseFails(t, o)
    \/ PollWouldBlock(t, o)

EndTurn(t) == Suspend(t) \/ Finish(t)

TaskStep(t) ==
    \/ Ownership(t)
    \/ \E o \in Uses : Begin(t, o) \/ Cancel(t, o) \/ Poll(t, o)
    \/ \E other \in Tasks : Wake(t, other)
    \/ EndTurn(t)

Executor ==
    \/ PollRegister
    \/ PollRegisterPanics
    \/ \E t \in Tasks : Schedule(t)
    \/ Stall
    \/ Return
    \/ \E reported \in SUBSET Fds : DispatchWait(reported)
    \/ DispatchInterrupted
    \/ \E e \in buffer : DispatchNext(e)
    \/ DispatchEnd
    \/ \E a \in Waiters : Teardown(a) \/ TeardownPanics(a)

Kernel ==
    \E fd \in Fds :
        \/ \E mask \in Edges : KernelRaise(fd, mask)
        \/ \E flag \in Readiness : KernelRecede(fd, flag)

Next ==
    \/ \E t \in Tasks : TaskStep(t)
    \/ Executor
    \/ Kernel
    \/ Terminated

Spec == Init /\ [][Next]_vars

\* The thread keeps running: the executor's own steps are never put off for
\* ever, a task polls what it has in flight and its turns end (nothing in
\* ground makes a task yield, so this is asked of the tasks), and epoll_wait()
\* serves its ready list in order, so a file that stays on it is reported.
Fairness ==
    /\ WF_vars(Executor)
    /\ \A o \in Uses : SF_vars(\E t \in Tasks : Poll(t, o))
    /\ \A t \in Tasks : SF_vars(EndTurn(t))
    /\ \A fd \in Fds :
         SF_vars(\E reported \in SUBSET Fds : fd \in reported /\ DispatchWait(reported))

FairSpec == Spec /\ Fairness
-----------------------------------------------------------------------------
\* The waiter pointers that are outside of Rust's control: those registered
\* with the kernel and those in dispatch()'s array point to an Async that
\* still exists, is pinned and still owns the file.  This is what the SAFETY
\* comments of ensure_registered(), take_inner() and dispatch() claim.
PointersPinned ==
    /\ \A fd \in Fds : data[fd] # None => data[fd] \in pinned /\ inner[data[fd]] = fd
    /\ \A e \in buffer : e.data \in pinned /\ inner[e.data] # None

\* register_for is the truth about the kernel's registration, in both
\* directions, so that ensure_registered() chooses rightly between ADD, MOD
\* and nothing and deregister() never meets ENOENT.  A panic may break it.
Agreement ==
    \A a \in live :
        IF register_for[a] = {} \/ inner[a] = None
        THEN \A fd \in Fds : data[fd] # a
        ELSE data[inner[a]] = a /\ events[inner[a]] = register_for[a]

RegistrationAgrees == failure = "none" => Agreement

\* An operation that was polled, returned Poll::Pending and will not be
\* polled again before its task is woken.
Parked(o) == o \in ops \ todo /\ o # blocked /\ o.task \notin woken

\* Polling the operation now would lead to a result.
Resolvable(o) == inner[o.async] = None \/ CanProceed(o.async, o.interest)

\* An event for this Async is queued in the kernel or in dispatch()'s array.
EventQueued(a) ==
    \/ inner[a] # None /\ inner[a] \in Deliverable /\ data[inner[a]] = a
    \/ \E e \in buffer : e.data = a

\* poll_nonblocking()'s promise that "the current task will get woken up": an
\* operation that is parked although it could proceed has an event queued
\* that will wake its own task.
NoLostWakeup ==
    \A o \in ops : Parked(o) /\ Resolvable(o) =>
                      EventQueued(o.async) /\ waker[o.async] = o.task

\* When executor::run() sleeps in epoll_wait() no operation could proceed.
SleepsOnlyWhenIdle ==
    phase = "dispatch" /\ ~is_dispatching /\ Deliverable = {} =>
        \A o \in ops : ~Resolvable(o)

\* A panic, out of an interrupted dispatch() or of an operation whose file was
\* taken, unwinds; dropping the Asyncs on the way does not panic again.  (After a
\* failed registration it may: register_for was assigned first.)
UnwindsWithoutAbort == failure # "abort"

\* No operation stays in flight and able to proceed for ever: the closure is
\* "repeatedly invoked until it returns something other than" WouldBlock.
ReadyOperationsComplete ==
    \A o \in Uses : []<>~(o \in ops /\ Resolvable(o))

\* The thread is blocked in epoll_wait().
Asleep == failure = "none" /\ phase = "dispatch" /\ ~is_dispatching /\ Deliverable = {}

Io == INSTANCE ReadyIo WITH asleep <- Asleep

\* The crate implements what its users rely on: the mechanism of wakers,
\* registrations and events neither lets an operation complete that is not
\* ready, nor sleeps through it, nor (in the fair version) keeps a ready one
\* waiting for ever.
ImplementsReadyIo == Io!Spec
ImplementsFairReadyIo == Io!FairSpec

\* What NoLostWakeup needs of the program and of the files it wraps: each
\* Async is used by one task, for one direction per operation, and is closed
\* only while nothing else is in flight on it; and a hang-up or an error also
\* makes the file readable and writable.
SingleUser  == \A u, v \in Uses : u.async = v.async => u.task = v.task
OneWay      == \A u \in Uses : u.interest # "ReadWrite"
ClosedWhole == \A u \in Uses : u.kind = "close" => u.async \notin Split
HangupIsIO  == \A mask \in Edges : mask \cap Always # {} => {"IN", "OUT"} \subseteq mask
=============================================================================
