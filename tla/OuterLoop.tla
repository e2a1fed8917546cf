----------------------------- MODULE OuterLoop -----------------------------
(***************************************************************************)
(* The second way of running the crate in the documentation of             *)
(* src/lib.rs: another event loop watches the reactor's epoll descriptor,  *)
(* which is readable while an event can be delivered, runs the tasks, and  *)
(* calls Reactor::dispatch() when its callback for the descriptor is due.  *)
(***************************************************************************)
EXTENDS Ground

VARIABLE due   \* on_fd_readable()'s callback is queued in the outer loop

outerVars == <<vars, due>>

OuterInit == Init /\ due = FALSE

\* The outer loop's own wait finds the descriptor readable.
FindReadable ==
    /\ failure = "none" /\ phase = "poll" /\ current = None
    /\ Deliverable # {}
    /\ due' = TRUE
    /\ UNCHANGED vars

\* The callback enters dispatch().
Callback ==
    /\ failure = "none" /\ phase = "poll" /\ current = None
    /\ due
    /\ due' = FALSE
    /\ phase' = "dispatch"
    /\ UNCHANGED <<level, epollVars, waiterVars, dispatchVars, woken, asyncVars,
                   taskVars, failure>>

\* The executor's part in between, as another callback: the woken tasks run.
RunTasks ==
    \/ PollRegister
    \/ PollRegisterPanics
    \/ \E t \in Tasks : Schedule(t) \/ TaskStep(t)

\* The callback expects dispatch() to succeed: an interrupted one panics there.
Dispatch ==
    \/ \E reported \in SUBSET Fds : DispatchWait(reported)
    \/ DispatchInterrupted
    \/ \E e \in buffer : DispatchNext(e)
    \/ DispatchEnd

\* The outer loop ends, between two callbacks, and its tasks are dropped.
Quit ==
    /\ failure = "none" /\ phase = "poll" /\ current = None
    /\ phase' = "returned"
    /\ ops' = {} /\ todo' = {}
    /\ UNCHANGED <<level, epollVars, waiterVars, dispatchVars, woken, asyncVars,
                   blocked, current, done, failure>>

\* The Asyncs go with the tasks, after the end or a panic.
TearDown == \E a \in Waiters : Teardown(a) \/ TeardownPanics(a)

OuterNext ==
    \/ FindReadable
    \/ Callback
    \/ (RunTasks \/ Dispatch \/ Quit \/ TearDown \/ Terminated \/ Kernel) /\ UNCHANGED due

OuterSpec == OuterInit /\ [][OuterNext]_outerVars

\* The same with files that nobody else reads from or writes to: what is ready
\* stays so until a task uses it.
OwnFilesSpec ==
    /\ OuterInit
    /\ [][OuterNext /\ \A fd \in Fds, flag \in Readiness : ~KernelRecede(fd, flag)]_outerVars
-----------------------------------------------------------------------------
\* When the outer loop goes to sleep, every task it could run has run and the
\* epoll descriptor is not readable, then no operation could proceed: what the
\* descriptor says of the reactor is all that the outer loop needs to know.
OuterSleepsOnlyWhenIdle ==
    phase = "poll" /\ current = None /\ woken \subseteq done /\ ~due /\ Deliverable = {} =>
        \A o \in ops : ~Resolvable(o)

\* "Once you know there are events queued, you can call dispatch() and be sure
\* it doesn't block."
DispatchDoesNotBlock ==
    phase = "dispatch" /\ ~is_dispatching => Deliverable # {}
=============================================================================
