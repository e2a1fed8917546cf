------------------------------ MODULE Reactor ------------------------------
(***************************************************************************)
(* src/reactor.rs: the Waiter structures, the thread's Reactor and its     *)
(* dispatch() loop.  The Reactor keeps no table of its own: the kernel     *)
(* holds, for every registered file, a raw pointer to the Waiter inside    *)
(* the Async that registered it, and dispatch() follows that pointer.      *)
(***************************************************************************)
EXTENDS Epoll

CONSTANT Tasks   \* what a Waker wakes: the executor's tasks

ASSUME TasksAssumption == None \notin Tasks

VARIABLES waker,          \* waker[w]: the task to wake, None for noop_waker()
          register_for,   \* register_for[w]: mask the waiter is registered for
          waiting_for,    \* waiting_for[w]: events it has not received yet
          is_dispatching, \* dispatch() is between epoll_wait() and its return
          buffer,         \* events of this epoll_wait() not delivered so far
          woken           \* tasks whose waker was called since they last ran

waiterVars   == <<waker, register_for, waiting_for>>
dispatchVars == <<is_dispatching, buffer>>

Event == [data : Waiters, events : SUBSET Readiness]

ReactorTypeOK ==
    /\ waker \in [Waiters -> Tasks \cup {None}]
    /\ register_for \in [Waiters -> EventMask]
    /\ waiting_for \in [Waiters -> EventMask]
    /\ is_dispatching \in BOOLEAN
    /\ buffer \in SUBSET Event
    /\ woken \in SUBSET Tasks

\* Every task starts out spawned, that is queued for its first poll.
ReactorInit ==
    /\ waker = [w \in Waiters |-> None]
    /\ register_for = [w \in Waiters |-> {}]
    /\ waiting_for = [w \in Waiters |-> {}]
    /\ is_dispatching = FALSE
    /\ buffer = {}
    /\ woken = Tasks

-----------------------------------------------------------------------------
\* `mask` is the waiter's register_for, already updated by the caller.
add(fd, w, mask) == EPOLL_CTL_ADD(fd, mask, w)

modify(fd, w, mask) == EPOLL_CTL_MOD(fd, mask, w)

\* The assertion of the code: no source may be removed during dispatch.
delete(fd) == ~is_dispatching /\ EPOLL_CTL_DEL(fd)

-----------------------------------------------------------------------------
\* The events array as epoll_wait() fills it in: the pointer and the readiness.
EventsOf(reported) ==
    {[data |-> data[fd], events |-> Revents(fd)] : fd \in reported}

\* dispatch() up to and including the return of epoll_wait().
dispatch_wait(reported) ==
    /\ ~is_dispatching
    /\ epoll_wait(reported)
    /\ buffer' = EventsOf(reported)
    /\ is_dispatching' = TRUE

\* A dispatch() that forgets to clear what was received leaves the waiter
\* blocked; one that wakes nobody leaves the task asleep.
deliver_uncleared(e) ==
    /\ woken' = woken \cup ({waker[e.data]} \ {None})
    /\ UNCHANGED waiting_for

deliver_silent(e) ==
    /\ waiting_for' = [waiting_for EXCEPT ![e.data] = @ \ e.events]
    /\ UNCHANGED woken

\* What was received is no longer waited for; then the waker is called.
deliver(e) ==
    /\ waiting_for' = [waiting_for EXCEPT ![e.data] = @ \ e.events]
    /\ woken' = woken \cup ({waker[e.data]} \ {None})

\* One turn of dispatch()'s loop over the array.
dispatch_next(e) ==
    /\ is_dispatching
    /\ e \in buffer
    /\ deliver(e)
    /\ buffer' = buffer \ {e}
    /\ UNCHANGED is_dispatching

dispatch_end ==
    /\ is_dispatching
    /\ buffer = {}
    /\ is_dispatching' = FALSE
    /\ UNCHANGED buffer
=============================================================================
