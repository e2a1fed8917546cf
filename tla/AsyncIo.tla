------------------------------ MODULE AsyncIo ------------------------------
(***************************************************************************)
(* src/io.rs: the Async<T> wrapper.  An Async owns a file (`inner`) and a  *)
(* Waiter; it is identified with the address of its Waiter, because that   *)
(* address is what the kernel is given.  The operations here are the       *)
(* pieces of its methods that touch the Waiter, the file and the reactor;  *)
(* module Ground puts them together with the tasks that call them.         *)
(***************************************************************************)
EXTENDS Reactor

VARIABLES live,     \* Asyncs that exist
          pinned,   \* Asyncs that have been pinned, and so never move again
          inner     \* inner[a]: the wrapped file, None once it was taken

asyncVars == <<live, pinned, inner>>

AsyncTypeOK ==
    /\ live \in SUBSET Waiters
    /\ pinned \in SUBSET live
    /\ inner \in [Waiters -> Fds \cup {None}]

AsyncInit ==
    /\ live = {}
    /\ pinned = {}
    /\ inner = [a \in Waiters |-> None]

-----------------------------------------------------------------------------
Interest == {"Read", "Write", "ReadWrite"}

as_events(interest) ==
    CASE interest = "Read"      -> {"IN"}
      [] interest = "Write"     -> {"OUT"}
      [] interest = "ReadWrite" -> {"IN", "OUT"}

\* The mask every registration ends up with.
RegisterFor(a, interest) == register_for[a] \cup as_events(interest) \cup {"ET"}

\* A wrapper that is already registered and never widens its registration.
ensure_registered_once(a, interest) ==
    LET mask == RegisterFor(a, interest)
    IN /\ register_for' = [register_for EXCEPT ![a] = mask]
       /\ IF register_for[a] = {} THEN add(inner[a], a, mask)
                                  ELSE UNCHANGED epollVars

\* register_for is assigned first; the system call is made only if that
\* changed it, and is ADD for the first registration and MOD for later ones.
ensure_registered(a, interest) ==
    LET mask == RegisterFor(a, interest)
    IN /\ register_for' = [register_for EXCEPT ![a] = mask]
       /\ \/ mask = register_for[a] /\ UNCHANGED epollVars
          \/ mask # register_for[a] /\ register_for[a] = {} /\ add(inner[a], a, mask)
          \/ mask # register_for[a] /\ register_for[a] # {} /\ modify(inner[a], a, mask)

\* The system call is needed, and epoll_ctl() answers EEXIST or ENOENT.
RegistrationRefused(a, interest) ==
    /\ RegisterFor(a, interest) # register_for[a]
    /\ (register_for[a] = {}) <=> Registered(inner[a])

\* It fails: `expect` panics with register_for already assigned.
ensure_registered_fails(a, interest) ==
    /\ RegisterFor(a, interest) # register_for[a]
    /\ register_for' = [register_for EXCEPT ![a] = RegisterFor(a, interest)]
    /\ UNCHANGED epollVars

\* deregister() does nothing without a registration or without a file.
NeedsDelete(a) == register_for[a] # {} /\ inner[a] # None

deregister_noop(a) == UNCHANGED <<register_for, epollVars>>

deregister(a) ==
    \/ /\ ~NeedsDelete(a)
       /\ UNCHANGED <<register_for, epollVars>>
    \/ /\ NeedsDelete(a)
       /\ delete(inner[a])
       /\ register_for' = [register_for EXCEPT ![a] = {}]

\* delete() asserts, or EPOLL_CTL_DEL answers ENOENT: `expect` panics.
deregister_fails(a) ==
    NeedsDelete(a) /\ (is_dispatching \/ ~Registered(inner[a]))

-----------------------------------------------------------------------------
\* A file that no Async wraps: fresh, or handed back by take_inner().
Unwrapped(fd) == \A b \in live : inner[b] # fd

\* A fresh Waiter.  ensure_nonblocking() has put the file into non-blocking
\* mode: that is why an operation on it gets WouldBlock instead of blocking.
new(a, fd) ==
    /\ a \notin live /\ Unwrapped(fd)
    /\ live' = live \cup {a}
    /\ inner' = [inner EXCEPT ![a] = fd]
    /\ waker' = [waker EXCEPT ![a] = None]
    /\ register_for' = [register_for EXCEPT ![a] = {}]
    /\ waiting_for' = [waiting_for EXCEPT ![a] = {}]
    /\ UNCHANGED pinned

\* Consumes an Async that can still be moved; its Drop finds no file.
into_inner(a) ==
    /\ a \in live \ pinned
    /\ live' = live \ {a}
    /\ inner' = [inner EXCEPT ![a] = None]
    /\ UNCHANGED pinned

\* Taking the file first, so that deregister() finds none.
take_inner_swapped(a) ==
    /\ inner[a] # None
    /\ inner' = [inner EXCEPT ![a] = None]
    /\ UNCHANGED <<register_for, epollVars>>

take_inner(a) ==
    /\ inner[a] # None
    /\ deregister(a)
    /\ inner' = [inner EXCEPT ![a] = None]

\* Dropping the wrapped value closes its file.  A duplicate descriptor may
\* keep the open file alive, so the registration is not assumed to go with
\* it: removing it is deregister()'s job.
Close(fd) == level' = [level EXCEPT ![fd] = {}]

\* Drop for Async, then the drop of its fields.
drop(a) ==
    /\ deregister(a)
    /\ live' = live \ {a}
    /\ pinned' = pinned \ {a}
    /\ inner' = [inner EXCEPT ![a] = None]
    /\ IF inner[a] # None THEN Close(inner[a]) ELSE UNCHANGED level

-----------------------------------------------------------------------------
\* A poll_nonblocking() that always tries again.
StillWaiting_never(a, interest) == FALSE

\* poll_nonblocking()'s early return: the last attempt blocked and the
\* reactor has not delivered the event since.
StillWaiting(a, interest) == as_events(interest) \cap waiting_for[a] # {}

\* Would the operation complete (with data, space, end of stream or an
\* error) if it were tried now?
CanProceed(a, interest) ==
    level[inner[a]] \cap (as_events(interest) \cup Always) # {}

\* A completed operation may use up the readiness it found.
Consume(fd, interest) ==
    \E spent \in SUBSET as_events(interest) :
       /\ level[fd] \cap Always # {} => spent = {}
       /\ level' = [level EXCEPT ![fd] = @ \ spent]

\* The WouldBlock arm up to the registration.
start_waiting(a, interest, task) ==
    /\ waker' = [waker EXCEPT ![a] = task]
    /\ waiting_for' = [waiting_for EXCEPT ![a] = @ \cup as_events(interest)]
=============================================================================
