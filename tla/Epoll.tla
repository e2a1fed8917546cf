------------------------------- MODULE Epoll -------------------------------
(***************************************************************************)
(* The part of Linux that ground is a thin wrapper over: the readiness of  *)
(* each open file and one epoll instance that watches files.  This code is *)
(* external to the crate; it is modelled from the system calls ground      *)
(* makes (epoll_ctl with ADD, MOD and DEL, epoll_wait) and from the flags  *)
(* it passes (EPOLLIN, EPOLLOUT and always EPOLLET).                       *)
(*                                                                         *)
(* An event mask is a set of flag names, so `|` is union, `&` intersection *)
(* and `& !` set difference.                                               *)
(***************************************************************************)
EXTENDS Naturals, FiniteSets

CONSTANTS Fds,       \* file descriptor numbers
          Waiters,   \* addresses a Waiter (inside an Async) can live at
          Edges,     \* the masks a file's wait queue may be woken with
          MaxEvents, \* length of the array handed to epoll_wait()
          None       \* no waiter, no file, no task

Always    == {"ERR", "HUP"}            \* reported without being asked for
Readiness == {"IN", "OUT"} \cup Always \* what poll(2) can say of a file
EventMask == SUBSET (Readiness \cup {"ET"})

ASSUME EpollAssumption ==
    /\ Edges \subseteq SUBSET Readiness
    /\ MaxEvents \in Nat \ {0}
    /\ None \notin Fds \cup Waiters

VARIABLES level,   \* level[fd]: what poll(2) would report for the file now
          events,  \* events[fd]: the mask fd is registered with, {} if it is not
          data,    \* data[fd]: the waiter pointer registered with fd, or None
          rdllist  \* fds on the epoll instance's ready list

epollVars == <<events, data, rdllist>>

EpollTypeOK ==
    /\ level \in [Fds -> SUBSET Readiness]
    /\ events \in [Fds -> EventMask]
    /\ data \in [Fds -> Waiters \cup {None}]
    /\ rdllist \in SUBSET Fds

EpollInit ==
    /\ level \in [Fds -> {{}} \cup Edges]
    /\ events = [fd \in Fds |-> {}]
    /\ data = [fd \in Fds |-> None]
    /\ rdllist = {}

-----------------------------------------------------------------------------
Registered(fd) == data[fd] # None

\* What epoll_wait() would report for fd: its readiness, filtered.
Revents(fd) == level[fd] \cap (events[fd] \cup Always)

\* The ready list after fd has been looked at with readiness l and mask ev.
LinkIfReady(fd, l, ev) ==
    rdllist \cup {f \in {fd} : l \cap (ev \cup Always) # {}}

\* ADD and MOD both poll the file at once, so readiness that is already there
\* queues an event even for an edge-triggered registration.
EpollSet(fd, ev, w) ==
    /\ events' = [events EXCEPT ![fd] = ev]
    /\ data' = [data EXCEPT ![fd] = w]
    /\ rdllist' = LinkIfReady(fd, level[fd], ev)

EPOLL_CTL_ADD(fd, ev, w) == ~Registered(fd) /\ EpollSet(fd, ev, w)

EPOLL_CTL_MOD(fd, ev, w) == Registered(fd) /\ EpollSet(fd, ev, w)

\* Also what closing the last descriptor of a file does.
Forget(fd) ==
    /\ events' = [events EXCEPT ![fd] = {}]
    /\ data' = [data EXCEPT ![fd] = None]
    /\ rdllist' = rdllist \ {fd}

EPOLL_CTL_DEL(fd) == Registered(fd) /\ Forget(fd)

\* A file on the ready list is reported only if it still is ready when
\* epoll_wait() scans the list; the others just leave the list.
Deliverable == {fd \in rdllist : Revents(fd) # {}}

\* epoll_wait() with no timeout sleeps until something can be reported, and
\* reports at most MaxEvents files.  An edge-triggered file leaves the list
\* when it is reported, any other file goes back onto it.
epoll_wait(reported) ==
    /\ reported # {}
    /\ reported \subseteq Deliverable
    /\ \/ reported = Deliverable /\ Cardinality(reported) <= MaxEvents
       \/ Cardinality(reported) = MaxEvents
    /\ rdllist' = (Deliverable \ reported)
                    \cup {fd \in reported : "ET" \notin events[fd]}
    /\ UNCHANGED <<events, data>>

-----------------------------------------------------------------------------
\* The file becomes ready in the directions of `mask` (data or space arrives,
\* the peer goes away): its wait queue is woken with that mask, and the epoll
\* instance queues it if the registration asked for any part of it.
Raise(fd, mask) ==
    /\ level' = [level EXCEPT ![fd] = @ \cup mask]
    /\ rdllist' = IF Registered(fd) THEN LinkIfReady(fd, mask, events[fd])
                                    ELSE rdllist
    /\ UNCHANGED <<events, data>>

\* Readiness may also vanish by itself (another holder of the file reads the
\* data, a datagram fails its checksum); an end of stream or an error stays.
Recede(fd, flag) ==
    /\ flag \in level[fd] \ Always
    /\ level[fd] \cap Always = {}
    /\ level' = [level EXCEPT ![fd] = @ \ {flag}]
    /\ UNCHANGED epollVars
=============================================================================
