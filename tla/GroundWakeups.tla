--------------------------- MODULE GroundWakeups ---------------------------
(***************************************************************************)
(* No wakeup of module Ground is lost.  The module proves it for any       *)
(* number of files, Asyncs and tasks, any length of dispatch()'s array and *)
(* all the Faults, Async by Async: an Async that is used by one task       *)
(* (UsedByOne) wakes that task, whatever is done with the other ones.      *)
(* The runs that lose a wakeup show that the conditions of NoWakeupIsLost  *)
(* are necessary: each Async has one task (SingleUser) that waits for one  *)
(* direction per operation (OneWay) and closes it only with nothing else   *)
(* in flight on it (ClosedWhole), and hang-ups and errors also make a file *)
(* readable and writable (HangupIsIO).                                     *)
(***************************************************************************)
EXTENDS GroundStructure

\* A waited-for flag is registered, and if the file has it then an event
\* carrying it is on its way.
EdgeAt(w) ==
    failure = "none" /\ w \in live /\ inner[w] # None =>
      \A f \in waiting_for[w] :
        /\ data[inner[w]] = w
        /\ f \in events[inner[w]]
        /\ f \in level[inner[w]] =>
             \/ inner[w] \in rdllist
             \/ \E e \in buffer : e.data = w /\ f \in e.events

\* Between the WouldBlock and the registration an edge is not missed either:
\* a file that is registered for the flag already is queued.
BlockedAt(w) ==
    blocked # None /\ blocked.async = w =>
      \A f \in as_events(blocked.interest) :
        /\ f \in level[inner[w]]
        /\ data[inner[w]] = w
        /\ f \in events[inner[w]]
        => inner[w] \in rdllist

\* Whoever is parked is waiting for a flag of its operation.
ParkedAt(w) ==
    \A o \in ops : o.async = w /\ Parked(o) => StillWaiting(w, o.interest)

\* A waiter that waits would wake a task that uses it.
WakerAt(w) ==
    waiting_for[w] # {} => \E u \in Uses : u.async = w /\ u.task = waker[w]

WakeupsAt(w) ==
    /\ EdgeAt(w)
    /\ BlockedAt(w)
    /\ ParkedAt(w)
    /\ WakerAt(w)

\* Hang-ups and errors show up as readiness in both directions.
LevelInv ==
    \A fd \in Fds : level[fd] \cap Always # {} => {"IN", "OUT"} \subseteq level[fd]

Wakeups == LevelInv /\ \A w \in Waiters : WakeupsAt(w)

\* Operations have a file to wait for.  An Async that is closed while others are in
\* flight on it breaks this: poll_close() takes the file from all of them.
FilesAt(w) ==
    /\ \A o \in ops : o.async = w => inner[w] # None
    /\ w \notin Split => \A o, p \in ops : o.async = w /\ p.async = w => o = p

Files == \A w \in Waiters : FilesAt(w)

\* A close has the Async for itself.
ClosedWholeAt(w) == \A u \in Uses : u.async = w /\ u.kind = "close" => w \notin Split

\* All operations on the Async are the same task's.
UsedByOne(w) == \A u, v \in Uses : u.async = w /\ v.async = w => u.task = v.task

-----------------------------------------------------------------------------
\* Every operation waits for something.
LEMMA UseEvents == \A u \in Uses : as_events(u.interest) # {}
BY GroundAssumption DEF as_events, Interest

\* The kernel queues what becomes ready, however many flags come at once.
LEMMA RaiseStep ==
  ASSUME NEW w \in Waiters, TypeInv, WakeupsAt(w),
         NEW fd \in Fds, NEW mask \in SUBSET Readiness, KernelRaise(fd, mask)
  PROVE  WakeupsAt(w)'
<1> USE EpollAssumption, TasksAssumption, GroundAssumption
    DEF TypeInv, TypeOK, EpollTypeOK, ReactorTypeOK, AsyncTypeOK, BlockedHasFile,
        Registered, waiterVars, dispatchVars, asyncVars, taskVars
<1>1. EdgeAt(w)'
  BY DEF WakeupsAt, KernelRaise, Raise, EdgeAt, LinkIfReady
<1>2. BlockedAt(w)'
  BY DEF WakeupsAt, KernelRaise, Raise, BlockedAt, LinkIfReady
<1>3. ParkedAt(w)' /\ WakerAt(w)'
  BY DEF WakeupsAt, KernelRaise, Raise, ParkedAt, WakerAt, Parked, StillWaiting
<1>. QED
  BY <1>1, <1>2, <1>3 DEF WakeupsAt

\* WakeupsAt(w) is inductive, given the types and Structure.  That w is used by one
\* task matters in one place: dispatch() wakes the one that can be parked on w.
LEMMA WakeupsAtStep ==
  ASSUME NEW w \in Waiters, UsedByOne(w), TypeInv, Structure, WakeupsAt(w), [Next]_vars
  PROVE  WakeupsAt(w)'
<1> USE EpollAssumption, TasksAssumption, GroundAssumption
<1> USE DEF TypeInv, TypeOK, EpollTypeOK, ReactorTypeOK, AsyncTypeOK, BlockedHasFile,
       ReadyListInv, Registered, epollVars, waiterVars, dispatchVars, asyncVars, taskVars
<1>1. /\ ControlInv /\ BorrowInv /\ OwnerInv /\ PointerInv /\ RegistrationAgrees
      /\ EdgeAt(w) /\ BlockedAt(w) /\ ParkedAt(w) /\ WakerAt(w)
  BY DEF Structure, WakeupsAt
<1>2. ASSUME NEW t \in Tasks, NEW a \in Waiters, NEW fd \in Fds, New(t, a, fd)
      PROVE  WakeupsAt(w)'
  <2>1. EdgeAt(w)'
    BY <1>1, <1>2 DEF New, new, Unwrapped, Running, EdgeAt, PointerInv
  <2>2. ParkedAt(w)'
    BY <1>1, <1>2 DEF New, new, Unwrapped, Running, ParkedAt, Parked,
       StillWaiting, BorrowInv
  <2>3. BlockedAt(w)' /\ WakerAt(w)'
    BY <1>1, <1>2 DEF New, new, Unwrapped, Running, BlockedAt, WakerAt
  <2>. QED
    BY <2>1, <2>2, <2>3 DEF WakeupsAt
<1>3. ASSUME NEW t \in Tasks, NEW a \in Waiters, IntoInner(t, a)
      PROVE  WakeupsAt(w)'
  <2>1. EdgeAt(w)' /\ BlockedAt(w)' /\ ParkedAt(w)' /\ WakerAt(w)'
    BY <1>1, <1>3 DEF IntoInner, into_inner, Running, EdgeAt, BlockedAt,
       ParkedAt, WakerAt, Parked, StillWaiting
  <2>. QED
    BY <2>1 DEF WakeupsAt
<1>4. ASSUME NEW t \in Tasks, NEW a \in Waiters, TakeInner(t, a)
      PROVE  WakeupsAt(w)'
  <2>1. EdgeAt(w)'
    BY <1>1, <1>4 DEF TakeInner, take_inner, Running, NeedsDelete, deregister,
       delete, EPOLL_CTL_DEL, Forget, EdgeAt, OwnerInv
  <2>2. BlockedAt(w)' /\ ParkedAt(w)' /\ WakerAt(w)'
    BY <1>1, <1>4 DEF TakeInner, take_inner, Running, NeedsDelete, deregister,
       delete, EPOLL_CTL_DEL, Forget, BlockedAt, ParkedAt, WakerAt,
       Parked, StillWaiting, OpsOn
  <2>. QED
    BY <2>1, <2>2 DEF WakeupsAt
<1>5. ASSUME NEW t \in Tasks, NEW a \in Waiters, Drop(t, a)
      PROVE  WakeupsAt(w)'
  <2>1. EdgeAt(w)'
    BY <1>1, <1>5 DEF Drop, drop, Close, Running, OpsOn, NeedsDelete,
       deregister, delete, EPOLL_CTL_DEL, Forget, EdgeAt, OwnerInv
  <2>2. BlockedAt(w)' /\ ParkedAt(w)' /\ WakerAt(w)'
    BY <1>1, <1>5 DEF Drop, drop, Close, Running, OpsOn, NeedsDelete,
       deregister, delete, EPOLL_CTL_DEL, Forget, BlockedAt, ParkedAt,
       WakerAt, Parked, StillWaiting
  <2>. QED
    BY <2>1, <2>2 DEF WakeupsAt
<1>6. ASSUME NEW t \in Tasks, NEW o \in Uses, Begin(t, o)
      PROVE  WakeupsAt(w)'
  <2>1. ParkedAt(w)'
    BY <1>1, <1>6 DEF Begin, Running, ParkedAt, Parked, StillWaiting
  <2>2. EdgeAt(w)' /\ BlockedAt(w)' /\ WakerAt(w)'
    BY <1>1, <1>6 DEF Begin, Running, EdgeAt, BlockedAt, WakerAt
  <2>. QED
    BY <2>1, <2>2 DEF WakeupsAt
<1>7. ASSUME NEW t \in Tasks, NEW o \in Uses, Cancel(t, o)
      PROVE  WakeupsAt(w)'
  BY <1>1, <1>7 DEF Cancel, Running, WakeupsAt, EdgeAt, BlockedAt, ParkedAt,
     WakerAt, Parked, StillWaiting
<1>8. ASSUME NEW t \in Tasks, NEW u \in Tasks, Wake(t, u)
      PROVE  WakeupsAt(w)'
  BY <1>1, <1>8 DEF Wake, Running, WakeupsAt, EdgeAt, BlockedAt, ParkedAt,
     WakerAt, Parked, StillWaiting
<1>9. ASSUME NEW t \in Tasks, NEW o \in Uses, PollTaken(t, o)
      PROVE  WakeupsAt(w)'
  BY <1>1, <1>9 DEF PollTaken, Polling, Running, Panic, WakeupsAt, EdgeAt,
     BlockedAt, ParkedAt, WakerAt, Parked, StillWaiting
<1>10. ASSUME NEW t \in Tasks, NEW o \in Uses, PollPending(t, o)
      PROVE  WakeupsAt(w)'
  <2>1. ParkedAt(w)'
    BY <1>1, <1>10 DEF PollPending, Polling, Running, ParkedAt, Parked,
       StillWaiting
  <2>2. EdgeAt(w)' /\ BlockedAt(w)' /\ WakerAt(w)'
    BY <1>1, <1>10 DEF PollPending, Polling, Running, EdgeAt, BlockedAt,
       WakerAt
  <2>. QED
    BY <2>1, <2>2 DEF WakeupsAt
<1>11. ASSUME NEW t \in Tasks, NEW o \in Uses, PollWouldBlock(t, o)
       PROVE  WakeupsAt(w)'
  <2>1. BlockedAt(w)'
    BY <1>1, <1>11 DEF PollWouldBlock, Attempt, WouldBlock, Polling, Running, OpsOf, BlockedAt,
       CanProceed
  <2>2. ParkedAt(w)'
    BY <1>1, <1>11 DEF PollWouldBlock, Attempt, WouldBlock, Polling, Running, OpsOf, ParkedAt,
       Parked, StillWaiting
  <2>3. EdgeAt(w)' /\ WakerAt(w)'
    BY <1>1, <1>11 DEF PollWouldBlock, Attempt, WouldBlock, Polling, Running, OpsOf, EdgeAt,
       WakerAt
  <2>. QED
    BY <2>1, <2>2, <2>3 DEF WakeupsAt
<1>12. ASSUME NEW t \in Tasks, NEW o \in Uses, PollReady(t, o) \/ PollCloseFails(t, o)
       PROVE  WakeupsAt(w)'
  <2>1. EdgeAt(w)'
    BY <1>1, <1>12 DEF PollReady, PollCloseFails, Attempt, Completed, Polling, Running, EdgeAt,
       Consume
  <2>2. BlockedAt(w)' /\ ParkedAt(w)' /\ WakerAt(w)'
    BY <1>1, <1>12 DEF PollReady, PollCloseFails, Attempt, Completed, Polling, Running, BlockedAt,
       ParkedAt, WakerAt, Parked, StillWaiting
  <2>. QED
    BY <2>1, <2>2 DEF WakeupsAt
<1>13. ASSUME NEW t \in Tasks, NEW o \in Uses, PollClose(t, o)
       PROVE  WakeupsAt(w)'
  <2>1. EdgeAt(w)'
    BY <1>1, <1>13 DEF PollClose, Attempt, Polling, Running, take_inner, Close,
       NeedsDelete, deregister, delete, EPOLL_CTL_DEL, Forget, EdgeAt,
       OwnerInv, OpsOn
  <2>2. BlockedAt(w)' /\ ParkedAt(w)' /\ WakerAt(w)'
    BY <1>1, <1>13 DEF PollClose, Attempt, Polling, Running, take_inner, Close,
       NeedsDelete, deregister, delete, EPOLL_CTL_DEL, Forget, BlockedAt,
       ParkedAt, WakerAt, Parked, StillWaiting, OpsOn, OpsOf
  <2>. QED
    BY <2>1, <2>2 DEF WakeupsAt
<1>14. CASE PollRegister
  <2>1. EdgeAt(w)'
    <3> DEFINE a == blocked.async
               fd == inner[a]
               mask == RegisterFor(a, blocked.interest)
    <3>1. a \in live /\ a \in Waiters /\ fd \in Fds
      BY <1>1, <1>14 DEF PollRegister, BorrowInv
    <3>2. /\ UNCHANGED <<live, inner, level, buffer, failure>> /\ failure = "none"
          /\ waiting_for' = [waiting_for EXCEPT ![a] = @ \cup as_events(blocked.interest)]
          /\ mask = register_for[a] \cup as_events(blocked.interest) \cup {"ET"}
      BY <1>14 DEF PollRegister, start_waiting, RegisterFor
    <3>3. w = a /\ waiting_for[a] # {} => data[fd] = a /\ waiting_for[a] \subseteq register_for[a]
      BY <1>1, <1>14, <3>1 DEF PollRegister, EdgeAt, RegistrationAgrees, Agreement
    <3>4. CASE UNCHANGED epollVars /\ mask = register_for[a]
      <4>1. data[fd] = a /\ events[fd] = mask
        <5>1. "ET" \in register_for[a]
          BY <3>2, <3>4
        <5>2. inner[a] # None
          BY <3>1
        <5>. QED
          BY <1>1, <3>1, <3>2, <3>4, <5>1, <5>2 DEF RegistrationAgrees, Agreement
      <4>. QED
        BY <1>1, <1>14, <3>1, <3>2, <3>4, <4>1 DEF PollRegister, EdgeAt, BlockedAt
    <3>5. CASE EpollSet(fd, mask, a)
      <4>1. w # a /\ w \in live /\ inner[w] # None => inner[w] \in Fds /\ inner[w] # fd
        BY <1>1, <3>1 DEF OwnerInv
      <4>2. /\ data' = [data EXCEPT ![fd] = a]
            /\ events' = [events EXCEPT ![fd] = mask]
            /\ rdllist \subseteq rdllist'
            /\ level[fd] \cap mask # {} => fd \in rdllist'
        BY <3>5 DEF EpollSet, LinkIfReady
      <4>. QED
        BY <1>1, <3>1, <3>2, <3>3, <4>1, <4>2 DEF EdgeAt
    <3>. QED
      BY <1>14, <3>4, <3>5 DEF PollRegister, ensure_registered, add, modify,
         EPOLL_CTL_ADD, EPOLL_CTL_MOD
  <2>2. ParkedAt(w)'
    <3>1. /\ waiting_for' = [waiting_for EXCEPT ![blocked.async] =
                               @ \cup as_events(blocked.interest)]
          /\ UNCHANGED <<ops, todo, woken>> /\ blocked' = None
      BY <1>14 DEF PollRegister, start_waiting
    <3>2. blocked \in Uses /\ as_events(blocked.interest) # {}
      <4>1. blocked \in Uses
        BY <1>14 DEF PollRegister
      <4>. QED
        BY <4>1, UseEvents
    <3>. QED
      BY <1>1, <3>1, <3>2 DEF ParkedAt, Parked, StillWaiting
  <2>3. WakerAt(w)'
    BY <1>1, <1>14 DEF PollRegister, start_waiting, ensure_registered,
       RegisterFor, add, modify, EPOLL_CTL_ADD, EPOLL_CTL_MOD, EpollSet,
       as_events, Interest, WakerAt, ControlInv
  <2>4. BlockedAt(w)'
    BY <1>1, <1>14 DEF PollRegister, start_waiting, ensure_registered,
       RegisterFor, add, modify, EPOLL_CTL_ADD, EPOLL_CTL_MOD, EpollSet,
       as_events, Interest, BlockedAt
  <2>. QED
    BY <2>1, <2>2, <2>3, <2>4 DEF WakeupsAt
<1>15. CASE PollRegisterPanics
  <2>1. WakerAt(w)'
    BY <1>1, <1>15 DEF PollRegisterPanics, start_waiting,
       ensure_registered_fails, RegisterFor, Panic, WakerAt, ControlInv
  <2>2. EdgeAt(w)' /\ BlockedAt(w)' /\ ParkedAt(w)'
    BY <1>1, <1>15 DEF PollRegisterPanics, start_waiting,
       ensure_registered_fails, RegisterFor, Panic, EdgeAt, BlockedAt,
       ParkedAt, Parked, StillWaiting
  <2>. QED
    BY <2>1, <2>2 DEF WakeupsAt
<1>16. ASSUME NEW t \in Tasks, Schedule(t)
       PROVE  WakeupsAt(w)'
  <2>1. ParkedAt(w)'
    BY <1>1, <1>16 DEF Schedule, OpsOf, ParkedAt, Parked, StillWaiting,
       ControlInv
  <2>2. EdgeAt(w)' /\ BlockedAt(w)' /\ WakerAt(w)'
    BY <1>1, <1>16 DEF Schedule, OpsOf, EdgeAt, BlockedAt, WakerAt
  <2>. QED
    BY <2>1, <2>2 DEF WakeupsAt
<1>17. ASSUME NEW t \in Tasks, Suspend(t) \/ Finish(t)
       PROVE  WakeupsAt(w)'
  BY <1>1, <1>17 DEF Suspend, Finish, Running, OpsOf, WakeupsAt, EdgeAt,
     BlockedAt, ParkedAt, WakerAt, Parked, StillWaiting,
     ControlInv
<1>18. CASE Stall \/ Return \/ DispatchInterrupted
  BY <1>1, <1>18 DEF Stall, Return, DispatchInterrupted, Stalled, Panic,
     WakeupsAt, EdgeAt, BlockedAt, ParkedAt, WakerAt,
     Parked, StillWaiting
<1>19. ASSUME NEW reported \in SUBSET Fds, DispatchWait(reported)
       PROVE  WakeupsAt(w)'
  <2>1. EdgeAt(w)'
    <3>1. /\ buffer' = EventsOf(reported)
          /\ Deliverable \ reported \subseteq rdllist'
          /\ UNCHANGED <<live, inner, level, data, events, waiting_for, failure>>
          /\ buffer = {}
      BY <1>1, <1>19 DEF DispatchWait, dispatch_wait, epoll_wait, ControlInv
    <3>2. ASSUME w \in live, inner[w] # None, failure = "none",
                 NEW f \in waiting_for[w], f \in level[inner[w]]
          PROVE  \/ inner[w] \in rdllist'
                 \/ \E e \in buffer' : e.data = w /\ f \in e.events
      <4>1. /\ inner[w] \in Fds /\ inner[w] \in rdllist
            /\ data[inner[w]] = w /\ f \in Revents(inner[w])
        BY <1>1, <3>1, <3>2 DEF EdgeAt, Revents
      <4>2. inner[w] \in Deliverable
        BY <4>1 DEF Deliverable
      <4>3. CASE inner[w] \in reported
        <5>1. [data |-> data[inner[w]], events |-> Revents(inner[w])] \in buffer'
          BY <3>1, <4>3 DEF EventsOf
        <5>. QED
          BY <4>1, <5>1
      <4>. QED
        BY <3>1, <4>2, <4>3
    <3>. QED
      BY <1>1, <3>1, <3>2 DEF EdgeAt
  <2>2. BlockedAt(w)' /\ ParkedAt(w)' /\ WakerAt(w)'
    BY <1>1, <1>19 DEF DispatchWait, dispatch_wait, epoll_wait, EventsOf,
       Deliverable, BlockedAt, ParkedAt, WakerAt, Parked,
       StillWaiting
  <2>. QED
    BY <2>1, <2>2 DEF WakeupsAt
<1>20. ASSUME NEW e \in buffer, DispatchNext(e)
       PROVE  WakeupsAt(w)'
  <2>1. EdgeAt(w)'
    BY <1>1, <1>20 DEF DispatchNext, dispatch_next, deliver, Event, EdgeAt
  <2>2. ParkedAt(w)'
    <3>1. /\ waiting_for' = [waiting_for EXCEPT ![e.data] = @ \ e.events]
          /\ woken' = woken \cup ({waker[e.data]} \ {None})
          /\ UNCHANGED <<ops, todo, blocked>>
      BY <1>20 DEF DispatchNext, dispatch_next, deliver
    <3>2. ASSUME NEW o \in ops, o.async = w, Parked(o)'
          PROVE  StillWaiting(w, o.interest)'
      <4>1. StillWaiting(w, o.interest) /\ o \in Uses
        BY <1>1, <3>1, <3>2 DEF ParkedAt, Parked
      <4>2. CASE w = e.data
        <5>1. waker[e.data] = o.task
          BY <1>1, <3>2, <4>1, <4>2 DEF WakerAt, StillWaiting, UsedByOne
        <5>2. o.task # None
          BY <4>1
        <5>. QED
          BY <3>1, <3>2, <5>1, <5>2 DEF Parked
      <4>3. CASE w # e.data
        BY <3>1, <4>1, <4>3 DEF StillWaiting
      <4>. QED
        BY <4>2, <4>3
    <3>. QED
      BY <3>1, <3>2 DEF ParkedAt, Parked
  <2>3. BlockedAt(w)' /\ WakerAt(w)'
    BY <1>1, <1>20 DEF DispatchNext, dispatch_next, deliver, Event, BlockedAt,
       WakerAt
  <2>. QED
    BY <2>1, <2>2, <2>3 DEF WakeupsAt
<1>21. CASE DispatchEnd
  <2>1. EdgeAt(w)'
    BY <1>1, <1>21 DEF DispatchEnd, dispatch_end, EdgeAt, ControlInv
  <2>2. BlockedAt(w)' /\ ParkedAt(w)' /\ WakerAt(w)'
    BY <1>1, <1>21 DEF DispatchEnd, dispatch_end, BlockedAt, ParkedAt,
       WakerAt, Parked, StillWaiting
  <2>. QED
    BY <2>1, <2>2 DEF WakeupsAt
<1>22. ASSUME NEW a \in Waiters, Teardown(a)
       PROVE  WakeupsAt(w)'
  <2>1. EdgeAt(w)'
    BY <1>1, <1>22 DEF Teardown, TearingDown, drop, Close, NeedsDelete,
       deregister, delete, EPOLL_CTL_DEL, Forget, EdgeAt, OwnerInv, ControlInv
  <2>2. BlockedAt(w)' /\ ParkedAt(w)' /\ WakerAt(w)'
    BY <1>1, <1>22 DEF Teardown, TearingDown, drop, Close, NeedsDelete,
       deregister, delete, EPOLL_CTL_DEL, Forget, BlockedAt, ParkedAt,
       WakerAt, Parked, StillWaiting
  <2>. QED
    BY <2>1, <2>2 DEF WakeupsAt
<1>23. ASSUME NEW a \in Waiters, TeardownPanics(a)
       PROVE  WakeupsAt(w)'
  BY <1>1, <1>23 DEF TeardownPanics, TearingDown, WakeupsAt, EdgeAt, BlockedAt,
     ParkedAt, WakerAt, Parked, StillWaiting
<1>24. ASSUME NEW fd \in Fds, NEW mask \in Edges, KernelRaise(fd, mask)
       PROVE  WakeupsAt(w)'
  BY <1>24, RaiseStep
<1>25. ASSUME NEW fd \in Fds, NEW flag \in Readiness, KernelRecede(fd, flag)
       PROVE  WakeupsAt(w)'
  <2>1. EdgeAt(w)'
    BY <1>1, <1>25 DEF KernelRecede, Recede, EdgeAt
  <2>2. BlockedAt(w)' /\ ParkedAt(w)' /\ WakerAt(w)'
    BY <1>1, <1>25 DEF KernelRecede, Recede, BlockedAt, ParkedAt, WakerAt, Parked, StillWaiting
  <2>. QED
    BY <2>1, <2>2 DEF WakeupsAt
<1>26. CASE UNCHANGED vars
  BY <1>1, <1>26 DEF vars, WakeupsAt, EdgeAt, BlockedAt, ParkedAt, WakerAt, Parked, StillWaiting
<1>. QED
  BY <1>2, <1>3, <1>4, <1>5, <1>6, <1>7, <1>8, <1>9, <1>10, <1>11, <1>12, <1>13, <1>14,
     <1>15, <1>16, <1>17, <1>18, <1>19, <1>20, <1>21, <1>22, <1>23, <1>24, <1>25, <1>26
     DEF Next, TaskStep, Ownership, Poll, EndTurn, Executor, Kernel, Terminated

\* FilesAt(w) is inductive: a second operation is begun only on a split Async, which is
\* not closed; and an Async with an operation in flight is neither taken nor dropped.
LEMMA FilesAtStep ==
  ASSUME NEW w \in Waiters, ClosedWholeAt(w), TypeInv, Structure, FilesAt(w), [Next]_vars
  PROVE  FilesAt(w)'
<1> USE EpollAssumption, TasksAssumption, GroundAssumption
<1> USE DEF TypeInv, TypeOK, EpollTypeOK, ReactorTypeOK, AsyncTypeOK, BlockedHasFile, Registered,
       epollVars, waiterVars, dispatchVars, asyncVars, taskVars
<1>1. ControlInv /\ BorrowInv
  BY DEF Structure
<1>2. CASE ops' \subseteq ops /\ inner' = inner
  BY <1>2 DEF FilesAt
<1>3. CASE \A o \in ops' : o.async # w
  BY <1>3 DEF FilesAt
<1>4. CASE ops' \subseteq ops /\ inner'[w] = inner[w]
  BY <1>4 DEF FilesAt
<1>5. ASSUME NEW t \in Tasks, Ownership(t)
      PROVE  FilesAt(w)'
  <2>1. ops' = ops
    BY <1>5 DEF Ownership, New, IntoInner, TakeInner, Drop
  <2>2. ASSUME NEW b \in Waiters, NEW fd \in Fds, New(t, b, fd)
        PROVE  FilesAt(w)'
    BY <1>1, <1>3, <1>4, <2>1, <2>2 DEF New, new, BorrowInv
  <2>3. ASSUME NEW b \in Waiters, IntoInner(t, b)
        PROVE  FilesAt(w)'
    BY <1>1, <1>3, <1>4, <2>1, <2>3 DEF IntoInner, into_inner, BorrowInv
  <2>4. ASSUME NEW b \in Waiters, TakeInner(t, b) \/ Drop(t, b)
        PROVE  FilesAt(w)'
    BY <1>3, <1>4, <2>1, <2>4 DEF TakeInner, take_inner, Drop, drop, OpsOn
  <2>. QED
    BY <1>5, <2>2, <2>3, <2>4 DEF Ownership
<1>6. ASSUME NEW t \in Tasks, NEW o \in Uses, Begin(t, o)
      PROVE  FilesAt(w)'
  BY <1>6 DEF Begin, OpsOn, FilesAt
<1>7. ASSUME NEW t \in Tasks, NEW o \in Uses, PollClose(t, o)
      PROVE  FilesAt(w)'
  <2>1. CASE o.async = w
    <3>1. w \notin Split /\ o \in ops
      BY <1>7, <2>1 DEF PollClose, Attempt, Polling, OpsOf, ClosedWholeAt
    <3>. QED
      BY <1>3, <1>7, <2>1, <3>1 DEF PollClose, FilesAt
  <2>2. CASE o.async # w
    BY <1>4, <1>7, <2>2 DEF PollClose, take_inner
  <2>. QED
    BY <2>1, <2>2
<1>8. ASSUME NEW t \in Tasks, NEW o \in Uses, Poll(t, o)
      PROVE  FilesAt(w)'
  BY <1>2, <1>7, <1>8 DEF Poll, PollTaken, Panic, PollPending, PollReady, PollCloseFails,
     PollWouldBlock, WouldBlock, Completed
<1>9. ASSUME NEW t \in Tasks, TaskStep(t)
      PROVE  FilesAt(w)'
  BY <1>2, <1>5, <1>6, <1>8, <1>9 DEF TaskStep, Cancel, Wake, EndTurn, Suspend, Finish
<1>10. ASSUME NEW a \in Waiters, Teardown(a)
       PROVE  FilesAt(w)'
  BY <1>1, <1>3, <1>10 DEF Teardown, TearingDown, ControlInv
<1>11. CASE Executor
  BY <1>2, <1>10, <1>11 DEF Executor, PollRegister, PollRegisterPanics, Panic, Schedule, Stall,
     Return, DispatchWait, DispatchInterrupted, DispatchNext, DispatchEnd, TeardownPanics
<1>12. CASE Kernel \/ Terminated \/ UNCHANGED vars
  BY <1>2, <1>12 DEF Kernel, KernelRaise, KernelRecede, Terminated, vars
<1>. QED
  BY <1>9, <1>11, <1>12 DEF Next

\* LevelInv is where HangupIsIO is needed: the kernel raises such edges only, and
\* completed operations take nothing away from a file that has hung up.
LEMMA LevelStep ==
  ASSUME HangupIsIO, TypeInv, LevelInv, [Next]_vars
  PROVE  LevelInv'
<1> USE EpollAssumption DEF TypeInv, TypeOK, EpollTypeOK, AsyncTypeOK, LevelInv
<1>1. CASE level' = level
  BY <1>1
<1>2. ASSUME NEW fd \in Fds, Close(fd)
      PROVE  LevelInv'
  BY <1>2 DEF Close
<1>3. ASSUME NEW t \in Tasks, NEW o \in Uses, Poll(t, o)
      PROVE  LevelInv'
  <2>1. CASE PollReady(t, o)
    BY <2>1, GroundAssumption DEF PollReady, Attempt, Consume
  <2>2. CASE PollClose(t, o)
    BY <1>2, <2>2, GroundAssumption DEF PollClose, Attempt
  <2>. QED
    BY <1>1, <1>3, <2>1, <2>2 DEF Poll, PollTaken, PollPending, PollWouldBlock, PollCloseFails
<1>4. ASSUME NEW a \in Waiters, drop(a)
      PROVE  LevelInv'
  BY <1>1, <1>2, <1>4 DEF drop
<1>5. ASSUME NEW t \in Tasks, TaskStep(t)
      PROVE  LevelInv'
  BY <1>1, <1>3, <1>4, <1>5 DEF TaskStep, Ownership, New, IntoInner, TakeInner, Drop, Begin,
     Cancel, Wake, EndTurn, Suspend, Finish
<1>6. CASE Executor
  BY <1>1, <1>4, <1>6 DEF Executor, PollRegister, PollRegisterPanics, Schedule, Stall, Return,
     DispatchWait, DispatchInterrupted, DispatchNext, DispatchEnd, Teardown, TeardownPanics
<1>7. CASE Kernel
  <2>1. ASSUME NEW fd \in Fds, NEW mask \in Edges, KernelRaise(fd, mask)
        PROVE  LevelInv'
    BY <2>1 DEF KernelRaise, Raise, HangupIsIO
  <2>2. ASSUME NEW fd \in Fds, NEW flag \in Readiness, KernelRecede(fd, flag)
        PROVE  LevelInv'
    BY <2>2 DEF KernelRecede, Recede
  <2>. QED
    BY <1>7, <2>1, <2>2 DEF Kernel
<1>. QED
  BY <1>1, <1>5, <1>6, <1>7 DEF Next, Terminated, vars

\* All Asyncs together.
LEMMA WakeupsStep ==
  ASSUME SingleUser, HangupIsIO
  PROVE  TypeInv /\ Structure /\ Wakeups /\ [Next]_vars => Wakeups'
BY WakeupsAtStep, LevelStep DEF Wakeups, SingleUser, UsedByOne

\* Nothing waits initially, and the files are as their edges can make them.
LEMMA QuietInit ==
  ASSUME Init, NEW w \in Waiters
  PROVE  WakeupsAt(w)
BY EpollAssumption, TasksAssumption, GroundAssumption
   DEF Init, EpollInit, ReactorInit, AsyncInit, WakeupsAt, EdgeAt, BlockedAt, ParkedAt,
       WakerAt

LEMMA LevelInit == HangupIsIO /\ Init => LevelInv
BY EpollAssumption DEF Init, EpollInit, LevelInv, HangupIsIO

LEMMA WakeupsInit ==
  ASSUME HangupIsIO
  PROVE  Init => Wakeups
BY QuietInit, LevelInit DEF Wakeups

\* No Async loses its file to a close while an operation is in flight on it.
LEMMA FilesStep ==
  ASSUME ClosedWhole
  PROVE  TypeInv /\ Structure /\ Files /\ [Next]_vars => Files'
BY FilesAtStep DEF Files, ClosedWhole, ClosedWholeAt

\* Wakeups holds in every reachable state.
THEOREM WakeupsInvariant ==
  ASSUME SingleUser, HangupIsIO
  PROVE  Spec => []Wakeups
BY WakeupsInit, WakeupsStep, TypeInvariant, StructureInvariant, PTL DEF Spec

\* And with ClosedWhole so does Files.
LEMMA FilesInvariant ==
  ASSUME ClosedWhole
  PROVE  Spec => []Files
<1>1. Init => Files
  BY DEF Init, Files, FilesAt
<1>. QED
  BY <1>1, FilesStep, TypeInvariant, StructureInvariant, PTL DEF Spec

-----------------------------------------------------------------------------
OneWayAt(w) == \A u \in Uses : u.async = w => u.interest # "ReadWrite"

\* A parked operation that waits for one flag, and a file that has it: an event is
\* queued, and it wakes the operation's own task.
LEMMA FlagIsQueued ==
  ASSUME TypeInv, Structure, NEW w \in Waiters, UsedByOne(w), WakeupsAt(w),
         NEW o \in ops, o.async = w, Parked(o), inner[w] # None,
         NEW f, as_events(o.interest) = {f}, f \in level[inner[w]]
  PROVE  EventQueued(w) /\ waker[w] = o.task
<1> USE EpollAssumption, TasksAssumption, GroundAssumption
<1>1. /\ o \in Uses /\ w \in live
      /\ inner[w] \in Fds /\ failure = "none"
  BY DEF TypeInv, TypeOK, AsyncTypeOK, Structure, ControlInv, BorrowInv
<1>2. f \in waiting_for[w]
  BY DEF WakeupsAt, ParkedAt, StillWaiting
<1>3. /\ data[inner[w]] = w /\ f \in Revents(inner[w])
      /\ inner[w] \in rdllist \/ \E e \in buffer : e.data = w
  BY <1>1, <1>2 DEF WakeupsAt, EdgeAt, Revents
<1>4. EventQueued(w)
  BY <1>1, <1>3 DEF EventQueued, Deliverable
<1>5. waker[w] = o.task
  BY <1>1, <1>2 DEF WakeupsAt, WakerAt, UsedByOne
<1>. QED
  BY <1>4, <1>5

\* The same for a file that is ready for the operation in any way.
LEMMA QueuedWakeup ==
  ASSUME TypeInv, Structure, LevelInv, NEW w \in Waiters, UsedByOne(w), OneWayAt(w), WakeupsAt(w),
         NEW o \in ops, o.async = w, Parked(o), inner[w] # None, CanProceed(w, o.interest)
  PROVE  EventQueued(w) /\ waker[w] = o.task
<1>1. o \in Uses /\ inner[w] \in Fds
  BY DEF TypeInv, TypeOK, AsyncTypeOK
<1>2. PICK f \in {"IN", "OUT"} : as_events(o.interest) = {f}
  BY <1>1, GroundAssumption DEF OneWayAt, Interest, as_events
<1>3. f \in level[inner[w]]
  BY <1>1, <1>2 DEF CanProceed, LevelInv
<1>. QED
  BY <1>2, <1>3, FlagIsQueued

\* The promise of poll_nonblocking(), for the operations on one Async: one that is
\* parked although polling it would lead to a result has an event queued that wakes
\* its own task.
ServedAt(w) ==
    \A o \in ops : o.async = w /\ Parked(o) /\ Resolvable(o) =>
                      EventQueued(w) /\ waker[w] = o.task

LEMMA ParkedAreQueued ==
  ASSUME NEW w \in Waiters, UsedByOne(w), OneWayAt(w),
         TypeInv, Structure, LevelInv, WakeupsAt(w), FilesAt(w)
  PROVE  ServedAt(w)
BY QueuedWakeup DEF ServedAt, FilesAt, Resolvable

\* An Async of one task, which closes it only with nothing else in flight on it, is
\* served, whatever the program does with the others: that two tasks share one of them,
\* or that one is closed under a read, costs nobody else a wakeup.
THEOREM UnsharedAreServed ==
  ASSUME NEW w \in Waiters, UsedByOne(w), OneWayAt(w), ClosedWholeAt(w), HangupIsIO
  PROVE  Spec => []ServedAt(w)
<1> DEFINE Inv == WakeupsAt(w) /\ FilesAt(w) /\ LevelInv
<1>1. Init => Inv
  BY QuietInit, LevelInit DEF Init, FilesAt
<1>2. TypeInv /\ Structure /\ Inv /\ [Next]_vars => Inv'
  BY WakeupsAtStep, FilesAtStep, LevelStep
<1>3. TypeInv /\ Structure /\ Inv => ServedAt(w)
  BY ParkedAreQueued
<1>. QED
  BY <1>1, <1>2, <1>3, TypeInvariant, StructureInvariant, PTL DEF Spec

\* With every Async used so no wakeup is lost at all.
LEMMA AllAreQueued ==
  ASSUME SingleUser, OneWay, TypeInv, Structure, Wakeups, Files
  PROVE  NoLostWakeup
<1>1. ASSUME NEW w \in Waiters
      PROVE  ServedAt(w)
  BY ParkedAreQueued DEF Wakeups, Files, SingleUser, UsedByOne, OneWay, OneWayAt
<1>2. \A o \in ops : o.async \in Waiters
  BY GroundAssumption DEF TypeInv, TypeOK
<1>. QED
  BY <1>1, <1>2 DEF NoLostWakeup, ServedAt

\* No wakeup is lost, for every value of the constants that satisfies the
\* four conditions.
THEOREM NoWakeupIsLost ==
  ASSUME SingleUser, OneWay, ClosedWhole, HangupIsIO
  PROVE  Spec => []NoLostWakeup
<1>1. TypeInv /\ Structure /\ Wakeups /\ Files => NoLostWakeup
  BY AllAreQueued
<1>. QED
  BY <1>1, TypeInvariant, StructureInvariant, WakeupsInvariant, FilesInvariant, PTL

\* When no task runs or is woken and no event is queued, every operation in flight is
\* parked, and none that has a file finds it ready.
LEMMA IdleIsQuiet ==
  ASSUME SingleUser, OneWay, TypeInv, Structure, Wakeups,
         todo = {}, blocked = None, buffer = {}, woken \subseteq done, Deliverable = {}
  PROVE  \A o \in ops : inner[o.async] # None => ~CanProceed(o.async, o.interest)
<1> SUFFICES ASSUME NEW o \in ops, inner[o.async] # None PROVE ~CanProceed(o.async, o.interest)
  OBVIOUS
<1>1. o \in Uses /\ o # None /\ o.async \in Waiters
  BY GroundAssumption DEF TypeInv, TypeOK
<1>2. Parked(o)
  BY <1>1 DEF Parked, Structure, BorrowInv
<1>3. ~EventQueued(o.async)
  BY DEF EventQueued
<1>4. UsedByOne(o.async) /\ OneWayAt(o.async) /\ WakeupsAt(o.async) /\ LevelInv
  BY <1>1 DEF SingleUser, UsedByOne, OneWay, OneWayAt, Wakeups
<1>. QED
  BY <1>1, <1>2, <1>3, <1>4, QueuedWakeup

\* executor::run() enters dispatch() only once the pool has stalled, and then
\* nobody wakes a task before the events are there.
StallInv == phase = "dispatch" /\ ~is_dispatching => woken \subseteq done

LEMMA StallStep == Structure /\ StallInv /\ [Next]_vars => StallInv'
<1> SUFFICES ASSUME Structure, StallInv, [Next]_vars, (phase = "dispatch")'
             PROVE  StallInv'
  BY DEF StallInv
<1> USE DEF dispatchVars, taskVars
<1>1. CASE UNCHANGED <<phase, is_dispatching, woken, done>>
  BY <1>1 DEF StallInv
<1>2. CASE Stall
  BY <1>2 DEF Stall, Stalled, StallInv
<1>3. ASSUME NEW t \in Tasks, TaskStep(t) \/ Schedule(t)
      PROVE  FALSE
  BY <1>3 DEF TaskStep, Ownership, New, IntoInner, TakeInner, Drop, Begin, Cancel, Poll,
     PollTaken, PollPending, PollReady, PollClose, PollCloseFails, PollWouldBlock, Attempt,
     Completed, WouldBlock, Polling, Wake, EndTurn, Suspend, Finish, Running, Schedule
<1>4. CASE PollRegister \/ PollRegisterPanics
  BY <1>1, <1>4 DEF PollRegister, PollRegisterPanics, Panic
<1>5. CASE Return \/ DispatchEnd
  BY <1>5 DEF Return, DispatchEnd
<1>6. CASE \/ \E reported \in SUBSET Fds : DispatchWait(reported)
           \/ \E e \in buffer : DispatchNext(e)
  BY <1>6 DEF DispatchWait, dispatch_wait, DispatchNext, dispatch_next, StallInv
<1>7. CASE \/ DispatchInterrupted \/ Kernel \/ Terminated \/ UNCHANGED vars
           \/ \E a \in Waiters : Teardown(a) \/ TeardownPanics(a)
  BY <1>1, <1>7 DEF DispatchInterrupted, Panic, Kernel, KernelRaise, KernelRecede,
     Terminated, vars, Teardown, TeardownPanics
<1>. QED
  BY <1>2, <1>3, <1>4, <1>5, <1>6, <1>7 DEF Next, Executor

\* What is asleep in dispatch() satisfies the premises of IdleIsQuiet.
LEMMA AsleepIsIdle ==
  ASSUME TypeInv, Structure, StallInv, phase = "dispatch", ~is_dispatching
  PROVE  todo = {} /\ blocked = None /\ buffer = {} /\ woken \subseteq done
<1>1. current = None /\ buffer = {} /\ blocked = None /\ woken \subseteq done
  BY DEF TypeInv, BlockedHasFile, Structure, ControlInv, StallInv
<1>2. todo = {}
  BY <1>1, TasksAssumption, GroundAssumption DEF TypeInv, TypeOK, Structure, ControlInv
<1>. QED
  BY <1>1, <1>2

LEMMA SleepIsIdle ==
  ASSUME SingleUser, OneWay, TypeInv, Structure, Wakeups, Files, StallInv
  PROVE  SleepsOnlyWhenIdle
<1>1. \A o \in ops : inner[o.async] # None
  BY GroundAssumption DEF TypeInv, TypeOK, Files, FilesAt
<1>. QED
  BY <1>1, AsleepIsIdle, IdleIsQuiet DEF SleepsOnlyWhenIdle, Resolvable

\* StallInv holds in every reachable state.
THEOREM StallInvariant == Spec => []StallInv
<1>1. Init => StallInv
  BY DEF Init, StallInv
<1>. QED
  BY <1>1, StallStep, StructureInvariant, PTL DEF Spec

\* executor::run() blocks in epoll_wait() only when nothing can be done: every
\* task with an operation in flight is parked, and none of those operations
\* could proceed.
THEOREM SleepsOnlyIdle ==
  ASSUME SingleUser, OneWay, ClosedWhole, HangupIsIO
  PROVE  Spec => []SleepsOnlyWhenIdle
<1>1. TypeInv /\ Structure /\ Wakeups /\ Files /\ StallInv => SleepsOnlyWhenIdle
  BY SleepIsIdle
<1>. QED
  BY <1>1, TypeInvariant, StructureInvariant, WakeupsInvariant, FilesInvariant,
     StallInvariant, PTL
=============================================================================
