-------------------------- MODULE GroundStructure --------------------------
(***************************************************************************)
(* Type correctness of module Ground, and who owns what in it: where       *)
(* control is, which file an Async wraps, and which waiter pointers are    *)
(* outside of Rust's control; and what follows from it when a panic        *)
(* unwinds through every Async.  Proved for any number of files, Asyncs    *)
(* and tasks, any set of operations, any length of dispatch()'s array and  *)
(* all the Faults.  GroundWakeups builds on it.                            *)
(***************************************************************************)
EXTENDS Ground, TLAPS

\* The operation that just got WouldBlock is the running task's, which has
\* looked at the file under one borrow of the Async.
BlockedHasFile ==
    blocked # None =>
        /\ failure = "none" /\ phase = "poll" /\ current # None
        /\ inner[blocked.async] # None

\* The kernel queues only files that are registered.
ReadyListInv == \A fd \in rdllist : Registered(fd)

\* TypeOK alone is not inductive: PollRegister indexes the kernel's tables
\* with the file of the blocked operation, and dispatch() takes pointers from
\* the files on the ready list.
TypeInv == TypeOK /\ BlockedHasFile /\ ReadyListInv

-----------------------------------------------------------------------------
\* Every step of the crate, of its tasks and of the kernel preserves the types:
\* one step of the proof per action of Next.
LEMMA TypeStep == TypeInv /\ [Next]_vars => TypeInv'
<1> USE EpollAssumption, TasksAssumption, GroundAssumption
<1> SUFFICES ASSUME TypeInv, [Next]_vars PROVE TypeInv'
  OBVIOUS
<1> USE DEF TypeInv, BlockedHasFile, ReadyListInv, Registered, TypeOK, EpollTypeOK,
       ReactorTypeOK, AsyncTypeOK, epollVars, waiterVars, dispatchVars, asyncVars, taskVars
<1>1. ASSUME NEW t \in Tasks, NEW a \in Waiters, NEW fd \in Fds, New(t, a, fd)
      PROVE TypeInv'
  BY <1>1 DEF New, new, Running, EventMask
<1>2. ASSUME NEW t \in Tasks, NEW a \in Waiters, IntoInner(t, a)
      PROVE TypeInv'
  BY <1>2 DEF IntoInner, Running, into_inner
<1>3. ASSUME NEW t \in Tasks, NEW a \in Waiters, TakeInner(t, a)
      PROVE TypeInv'
  BY <1>3 DEF TakeInner, Running, take_inner, deregister, delete, EPOLL_CTL_DEL, Forget, EventMask
<1>4. ASSUME NEW t \in Tasks, NEW a \in Waiters, Drop(t, a)
      PROVE TypeInv'
  BY <1>4 DEF Drop, Running, drop, deregister, delete, EPOLL_CTL_DEL, Forget, EventMask, Close
<1>5. ASSUME NEW t \in Tasks, NEW o \in Uses, Begin(t, o) \/ Cancel(t, o)
      PROVE TypeInv'
  BY <1>5 DEF Begin, Cancel, Running, OpsOf
<1>6. ASSUME NEW t \in Tasks, NEW u \in Tasks, Wake(t, u)
      PROVE TypeInv'
  BY <1>6 DEF Wake, Running
<1>7. ASSUME NEW t \in Tasks, NEW o \in Uses,
             PollTaken(t, o) \/ PollPending(t, o) \/ PollWouldBlock(t, o)
      PROVE TypeInv'
  BY <1>7 DEF PollTaken, PollPending, PollWouldBlock, Attempt, WouldBlock, Polling, Running, Panic, OpsOf
<1>8. ASSUME NEW t \in Tasks, NEW o \in Uses, PollReady(t, o) \/ PollCloseFails(t, o)
      PROVE TypeInv'
  BY <1>8 DEF PollReady, PollCloseFails, Attempt, Completed, Polling, Running, Consume, OpsOf
<1>9. ASSUME NEW t \in Tasks, NEW o \in Uses, PollClose(t, o)
      PROVE TypeInv'
  BY <1>9 DEF PollClose, Attempt, Polling, Running, OpsOf, take_inner, deregister, delete,
              EPOLL_CTL_DEL, Forget, EventMask, Close
<1>10. CASE PollRegister
  <2>1. blocked \in Uses /\ current \in Tasks \cup {None}
    BY <1>10 DEF PollRegister
  <2>2. RegisterFor(blocked.async, blocked.interest) \in EventMask
    BY <2>1 DEF RegisterFor, as_events, Interest, EventMask, Readiness
  <2>. QED
    BY <1>10, <2>1, <2>2 DEF PollRegister, start_waiting, ensure_registered, add,
         modify, EPOLL_CTL_ADD, EPOLL_CTL_MOD, EpollSet, LinkIfReady, as_events,
         Interest, EventMask, Readiness
<1>11. CASE PollRegisterPanics
  <2>1. blocked \in Uses /\ current \in Tasks \cup {None}
    BY <1>11 DEF PollRegisterPanics
  <2>2. RegisterFor(blocked.async, blocked.interest) \in EventMask
    BY <2>1 DEF RegisterFor, as_events, Interest, EventMask, Readiness
  <2>. QED
    BY <1>11, <2>1, <2>2 DEF PollRegisterPanics, start_waiting, ensure_registered_fails,
         Panic, as_events, Interest, EventMask, Readiness
<1>12. ASSUME NEW t \in Tasks, Schedule(t) \/ Suspend(t) \/ Finish(t)
       PROVE TypeInv'
  BY <1>12 DEF Schedule, Suspend, Finish, Running, OpsOf
<1>13. CASE Stall \/ Return \/ DispatchInterrupted
  BY <1>13 DEF Stall, Return, Stalled, DispatchInterrupted, Panic
<1>14. ASSUME NEW reported \in SUBSET Fds, DispatchWait(reported)
       PROVE TypeInv'
  <2>1. ASSUME NEW fd \in reported
        PROVE [data |-> data[fd], events |-> Revents(fd)] \in Event
    <3>1. fd \in Fds /\ Revents(fd) # {}
      BY <1>14 DEF DispatchWait, dispatch_wait, epoll_wait, Deliverable
    <3>2. data[fd] \in Waiters
      BY <1>14, <3>1 DEF DispatchWait, dispatch_wait, epoll_wait, Deliverable
    <3>3. Revents(fd) \in SUBSET Readiness
      BY <3>1 DEF Revents
    <3>. QED
      BY <3>2, <3>3 DEF Event
  <2>2. rdllist' \subseteq rdllist
    BY <1>14 DEF DispatchWait, dispatch_wait, epoll_wait, Deliverable
  <2>3. EventsOf(reported) \in SUBSET Event
    BY <2>1 DEF EventsOf
  <2>. QED
    BY <1>14, <2>2, <2>3 DEF DispatchWait, dispatch_wait, epoll_wait
<1>15. ASSUME NEW e \in buffer, DispatchNext(e)
       PROVE TypeInv'
  BY <1>15 DEF DispatchNext, dispatch_next, deliver, Event, EventMask
<1>16. CASE DispatchEnd
  BY <1>16 DEF DispatchEnd, dispatch_end
<1>17. ASSUME NEW a \in Waiters, Teardown(a)
       PROVE TypeInv'
  BY <1>17 DEF Teardown, TearingDown, drop, deregister, delete, EPOLL_CTL_DEL, Forget, EventMask, Close
<1>18. ASSUME NEW a \in Waiters, TeardownPanics(a)
       PROVE TypeInv'
  BY <1>18 DEF TeardownPanics, TearingDown
<1>19. ASSUME NEW fd \in Fds, NEW mask \in Edges, KernelRaise(fd, mask)
       PROVE TypeInv'
  BY <1>19 DEF KernelRaise, Raise, LinkIfReady
<1>20. ASSUME NEW fd \in Fds, NEW flag \in Readiness, KernelRecede(fd, flag)
       PROVE TypeInv'
  BY <1>20 DEF KernelRecede, Recede
<1>21. CASE UNCHANGED vars
  BY <1>21 DEF vars
<1>. QED
  BY <1>1, <1>2, <1>3, <1>4, <1>5, <1>6, <1>7, <1>8, <1>9, <1>10, <1>11, <1>12,
     <1>13, <1>14, <1>15, <1>16, <1>17, <1>18, <1>19, <1>20, <1>21
     DEF Next, TaskStep, Ownership, Poll, EndTurn, Executor, Kernel, Terminated

\* The initial states have the types.
LEMMA TypeInit == Init => TypeInv
<1> SUFFICES ASSUME Init PROVE TypeInv
  OBVIOUS
<1>1. EpollTypeOK
  BY EpollAssumption
     DEF Init, EpollInit, EpollTypeOK, EventMask, Readiness, Always
<1>2. ReactorTypeOK /\ AsyncTypeOK
  BY TasksAssumption
     DEF Init, ReactorInit, AsyncInit, ReactorTypeOK, AsyncTypeOK, EventMask
<1>3. BlockedHasFile /\ ReadyListInv
  BY DEF Init, EpollInit, BlockedHasFile, ReadyListInv, Registered
<1>. QED
  BY <1>1, <1>2, <1>3 DEF Init, TypeInv, TypeOK

\* TypeInv holds in every reachable state.
THEOREM TypeInvariant == Spec => []TypeInv
BY TypeInit, TypeStep, PTL DEF Spec

\* Every variable of the crate and of the kernel keeps its type.
THEOREM TypeCorrect == Spec => []TypeOK
<1>1. TypeInv => TypeOK
  BY DEF TypeInv
<1>. QED
  BY <1>1, TypeInvariant, PTL

-----------------------------------------------------------------------------
\* Where control can be: tasks run only in the polling phase, dispatch()
\* delivers only in its own, and nothing is in flight after a panic.
ControlInv ==
    /\ \A o \in todo : o.task = current
    /\ current # None => phase = "poll" /\ failure = "none" /\ current \notin done
    /\ blocked # None => blocked.task = current
    /\ is_dispatching => phase = "dispatch" /\ failure = "none"
    /\ buffer # {} => is_dispatching
    /\ failure # "none" \/ phase = "returned" => ops = {}

\* The tasks that have operations in flight are alive, and they have pinned
\* what they use.
BorrowInv == \A o \in ops : o.async \in pinned /\ o.task \notin done

\* A file is wrapped by at most one Async.
OwnerInv ==
    /\ \A a \in Waiters \ live : inner[a] = None
    /\ \A a, b \in live : inner[a] = inner[b] /\ inner[a] # None => a = b

\* The owner of a registration knows that it has one, even after a panic.
PointerInv ==
    /\ \A fd \in Fds : data[fd] # None =>
          /\ data[fd] \in pinned
          /\ inner[data[fd]] = fd
          /\ register_for[data[fd]] # {}
    /\ \A e \in buffer : e.data \in pinned /\ inner[e.data] # None

Structure ==
    /\ ControlInv
    /\ BorrowInv
    /\ OwnerInv
    /\ PointerInv
    /\ RegistrationAgrees

-----------------------------------------------------------------------------
\* Structure is inductive, given the types.  One step per action; under it,
\* one per conjunct that the action can disturb.
LEMMA StructureStep == TypeInv /\ Structure /\ [Next]_vars => Structure'
<1> USE EpollAssumption, TasksAssumption, GroundAssumption
<1> SUFFICES ASSUME TypeInv, Structure, [Next]_vars
             PROVE Structure'
  OBVIOUS
<1> USE DEF Agreement, TypeInv, TypeOK, EpollTypeOK, ReactorTypeOK, AsyncTypeOK,
       BlockedHasFile, ReadyListInv, Registered, epollVars, waiterVars, dispatchVars,
       asyncVars, taskVars
<1>1. ControlInv /\ BorrowInv /\ OwnerInv /\ PointerInv /\ RegistrationAgrees
  BY DEF Structure
<1>2. ASSUME NEW t \in Tasks, NEW a \in Waiters, NEW fd \in Fds, New(t, a, fd)
      PROVE Structure'
  <2>1. OwnerInv'
    BY <1>1, <1>2 DEF New, new, Unwrapped, Running, OwnerInv
  <2>2. RegistrationAgrees'
    BY <1>1, <1>2 DEF New, new, Unwrapped, Running, RegistrationAgrees, PointerInv
  <2>3. ControlInv' /\ BorrowInv' /\ PointerInv'
    BY <1>1, <1>2 DEF New, new, Unwrapped, Running, ControlInv, BorrowInv,
       PointerInv
  <2>. QED
    BY <2>1, <2>2, <2>3 DEF Structure
<1>3. ASSUME NEW t \in Tasks, NEW a \in Waiters, IntoInner(t, a)
      PROVE Structure'
  <2>1. OwnerInv'
    BY <1>1, <1>3 DEF IntoInner, into_inner, Running, OwnerInv
  <2>2. PointerInv'
    BY <1>1, <1>3 DEF IntoInner, into_inner, Running, PointerInv
  <2>3. RegistrationAgrees'
    BY <1>1, <1>3 DEF IntoInner, into_inner, Running, RegistrationAgrees
  <2>4. ControlInv' /\ BorrowInv'
    BY <1>1, <1>3 DEF IntoInner, into_inner, Running, ControlInv, BorrowInv
  <2>. QED
    BY <2>1, <2>2, <2>3, <2>4 DEF Structure
<1>4. ASSUME NEW t \in Tasks, NEW a \in Waiters, TakeInner(t, a)
      PROVE Structure'
  <2>1. PointerInv'
    BY <1>1, <1>4 DEF TakeInner, take_inner, Running, NeedsDelete, deregister,
       delete, EPOLL_CTL_DEL, Forget, PointerInv, ControlInv
  <2>2. RegistrationAgrees'
    BY <1>1, <1>4 DEF TakeInner, take_inner, Running, NeedsDelete, deregister,
       delete, EPOLL_CTL_DEL, Forget, RegistrationAgrees, PointerInv, OwnerInv
  <2>3. ControlInv' /\ BorrowInv' /\ OwnerInv'
    BY <1>1, <1>4 DEF TakeInner, take_inner, Running, NeedsDelete, deregister,
       delete, EPOLL_CTL_DEL, Forget, ControlInv, BorrowInv, OwnerInv
  <2>. QED
    BY <2>1, <2>2, <2>3 DEF Structure
<1>5. ASSUME NEW t \in Tasks, NEW a \in Waiters, Drop(t, a)
      PROVE Structure'
  <2>1. BorrowInv'
    BY <1>1, <1>5 DEF Drop, drop, Close, Running, OpsOn, NeedsDelete, deregister,
       delete, EPOLL_CTL_DEL, Forget, BorrowInv
  <2>2. OwnerInv'
    BY <1>1, <1>5 DEF Drop, drop, Close, Running, OpsOn, NeedsDelete, deregister,
       delete, EPOLL_CTL_DEL, Forget, OwnerInv
  <2>3. PointerInv'
    BY <1>1, <1>5 DEF Drop, drop, Close, Running, OpsOn, NeedsDelete, deregister,
       delete, EPOLL_CTL_DEL, Forget, PointerInv, ControlInv, OwnerInv
  <2>4. RegistrationAgrees'
    BY <1>1, <1>5 DEF Drop, drop, Close, Running, OpsOn, NeedsDelete, deregister,
       delete, EPOLL_CTL_DEL, Forget, RegistrationAgrees
  <2>5. ControlInv'
    BY <1>1, <1>5 DEF Drop, drop, Close, Running, OpsOn, NeedsDelete, deregister,
       delete, EPOLL_CTL_DEL, Forget, ControlInv
  <2>. QED
    BY <2>1, <2>2, <2>3, <2>4, <2>5 DEF Structure
<1>6. ASSUME NEW t \in Tasks, NEW o \in Uses, Begin(t, o)
      PROVE Structure'
  <2>1. ControlInv'
    BY <1>1, <1>6 DEF Begin, Running, ControlInv
  <2>2. BorrowInv'
    BY <1>1, <1>6 DEF Begin, Running, BorrowInv, ControlInv
  <2>3. OwnerInv' /\ PointerInv' /\ RegistrationAgrees'
    BY <1>1, <1>6 DEF Begin, Running, OwnerInv, PointerInv, RegistrationAgrees
  <2>. QED
    BY <2>1, <2>2, <2>3 DEF Structure
<1>7. ASSUME NEW t \in Tasks, NEW o \in Uses, Cancel(t, o)
      PROVE Structure'
  BY <1>1, <1>7 DEF Cancel, Running, ControlInv, BorrowInv, OwnerInv, PointerInv,
     RegistrationAgrees, Structure
<1>8. ASSUME NEW t \in Tasks, NEW u \in Tasks, Wake(t, u)
      PROVE Structure'
  BY <1>1, <1>8 DEF Wake, Running, ControlInv, BorrowInv, OwnerInv, PointerInv,
     RegistrationAgrees, Structure
<1>9. ASSUME NEW t \in Tasks, NEW o \in Uses, PollTaken(t, o)
      PROVE Structure'
  <2>1. ControlInv'
    BY <1>1, <1>9 DEF PollTaken, Polling, Running, Panic, ControlInv
  <2>2. BorrowInv' /\ OwnerInv' /\ PointerInv' /\ RegistrationAgrees'
    BY <1>1, <1>9 DEF PollTaken, Polling, Running, Panic, BorrowInv, OwnerInv,
       PointerInv, RegistrationAgrees
  <2>. QED
    BY <2>1, <2>2 DEF Structure
<1>10. ASSUME NEW t \in Tasks, NEW o \in Uses, PollPending(t, o)
      PROVE Structure'
  <2>1. ControlInv'
    BY <1>1, <1>10 DEF PollPending, Polling, Running, ControlInv
  <2>2. BorrowInv' /\ OwnerInv' /\ PointerInv' /\ RegistrationAgrees'
    BY <1>1, <1>10 DEF PollPending, Polling, Running, BorrowInv, OwnerInv,
       PointerInv, RegistrationAgrees
  <2>. QED
    BY <2>1, <2>2 DEF Structure
<1>11. ASSUME NEW t \in Tasks, NEW o \in Uses, PollWouldBlock(t, o)
       PROVE Structure'
  <2>1. ControlInv'
    BY <1>1, <1>11 DEF PollWouldBlock, Attempt, WouldBlock, Polling, Running, OpsOf, ControlInv
  <2>2. BorrowInv' /\ OwnerInv' /\ PointerInv' /\ RegistrationAgrees'
    BY <1>1, <1>11 DEF PollWouldBlock, Attempt, WouldBlock, Polling, Running, OpsOf, BorrowInv, OwnerInv,
       PointerInv, RegistrationAgrees
  <2>. QED
    BY <2>1, <2>2 DEF Structure
<1>12. ASSUME NEW t \in Tasks, NEW o \in Uses, PollReady(t, o) \/ PollCloseFails(t, o)
       PROVE Structure'
  <2>1. ControlInv'
    BY <1>1, <1>12 DEF PollReady, PollCloseFails, Attempt, Completed, Polling, Running,
       ControlInv
  <2>2. BorrowInv' /\ OwnerInv' /\ PointerInv' /\ RegistrationAgrees'
    BY <1>1, <1>12 DEF PollReady, PollCloseFails, Attempt, Completed, Polling, Running,
       BorrowInv, OwnerInv, PointerInv, RegistrationAgrees
  <2>. QED
    BY <2>1, <2>2 DEF Structure
<1>13. ASSUME NEW t \in Tasks, NEW o \in Uses, PollClose(t, o)
       PROVE Structure'
  <2>1. BorrowInv'
    BY <1>1, <1>13 DEF PollClose, Attempt, Polling, Running, take_inner, Close, NeedsDelete,
       deregister, delete, EPOLL_CTL_DEL, Forget, BorrowInv
  <2>2. OwnerInv'
    BY <1>1, <1>13 DEF PollClose, Attempt, Polling, Running, take_inner, Close, NeedsDelete,
       deregister, delete, EPOLL_CTL_DEL, Forget, OwnerInv
  <2>3. PointerInv'
    BY <1>1, <1>13 DEF PollClose, Attempt, Polling, Running, take_inner, Close, NeedsDelete,
       deregister, delete, EPOLL_CTL_DEL, Forget, PointerInv, ControlInv
  <2>4. RegistrationAgrees'
    BY <1>1, <1>13 DEF PollClose, Attempt, Polling, Running, take_inner, Close, NeedsDelete,
       deregister, delete, EPOLL_CTL_DEL, Forget, RegistrationAgrees,
       PointerInv, OwnerInv
  <2>5. ControlInv'
    BY <1>1, <1>13 DEF PollClose, Attempt, Polling, Running, take_inner, Close, NeedsDelete,
       deregister, delete, EPOLL_CTL_DEL, Forget, ControlInv
  <2>. QED
    BY <2>1, <2>2, <2>3, <2>4, <2>5 DEF Structure
<1>14. CASE PollRegister
  <2>1. ControlInv'
    BY <1>1, <1>14 DEF PollRegister, start_waiting, ensure_registered, RegisterFor,
       add, modify, EPOLL_CTL_ADD, EPOLL_CTL_MOD, EpollSet, as_events,
       Interest, ControlInv
  <2>2. PointerInv'
    <3> DEFINE a == blocked.async
               fd == inner[a]
               mask == RegisterFor(a, blocked.interest)
    <3>1. a \in pinned /\ fd \in Fds /\ a \in Waiters /\ mask # {}
      BY <1>1, <1>14 DEF PollRegister, BorrowInv, RegisterFor
    <3>2. register_for' = [register_for EXCEPT ![a] = mask]
      BY <1>1, <1>14 DEF PollRegister, ensure_registered
    <3>3. UNCHANGED <<inner, pinned, buffer>>
      BY <1>14 DEF PollRegister
    <3>4. data' = data \/ data' = [data EXCEPT ![fd] = a]
      BY <1>1, <1>14 DEF PollRegister, ensure_registered, add, modify, EPOLL_CTL_ADD,
           EPOLL_CTL_MOD, EpollSet
    <3>5. data \in [Fds -> Waiters \cup {None}] /\ register_for \in [Waiters -> EventMask]
      OBVIOUS
    <3> HIDE DEF mask, a, fd
    <3>6. ASSUME NEW f \in Fds, data'[f] # None
          PROVE  /\ data'[f] \in pinned /\ inner[data'[f]] = f
                 /\ register_for'[data'[f]] # {}
      <4>1. CASE data'[f] = a /\ f = fd
        BY <3>1, <3>2, <3>5, <4>1 DEF fd
      <4>2. CASE data'[f] = data[f]
        <5>1. /\ data[f] \in pinned /\ data[f] \in Waiters /\ inner[data[f]] = f
              /\ register_for[data[f]] # {}
          BY <1>1, <3>5, <3>6, <4>2 DEF PointerInv
        <5>. QED
          BY <3>1, <3>2, <3>5, <4>2, <5>1
      <4>. QED
        BY <3>1, <3>4, <3>5, <4>1, <4>2
    <3>. QED
      BY <1>1, <3>3, <3>6 DEF PointerInv
  <2>3. RegistrationAgrees'
    <3> DEFINE a == blocked.async
               fd == inner[a]
               mask == RegisterFor(a, blocked.interest)
    <3>1. a \in live /\ fd \in Fds /\ a \in Waiters /\ mask # {}
      BY <1>1, <1>14 DEF PollRegister, BorrowInv, RegisterFor
    <3>2. register_for' = [register_for EXCEPT ![a] = mask]
      BY <1>1, <1>14 DEF PollRegister, ensure_registered
    <3>3. UNCHANGED <<live, inner, failure>> /\ failure = "none"
      BY <1>1, <1>14 DEF PollRegister
    <3>4. \/ UNCHANGED <<data, events>> /\ mask = register_for[a]
          \/ data' = [data EXCEPT ![fd] = a] /\ events' = [events EXCEPT ![fd] = mask]
      BY <1>1, <1>14 DEF PollRegister, ensure_registered, add, modify, EPOLL_CTL_ADD,
           EPOLL_CTL_MOD, EpollSet
    <3>5. ASSUME NEW b \in live
          PROVE IF register_for[b]' = {} \/ inner[b]' = None
                THEN \A f \in Fds : data[f]' # b
                ELSE data[inner[b]]' = b /\ events[inner[b]]' = register_for[b]'
      <4>1. CASE b = a
        BY <1>1, <3>1, <3>2, <3>3, <3>4, <4>1 DEF RegistrationAgrees
      <4>2. CASE b # a
        BY <1>1, <3>1, <3>2, <3>3, <3>4, <4>2 DEF RegistrationAgrees, OwnerInv
      <4>. QED
        BY <4>1, <4>2
    <3>. QED
      BY <3>3, <3>5 DEF RegistrationAgrees
  <2>4. BorrowInv' /\ OwnerInv'
    BY <1>1, <1>14 DEF PollRegister, start_waiting, ensure_registered, RegisterFor,
       add, modify, EPOLL_CTL_ADD, EPOLL_CTL_MOD, EpollSet, as_events,
       Interest, BorrowInv, OwnerInv
  <2>. QED
    BY <2>1, <2>2, <2>3, <2>4 DEF Structure
<1>15. CASE PollRegisterPanics
  <2>1. ControlInv'
    BY <1>1, <1>15 DEF PollRegisterPanics, start_waiting, ensure_registered_fails,
       RegisterFor, Panic, ControlInv
  <2>2. PointerInv'
    BY <1>1, <1>15 DEF PollRegisterPanics, start_waiting, ensure_registered_fails,
       RegisterFor, Panic, PointerInv
  <2>3. RegistrationAgrees'
    BY <1>1, <1>15 DEF PollRegisterPanics, start_waiting, ensure_registered_fails,
       RegisterFor, Panic, RegistrationAgrees
  <2>4. BorrowInv' /\ OwnerInv'
    BY <1>1, <1>15 DEF PollRegisterPanics, start_waiting, ensure_registered_fails,
       RegisterFor, Panic, BorrowInv, OwnerInv
  <2>. QED
    BY <2>1, <2>2, <2>3, <2>4 DEF Structure
<1>16. ASSUME NEW t \in Tasks, Schedule(t)
       PROVE Structure'
  <2>1. ControlInv'
    BY <1>1, <1>16 DEF Schedule, OpsOf, ControlInv
  <2>2. BorrowInv' /\ OwnerInv' /\ PointerInv' /\ RegistrationAgrees'
    BY <1>1, <1>16 DEF Schedule, OpsOf, BorrowInv, OwnerInv, PointerInv,
       RegistrationAgrees
  <2>. QED
    BY <2>1, <2>2 DEF Structure
<1>17. ASSUME NEW t \in Tasks, Suspend(t) \/ Finish(t)
       PROVE Structure'
  <2>1. ControlInv'
    BY <1>1, <1>17 DEF Suspend, Finish, Running, OpsOf, ControlInv
  <2>2. BorrowInv'
    BY <1>1, <1>17 DEF Suspend, Finish, Running, OpsOf, BorrowInv
  <2>3. OwnerInv' /\ PointerInv' /\ RegistrationAgrees'
    BY <1>1, <1>17 DEF Suspend, Finish, Running, OpsOf, OwnerInv, PointerInv,
       RegistrationAgrees
  <2>. QED
    BY <2>1, <2>2, <2>3 DEF Structure
<1>18. CASE Stall \/ Return \/ DispatchInterrupted
  <2>1. ControlInv'
    BY <1>1, <1>18 DEF Stall, Return, DispatchInterrupted, Stalled, Panic,
       ControlInv
  <2>2. BorrowInv'
    BY <1>1, <1>18 DEF Stall, Return, DispatchInterrupted, Stalled, Panic, BorrowInv
  <2>3. OwnerInv' /\ PointerInv' /\ RegistrationAgrees'
    BY <1>1, <1>18 DEF Stall, Return, DispatchInterrupted, Stalled, Panic, OwnerInv,
       PointerInv, RegistrationAgrees
  <2>. QED
    BY <2>1, <2>2, <2>3 DEF Structure
<1>19. ASSUME NEW reported \in SUBSET Fds, DispatchWait(reported)
       PROVE Structure'
  <2>1. ControlInv'
    BY <1>1, <1>19 DEF DispatchWait, dispatch_wait, epoll_wait, EventsOf,
       Deliverable, ControlInv
  <2>2. PointerInv'
    BY <1>1, <1>19 DEF DispatchWait, dispatch_wait, epoll_wait, EventsOf,
       Deliverable, PointerInv
  <2>3. BorrowInv' /\ OwnerInv' /\ RegistrationAgrees'
    BY <1>1, <1>19 DEF DispatchWait, dispatch_wait, epoll_wait, EventsOf,
       Deliverable, BorrowInv, OwnerInv, RegistrationAgrees
  <2>. QED
    BY <2>1, <2>2, <2>3 DEF Structure
<1>20. ASSUME NEW e \in buffer, DispatchNext(e)
       PROVE Structure'
  <2>1. ControlInv'
    BY <1>1, <1>20 DEF DispatchNext, dispatch_next, deliver, Event, ControlInv
  <2>2. PointerInv'
    BY <1>1, <1>20 DEF DispatchNext, dispatch_next, deliver, Event, PointerInv
  <2>3. BorrowInv' /\ OwnerInv' /\ RegistrationAgrees'
    BY <1>1, <1>20 DEF DispatchNext, dispatch_next, deliver, Event, BorrowInv,
       OwnerInv, RegistrationAgrees
  <2>. QED
    BY <2>1, <2>2, <2>3 DEF Structure
<1>21. CASE DispatchEnd
  BY <1>1, <1>21 DEF DispatchEnd, dispatch_end, ControlInv, BorrowInv, OwnerInv,
     PointerInv, RegistrationAgrees, Structure
<1>22. ASSUME NEW a \in Waiters, Teardown(a)
       PROVE Structure'
  <2>1. BorrowInv'
    BY <1>1, <1>22 DEF Teardown, TearingDown, drop, Close, NeedsDelete, deregister,
       delete, EPOLL_CTL_DEL, Forget, BorrowInv, ControlInv
  <2>2. OwnerInv'
    BY <1>1, <1>22 DEF Teardown, TearingDown, drop, Close, NeedsDelete, deregister,
       delete, EPOLL_CTL_DEL, Forget, OwnerInv
  <2>3. PointerInv'
    BY <1>1, <1>22 DEF Teardown, TearingDown, drop, Close, NeedsDelete, deregister,
       delete, EPOLL_CTL_DEL, Forget, PointerInv, ControlInv
  <2>4. RegistrationAgrees'
    BY <1>1, <1>22 DEF Teardown, TearingDown, drop, Close, NeedsDelete, deregister,
       delete, EPOLL_CTL_DEL, Forget, RegistrationAgrees
  <2>5. ControlInv'
    BY <1>1, <1>22 DEF Teardown, TearingDown, drop, Close, NeedsDelete, deregister,
       delete, EPOLL_CTL_DEL, Forget, ControlInv
  <2>. QED
    BY <2>1, <2>2, <2>3, <2>4, <2>5 DEF Structure
<1>23. ASSUME NEW a \in Waiters, TeardownPanics(a)
       PROVE Structure'
  BY <1>1, <1>23 DEF TeardownPanics, TearingDown, ControlInv, BorrowInv, OwnerInv,
     PointerInv, RegistrationAgrees, Structure
<1>24. ASSUME NEW fd \in Fds, NEW mask \in Edges, KernelRaise(fd, mask)
       PROVE Structure'
  BY <1>1, <1>24 DEF KernelRaise, Raise, ControlInv, BorrowInv, OwnerInv,
     PointerInv, RegistrationAgrees, Structure
<1>25. ASSUME NEW fd \in Fds, NEW flag \in Readiness, KernelRecede(fd, flag)
       PROVE Structure'
  BY <1>1, <1>25 DEF KernelRecede, Recede, ControlInv, BorrowInv, OwnerInv,
     PointerInv, RegistrationAgrees, Structure
<1>26. CASE UNCHANGED vars
  BY <1>1, <1>26 DEF vars, ControlInv, BorrowInv, OwnerInv, PointerInv,
     RegistrationAgrees, Structure
<1>. QED
  BY <1>2, <1>3, <1>4, <1>5, <1>6, <1>7, <1>8, <1>9, <1>10, <1>11, <1>12, <1>13, <1>14, <1>15, <1>16, <1>17, <1>18, <1>19, <1>20, <1>21, <1>22, <1>23, <1>24, <1>25, <1>26
     DEF Next, TaskStep, Ownership, Poll, EndTurn, Executor, Kernel, Terminated

\* Structure holds initially: nothing is wrapped or registered.
LEMMA StructureInit == Init => Structure
BY EpollAssumption, TasksAssumption, GroundAssumption
   DEF Init, EpollInit, ReactorInit, AsyncInit, Structure, ControlInv, BorrowInv,
       OwnerInv, PointerInv, RegistrationAgrees, Agreement

\* Structure holds in every reachable state.
THEOREM StructureInvariant == Spec => []Structure
BY StructureInit, StructureStep, TypeInvariant, PTL DEF Spec

-----------------------------------------------------------------------------
\* The safety claims of reactor.rs and io.rs: every waiter pointer held by
\* the kernel or by dispatch() points to a pinned, existing Async that still
\* has its file.
THEOREM PointersArePinned == Spec => []PointersPinned
<1>1. Structure => PointersPinned
  BY DEF Structure, PointerInv, PointersPinned
<1>. QED
  BY <1>1, StructureInvariant, PTL

\* ensure_registered() and deregister() always choose the right system call:
\* register_for is what the kernel has, until a panic.
THEOREM RegistrationsAgree == Spec => []RegistrationAgrees
<1>1. Structure => RegistrationAgrees
  BY DEF Structure
<1>. QED
  BY <1>1, StructureInvariant, PTL

-----------------------------------------------------------------------------
\* The registrations survive the panic, and the process has not aborted.
UnwindInv == failure # "abort" /\ Agreement

\* Without the fault "ctl" the process never aborts.  The registration of a
\* blocked operation is never refused, because register_for agrees with the
\* kernel; so it still agrees when a panic of another kind unwinds, and each
\* drop finds the registration it removes.
THEOREM UnwindingIsSafe ==
  ASSUME "ctl" \notin Faults
  PROVE  Spec => []UnwindsWithoutAbort
<1> USE EpollAssumption, TasksAssumption, GroundAssumption
<1>1. Init => UnwindInv
  BY DEF Init, EpollInit, ReactorInit, AsyncInit, UnwindInv, Agreement
<1>2. TypeInv /\ Structure /\ Structure' /\ UnwindInv /\ [Next]_vars => UnwindInv'
  <2> SUFFICES ASSUME TypeInv, Structure, Structure', UnwindInv, [Next]_vars
               PROVE UnwindInv'
    OBVIOUS
  <2>1. failure' = "none" => UnwindInv'
    BY DEF Structure, RegistrationAgrees, UnwindInv
  <2>2. ~PollRegisterPanics
    <3>1. SUFFICES ASSUME PollRegisterPanics
                   PROVE  FALSE
      OBVIOUS
    <3>2. blocked.async \in live /\ inner[blocked.async] # None
      BY <3>1 DEF PollRegisterPanics, TypeInv, BlockedHasFile, TypeOK, AsyncTypeOK,
         Structure, BorrowInv
    <3>3. inner[blocked.async] \in Fds
      BY <3>1, <3>2 DEF TypeInv, TypeOK, AsyncTypeOK
    <3>4. ~RegistrationRefused(blocked.async, blocked.interest)
      BY <3>2, <3>3 DEF RegistrationRefused, Registered, UnwindInv, Agreement,
         Structure, OwnerInv, PointerInv, TypeInv, TypeOK, AsyncTypeOK, EpollTypeOK
    <3>. QED
      BY <3>1, <3>4 DEF PollRegisterPanics
  <2>3. ASSUME NEW a \in Waiters
        PROVE  ~TeardownPanics(a)
    BY DEF TeardownPanics, deregister_fails, NeedsDelete, TearingDown, Registered,
       UnwindInv, Agreement, Structure, ControlInv, TypeInv, TypeOK, AsyncTypeOK
  <2>4. CASE /\ failure' # "abort"
             /\ UNCHANGED <<live, register_for, inner, data, events>>
    BY <2>4 DEF UnwindInv, Agreement
  <2>5. ASSUME NEW a \in Waiters, Teardown(a)
        PROVE  UnwindInv'
    <3>1. /\ failure' # "abort"
          /\ live' = live \ {a}
          /\ inner' = [inner EXCEPT ![a] = None]
          /\ deregister(a)
      BY <2>5 DEF Teardown, TearingDown, drop, UnwindInv
    <3>2. \/ UNCHANGED <<register_for, data, events>>
          \/ /\ inner[a] # None
             /\ register_for' = [register_for EXCEPT ![a] = {}]
             /\ data' = [data EXCEPT ![inner[a]] = None]
             /\ events' = [events EXCEPT ![inner[a]] = {}]
      BY <3>1 DEF deregister, NeedsDelete, delete, EPOLL_CTL_DEL, Forget, epollVars
    <3>3. ASSUME NEW b \in live'
          PROVE  IF register_for'[b] = {} \/ inner'[b] = None
                 THEN \A fd \in Fds : data'[fd] # b
                 ELSE data'[inner'[b]] = b /\ events'[inner'[b]] = register_for'[b]
      <4>1. a \in live /\ b \in live /\ b # a /\ b \in Waiters
        BY <2>5, <3>1, <3>3 DEF Teardown, TypeInv, TypeOK, AsyncTypeOK
      <4>2. inner[a] # None => inner[a] # inner[b]
        BY <4>1 DEF Structure, OwnerInv
      <4>. QED
        BY <3>1, <3>2, <4>1, <4>2 DEF UnwindInv, Agreement, TypeInv, TypeOK, AsyncTypeOK,
           EpollTypeOK, ReactorTypeOK
    <3>. QED
      BY <3>1, <3>3 DEF UnwindInv, Agreement
  <2>6. CASE failure = "none" /\ failure' = "none"
    BY <2>1, <2>6
  <2>7. ASSUME NEW t \in Tasks, NEW o \in Uses, PollTaken(t, o)
        PROVE  UnwindInv'
    BY <2>4, <2>7 DEF PollTaken, Panic, asyncVars, epollVars, waiterVars
  <2>8. CASE DispatchInterrupted
    BY <2>4, <2>8 DEF DispatchInterrupted, Panic, asyncVars, epollVars, waiterVars
  <2>9. CASE Kernel
    BY <2>4, <2>9 DEF Kernel, KernelRaise, KernelRecede, Raise, Recede, UnwindInv,
       asyncVars, epollVars, waiterVars
  <2>10. CASE Terminated \/ UNCHANGED vars
    BY <2>4, <2>10 DEF Terminated, vars, UnwindInv, asyncVars, epollVars, waiterVars
  <2>11. ASSUME NEW t \in Tasks, Ownership(t)
         PROVE  UnwindInv'
    BY <2>6, <2>11 DEF Ownership, New, IntoInner, TakeInner, Drop, Running
  <2>12. ASSUME NEW t \in Tasks, NEW o \in Uses,
                Begin(t, o) \/ Cancel(t, o) \/ Poll(t, o)
         PROVE  UnwindInv'
    BY <2>6, <2>7, <2>12 DEF Begin, Cancel, Poll, PollPending, PollReady, PollClose,
       PollCloseFails, PollWouldBlock, Attempt, Completed, WouldBlock, Polling, Running
  <2>13. ASSUME NEW t \in Tasks,
                EndTurn(t) \/ Schedule(t) \/ \E other \in Tasks : Wake(t, other)
         PROVE  UnwindInv'
    BY <2>6, <2>13 DEF EndTurn, Suspend, Finish, Schedule, Wake, Running
  <2>14. CASE \/ PollRegister \/ Stall \/ Return \/ DispatchEnd
              \/ \E reported \in SUBSET Fds : DispatchWait(reported)
              \/ \E e \in buffer : DispatchNext(e)
    BY <2>6, <2>14 DEF PollRegister, Stall, Return, Stalled, DispatchEnd, DispatchWait,
       DispatchNext
  <2>. QED
    BY <2>2, <2>3, <2>5, <2>8, <2>9, <2>10, <2>11, <2>12, <2>13, <2>14
       DEF Next, TaskStep, Executor
<1>3. UnwindInv => UnwindsWithoutAbort
  BY DEF UnwindInv, UnwindsWithoutAbort
<1>. QED
  BY <1>1, <1>2, <1>3, TypeInvariant, StructureInvariant, PTL DEF Spec
=============================================================================
