-------------------------- MODULE GroundImplements --------------------------
(***************************************************************************)
(* What a user of the crate may rely on, proved from the invariants of     *)
(* GroundStructure and GroundWakeups for any number of files, Asyncs and   *)
(* tasks: under its own executor the crate implements ReadyIo, and inside  *)
(* another event loop its epoll descriptor tells that loop all it needs to *)
(* know before it sleeps.  Both need the conditions of NoWakeupIsLost,     *)
(* except that ReadyIo promises nothing to the operations on a closed      *)
(* file, so that it does not matter what a close does to them.             *)
(***************************************************************************)
EXTENDS OuterLoop, GroundWakeups

-----------------------------------------------------------------------------
\* The refinement of ReadyIo.  It maps wakers, registrations and events to
\* nothing; what remains to be shown of each action is that it treats files,
\* wrappers and operations as one action of ReadyIo does, or not at all, and
\* that the thread does not sleep in the meantime.

\* Readiness means the same in both modules.
LEMMA SameReadiness ==
  ASSUME TypeInv, NEW o \in Uses
  PROVE  /\ Io!Asks(o) = as_events(o.interest)
         /\ Io!Ready(o) <=> inner[o.async] # None /\ CanProceed(o.async, o.interest)
BY GroundAssumption DEF Io!Asks, Io!Ready, as_events, Interest, CanProceed, Always

\* What sleeps has nothing to do, in the words of ReadyIo.
AsleepIsQuiet == Asleep \in BOOLEAN /\ (Asleep => Io!Quiet)

LEMMA SleepersAreQuiet ==
  ASSUME SingleUser, OneWay, TypeInv, Structure, Wakeups, StallInv
  PROVE  AsleepIsQuiet
<1>1. Asleep \in BOOLEAN
  BY DEF Asleep
<1>2. ASSUME Asleep, NEW o \in ops
      PROVE  ~Io!Ready(o)
  <2>1. o \in Uses
    BY DEF TypeInv, TypeOK
  <2>2. inner[o.async] # None => ~CanProceed(o.async, o.interest)
    BY <1>2, AsleepIsIdle, IdleIsQuiet DEF Asleep
  <2>. QED
    BY <2>1, <2>2, SameReadiness
<1>. QED
  BY <1>1, <1>2 DEF AsleepIsQuiet, Io!Quiet

\* What a running task does to its Asyncs.
LEMMA OwnershipRefines ==
  ASSUME TypeInv, Structure, NEW t \in Tasks, Ownership(t)
  PROVE  [Io!Next]_Io!vars
<1> USE DEF TypeInv, TypeOK, EpollTypeOK, AsyncTypeOK
<1>1. /\ Asleep = FALSE /\ Asleep' = FALSE /\ ops' = ops
      /\ OwnerInv /\ BorrowInv /\ None \notin Fds
  BY EpollAssumption
     DEF Ownership, New, IntoInner, TakeInner, Drop, Running, Asleep, taskVars, Structure
<1>2. ASSUME NEW a \in Waiters, NEW fd \in Fds, New(t, a, fd)
      PROVE  Io!Next
  BY <1>1, <1>2 DEF New, new, Unwrapped, OwnerInv, Io!Next, Io!Wrap
<1>3. ASSUME NEW a \in Waiters, a \in live, OpsOn(a) = {},
             inner' = [inner EXCEPT ![a] = None],
             level' \in {level, IF inner[a] = None THEN level
                                ELSE [level EXCEPT ![inner[a]] = {}]}
      PROVE  [Io!Next]_Io!vars
  <2>1. CASE inner[a] = None
    BY <1>1, <1>3, <2>1 DEF Io!vars
  <2>2. CASE inner[a] # None
    BY <1>1, <1>3, <2>2 DEF OpsOn, Io!Next, Io!Unwrap
  <2>. QED
    BY <2>1, <2>2
<1>4. ASSUME NEW a \in Waiters, IntoInner(t, a)
      PROVE  [Io!Next]_Io!vars
  <2>1. OpsOn(a) = {}
    BY <1>1, <1>4 DEF IntoInner, into_inner, BorrowInv, OpsOn
  <2>2. a \in live /\ inner' = [inner EXCEPT ![a] = None] /\ level' = level
    BY <1>4 DEF IntoInner, into_inner
  <2>. QED
    BY <1>3, <2>1, <2>2
<1>5. ASSUME NEW a \in Waiters, TakeInner(t, a)
      PROVE  [Io!Next]_Io!vars
  BY <1>3, <1>5 DEF TakeInner, take_inner
<1>6. ASSUME NEW a \in Waiters, Drop(t, a)
      PROVE  [Io!Next]_Io!vars
  BY <1>3, <1>6 DEF Drop, drop, Close
<1>. QED
  BY <1>2, <1>4, <1>5, <1>6 DEF Ownership

\* What a running task does with its operations.
LEMMA OperationsRefine ==
  ASSUME TypeInv, Structure, NEW t \in Tasks, NEW o \in Uses,
         Begin(t, o) \/ Cancel(t, o) \/ Poll(t, o)
  PROVE  [Io!Next]_Io!vars
<1> USE DEF TypeInv, TypeOK, EpollTypeOK, AsyncTypeOK, taskVars, asyncVars
<1>1. Asleep = FALSE /\ Asleep' = FALSE
  BY DEF Begin, Cancel, Poll, PollTaken, PollPending, PollReady, PollClose, PollCloseFails,
     PollWouldBlock, Attempt, Completed, WouldBlock, Polling, Running, Panic, Asleep
<1>2. CASE Begin(t, o)
  BY <1>1, <1>2 DEF Begin, Io!Next, Io!Start
<1>3. CASE Cancel(t, o) \/ PollCloseFails(t, o)
  BY <1>1, <1>3 DEF Cancel, PollCloseFails, Attempt, Completed, Polling, OpsOf, Io!Next, Io!Cancel
<1>4. CASE PollTaken(t, o)
  BY <1>1, <1>4 DEF PollTaken, Panic, Io!Next, Io!Abort
<1>5. CASE PollPending(t, o) \/ PollWouldBlock(t, o)
  BY <1>1, <1>5 DEF PollPending, PollWouldBlock, WouldBlock, Io!vars
<1>6. CASE PollReady(t, o)
  <2>1. o \in ops /\ o.kind = "io" /\ Io!Ready(o) /\ Io!Asks(o) = as_events(o.interest)
    BY <1>6, SameReadiness DEF PollReady, Attempt, Polling, OpsOf
  <2>2. /\ ops' = ops \ {o} /\ inner' = inner
        /\ \E spent \in SUBSET as_events(o.interest) :
             level' = [level EXCEPT ![inner[o.async]] = @ \ spent]
    BY <1>6 DEF PollReady, Completed, Consume
  <2>. QED
    BY <1>1, <2>1, <2>2 DEF Io!Next, Io!Complete
<1>7. CASE PollClose(t, o)
  <2>1. o \in ops /\ o.kind = "close" /\ inner[o.async] # None
    BY <1>7 DEF PollClose, Attempt, Polling, OpsOf
  <2>2. /\ ops' = ops \ {o}
        /\ inner' = [inner EXCEPT ![o.async] = None]
        /\ level' = [level EXCEPT ![inner[o.async]] = {}]
    BY <1>7 DEF PollClose, take_inner, Close
  <2>. QED
    BY <1>1, <2>1, <2>2 DEF Io!Next, Io!Close
<1>. QED
  BY <1>2, <1>3, <1>4, <1>5, <1>6, <1>7 DEF Poll

\* What the executor and dispatch() do.
LEMMA ExecutorRefines ==
  ASSUME TypeInv, Structure, AsleepIsQuiet',
         Executor \/ \E t \in Tasks : EndTurn(t) \/ \E u \in Tasks : Wake(t, u)
  PROVE  [Io!Next]_Io!vars
<1> USE DEF TypeInv, TypeOK, EpollTypeOK, AsyncTypeOK, taskVars, asyncVars
<1>1. CASE Asleep = FALSE /\ Asleep' = FALSE /\ UNCHANGED <<level, inner, ops>>
  BY <1>1 DEF Io!vars
<1>2. CASE Asleep' = FALSE /\ ops' = {} /\ UNCHANGED <<level, inner>>
  BY <1>2 DEF Io!Next, Io!Abort
<1>3. ASSUME NEW t \in Tasks, EndTurn(t) \/ Schedule(t) \/ \E u \in Tasks : Wake(t, u)
      PROVE  [Io!Next]_Io!vars
  BY <1>1, <1>3 DEF EndTurn, Suspend, Finish, Schedule, Wake, Running, Asleep
<1>4. CASE PollRegister
  BY <1>1, <1>4 DEF PollRegister, BlockedHasFile, Asleep
<1>5. CASE PollRegisterPanics \/ Return \/ DispatchInterrupted
  BY <1>2, <1>5 DEF PollRegisterPanics, Return, DispatchInterrupted, Panic, Asleep
<1>6. CASE Stall
  <2>1. Asleep' \in BOOLEAN /\ (Asleep' => Io!Quiet')
    BY DEF AsleepIsQuiet
  <2>2. UNCHANGED <<level, inner, ops>>
    BY <1>6 DEF Stall
  <2>3. Io!Quiet' = Io!Quiet
    BY <2>2 DEF Io!Quiet, Io!Ready
  <2>. QED
    BY <2>1, <2>2, <2>3 DEF Io!Next, Io!Rest
<1>7. ASSUME NEW reported \in SUBSET Fds, DispatchWait(reported)
      PROVE  [Io!Next]_Io!vars
  BY <1>1, <1>7 DEF DispatchWait, dispatch_wait, epoll_wait, Asleep
<1>8. ASSUME NEW e \in buffer, DispatchNext(e)
      PROVE  [Io!Next]_Io!vars
  BY <1>1, <1>8 DEF DispatchNext, dispatch_next, Asleep
<1>9. CASE DispatchEnd
  BY <1>1, <1>9 DEF DispatchEnd, dispatch_end, Asleep
<1>10. ASSUME NEW a \in Waiters, Teardown(a)
       PROVE  [Io!Next]_Io!vars
  <2>1. Asleep = FALSE /\ Asleep' = FALSE /\ ops = {} /\ ops' = {}
    BY <1>10 DEF Teardown, TearingDown, Structure, ControlInv, Asleep
  <2>2. /\ inner' = [inner EXCEPT ![a] = None]
        /\ level' = IF inner[a] = None THEN level ELSE [level EXCEPT ![inner[a]] = {}]
    BY <1>10 DEF Teardown, drop, Close
  <2>3. CASE inner[a] = None
    BY <2>1, <2>2, <2>3 DEF Io!vars
  <2>4. CASE inner[a] # None
    BY <2>1, <2>2, <2>4 DEF Io!Next, Io!Unwrap
  <2>. QED
    BY <2>3, <2>4
<1>11. ASSUME NEW a \in Waiters, TeardownPanics(a)
       PROVE  [Io!Next]_Io!vars
  BY <1>1, <1>11 DEF TeardownPanics, TearingDown, Asleep
<1>. QED
  BY <1>3, <1>4, <1>5, <1>6, <1>7, <1>8, <1>9, <1>10, <1>11 DEF Executor

\* What the kernel does: an event that makes an operation ready does not find
\* the thread asleep.
LEMMA KernelRefines ==
  ASSUME TypeInv, AsleepIsQuiet', Kernel
  PROVE  Io!Next
<1>1. Asleep' \in BOOLEAN /\ (Asleep' => Io!Quiet')
  BY DEF AsleepIsQuiet
<1>2. UNCHANGED <<inner, ops>>
  BY DEF Kernel, KernelRaise, KernelRecede, asyncVars, taskVars
<1>3. \E fd \in Fds : \E l \in SUBSET Io!Flags : level' = [level EXCEPT ![fd] = l]
  <2>1. ASSUME NEW fd \in Fds, NEW mask \in Edges, KernelRaise(fd, mask)
        PROVE  \E l \in SUBSET Io!Flags : level' = [level EXCEPT ![fd] = l]
    <3>1. level[fd] \cup mask \in SUBSET Io!Flags
      BY EpollAssumption DEF TypeInv, TypeOK, EpollTypeOK, Readiness, Always, Io!Flags
    <3>. QED
      BY <2>1, <3>1 DEF KernelRaise, Raise
  <2>2. ASSUME NEW fd \in Fds, NEW flag \in Readiness, KernelRecede(fd, flag)
        PROVE  \E l \in SUBSET Io!Flags : level' = [level EXCEPT ![fd] = l]
    <3>1. level[fd] \ {flag} \in SUBSET Io!Flags
      BY DEF TypeInv, TypeOK, EpollTypeOK, Readiness, Always, Io!Flags
    <3>. QED
      BY <2>2, <3>1 DEF KernelRecede, Recede
  <2>. QED
    BY <2>1, <2>2 DEF Kernel
<1>. QED
  BY <1>1, <1>2, <1>3 DEF Io!Next, Io!Environment

\* The crate implements ReadyIo: wakers, registrations and events neither let
\* an operation complete that is not ready nor let the thread sleep while one
\* could proceed.
THEOREM GroundImplementsReadyIo ==
  ASSUME SingleUser, OneWay, HangupIsIO
  PROVE  Spec => ImplementsReadyIo
<1>1. Init => Io!Init
  <2>1. {{}} \cup Edges \subseteq SUBSET Io!Flags
    BY EpollAssumption DEF Io!Flags, Readiness, Always
  <2>. QED
    BY <2>1 DEF Init, EpollInit, AsyncInit, Io!Init, Asleep
<1>2. TypeInv /\ Structure /\ Wakeups /\ StallInv => AsleepIsQuiet
  BY SleepersAreQuiet
<1>3. TypeInv /\ Structure /\ AsleepIsQuiet' /\ [Next]_vars => [Io!Next]_Io!vars
  <2> SUFFICES ASSUME TypeInv, Structure, AsleepIsQuiet', [Next]_vars
               PROVE  [Io!Next]_Io!vars
    OBVIOUS
  <2>1. CASE Terminated \/ UNCHANGED vars
    BY <2>1 DEF Terminated, vars, Io!vars, Asleep, Deliverable, Revents, epollVars,
       dispatchVars, asyncVars, taskVars
  <2>. QED
    BY <2>1, OwnershipRefines, OperationsRefine, ExecutorRefines, KernelRefines
       DEF Next, TaskStep
<1>. QED
  BY <1>1, <1>2, <1>3, TypeInvariant, StructureInvariant, WakeupsInvariant, StallInvariant, PTL
     DEF Spec, ImplementsReadyIo, Io!Spec

-----------------------------------------------------------------------------
\* The crate inside another event loop.  What holds of it under its own
\* executor holds there too: the outer loop decides when the tasks run and
\* when dispatch() is entered, and the invariants are not about that.
OuterInv == TypeInv /\ Structure /\ Wakeups

\* The crate's variables change as they do under the executor, except when
\* the callback enters dispatch() without a stalled pool and when the outer loop
\* ends without a result.
LEMMA OuterSteps == [OuterNext]_outerVars => [Next]_vars \/ Callback \/ Quit
BY DEF OuterNext, outerVars, FindReadable, RunTasks, Dispatch, TearDown, Next, Executor

\* Entering dispatch() and ending the loop change where control is, and the latter
\* drops the operations; both happen only while no task is being polled.
LEMMA OuterStructure ==
  ASSUME TypeInv, Structure, Callback \/ Quit
  PROVE  TypeInv' /\ Structure'
<1> USE DEF Callback, Quit, epollVars, waiterVars, dispatchVars, asyncVars, taskVars
<1>1. TypeInv'
  BY DEF TypeInv, TypeOK, EpollTypeOK, ReactorTypeOK, AsyncTypeOK, BlockedHasFile,
     ReadyListInv, Registered
<1>2. Structure'
  BY DEF TypeInv, Structure, ControlInv, BorrowInv, OwnerInv, PointerInv, RegistrationAgrees,
     Agreement
<1>. QED
  BY <1>1, <1>2

LEMMA OuterStep ==
  ASSUME OuterInv, Callback \/ Quit
  PROVE  OuterInv'
<1>1. TypeInv' /\ Structure'
  BY OuterStructure DEF OuterInv
<1>2. Wakeups'
  BY DEF Callback, Quit, epollVars, waiterVars, dispatchVars, asyncVars, taskVars, OuterInv,
     Wakeups, WakeupsAt, EdgeAt, BlockedAt, ParkedAt, WakerAt, LevelInv, Parked, StillWaiting
<1>. QED
  BY <1>1, <1>2 DEF OuterInv

\* OuterInv holds whenever the outer loop decides what to do next.
THEOREM OuterInvariant ==
  ASSUME SingleUser, HangupIsIO
  PROVE  OuterSpec => []OuterInv
<1>1. OuterInit => OuterInv
  BY TypeInit, StructureInit, WakeupsInit DEF OuterInit, OuterInv
<1>2. OuterInv /\ [OuterNext]_outerVars => OuterInv'
  <2>1. OuterInv /\ [Next]_vars => OuterInv'
    BY TypeStep, StructureStep, WakeupsStep DEF OuterInv
  <2>2. OuterInv /\ (Callback \/ Quit) => OuterInv'
    BY OuterStep
  <2>. QED
    BY <2>1, <2>2, OuterSteps
<1>. QED
  BY <1>1, <1>2, PTL DEF OuterSpec

\* When the tasks it could run have run, no callback is due and the epoll
\* descriptor is not readable, no operation in flight could proceed: the outer
\* loop may go to sleep on the descriptor alone.
THEOREM OuterSleepsIdle ==
  ASSUME SingleUser, OneWay, ClosedWhole, HangupIsIO
  PROVE  OuterSpec => []OuterSleepsOnlyWhenIdle
<1>1. OuterInv /\ Files => OuterSleepsOnlyWhenIdle
  <2> SUFFICES ASSUME OuterInv, Files, phase = "poll", current = None,
                      woken \subseteq done, Deliverable = {}
               PROVE  \A o \in ops : ~Resolvable(o)
    BY DEF OuterSleepsOnlyWhenIdle
  <2>1. blocked = None /\ buffer = {}
    BY DEF OuterInv, TypeInv, BlockedHasFile, Structure, ControlInv
  <2>2. todo = {}
    BY TasksAssumption, GroundAssumption
       DEF OuterInv, TypeInv, TypeOK, Structure, ControlInv
  <2>3. \A o \in ops : inner[o.async] # None
    BY GroundAssumption DEF OuterInv, TypeInv, TypeOK, Files, FilesAt
  <2>. QED
    BY <2>1, <2>2, <2>3, IdleIsQuiet DEF OuterInv, Resolvable
<1>2. OuterInit => Files
  BY DEF OuterInit, Init, Files, FilesAt
<1>3. OuterInv /\ Files /\ [OuterNext]_outerVars => Files'
  <2>1. OuterInv /\ Files /\ [Next]_vars => Files'
    BY FilesStep DEF OuterInv
  <2>2. Files /\ (Callback \/ Quit) => Files'
    BY DEF Callback, Quit, asyncVars, taskVars, Files, FilesAt
  <2>. QED
    BY <2>1, <2>2, OuterSteps
<1>. QED
  BY <1>1, <1>2, <1>3, OuterInvariant, PTL DEF OuterSpec

\* To the pointers in the kernel it does not matter either how late dispatch() is entered
\* after the descriptor was found readable; they need no condition on the program.
THEOREM OuterPointersArePinned == OuterSpec => [](PointersPinned /\ RegistrationAgrees)
<1>1. OuterInit => TypeInv /\ Structure
  BY TypeInit, StructureInit DEF OuterInit
<1>2. TypeInv /\ Structure /\ [OuterNext]_outerVars => (TypeInv /\ Structure)'
  <2>1. TypeInv /\ Structure /\ [Next]_vars => (TypeInv /\ Structure)'
    BY TypeStep, StructureStep
  <2>2. TypeInv /\ Structure /\ (Callback \/ Quit) => (TypeInv /\ Structure)'
    BY OuterStructure
  <2>. QED
    BY <2>1, <2>2, OuterSteps
<1>3. Structure => PointersPinned /\ RegistrationAgrees
  BY DEF Structure, PointerInv, PointersPinned
<1>. QED
  BY <1>1, <1>2, <1>3, PTL DEF OuterSpec
=============================================================================
