----------------------------- MODULE PinGetMut -----------------------------
(***************************************************************************)
(* Ground with programs that assign through the reference they get from    *)
(* get_mut() and pin_get_mut(), as std::mem::replace() does.               *)
(***************************************************************************)
EXTENDS Ground

\* The wrapped file is replaced by another one, and the old one is kept.
Replace(t, a, fd) ==
    /\ Running(t)
    /\ a \in live /\ OpsOn(a) = {} /\ inner[a] # None
    /\ Unwrapped(fd)
    /\ inner' = [inner EXCEPT ![a] = fd]
    /\ UNCHANGED <<level, epollVars, waiterVars, dispatchVars, woken, live, pinned,
                   taskVars, phase, failure>>

ReplaceSpec ==
    Init /\ [][Next \/ \E t \in Tasks, a \in Waiters, fd \in Fds : Replace(t, a, fd)]_vars
=============================================================================
