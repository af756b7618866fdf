------------------------------ MODULE RootLock ------------------------------
(***************************************************************************)
(* What the installation-root lock promises: at most one invocation holds  *)
(* the installation root, only the holder gives it up, and a holder whose  *)
(* process has exited may be displaced by a recovery.                      *)
(***************************************************************************)
CONSTANTS Invocations,  \* processes
          Recoverers,   \* those that may displace a holder that has exited
          NoHolder      \* the root is not locked

VARIABLES holder,   \* the invocation the root is locked for, or NoHolder
          exited    \* invocations whose process no longer exists

Init == holder = NoHolder /\ exited = {}

Acquire(p) == /\ holder = NoHolder
              /\ p \notin exited
              /\ holder' = p
              /\ UNCHANGED exited

Release(p) == /\ holder = p
              /\ p \notin exited
              /\ holder' = NoHolder
              /\ UNCHANGED exited

\* A process ends, or dies, with or without the lock.
Exit(p) == /\ p \notin exited
           /\ exited' = exited \cup {p}
           /\ UNCHANGED holder

\* A recovery retires the lock of a process that no longer exists.
Retire(r) == /\ r \in Recoverers \ exited
             /\ holder \in exited
             /\ holder' = NoHolder
             /\ UNCHANGED exited

Next == \E p \in Invocations : Acquire(p) \/ Release(p) \/ Exit(p) \/ Retire(p)

Spec == Init /\ [][Next]_<<holder, exited>>
=============================================================================
