---------------------------- MODULE AtomicBinding ----------------------------
(***************************************************************************)
(* What the installer promises for each binding: the installed version     *)
(* changes atomically.  While a change is under way the binding may be in   *)
(* two versions, the one before and the one after; it ends in one of the    *)
(* two, whoever finishes it, and no other change starts in between.         *)
(***************************************************************************)
CONSTANTS Bindings,
          Installed,  \* the versions, and Nothing
          Nothing     \* no version is installed

VARIABLE outcomes   \* the versions each binding may end up with

Init == outcomes = [b \in Bindings |-> {Nothing}]

Begin(b) == \E v, w \in Installed :
              /\ outcomes[b] = {v}
              /\ v # w
              /\ outcomes' = [outcomes EXCEPT ![b] = {v, w}]

Settle(b) == \E v \in outcomes[b] :
               /\ outcomes[b] # {v}
               /\ outcomes' = [outcomes EXCEPT ![b] = {v}]

Next == \E b \in Bindings : Begin(b) \/ Settle(b)

Spec == Init /\ [][Next]_outcomes
=============================================================================
