----------------------------- MODULE EffectLedger -----------------------------
(***************************************************************************)
(* What a record of external effects promises: an effect happens at most    *)
(* once, only while the record calls its outcome unknown, and the record    *)
(* never contradicts the world.  Power failures may take a record back.     *)
(***************************************************************************)
EXTENDS Naturals

CONSTANTS Ops    \* the operations with an external effect

VARIABLES
  recorded,      \* what a reader is told of each operation
  happened       \* how often its effect has happened

Outcomes == {"none", "PREPARED", "UNKNOWN", "COMMITTED", "NOT_APPLIED"}

Init == /\ recorded = [op \in Ops |-> "none"]
        /\ happened = [op \in Ops |-> 0]

Truthful(outcome, count) ==
  /\ outcome = "COMMITTED" => count = 1
  /\ outcome \in {"none", "PREPARED", "NOT_APPLIED"} => count = 0

\* A committed outcome is final, but it may have to be read back again.
Record ==
  /\ recorded' \in [Ops -> Outcomes]
  /\ \A op \in Ops :
       /\ Truthful(recorded'[op], happened[op])
       /\ recorded[op] = "COMMITTED" => recorded'[op] \in {"COMMITTED", "UNKNOWN"}
  /\ UNCHANGED happened

Happen(op) ==
  /\ recorded[op] = "UNKNOWN"
  /\ happened[op] = 0
  /\ happened' = [happened EXCEPT ![op] = 1]
  /\ UNCHANGED recorded

Next == Record \/ \E op \in Ops : Happen(op)

Spec == Init /\ [][Next]_<<recorded, happened>>
=============================================================================
