----------------------- MODULE InstallationLockProofs -----------------------
(***************************************************************************)
(* Proofs about the installation-root lock, for any number of invocations  *)
(* and recoveries.                                                         *)
(*                                                                         *)
(* The argument: a directory that was renamed away never comes back, an    *)
(* invocation that claimed a directory stays its recorded owner while it    *)
(* lives (only the directory of a dead owner is emptied), so of two         *)
(* claimants at most one has its directory at the lock path and the other   *)
(* was displaced by a recovery.                                            *)
(***************************************************************************)
EXTENDS InstallationLock, TLAPS

\* The invocation has not made its directory yet.
Unmade == {"idle", "mkdir", "inspect", "probe", "bind", "retire", "confirm",
           "drop", "remake"}
\* The recovery has not renamed a directory away yet.
Unretired == {"idle", "mkdir", "inspect", "probe", "bind", "retire"}
Recovering == {"inspect", "probe", "bind", "retire", "confirm", "drop",
               "remake"}
Claimed == {"readback", "held", "unclaim"}

\* A directory nobody made is nowhere.
FreshDirectory ==
  \A p \in Invocations : pc[p] \in Unmade =>
    lockDir # p /\ \A r \in Invocations : retired[r] # p

RecoveringIsRecoverer ==
  \A r \in Invocations : pc[r] \in Recovering => r \in Recoverers

\* A recovery renames at most once, and what it renamed does not come back.
RetiredOnce ==
  \A r \in Invocations :
    /\ pc[r] \in Unretired => retired[r] = NoDir
    /\ pc[r] \in {"confirm", "drop"} => retired[r] # NoDir
    /\ retired[r] # NoDir => lockDir # retired[r]

\* What is emptied belonged to a process that is dead.
ProbedIsDead ==
  \A r \in Invocations :
    /\ pc[r] = "probe" => seen[r] # NoOwner
    /\ pc[r] \in {"bind", "retire", "confirm", "drop"} =>
         seen[r] # NoOwner /\ pc[seen[r]] = "exited"
    /\ pc[r] = "drop" => owner[retired[r]] \in {NoOwner, seen[r]}

\* A claimant is the owner of a directory that is at the lock path, or that a
\* recovery has renamed away.
ClaimantOwns ==
  \A p \in Invocations :
    /\ pc[p] \in {"claim", "rmdir", "retire"} => bound[p] # NoDir
    /\ pc[p] \in Claimed =>
         /\ bound[p] # NoDir
         /\ owner[bound[p]] = p
         /\ lockDir # bound[p] => \E r \in Recoverers : retired[r] = bound[p]

IInv == /\ TypeOK
        /\ FreshDirectory
        /\ RecoveringIsRecoverer
        /\ RetiredOnce
        /\ ProbedIsDead
        /\ ClaimantOwns
-----------------------------------------------------------------------------
LEMMA InitIInv == Init => IInv
BY LockAssumption DEF Init, IInv, TypeOK, PC, FreshDirectory, Unmade,
  RecoveringIsRecoverer, Recovering, RetiredOnce, Unretired, ProbedIsDead,
  ClaimantOwns, Claimed

LEMMA NextIInv == IInv /\ [Next]_vars => IInv'
<1> SUFFICES ASSUME IInv, [Next]_vars PROVE IInv'
  OBVIOUS
<1> USE LockAssumption
        DEF IInv, TypeOK, FreshDirectory, RecoveringIsRecoverer, RetiredOnce,
            ProbedIsDead, ClaimantOwns, Goto, PC, Unmade, Unretired,
            Recovering, Claimed
<1>1. ASSUME NEW p \in Invocations, Start(p) PROVE IInv'
  BY <1>1 DEF Start, OwnerAtPath, processAlive
<1>2. ASSUME NEW p \in Invocations, MakeLockDirectory(p) PROVE IInv'
  BY <1>2 DEF MakeLockDirectory, OwnerAtPath, processAlive
<1>3. ASSUME NEW p \in Invocations, CaptureLockIdentity(p) PROVE IInv'
  BY <1>3 DEF CaptureLockIdentity, OwnerAtPath, processAlive
<1>4. ASSUME NEW p \in Invocations, ClaimOwnership(p) PROVE IInv'
  BY <1>4 DEF ClaimOwnership, OwnerAtPath, processAlive
<1>5. ASSUME NEW p \in Invocations, ReadBackOwner(p) PROVE IInv'
  BY <1>5 DEF ReadBackOwner, OwnerAtPath, processAlive
<1>6. ASSUME NEW p \in Invocations, FinishAction(p) PROVE IInv'
  BY <1>6 DEF FinishAction, OwnerAtPath, processAlive
<1>7. ASSUME NEW p \in Invocations, RemoveOwner(p) PROVE IInv'
  BY <1>7 DEF RemoveOwner, OwnerAtPath, processAlive
<1>8. ASSUME NEW p \in Invocations, RemoveLockDirectory(p) PROVE IInv'
  BY <1>8 DEF RemoveLockDirectory, OwnerAtPath, processAlive
<1>9. ASSUME NEW p \in Invocations, InspectStaleLock(p) PROVE IInv'
  BY <1>9 DEF InspectStaleLock, OwnerAtPath, processAlive
<1>10. ASSUME NEW p \in Invocations, ProbeOwner(p) PROVE IInv'
  BY <1>10 DEF ProbeOwner, OwnerAtPath, processAlive
<1>11. ASSUME NEW p \in Invocations, BindStaleLock(p) PROVE IInv'
  BY <1>11 DEF BindStaleLock, OwnerAtPath, processAlive
<1>12. ASSUME NEW p \in Invocations, RetireLock(p) PROVE IInv'
  <2>1. CASE lockDir # bound[p]
    BY <1>12, <2>1 DEF RetireLock
  <2>2. CASE lockDir = bound[p]
    <3> DEFINE d == bound[p]
    <3>1. /\ d \in Invocations /\ d = lockDir /\ p \in Recoverers
          /\ retired[p] = NoDir
      BY <1>12, <2>2 DEF RetireLock
    <3>2. /\ retired' = [retired EXCEPT ![p] = d]
          /\ lockDir' = NoDir
          /\ pc' = [pc EXCEPT ![p] = "confirm"]
          /\ UNCHANGED <<owner, bound, seen>>
      BY <1>12, <2>2 DEF RetireLock
    <3>3. TypeOK' /\ RecoveringIsRecoverer' /\ ProbedIsDead'
      BY <1>12, <3>1, <3>2 DEF RetireLock
    <3>4. FreshDirectory'
      BY <1>12, <3>1, <3>2 DEF RetireLock
    <3>5. RetiredOnce'
      BY <1>12, <3>1, <3>2 DEF RetireLock
    <3>6. ClaimantOwns'
      BY <1>12, <3>1, <3>2 DEF RetireLock
    <3> QED
      BY <3>3, <3>4, <3>5, <3>6
  <2> QED
    BY <2>1, <2>2
<1>13. ASSUME NEW p \in Invocations, ConfirmOwner(p) PROVE IInv'
  BY <1>13 DEF ConfirmOwner, OwnerAtPath, processAlive
<1>14. ASSUME NEW p \in Invocations, DropRetired(p) PROVE IInv'
  BY <1>14 DEF DropRetired, OwnerAtPath, processAlive
<1>15. ASSUME NEW p \in Invocations, Exit(p) PROVE IInv'
  BY <1>15 DEF Exit, OwnerAtPath, processAlive
<1>16. CASE UNCHANGED vars
  BY <1>16 DEF vars
<1> QED
  BY <1>1, <1>2, <1>3, <1>4, <1>5, <1>6, <1>7, <1>8, <1>9, <1>10, <1>11, <1>12, <1>13, <1>14, <1>15, <1>16 DEF Next, Step
-----------------------------------------------------------------------------
LEMMA InductiveInvariant == Spec => []IInv
<1> QED
  BY InitIInv, NextIInv, PTL DEF Spec

(***************************************************************************)
(* The state of every invocation of withInstallationRootLock, and of the   *)
(* lock directory, keeps its type.                                         *)
(***************************************************************************)
THEOREM TypeCorrect == Spec => []TypeOK
<1>1. IInv => TypeOK
  BY DEF IInv
<1> QED
  BY <1>1, InductiveInvariant, PTL

(***************************************************************************)
(* The owner file of a running holder is never removed or replaced: the    *)
(* probe, the identity-bound rename and the byte comparison of             *)
(* reclaimStaleLock only let it empty a directory whose owner has exited.   *)
(***************************************************************************)
THEOREM EvidenceIsKept == Spec => []HolderKeepsEvidence
<1>1. IInv => HolderKeepsEvidence
  BY DEF IInv, ClaimantOwns, Claimed, HolderKeepsEvidence, Held
<1> QED
  BY <1>1, InductiveInvariant, PTL

(***************************************************************************)
(* Two invocations run their protected actions at once only if a recovery  *)
(* renamed the lock directory of one of them away: the exclusive mkdir, the *)
(* exclusive create of owner.json and the identity-bound cleanup lose       *)
(* exclusion in no other way, whichever processes die in between.           *)
(***************************************************************************)
THEOREM OnlyRetiringOverlaps == Spec => []OverlapOnlyByRetiring
<1>1. IInv => OverlapOnlyByRetiring
  <2> SUFFICES ASSUME IInv, NEW p \in Invocations, NEW q \in Invocations,
                      Held(p), Held(q), p # q
               PROVE  \E r \in Recoverers : retired[r] \in {bound[p], bound[q]}
    BY DEF OverlapOnlyByRetiring
  <2>1. bound[p] # bound[q]
    BY DEF IInv, ClaimantOwns, Claimed, Held
  <2>2. CASE lockDir # bound[p]
    BY <2>2 DEF IInv, ClaimantOwns, Claimed, Held
  <2>3. CASE lockDir # bound[q]
    BY <2>3 DEF IInv, ClaimantOwns, Claimed, Held
  <2> QED
    BY <2>1, <2>2, <2>3
<1> QED
  BY <1>1, InductiveInvariant, PTL
-----------------------------------------------------------------------------
(***************************************************************************)
(* Without a recovery the lock is exclusive.  The invocation that made the  *)
(* directory at the lock path is the only one past the mkdir, and what it   *)
(* bound is its own directory.                                             *)
(***************************************************************************)
Inside == {"capture", "claim", "readback", "held", "unclaim", "rmdir"}

MakerIsInside ==
  \A p \in Invocations :
    /\ pc[p] \in Inside => lockDir = p
    /\ pc[p] \in Inside \ {"capture"} => bound[p] = p

NoRecovery == Recoverers = {}

LEMMA NextMakerIsInside ==
  ASSUME NoRecovery
  PROVE  IInv /\ MakerIsInside /\ [Next]_vars => MakerIsInside'
<1> SUFFICES ASSUME IInv, MakerIsInside, [Next]_vars PROVE MakerIsInside'
  OBVIOUS
<1> USE LockAssumption, NoRecovery
        DEF IInv, TypeOK, PC, MakerIsInside, Inside, Goto, NoRecovery
<1>1. ASSUME NEW p \in Invocations, MakeLockDirectory(p) PROVE MakerIsInside'
  BY <1>1 DEF MakeLockDirectory
<1>2. ASSUME NEW p \in Invocations, CaptureLockIdentity(p)
      PROVE  MakerIsInside'
  BY <1>2 DEF CaptureLockIdentity
<1>3. ASSUME NEW p \in Invocations, RemoveLockDirectory(p)
      PROVE  MakerIsInside'
  BY <1>3 DEF RemoveLockDirectory
<1>4. ASSUME NEW p \in Invocations,
             \/ Start(p) \/ ClaimOwnership(p) \/ ReadBackOwner(p)
             \/ FinishAction(p) \/ RemoveOwner(p) \/ Exit(p)
      PROVE  MakerIsInside'
  BY <1>4 DEF Start, ClaimOwnership, ReadBackOwner, FinishAction, RemoveOwner,
              Exit
<1>5. ASSUME NEW p \in Invocations
      PROVE  ~ \/ InspectStaleLock(p) \/ ProbeOwner(p) \/ BindStaleLock(p)
               \/ RetireLock(p) \/ ConfirmOwner(p) \/ DropRetired(p)
  BY DEF RecoveringIsRecoverer, Recovering, InspectStaleLock, ProbeOwner,
         BindStaleLock, RetireLock, ConfirmOwner, DropRetired
<1>6. CASE UNCHANGED vars
  BY <1>6 DEF vars
<1> QED
  BY <1>1, <1>2, <1>3, <1>4, <1>5, <1>6 DEF Next, Step

LEMMA AlwaysMakerIsInside ==
  ASSUME NoRecovery
  PROVE  Spec => [](IInv /\ MakerIsInside)
<1>1. Init => MakerIsInside
  BY DEF Init, MakerIsInside, Inside
<1>2. IInv /\ MakerIsInside /\ [Next]_vars => MakerIsInside'
  BY NextMakerIsInside
<1> QED
  BY <1>1, <1>2, InitIInv, NextIInv, PTL DEF Spec

(***************************************************************************)
(* Any number of installs, updates and uninstalls, with processes killed   *)
(* at any point, never run their protected actions at once.                *)
(***************************************************************************)
THEOREM MutatorsExclude ==
  ASSUME NoRecovery
  PROVE  Spec => []MutualExclusion
<1>1. MakerIsInside => MutualExclusion
  BY DEF MakerIsInside, Inside, MutualExclusion, Held
<1> QED
  BY <1>1, AlwaysMakerIsInside, PTL

(***************************************************************************)
(* Without a recovery, mkdir, captureIdentity, the owner file and the      *)
(* cleanup of withInstallationRootLock implement an exclusive lock that     *)
(* only its holder gives up: the lock directory of a process that died      *)
(* stays where it is.                                                      *)
(***************************************************************************)
THEOREM MutatorsImplementRootLock ==
  ASSUME NoRecovery
  PROVE  Spec => ImplementsRootLock
<1>1. Init => Abstract!Init
  BY DEF Init, Abstract!Init
<1>2. IInv /\ MakerIsInside /\ [Next]_vars
        => [Abstract!Next]_<<lockDir, {p \in Invocations : pc[p] = "exited"}>>
  <2> DEFINE gone == {p \in Invocations : pc[p] = "exited"}
  <2> SUFFICES ASSUME IInv, MakerIsInside, [Next]_vars
               PROVE  [Abstract!Next]_<<lockDir, gone>>
    OBVIOUS
  <2> USE LockAssumption, NoRecovery
          DEF IInv, TypeOK, PC, MakerIsInside, Inside, Goto, NoRecovery
  <2>1. ASSUME NEW p \in Invocations, MakeLockDirectory(p)
        PROVE  Abstract!Acquire(p) \/ UNCHANGED <<lockDir, gone>>
    <3>1. gone' = gone /\ p \notin gone
      BY <2>1 DEF MakeLockDirectory
    <3> HIDE DEF gone
    <3> QED
      BY <2>1, <3>1 DEF MakeLockDirectory, Abstract!Acquire, gone
  <2>2. ASSUME NEW p \in Invocations, RemoveLockDirectory(p)
        PROVE  Abstract!Release(p) \/ UNCHANGED <<lockDir, gone>>
    <3>1. gone' = gone /\ p \notin gone /\ lockDir = p
      BY <2>2 DEF RemoveLockDirectory
    <3>2. lockDir' \in {NoDir, lockDir}
      BY <2>2 DEF RemoveLockDirectory
    <3> QED
      BY <3>1, <3>2 DEF Abstract!Release
  <2>3. ASSUME NEW p \in Invocations, Exit(p) PROVE Abstract!Exit(p)
    <3>1. gone' = gone \cup {p} /\ p \notin gone /\ lockDir' = lockDir
      BY <2>3 DEF Exit
    <3> QED
      BY <3>1 DEF Abstract!Exit
  <2>4. ASSUME NEW p \in Invocations,
               \/ Start(p) \/ CaptureLockIdentity(p) \/ ClaimOwnership(p)
               \/ ReadBackOwner(p) \/ FinishAction(p) \/ RemoveOwner(p)
        PROVE  UNCHANGED <<lockDir, gone>>
    BY <2>4 DEF Start, CaptureLockIdentity, ClaimOwnership, ReadBackOwner,
                FinishAction, RemoveOwner
  <2>5. ASSUME NEW p \in Invocations
        PROVE  ~ \/ InspectStaleLock(p) \/ ProbeOwner(p) \/ BindStaleLock(p)
                 \/ RetireLock(p) \/ ConfirmOwner(p) \/ DropRetired(p)
    BY DEF RecoveringIsRecoverer, Recovering, InspectStaleLock, ProbeOwner,
           BindStaleLock, RetireLock, ConfirmOwner, DropRetired
  <2>6. CASE UNCHANGED vars
    BY <2>6 DEF vars
  <2> QED
    BY <2>1, <2>2, <2>3, <2>4, <2>5, <2>6 DEF Next, Step, Abstract!Next
<1> QED
  BY <1>1, <1>2, AlwaysMakerIsInside, PTL
     DEF Spec, ImplementsRootLock, Abstract!Spec
=============================================================================
