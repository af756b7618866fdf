-------------------------- MODULE InstallationLock --------------------------
(***************************************************************************)
(* The installation-root transaction lock, src/src/installer/locking.ts.    *)
(*                                                                         *)
(* The lock is a directory `.transaction.lock` made with an exclusive mkdir *)
(* and an `owner.json` inside it that names the owning process.  Install,   *)
(* update and uninstall give up when the directory exists.  Rollback (the   *)
(* Recoverers) may retire a lock whose owner process no longer exists:      *)
(* it reads the owner, probes the process, renames the directory away,      *)
(* checks the owner file again and deletes it.                              *)
(*                                                                         *)
(* A lock directory is named by the invocation that made it (each makes at  *)
(* most one), which is its inode.  Every step below is one system call on   *)
(* the shared directory; a process may die between any two of them.         *)
(***************************************************************************)
CONSTANTS Invocations,  \* invocations of the installer, one process each
          Recoverers,   \* the rollback invocations (allowStaleRecovery)
          NoDir,        \* no lock directory at the lock path
          NoOwner       \* no owner.json in the directory

ASSUME LockAssumption ==
  /\ Recoverers \subseteq Invocations
  /\ NoDir \notin Invocations
  /\ NoOwner \notin Invocations

VARIABLES
  pc,       \* control state of each invocation
  lockDir,  \* the directory at `.transaction.lock`
  owner,    \* the process named by owner.json of each directory
  bound,    \* the directory identity an invocation captured by path
  seen,     \* the owner a recovering invocation read and probed
  retired   \* the directory a recovering invocation renamed away

vars == <<pc, lockDir, owner, bound, seen, retired>>

PC == {"idle", "mkdir", "capture", "claim", "readback", "held", "unclaim",
       "rmdir", "inspect", "probe", "bind", "retire", "confirm", "drop",
       "remake", "ending", "exited"}

TypeOK ==
  /\ pc \in [Invocations -> PC]
  /\ lockDir \in Invocations \cup {NoDir}
  /\ owner \in [Invocations -> Invocations \cup {NoOwner}]
  /\ bound \in [Invocations -> Invocations \cup {NoDir}]
  /\ seen \in [Invocations -> Invocations \cup {NoOwner}]
  /\ retired \in [Invocations -> Invocations \cup {NoDir}]

Init ==
  /\ pc = [p \in Invocations |-> "idle"]
  /\ lockDir = NoDir
  /\ owner = [p \in Invocations |-> NoOwner]
  /\ bound = [p \in Invocations |-> NoDir]
  /\ seen = [p \in Invocations |-> NoOwner]
  /\ retired = [p \in Invocations |-> NoDir]

Goto(p, l) == pc' = [pc EXCEPT ![p] = l]

\* process.kill(pid, 0): the process exists until it has exited or died.
processAlive(p) == pc[p] # "exited"

\* The owner file that a path lookup through `.transaction.lock` finds.
OwnerAtPath == IF lockDir = NoDir THEN NoOwner ELSE owner[lockDir]
-----------------------------------------------------------------------------
Start(p) == /\ pc[p] = "idle"
            /\ Goto(p, "mkdir")
            /\ UNCHANGED <<lockDir, owner, bound, seen, retired>>

\* Mutant: an existing lock directory is replaced.
MakeLockDirectoryForce(p) ==
  /\ pc[p] \in {"mkdir", "remake"}
  /\ lockDir' = p
  /\ Goto(p, "capture")
  /\ UNCHANGED <<owner, bound, seen, retired>>

\* Mutant: an invocation that finds the lock taken tidies the lock path.
MakeLockDirectoryTidy(p) ==
  /\ pc[p] \in {"mkdir", "remake"}
  /\ IF lockDir = NoDir
     THEN lockDir' = p /\ Goto(p, "capture")
     ELSE lockDir' = NoDir /\ Goto(p, "ending")
  /\ UNCHANGED <<owner, bound, seen, retired>>

\* The exclusive mkdir.  EEXIST ends a mutation; a first EEXIST sends a
\* recovery to reclaimStaleLock, a second one ends it as well.
MakeLockDirectory(p) ==
  /\ pc[p] \in {"mkdir", "remake"}
  /\ \/ /\ lockDir = NoDir
        /\ lockDir' = p
        /\ Goto(p, "capture")
     \/ /\ lockDir # NoDir
        /\ Goto(p, IF pc[p] = "mkdir" /\ p \in Recoverers THEN "inspect"
                                                          ELSE "ending")
        /\ UNCHANGED lockDir
  /\ UNCHANGED <<owner, bound, seen, retired>>

\* captureIdentity(lockPath): whatever directory the path names now.
CaptureLockIdentity(p) ==
  /\ pc[p] = "capture"
  /\ bound' = [bound EXCEPT ![p] = lockDir]
  /\ Goto(p, IF lockDir = NoDir THEN "ending" ELSE "claim")
  /\ UNCHANGED <<lockDir, owner, seen, retired>>

\* Exclusive create of owner.json in the directory whose identity is bound.
ClaimOwnership(p) ==
  /\ pc[p] = "claim"
  /\ \/ /\ lockDir = bound[p]
        /\ owner[lockDir] = NoOwner
        /\ owner' = [owner EXCEPT ![lockDir] = p]
        /\ Goto(p, "readback")
     \/ /\ lockDir # bound[p] \/ owner[bound[p]] # NoOwner
        /\ Goto(p, "ending")
        /\ UNCHANGED owner
  /\ UNCHANGED <<lockDir, bound, seen, retired>>

\* The readback goes through the path again; a mismatch ends the invocation
\* without cleanup.
ReadBackOwner(p) ==
  /\ pc[p] = "readback"
  /\ Goto(p, IF OwnerAtPath = p THEN "held" ELSE "ending")
  /\ UNCHANGED <<lockDir, owner, bound, seen, retired>>

\* The protected action is over, well or badly; cleanup follows either way.
FinishAction(p) ==
  /\ pc[p] = "held"
  /\ Goto(p, "unclaim")
  /\ UNCHANGED <<lockDir, owner, bound, seen, retired>>

\* Cleanup, first half: remove owner.json if the bound directory is still at
\* the lock path and still names this process.
RemoveOwner(p) ==
  /\ pc[p] = "unclaim"
  /\ \/ /\ lockDir = bound[p]
        /\ owner[lockDir] = p
        /\ owner' = [owner EXCEPT ![lockDir] = NoOwner]
        /\ Goto(p, "rmdir")
     \/ /\ lockDir # bound[p] \/ owner[bound[p]] # p
        /\ Goto(p, "ending")
        /\ UNCHANGED owner
  /\ UNCHANGED <<lockDir, bound, seen, retired>>

\* Cleanup, second half: remove the empty directory under its identity.
RemoveLockDirectory(p) ==
  /\ pc[p] = "rmdir"
  /\ lockDir' = IF lockDir = bound[p] /\ owner[lockDir] = NoOwner
                THEN NoDir ELSE lockDir
  /\ Goto(p, "ending")
  /\ UNCHANGED <<owner, bound, seen, retired>>
-----------------------------------------------------------------------------
\* reclaimStaleLock reads owner.json, the only entry the directory may have.
InspectStaleLock(r) ==
  /\ pc[r] = "inspect"
  /\ seen' = [seen EXCEPT ![r] = OwnerAtPath]
  /\ Goto(r, IF OwnerAtPath = NoOwner THEN "ending" ELSE "probe")
  /\ UNCHANGED <<lockDir, owner, bound, retired>>

\* Mutant: the probe is read the wrong way round.
ProbeOwnerInverted(r) ==
  /\ pc[r] = "probe"
  /\ Goto(r, IF processAlive(seen[r]) THEN "bind" ELSE "ending")
  /\ UNCHANGED <<lockDir, owner, bound, seen, retired>>

ProbeOwner(r) ==
  /\ pc[r] = "probe"
  /\ Goto(r, IF processAlive(seen[r]) THEN "ending" ELSE "bind")
  /\ UNCHANGED <<lockDir, owner, bound, seen, retired>>

\* captureIdentity(lockPath), after the probe.
BindStaleLock(r) ==
  /\ pc[r] = "bind"
  /\ bound' = [bound EXCEPT ![r] = lockDir]
  /\ Goto(r, IF lockDir = NoDir THEN "ending" ELSE "retire")
  /\ UNCHANGED <<lockDir, owner, seen, retired>>

\* Rename to `.transaction.lock.stale-<uuid>` under the bound identity.
RetireLock(r) ==
  /\ pc[r] = "retire"
  /\ \/ /\ lockDir = bound[r]
        /\ retired' = [retired EXCEPT ![r] = lockDir]
        /\ lockDir' = NoDir
        /\ Goto(r, "confirm")
     \/ /\ lockDir # bound[r]
        /\ Goto(r, "ending")
        /\ UNCHANGED <<lockDir, retired>>
  /\ UNCHANGED <<owner, bound, seen>>

\* Mutant: the retired directory is not looked at again.
ConfirmNothing(r) ==
  /\ pc[r] = "confirm"
  /\ Goto(r, "drop")
  /\ UNCHANGED <<lockDir, owner, bound, seen, retired>>

\* The retired directory must still name the probed owner.
ConfirmOwner(r) ==
  /\ pc[r] = "confirm"
  /\ Goto(r, IF owner[retired[r]] = seen[r] THEN "drop" ELSE "ending")
  /\ UNCHANGED <<lockDir, owner, bound, seen, retired>>

\* Remove owner.json and the retired directory, then make the lock anew.
DropRetired(r) ==
  /\ pc[r] = "drop"
  /\ owner' = [owner EXCEPT ![retired[r]] = NoOwner]
  /\ Goto(r, "remake")
  /\ UNCHANGED <<lockDir, bound, seen, retired>>

\* The process ends: at the end of its run, or killed at any other point.
Exit(p) ==
  /\ pc[p] \notin {"idle", "exited"}
  /\ Goto(p, "exited")
  /\ UNCHANGED <<lockDir, owner, bound, seen, retired>>

\* What the code of one invocation does by itself.
Step(p) ==
  \/ MakeLockDirectory(p) \/ CaptureLockIdentity(p) \/ ClaimOwnership(p)
  \/ ReadBackOwner(p) \/ FinishAction(p) \/ RemoveOwner(p)
  \/ RemoveLockDirectory(p) \/ InspectStaleLock(p) \/ ProbeOwner(p)
  \/ BindStaleLock(p) \/ RetireLock(p) \/ ConfirmOwner(p) \/ DropRetired(p)

Next == \E p \in Invocations : Start(p) \/ Step(p) \/ Exit(p)

Spec == Init /\ [][Next]_vars

\* A process that is not killed runs to its end.
FairSpec == Spec /\ \A p \in Invocations : WF_vars(Step(p))
-----------------------------------------------------------------------------
\* The invocation runs its protected action.
Held(p) == pc[p] = "held"

(***************************************************************************)
(* docs/installer-threat-model.md:89 promises that the lock prevents        *)
(* overlapping mutations of the shared state: no two invocations run their  *)
(* protected actions at once.                                              *)
(***************************************************************************)
MutualExclusion == \A p, q \in Invocations : Held(p) /\ Held(q) => p = q

(***************************************************************************)
(* The only way to lose exclusion is a recovery that renamed away the       *)
(* directory of one of the two holders: without such a rename two           *)
(* invocations never overlap, whatever dies in between.                     *)
(***************************************************************************)
OverlapOnlyByRetiring ==
  \A p, q \in Invocations :
    Held(p) /\ Held(q) /\ p # q =>
      \E r \in Recoverers : retired[r] \in {bound[p], bound[q]}

(***************************************************************************)
(* The evidence of a running holder is never destroyed: as long as an       *)
(* invocation holds the lock, the directory it bound names it, even after   *)
(* a recovery moved that directory away.  This is what the byte comparison  *)
(* after the rename is for.                                                *)
(***************************************************************************)
HolderKeepsEvidence == \A p \in Invocations : Held(p) => owner[bound[p]] = p

(***************************************************************************)
(* A lock left with complete owner evidence of a dead process does not      *)
(* outlive a recovery: a rollback that inspects it either fails or dies, or *)
(* the lock path no longer names that directory.                            *)
(***************************************************************************)
StaleLockIsRetired ==
  \A r \in Recoverers, d \in Invocations :
    (pc[r] = "inspect" /\ lockDir = d /\ owner[d] # NoOwner
       /\ pc[owner[d]] = "exited")
      ~> (lockDir # d \/ pc[r] = "exited")
-----------------------------------------------------------------------------
\* The directory at the lock path stands for the invocation that made it.
Abstract == INSTANCE RootLock WITH
              NoHolder <- NoDir,
              holder   <- lockDir,
              exited   <- {p \in Invocations : pc[p] = "exited"}

\* The directory protocol implements the lock it stands for.
ImplementsRootLock == Abstract!Spec
=============================================================================
