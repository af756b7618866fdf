--------------------- MODULE InstallerTransactionProofs ---------------------
(***************************************************************************)
(* What is proved of the installer transaction, for any number of          *)
(* invocations, bindings, versions, deaths, faults and saves, and for      *)
(* every mix of install, update, uninstall and rollback requests.          *)
(*                                                                         *)
(* First the receipts.  Only the holder of the root lock writes receipts,  *)
(* a transaction's own receipt is published under an id nobody has used,   *)
(* and at each place in the code the two copies have a known pair of       *)
(* statuses. The invariant has one part for each process, which its own    *)
(* steps and those of the others preserve, and one for the receipts on     *)
(* disk.                                                                   *)
(*                                                                         *)
(* Then the files.  Without further assumptions: a text the user has saved *)
(* is never lost.  When the user does not save while the installer works   *)
(* and either nobody rolls back or one invocation runs at a time: the      *)
(* version of a binding changes atomically, and files that disagree have a *)
(* receipt.  There the holder of the lock knows at every place in the code *)
(* which image of its transaction each file is.  Whoever begins to change  *)
(* a binding has found its files in agreement, and a receipt is only       *)
(* closed or replaced when they agree again.                               *)
(***************************************************************************)
EXTENDS InstallerTransaction, FiniteSetTheorems, TLAPS

\* The receipt of this invocation has not been published yet.
Unpublished == {"idle", "inspectEntry", "inspectCurrent", "resolve",
                "readReceipt", "lock", "prepare", "backupReceipt",
                "topReceipt"}

\* A mutation whose receipt is published and whose change is under way.
Pending == {"precheck", "abortBackup", "apply", "writeRules", "writeCurrent",
            "checkActivation", "writeEntry", "readback", "removeCurrent",
            "verify", "commitTop"}
Published == Pending \cup {"abortTop", "commitBackup", "finalCheck",
                           "demoteBackup", "demoteTop"}
Recording == {"backupReceipt", "topReceipt"}

\* A restore that has validated the receipt.
Restoring == {"restoreEntry", "detach", "recreate", "confirm", "putBack",
              "restoreCurrent", "restoreRules", "restoreFinal",
              "rolledBackup", "rolledTop"}

IsRollback(p) == req[p].op = "rollback"

\* What a process knows and may do depends on where it is.
LockHeld(p) == pc[p] \in Locked => lock = p

Started(p) == pc[p] \notin {"idle"} \cup Ended => req[p] \in Requests

\* Only a mutation inspects, only a rollback reads the receipt first.
TakesOwnPath(p) ==
  /\ pc[p] \in {"inspectEntry", "inspectCurrent", "resolve"} => ~IsRollback(p)
  /\ pc[p] = "readReceipt" => IsRollback(p)

\* A mutation never starts from a half-written entry.
ContextIsWhole(p) ==
  pc[p] \in {"lock", "prepare"} /\ ~IsRollback(p) => work[p].entry # Torn

\* The steps of a mutation are taken by mutations, on their own transaction.
WorksOnOwn(p) ==
  /\ pc[p] = "prepare" => ~IsRollback(p)
  /\ pc[p] \in Recording \cup Published =>
       /\ ~IsRollback(p)
       /\ work[p].id = p
       /\ txn[p] # Absent
       /\ txn[p].binding = Binding(p)

\* A restore works on a recorded transaction.
WorksOnRecorded(p) ==
  (pc[p] = "lock" /\ IsRollback(p)) \/ pc[p] \in {"restore"} \cup Restoring =>
    work[p].id # Absent /\ txn[work[p].id] # Absent

\* The invocation works on the published receipt of its binding.
OnReceipt(p) == HasReceipt(Binding(p)) /\ top[Binding(p)].id = work[p].id

WorksOnReceipt(p) ==
  /\ pc[p] \in Published \cup Restoring => OnReceipt(p)
  /\ pc[p] = "restore" /\ ~IsRollback(p) => OnReceipt(p)

\* The statuses of the two copies at each place in the code.
CopiesAre(p, status, copy) ==
  top[Binding(p)].status = status /\ backup[p] = copy

CopiesFollowCode(p) ==
  /\ pc[p] = "topReceipt" => backup[p] = "PREPARED"
  /\ pc[p] \in Pending => CopiesAre(p, "PREPARED", "PREPARED")
  /\ pc[p] = "abortTop" => CopiesAre(p, "PREPARED", "ROLLED_BACK")
  /\ pc[p] = "commitBackup" => CopiesAre(p, "COMMITTED", "PREPARED")
  /\ pc[p] \in {"finalCheck", "demoteBackup"} =>
       CopiesAre(p, "COMMITTED", "COMMITTED")
  /\ pc[p] = "demoteTop" => CopiesAre(p, "COMMITTED", "PREPARED")
  /\ pc[p] = "rolledTop" => backup[work[p].id] = "ROLLED_BACK"

Knows(p) == /\ LockHeld(p)
            /\ Started(p)
            /\ TakesOwnPath(p)
            /\ ContextIsWhole(p)
            /\ WorksOnOwn(p)
            /\ WorksOnRecorded(p)
            /\ WorksOnReceipt(p)
            /\ CopiesFollowCode(p)

\* The receipts on disk.
UnpublishedIsNowhere ==
  \A p \in Invocations, b \in Bindings :
    pc[p] \in Unpublished /\ HasReceipt(b) => top[b].id # p

\* A receipt belongs to one binding and its transaction is recorded.
ReceiptIsRecorded ==
  \A b \in Bindings :
    HasReceipt(b) => txn[top[b].id] # Absent /\ txn[top[b].id].binding = b

IInv == /\ TypeOK
        /\ \A p \in Invocations : Knows(p)
        /\ UnpublishedIsNowhere
        /\ ReceiptIsRecorded
        /\ ReceiptsRecoverable
-----------------------------------------------------------------------------

\* A step of the process p.
Moves(p) == \/ Start(p) \/ Step(p) \/ Interrupt(p)
            \/ Crash(p) \/ CrashDuringCreate(p)

\* What the request of a running invocation asks for.
LEMMA RequestType ==
  ASSUME NEW p \in Invocations, Knows(p), pc[p] \notin {"idle"} \cup Ended
  PROVE  /\ req[p] \in Requests
         /\ Binding(p) \in Bindings
         /\ req[p].op \in Ops
         /\ req[p].release \in Versions
         /\ req[p].rules \in Rules
BY TransactionAssumption DEF Knows, Started, Binding

\* A mutation knows its own transaction.
LEMMA OwnTxnType ==
  ASSUME TypeOK, NEW p \in Invocations, Knows(p),
         pc[p] \in Recording \cup Published
  PROVE  /\ txn[p] \in Txns
         /\ txn[p].binding = Binding(p)
         /\ Binding(p) \in Bindings
         /\ work[p].id = p
         /\ req[p] \in Requests
<1>1. pc[p] \notin {"idle"} \cup Ended
  BY DEF Recording, Published, Pending, Ended
<1> QED
  BY <1>1, RequestType DEF TypeOK, Knows, WorksOnOwn

\* A restore knows the transaction it restores.
LEMMA RestoredTxnType ==
  ASSUME TypeOK, NEW p \in Invocations, Knows(p),
         pc[p] \in {"restore"} \cup Restoring
  PROVE  /\ work[p].id \in Invocations
         /\ txn[work[p].id] \in Txns
         /\ Binding(p) \in Bindings
         /\ req[p] \in Requests
<1>1. pc[p] \notin {"idle"} \cup Ended
  BY DEF Restoring, Ended
<1> QED
  BY <1>1, RequestType DEF TypeOK, Knows, WorksOnRecorded, Works

\* What a published receipt is.
LEMMA ReceiptType ==
  ASSUME TypeOK, NEW b \in Bindings, HasReceipt(b)
  PROVE  /\ top[b] \in [id : Invocations, status : Status]
         /\ top[b].id \in Invocations
BY DEF TypeOK, HasReceipt

\* A rewritten status leaves a receipt a receipt of the same transaction.
LEMMA StatusRewritten ==
  ASSUME NEW r \in [id : Invocations, status : Status], NEW s \in Status
  PROVE  /\ [r EXCEPT !.status = s] \in [id : Invocations, status : Status]
         /\ [r EXCEPT !.status = s].id = r.id
         /\ [r EXCEPT !.status = s].status = s
         /\ [r EXCEPT !.status = s] \notin {Absent, Torn}
         /\ \A i \in Invocations : [id |-> i, status |-> s] \notin {Absent, Torn}
<1>1. [r EXCEPT !.status = s] \in [id : Invocations, status : Status]
  OBVIOUS
<1>2. \A i \in Invocations :
        [id |-> i, status |-> s] \in [id : Invocations, status : Status]
  OBVIOUS
<1> QED
  BY <1>1, <1>2, TransactionAssumption

\* The operations on the managed block produce entries.
LEMMA BlockOperations ==
  ASSUME NEW e \in Entries \cup {Absent, Torn}
  PROVE  /\ Text(e) \in Texts
         /\ Block(e) \in Installed
         /\ removeManagedBlock(e) \in Entries
         /\ \A v \in Versions : installManagedBlock(e, v) \in Entries
BY TransactionAssumption
   DEF Text, Block, removeManagedBlock, installManagedBlock, Entries, Installed

\* The memory of a process that has just been started, or has ended.
LEMMA NoWorkType == NoWork \in Works
BY TransactionAssumption DEF NoWork, Works, Installed, Rules, Status

\* A memory stays one when one of its fields is set.
LEMMA WorkUpdate ==
  ASSUME NEW w \in Works
  PROVE  /\ \A e \in Entries \cup {Absent, Torn} :
              /\ [w EXCEPT !.entry = e] \in Works
              /\ [w EXCEPT !.expected = e] \in Works
         /\ \A c \in Installed \cup {Torn} : [w EXCEPT !.current = c] \in Works
         /\ \A r \in Rules : /\ [w EXCEPT !.rules = r] \in Works
                             /\ [w EXCEPT !.verified = r] \in Works
         /\ \A x \in BOOLEAN : [w EXCEPT !.preserve = x] \in Works
         /\ \A i \in Invocations : [w EXCEPT !.id = i] \in Works
         /\ \A s \in Status : [w EXCEPT !.status = s] \in Works
BY DEF Works

\* What Prepare records is a transaction of the binding.
LEMMA PrepareRecords ==
  ASSUME TypeOK, NEW p \in Invocations, Knows(p), Prepare(p)
  PROVE  \/ /\ UNCHANGED <<txn, work>>
            /\ Goto(p, "releaseFail")
         \/ \E t \in Txns : /\ t.binding = Binding(p)
                            /\ txn' = [txn EXCEPT ![p] = t]
                            /\ work' = [work EXCEPT ![p].id = p]
                            /\ Goto(p, "backupReceipt")
<1> DEFINE v == req[p].release
           t == [binding |-> Binding(p),
                 before |-> work[p].entry,
                 applied |-> AppliedEntry(p),
                 curBefore |-> current[Binding(p)],
                 curApplied |-> AppliedCurrent(p),
                 release |-> v,
                 relExisted |-> v \in releases,
                 localRules |-> RulesSource(p) # Absent,
                 rulesBefore |-> IF RulesSource(p) = Absent THEN Absent
                                 ELSE rules[v],
                 rulesApplied |-> RulesSource(p)]
<1>1. /\ Binding(p) \in Bindings /\ v \in Versions /\ req[p].rules \in Rules
      /\ ~IsRollback(p) /\ pc[p] = "prepare"
  BY RequestType DEF Prepare, Knows, Ended, WorksOnOwn
<1>2. work[p].entry \in Entries \cup {Absent} /\ work[p].current \in Installed \cup {Torn}
  BY <1>1 DEF Knows, ContextIsWhole, TypeOK, Works
<1>3. AppliedEntry(p) \in Entries
  BY <1>1, <1>2, BlockOperations DEF AppliedEntry
<1>4. current[Binding(p)] \in Installed \cup {Torn} /\ AppliedCurrent(p) \in Installed
  BY <1>1 DEF TypeOK, AppliedCurrent, Installed
<1>5. RulesSource(p) \in Rules /\ rules[v] \in Rules /\ Absent \in Rules
  BY <1>1, <1>2 DEF RulesSource, CarriesRules, TypeOK, Rules
<1>6. t \in Txns
  BY <1>1, <1>2, <1>3, <1>4, <1>5 DEF Txns
<1> HIDE DEF t
<1>7. CASE RulesStale(p)
  BY <1>7 DEF Prepare
<1>8. CASE ~RulesStale(p)
  <2>1. txn' = [txn EXCEPT ![p] = t] /\ t.binding = Binding(p)
    BY <1>8 DEF Prepare, t
  <2> QED
    BY <1>6, <1>8, <2>1 DEF Prepare
<1> QED
  BY <1>7, <1>8

-----------------------------------------------------------------------------

\* A process always is at a place in the code.
LEMMA PcType ==
  ASSUME TypeOK, NEW p \in Invocations, Moves(p)
  PROVE  pc' \in [Invocations -> PC]
<1>1. \E l \in PC : Goto(p, l)
  BY DEF Moves, Step, Start, InspectEntry, InspectCurrent, Resolve,
    ReadReceipt, Lock, Prepare, WriteBackupReceipt, WriteTopReceipt,
    Precheck, AbortBackup, AbortTop, ActivateRelease, WriteRules,
    WriteCurrent, CheckActivation, WriteEntry, ReadBackEntry, RemoveCurrent,
    Verify, CommitTop, CommitBackup, FinalCheck, DemoteBackup, DemoteTop,
    RestoreCheck, RestoreEntry, DetachEntry, RecreateEntry, ConfirmEntry,
    PutBackEntry, RestoreCurrent, RestoreRules, RestoreFinal,
    RolledBackBackup, RolledBackTop, Unlock, Report, Interrupt, Crash,
    CrashDuringCreate, Continue, Abandon, Die, Admission, PC, Locked, Ended
<1> QED
  BY <1>1 DEF TypeOK, Goto

\* The lock has an owner or none, and the bounds of the environment hold.
LEMMA EnvironmentType ==
  ASSUME TypeOK, NEW p \in Invocations, Moves(p)
  PROVE  /\ lock' \in Invocations \cup {Free}
         /\ edits' \in 0..MaxEdits
         /\ crashes' \in 0..MaxCrashes
         /\ faults' \in 0..MaxFaults
         /\ saved' \in [Bindings -> Texts]
<1>1. UNCHANGED <<edits, saved>>
  BY DEF Moves, Step, Start, InspectEntry, InspectCurrent, Resolve,
    ReadReceipt, Lock, Prepare, WriteBackupReceipt, WriteTopReceipt,
    Precheck, AbortBackup, AbortTop, ActivateRelease, WriteRules,
    WriteCurrent, CheckActivation, WriteEntry, ReadBackEntry, RemoveCurrent,
    Verify, CommitTop, CommitBackup, FinalCheck, DemoteBackup, DemoteTop,
    RestoreCheck, RestoreEntry, DetachEntry, RecreateEntry, ConfirmEntry,
    PutBackEntry, RestoreCurrent, RestoreRules, RestoreFinal,
    RolledBackBackup, RolledBackTop, Unlock, Report, Interrupt, Crash,
    CrashDuringCreate, Die, env
<1>2. lock' \in {lock, p, Free}
  BY DEF Moves, Step, Start, InspectEntry, InspectCurrent, Resolve,
    ReadReceipt, Lock, Prepare, WriteBackupReceipt, WriteTopReceipt,
    Precheck, AbortBackup, AbortTop, ActivateRelease, WriteRules,
    WriteCurrent, CheckActivation, WriteEntry, ReadBackEntry, RemoveCurrent,
    Verify, CommitTop, CommitBackup, FinalCheck, DemoteBackup, DemoteTop,
    RestoreCheck, RestoreEntry, DetachEntry, RecreateEntry, ConfirmEntry,
    PutBackEntry, RestoreCurrent, RestoreRules, RestoreFinal,
    RolledBackBackup, RolledBackTop, Unlock, Report, Interrupt, Crash,
    CrashDuringCreate, Die, env
<1>3. crashes' = crashes \/ (crashes < MaxCrashes /\ crashes' = crashes + 1)
  BY DEF Moves, Step, Start, InspectEntry, InspectCurrent, Resolve,
    ReadReceipt, Lock, Prepare, WriteBackupReceipt, WriteTopReceipt,
    Precheck, AbortBackup, AbortTop, ActivateRelease, WriteRules,
    WriteCurrent, CheckActivation, WriteEntry, ReadBackEntry, RemoveCurrent,
    Verify, CommitTop, CommitBackup, FinalCheck, DemoteBackup, DemoteTop,
    RestoreCheck, RestoreEntry, DetachEntry, RecreateEntry, ConfirmEntry,
    PutBackEntry, RestoreCurrent, RestoreRules, RestoreFinal,
    RolledBackBackup, RolledBackTop, Unlock, Report, Interrupt, Crash,
    CrashDuringCreate, Die, env
<1>4. faults' = faults \/ (faults < MaxFaults /\ faults' = faults + 1)
  BY DEF Moves, Step, Start, InspectEntry, InspectCurrent, Resolve,
    ReadReceipt, Lock, Prepare, WriteBackupReceipt, WriteTopReceipt,
    Precheck, AbortBackup, AbortTop, ActivateRelease, WriteRules,
    WriteCurrent, CheckActivation, WriteEntry, ReadBackEntry, RemoveCurrent,
    Verify, CommitTop, CommitBackup, FinalCheck, DemoteBackup, DemoteTop,
    RestoreCheck, RestoreEntry, DetachEntry, RecreateEntry, ConfirmEntry,
    PutBackEntry, RestoreCurrent, RestoreRules, RestoreFinal,
    RolledBackBackup, RolledBackTop, Unlock, Report, Interrupt, Crash,
    CrashDuringCreate, Die, env
<1> QED
  BY <1>1, <1>2, <1>3, <1>4, TransactionAssumption DEF TypeOK

\* What a process remembers has the type of a context and a receipt.
LEMMA MemoryType ==
  ASSUME TypeOK, NEW p \in Invocations, Knows(p), ReceiptIsRecorded, Moves(p)
  PROVE  /\ req' \in [Invocations -> Requests \cup {Absent}]
         /\ work' \in [Invocations -> Works]
<1> DEFINE Typed == /\ req' \in [Invocations -> Requests \cup {Absent}]
                    /\ work' \in [Invocations -> Works]
<1>1. ASSUME NEW w \in Works, work' = [work EXCEPT ![p] = w], UNCHANGED req
      PROVE  Typed
  BY <1>1 DEF TypeOK
<1>2. ASSUME NEW l, NEW w \in Works, Continue(p, l, w)
      PROVE  Typed
  BY <1>2, NoWorkType DEF TypeOK, Continue
<1>3. ASSUME NEW x \in BOOLEAN, Abandon(p, x), UNCHANGED req
      PROVE  Typed
  <2>1. [work[p] EXCEPT !.preserve = x] \in Works
    BY WorkUpdate DEF TypeOK
  <2> QED
    BY <1>1, <1>3, <2>1 DEF Abandon
<1>4. ASSUME UNCHANGED <<req, work>>
      PROVE  Typed
  BY <1>4 DEF TypeOK
<1>5. work[p] \in Works /\ pc[p] \in PC
  BY DEF TypeOK
<1> SUFFICES Typed
  OBVIOUS
<1> HIDE DEF Typed
<1>6. CASE InspectEntry(p)
  <2>1. entry[Binding(p)] \in Entries \cup {Absent, Torn}
    BY <1>6, RequestType DEF InspectEntry, TypeOK, Ended
  <2> DEFINE w == [work[p] EXCEPT !.entry = entry[Binding(p)]]
  <2>2. w \in Works /\ work' = [work EXCEPT ![p] = w] /\ UNCHANGED req
    BY <1>5, <1>6, <2>1, WorkUpdate DEF InspectEntry
  <2> QED
    BY <1>1, <2>2
<1>7. CASE InspectCurrent(p)
  <2>1. current[Binding(p)] \in Installed \cup {Torn}
    BY <1>7, RequestType DEF InspectCurrent, TypeOK, Ended
  <2> DEFINE w == [work[p] EXCEPT !.current = current[Binding(p)]]
  <2>2. w \in Works /\ work' = [work EXCEPT ![p] = w] /\ UNCHANGED req
    BY <1>5, <1>7, <2>1, WorkUpdate DEF InspectCurrent
  <2> QED
    BY <1>1, <2>2
<1>8. CASE Resolve(p)
  <2> DEFINE c == work[p].current
             r == IF c \in Versions THEN rules[c] ELSE Absent
             w == [work[p] EXCEPT !.rules = r]
  <2>1. r \in Rules
    BY DEF TypeOK, Rules
  <2>2. w \in Works
    BY <1>5, <2>1, WorkUpdate
  <2>3. \E l : Continue(p, l, w)
    BY <1>8 DEF Resolve
  <2> QED
    BY <1>2, <2>2, <2>3
<1>9. CASE ReadReceipt(p)
  <2> DEFINE b == Binding(p)
             w == [work[p] EXCEPT !.entry = entry[b], !.id = top[b].id,
                                  !.status = top[b].status]
  <2>1. CASE receiptWithMatchingBackup(b)
    <3>1. b \in Bindings
      BY <1>9, RequestType DEF ReadReceipt, Ended
    <3>2. top[b] \in [id : Invocations, status : Status]
      BY <2>1, <3>1, ReceiptType DEF receiptWithMatchingBackup
    <3>3. entry[b] \in Entries \cup {Absent, Torn}
      BY <3>1 DEF TypeOK
    <3>4. w \in Works
      BY <1>5, <3>2, <3>3 DEF Works
    <3>5. \E l : Continue(p, l, w)
      BY <1>9, <2>1 DEF ReadReceipt
    <3> QED
      BY <1>2, <3>4, <3>5
  <2>2. CASE ~receiptWithMatchingBackup(b)
    BY <1>2, <1>9, <2>2, NoWorkType DEF ReadReceipt
  <2> QED
    BY <2>1, <2>2
<1>10. CASE Prepare(p)
  <2>1. [work[p] EXCEPT !.id = p] \in Works /\ UNCHANGED req
    BY <1>5, <1>10, WorkUpdate DEF Prepare
  <2>2. UNCHANGED work \/ work' = [work EXCEPT ![p] = [work[p] EXCEPT !.id = p]]
    BY <1>10 DEF Prepare
  <2> QED
    BY <1>1, <1>4, <2>1, <2>2
<1>11. CASE Verify(p)
  <2>1. rules[txn[p].release] \in Rules /\ UNCHANGED req
    BY <1>11, OwnTxnType DEF Verify, Published, Pending, TypeOK, Txns
  <2>2. [work[p] EXCEPT !.verified = rules[txn[p].release]] \in Works
    BY <1>5, <2>1, WorkUpdate
  <2>3. \/ work' = [work EXCEPT ![p] =
                      [work[p] EXCEPT !.verified = rules[txn[p].release]]]
        \/ Abandon(p, FALSE)
    BY <1>11 DEF Verify
  <2> QED
    BY <1>1, <1>3, <2>1, <2>2, <2>3
<1>12. CASE \/ CheckActivation(p) \/ WriteEntry(p) \/ ReadBackEntry(p)
            \/ DemoteTop(p) \/ Interrupt(p)
  <2>1. UNCHANGED req /\ (UNCHANGED work \/ \E x \in BOOLEAN : Abandon(p, x))
    <3>1. PostimageLive(p) \in BOOLEAN
      BY DEF PostimageLive
    <3> QED
      BY <1>12, <3>1
      DEF CheckActivation, WriteEntry, ReadBackEntry, DemoteTop, Interrupt
  <2> QED
    BY <1>3, <1>4, <2>1
<1>13. CASE RestoreEntry(p)
  <2> DEFINE e == IF detached[work[p].id] # Absent THEN detached[work[p].id]
                                                   ELSE entry[Binding(p)]
             w == [work[p] EXCEPT !.expected = e]
  <2>1. e \in Entries \cup {Absent, Torn}
    BY <1>13, RestoredTxnType DEF RestoreEntry, Restoring, TypeOK
  <2>2. w \in Works
    BY <1>5, <2>1, WorkUpdate
  <2>3. UNCHANGED req /\ (UNCHANGED work \/ work' = [work EXCEPT ![p] = w])
    BY <1>13 DEF RestoreEntry
  <2> QED
    BY <1>1, <1>4, <2>2, <2>3
<1>14. CASE Start(p)
  BY <1>14 DEF Start, TypeOK, Typed
<1>15. CASE \/ Lock(p) \/ Unlock(p) \/ Report(p) \/ Crash(p) \/ CrashDuringCreate(p)
  <2>1. UNCHANGED <<req, work>> \/ \E l : Continue(p, l, NoWork)
    BY <1>15 DEF Lock, Unlock, Report, Crash, CrashDuringCreate, Die
  <2> QED
    BY <1>2, <1>4, <2>1, NoWorkType
<1>16. ASSUME ~InspectEntry(p), ~InspectCurrent(p), ~Resolve(p), ~ReadReceipt(p),
              ~Prepare(p), ~Verify(p), ~CheckActivation(p), ~WriteEntry(p),
              ~ReadBackEntry(p), ~DemoteTop(p), ~Interrupt(p), ~RestoreEntry(p),
              ~Start(p), ~Lock(p), ~Unlock(p), ~Report(p), ~Crash(p),
              ~CrashDuringCreate(p)
       PROVE  Typed
  <2>1. UNCHANGED <<req, work>>
    BY <1>16 DEF Moves, Step, WriteBackupReceipt, WriteTopReceipt, Precheck,
    AbortBackup, AbortTop, ActivateRelease, WriteRules, WriteCurrent,
    RemoveCurrent, CommitTop, CommitBackup, FinalCheck, DemoteBackup,
    RestoreCheck, DetachEntry, RecreateEntry, ConfirmEntry, PutBackEntry,
    RestoreCurrent, RestoreRules, RestoreFinal, RolledBackBackup,
    RolledBackTop
  <2> QED
    BY <1>4, <2>1
<1> QED
  BY <1>6, <1>7, <1>8, <1>9, <1>10, <1>11, <1>12, <1>13, <1>14, <1>15, <1>16

\* The files the user owns, and the metadata.
LEMMA FilesType ==
  ASSUME TypeOK, NEW p \in Invocations, Knows(p), Moves(p)
  PROVE  /\ entry' \in [Bindings -> Entries \cup {Absent, Torn}]
         /\ current' \in [Bindings -> Installed \cup {Torn}]
         /\ detached' \in [Invocations -> Entries \cup {Absent, Torn}]
<1> USE DEF TypeOK
<1>1. CASE WriteEntry(p)
  BY <1>1, OwnTxnType DEF WriteEntry, Published, Pending, Txns
<1>2. CASE WriteCurrent(p)
  BY <1>2, OwnTxnType DEF WriteCurrent, Published, Pending, Txns
<1>3. CASE RemoveCurrent(p)
  BY <1>3, OwnTxnType DEF RemoveCurrent, Published, Pending, Installed
<1>4. CASE DetachEntry(p)
  BY <1>4, RestoredTxnType DEF DetachEntry, Restoring
<1>5. CASE RecreateEntry(p)
  BY <1>5, RestoredTxnType DEF RecreateEntry, Restoring, Txns
<1>6. CASE PutBackEntry(p)
  BY <1>6, RestoredTxnType DEF PutBackEntry, Restoring
<1>7. CASE RestoreCurrent(p)
  BY <1>7, RestoredTxnType DEF RestoreCurrent, Restoring, Txns
<1>8. CASE CrashDuringCreate(p)
  BY <1>8 DEF CrashDuringCreate, files
<1>9. CASE /\ ~WriteEntry(p) /\ ~WriteCurrent(p) /\ ~RemoveCurrent(p)
           /\ ~DetachEntry(p) /\ ~RecreateEntry(p) /\ ~PutBackEntry(p)
           /\ ~RestoreCurrent(p) /\ ~CrashDuringCreate(p)
  <2>1. UNCHANGED files
    BY <1>9 DEF Moves, Step, Start, InspectEntry, InspectCurrent, Resolve,
    ReadReceipt, Lock, Prepare, WriteBackupReceipt, WriteTopReceipt,
    Precheck, AbortBackup, AbortTop, ActivateRelease, WriteRules,
    CheckActivation, ReadBackEntry, Verify, CommitTop, CommitBackup,
    FinalCheck, DemoteBackup, DemoteTop, RestoreCheck, RestoreEntry,
    ConfirmEntry, RestoreRules, RestoreFinal, RolledBackBackup,
    RolledBackTop, Unlock, Report, Interrupt, Crash, disk, files
  <2> QED
    BY <2>1 DEF files
<1> QED
  BY <1>1, <1>2, <1>3, <1>4, <1>5, <1>6, <1>7, <1>8, <1>9

\* The releases and the rules files beside them.
LEMMA StoreType ==
  ASSUME TypeOK, NEW p \in Invocations, Knows(p), Moves(p)
  PROVE  /\ releases' \subseteq Versions
         /\ rules' \in [Versions -> Rules]
<1> USE DEF TypeOK
<1>1. CASE ActivateRelease(p)
  BY <1>1, OwnTxnType DEF ActivateRelease, Published, Pending, Txns
<1>2. CASE WriteRules(p)
  BY <1>2, OwnTxnType DEF WriteRules, Published, Pending, Txns
<1>3. CASE RestoreRules(p)
  BY <1>3, RestoredTxnType DEF RestoreRules, RulesToRestore, Restoring, Txns
<1>4. CASE ~ActivateRelease(p) /\ ~WriteRules(p) /\ ~RestoreRules(p)
  <2>1. UNCHANGED <<releases, rules>>
    BY <1>4 DEF Moves, Step, Start, InspectEntry, InspectCurrent, Resolve,
    ReadReceipt, Lock, Prepare, WriteBackupReceipt, WriteTopReceipt,
    Precheck, AbortBackup, AbortTop, WriteCurrent, CheckActivation,
    WriteEntry, ReadBackEntry, RemoveCurrent, Verify, CommitTop,
    CommitBackup, FinalCheck, DemoteBackup, DemoteTop, RestoreCheck,
    RestoreEntry, DetachEntry, RecreateEntry, ConfirmEntry, PutBackEntry,
    RestoreCurrent, RestoreFinal, RolledBackBackup, RolledBackTop, Unlock,
    Report, Interrupt, Crash, CrashDuringCreate, disk, store
  <2> QED
    BY <2>1
<1> QED
  BY <1>1, <1>2, <1>3, <1>4

\* The copy beside the backups is written by the holder of the lock only:
\* its own, or, at the end of a restore, that of the restored transaction.
LEMMA BackupSteps ==
  ASSUME NEW p \in Invocations, Moves(p)
  PROVE  \/ UNCHANGED backup
         \/ WriteBackupReceipt(p)
         \/ AbortBackup(p) \/ CommitBackup(p) \/ DemoteBackup(p)
         \/ RolledBackBackup(p)
BY DEF Moves, Step, Start, InspectEntry, InspectCurrent, Resolve,
    ReadReceipt, Lock, Prepare, WriteTopReceipt, Precheck, AbortTop,
    ActivateRelease, WriteRules, WriteCurrent, CheckActivation, WriteEntry,
    ReadBackEntry, RemoveCurrent, Verify, CommitTop, FinalCheck, DemoteTop,
    RestoreCheck, RestoreEntry, DetachEntry, RecreateEntry, ConfirmEntry,
    PutBackEntry, RestoreCurrent, RestoreRules, RestoreFinal, RolledBackTop,
    Unlock, Report, Interrupt, Crash, CrashDuringCreate, disk, copies

\* So is the receipt; a process that dies may leave a new one torn.
LEMMA TopSteps ==
  ASSUME NEW p \in Invocations, Moves(p)
  PROVE  \/ UNCHANGED top
         \/ WriteTopReceipt(p)
         \/ AbortTop(p) \/ CommitTop(p) \/ DemoteTop(p) \/ RolledBackTop(p)
         \/ /\ pc[p] = "topReceipt"
            /\ CrashDuringCreate(p)
            /\ top' = [top EXCEPT ![Binding(p)] = Torn]
            /\ UNCHANGED <<backup, txn>>
BY DEF Moves, Step, Start, InspectEntry, InspectCurrent, Resolve,
    ReadReceipt, Lock, Prepare, WriteBackupReceipt, Precheck, AbortBackup,
    ActivateRelease, WriteRules, WriteCurrent, CheckActivation, WriteEntry,
    ReadBackEntry, RemoveCurrent, Verify, CommitBackup, FinalCheck,
    DemoteBackup, RestoreCheck, RestoreEntry, DetachEntry, RecreateEntry,
    ConfirmEntry, PutBackEntry, RestoreCurrent, RestoreRules, RestoreFinal,
    RolledBackBackup, Unlock, Report, Interrupt, Crash, CrashDuringCreate,
    disk, copies, store

\* A step that rewrites the status of a receipt.
LEMMA TopRewritten ==
  ASSUME TypeOK, NEW p \in Invocations, Knows(p),
         AbortTop(p) \/ CommitTop(p) \/ DemoteTop(p) \/ RolledBackTop(p)
  PROVE  \E s \in Status :
           /\ top' = [top EXCEPT ![Binding(p)].status = s]
           /\ top'[Binding(p)] = [top[Binding(p)] EXCEPT !.status = s]
           /\ Binding(p) \in Bindings
           /\ OnReceipt(p)
           /\ UNCHANGED <<backup, txn, req, lock>>
           /\ CopiesFollowCode(p)
           /\ \/ AbortTop(p) /\ s = "ROLLED_BACK"
              \/ CommitTop(p) /\ s = "COMMITTED"
              \/ DemoteTop(p) /\ s = "PREPARED"
              \/ RolledBackTop(p) /\ s = "ROLLED_BACK"
<1>1. pc[p] \in {"abortTop", "commitTop", "demoteTop", "rolledTop"}
  BY DEF AbortTop, CommitTop, DemoteTop, RolledBackTop
<1>2. Binding(p) \in Bindings
  BY <1>1, RequestType DEF Ended
<1>3. OnReceipt(p) /\ CopiesFollowCode(p)
  BY <1>1 DEF Knows, WorksOnReceipt, Published, Pending, Restoring
<1>4. UNCHANGED <<backup, txn, req, lock>>
  BY DEF AbortTop, CommitTop, DemoteTop, RolledBackTop
<1>5. ASSUME NEW s, SetTop(p, s)
      PROVE  /\ top' = [top EXCEPT ![Binding(p)].status = s]
             /\ top'[Binding(p)] = [top[Binding(p)] EXCEPT !.status = s]
  BY <1>2, <1>5 DEF SetTop, TypeOK
<1> QED
  BY <1>2, <1>3, <1>4, <1>5
  DEF AbortTop, CommitTop, DemoteTop, RolledBackTop, Status

\* The receipts and what the transactions recorded.
LEMMA ReceiptsType ==
  ASSUME TypeOK, NEW p \in Invocations, Knows(p), Moves(p)
  PROVE  /\ top' \in [Bindings -> [id : Invocations, status : Status]
                                   \cup {Absent, Torn}]
         /\ backup' \in [Invocations -> Status \cup {Absent}]
         /\ txn' \in [Invocations -> Txns \cup {Absent}]
<1>1. top' \in [Bindings -> [id : Invocations, status : Status]
                             \cup {Absent, Torn}]
  <2>1. CASE AbortTop(p) \/ CommitTop(p) \/ DemoteTop(p) \/ RolledBackTop(p)
    <3>1. PICK s \in Status :
            /\ top' = [top EXCEPT ![Binding(p)].status = s]
            /\ Binding(p) \in Bindings
            /\ HasReceipt(Binding(p))
      BY <2>1, TopRewritten DEF OnReceipt
    <3>2. [top[Binding(p)] EXCEPT !.status = s] \in [id : Invocations, status : Status]
      BY <3>1, ReceiptType, StatusRewritten
    <3> QED
      BY <3>1, <3>2 DEF TypeOK
  <2>2. CASE WriteTopReceipt(p)
    BY <2>2 DEF WriteTopReceipt, TypeOK, Status
  <2> QED
    BY <2>1, <2>2, TopSteps DEF TypeOK
<1>2. backup' \in [Invocations -> Status \cup {Absent}]
  <2>1. CASE RolledBackBackup(p)
    BY <2>1, RestoredTxnType
    DEF RolledBackBackup, SetBackup, Restoring, TypeOK, Status
  <2>2. CASE ~RolledBackBackup(p)
    BY <2>2, BackupSteps DEF WriteBackupReceipt, AbortBackup, CommitBackup,
      DemoteBackup, SetBackup, TypeOK, Status
  <2> QED
    BY <2>1, <2>2
<1>3. txn' \in [Invocations -> Txns \cup {Absent}]
  <2>1. CASE Prepare(p)
    BY <2>1, PrepareRecords DEF TypeOK
  <2>2. CASE ~Prepare(p)
    BY <2>2 DEF Moves, TypeOK, Step, Start, InspectEntry, InspectCurrent, Resolve,
    ReadReceipt, Lock, WriteBackupReceipt, WriteTopReceipt, Precheck,
    AbortBackup, AbortTop, ActivateRelease, WriteRules, WriteCurrent,
    CheckActivation, WriteEntry, ReadBackEntry, RemoveCurrent, Verify,
    CommitTop, CommitBackup, FinalCheck, DemoteBackup, DemoteTop,
    RestoreCheck, RestoreEntry, DetachEntry, RecreateEntry, ConfirmEntry,
    PutBackEntry, RestoreCurrent, RestoreRules, RestoreFinal,
    RolledBackBackup, RolledBackTop, Unlock, Report, Interrupt, Crash,
    CrashDuringCreate, disk, store, copies, files
  <2> QED
    BY <2>1, <2>2
<1> QED
  BY <1>1, <1>2, <1>3

\* Together: every step of a process keeps the types.
LEMMA MoveTypeOK ==
  ASSUME TypeOK, NEW p \in Invocations, Knows(p), ReceiptIsRecorded, Moves(p)
  PROVE  TypeOK'
BY PcType, EnvironmentType, MemoryType, FilesType, StoreType, ReceiptsType
   DEF TypeOK

\* A save in the editor leaves an entry an entry.
LEMMA EditTypeOK ==
  ASSUME TypeOK, NEW b \in Bindings, EditEntry(b)
  PROVE  TypeOK'
<1>1. edits' \in 0..MaxEdits
  BY TransactionAssumption DEF EditEntry, TypeOK
<1>2. PICK t \in Texts :
        /\ entry' = [entry EXCEPT ![b] = [text |-> t, block |-> Block(entry[b])]]
        /\ saved' = [saved EXCEPT ![b] = t]
  BY DEF EditEntry
<1>3. [text |-> t, block |-> Block(entry[b])] \in Entries
  BY BlockOperations DEF TypeOK, Entries, Installed
<1> QED
  BY <1>1, <1>2, <1>3 DEF EditEntry, TypeOK, copies, store

-----------------------------------------------------------------------------

\* A process does not touch what another one remembers.
LEMMA OthersKeepTheirMemory ==
  ASSUME TypeOK, NEW p \in Invocations, Moves(p), NEW q \in Invocations \ {p}
  PROVE  pc'[q] = pc[q] /\ req'[q] = req[q] /\ work'[q] = work[q]
BY DEF TypeOK, Moves, Step, Start, InspectEntry, InspectCurrent, Resolve,
    ReadReceipt, Lock, Prepare, WriteBackupReceipt, WriteTopReceipt,
    Precheck, AbortBackup, AbortTop, ActivateRelease, WriteRules,
    WriteCurrent, CheckActivation, WriteEntry, ReadBackEntry, RemoveCurrent,
    Verify, CommitTop, CommitBackup, FinalCheck, DemoteBackup, DemoteTop,
    RestoreCheck, RestoreEntry, DetachEntry, RecreateEntry, ConfirmEntry,
    PutBackEntry, RestoreCurrent, RestoreRules, RestoreFinal,
    RolledBackBackup, RolledBackTop, Unlock, Report, Interrupt, Crash,
    CrashDuringCreate, Die, Continue, Goto, Abandon

\* Receipts and transactions are only written under the lock.
LEMMA OutsideTheLock ==
  ASSUME NEW p \in Invocations, Moves(p), pc[p] \notin Locked
  PROVE  UNCHANGED <<top, backup, txn>>
BY DEF Moves, Step, Start, InspectEntry, InspectCurrent, Resolve,
    ReadReceipt, Lock, Prepare, WriteBackupReceipt, WriteTopReceipt,
    Precheck, AbortBackup, AbortTop, ActivateRelease, WriteRules,
    WriteCurrent, CheckActivation, WriteEntry, ReadBackEntry, RemoveCurrent,
    Verify, CommitTop, CommitBackup, FinalCheck, DemoteBackup, DemoteTop,
    RestoreCheck, RestoreEntry, DetachEntry, RecreateEntry, ConfirmEntry,
    PutBackEntry, RestoreCurrent, RestoreRules, RestoreFinal,
    RolledBackBackup, RolledBackTop, Unlock, Report, Interrupt, Crash,
    CrashDuringCreate, Locked, disk, files, copies, store

\* Nobody takes the lock from a process that works under it.
LEMMA LockStays ==
  ASSUME TypeOK, \A r \in Invocations : Knows(r),
         NEW p \in Invocations, Moves(p),
         NEW q \in Invocations \ {p}, pc[q] \in Locked
  PROVE  /\ pc[p] \notin Locked
         /\ lock' = q
<1>1. pc[p] \notin Locked /\ lock = q
  BY DEF Knows, LockHeld
<1>2. q # Free /\ pc[q] # "crashed"
  BY TransactionAssumption DEF Locked
<1> QED
  BY <1>1, <1>2 DEF Moves, Step, Start, InspectEntry, InspectCurrent, Resolve,
    ReadReceipt, Lock, Prepare, WriteBackupReceipt, WriteTopReceipt,
    Precheck, AbortBackup, AbortTop, ActivateRelease, WriteRules,
    WriteCurrent, CheckActivation, WriteEntry, ReadBackEntry, RemoveCurrent,
    Verify, CommitTop, CommitBackup, FinalCheck, DemoteBackup, DemoteTop,
    RestoreCheck, RestoreEntry, DetachEntry, RecreateEntry, ConfirmEntry,
    PutBackEntry, RestoreCurrent, RestoreRules, RestoreFinal,
    RolledBackBackup, RolledBackTop, Unlock, Report, Interrupt, Crash,
    CrashDuringCreate, Die, Locked, disk, files, copies, store

\* A recorded transaction stays recorded, and only its own process records it.
LEMMA TxnsAreKept ==
  ASSUME TypeOK, NEW p \in Invocations, Knows(p), Moves(p)
  PROVE  \A q \in Invocations :
           /\ txn[q] # Absent => txn'[q] # Absent
           /\ q # p => txn'[q] = txn[q]
           /\ ~Prepare(p) => txn'[q] = txn[q]
<1>1. CASE Prepare(p)
  BY <1>1, PrepareRecords, TransactionAssumption DEF TypeOK
<1>2. CASE ~Prepare(p)
  BY <1>2 DEF Moves, Step, Start, InspectEntry, InspectCurrent, Resolve,
    ReadReceipt, Lock, WriteBackupReceipt, WriteTopReceipt, Precheck,
    AbortBackup, AbortTop, ActivateRelease, WriteRules, WriteCurrent,
    CheckActivation, WriteEntry, ReadBackEntry, RemoveCurrent, Verify,
    CommitTop, CommitBackup, FinalCheck, DemoteBackup, DemoteTop,
    RestoreCheck, RestoreEntry, DetachEntry, RecreateEntry, ConfirmEntry,
    PutBackEntry, RestoreCurrent, RestoreRules, RestoreFinal,
    RolledBackBackup, RolledBackTop, Unlock, Report, Interrupt, Crash,
    CrashDuringCreate, disk, store, copies, files
<1> QED
  BY <1>1, <1>2

\* What a process knows survives the steps of all others.
LEMMA OthersKnow ==
  ASSUME TypeOK, \A r \in Invocations : Knows(r),
         NEW p \in Invocations, Moves(p), NEW q \in Invocations \ {p}
  PROVE  Knows(q)'
<1>1. pc'[q] = pc[q] /\ req'[q] = req[q] /\ work'[q] = work[q]
  BY OthersKeepTheirMemory
<1>2. CASE pc[q] \in Locked
  <2>1. UNCHANGED <<top, backup, txn>> /\ lock' = q /\ lock = q
    BY <1>2, OutsideTheLock, LockStays DEF Knows, LockHeld
  <2> QED
    BY <1>1, <2>1
    DEF Knows, LockHeld, Started, TakesOwnPath, ContextIsWhole, WorksOnOwn, WorksOnRecorded,
        WorksOnReceipt, OnReceipt, HasReceipt, CopiesFollowCode, CopiesAre,
        Binding, IsRollback
<1>3. CASE pc[q] \notin Locked
  <2>1. pc[q] \notin {"prepare", "restore"} \cup Recording \cup Published
                    \cup Restoring
    BY <1>3 DEF Locked, Recording, Published, Pending, Restoring
  <2>2. LockHeld(q)' /\ Started(q)' /\ TakesOwnPath(q)' /\ ContextIsWhole(q)'
    BY <1>1, <1>3
    DEF Knows, LockHeld, Started, TakesOwnPath, ContextIsWhole, IsRollback
  <2>3. WorksOnOwn(q)' /\ WorksOnReceipt(q)' /\ CopiesFollowCode(q)'
    BY <1>1, <2>1
    DEF WorksOnOwn, WorksOnReceipt, CopiesFollowCode, Recording, Published,
        Pending, Restoring
  <2>4. WorksOnRecorded(q)'
    BY <1>1, <2>1, TxnsAreKept
    DEF Knows, WorksOnRecorded, IsRollback, TypeOK, Works
  <2> QED
    BY <2>2, <2>3, <2>4 DEF Knows
<1> QED
  BY <1>2, <1>3

\* A failure after publication goes to the restore with the receipt in place.
LEMMA AbandonKeeps ==
  ASSUME TypeOK, NEW p \in Invocations, NEW x, Abandon(p, x)
  PROVE  /\ pc'[p] = "restore"
         /\ work'[p].id = work[p].id
BY DEF TypeOK, Abandon, Goto, Works

\* What is known at the start of the restore of a failed mutation.
LEMMA AbandonKnows ==
  ASSUME NEW p \in Invocations, Knows(p), pc[p] \in Published,
         pc'[p] = "restore", work'[p].id = work[p].id,
         UNCHANGED <<lock, req, txn>>, OnReceipt(p)'
  PROVE  Knows(p)'
<1>1. /\ pc[p] \in Locked
      /\ "restore" \notin {"lock", "prepare"} \cup Recording \cup Published
                           \cup Restoring
  BY DEF Published, Pending, Locked, Recording, Restoring
<1>2. pc[p] \notin {"idle"} \cup Ended
  BY <1>1 DEF Locked, Ended
<1>3. LockHeld(p)' /\ Started(p)' /\ TakesOwnPath(p)' /\ ContextIsWhole(p)'
  BY <1>1, <1>2 DEF Knows, LockHeld, Started, TakesOwnPath, ContextIsWhole
<1>4. WorksOnOwn(p)' /\ CopiesFollowCode(p)'
  BY <1>1 DEF WorksOnOwn, CopiesFollowCode, Published, Pending, Recording
<1>5. WorksOnRecorded(p)' /\ WorksOnReceipt(p)'
  BY <1>1, TransactionAssumption
  DEF Knows, WorksOnRecorded, WorksOnReceipt, WorksOnOwn
<1> QED
  BY <1>3, <1>4, <1>5 DEF Knows

\* A rewritten receipt still is the one the process works on.
LEMMA RewrittenReceipt ==
  ASSUME TypeOK, NEW p \in Invocations, Knows(p),
         AbortTop(p) \/ CommitTop(p) \/ DemoteTop(p) \/ RolledBackTop(p),
         work'[p].id = work[p].id
  PROVE  /\ OnReceipt(p)'
         /\ UNCHANGED <<backup, txn, req, lock>>
         /\ pc[p] = "commitTop" => top'[Binding(p)].status = "COMMITTED"
<1>1. PICK s \in Status :
        /\ top'[Binding(p)] = [top[Binding(p)] EXCEPT !.status = s]
        /\ Binding(p) \in Bindings
        /\ OnReceipt(p)
        /\ UNCHANGED <<backup, txn, req, lock>>
        /\ CommitTop(p) => s = "COMMITTED"
  BY TopRewritten DEF AbortTop, CommitTop, DemoteTop, RolledBackTop
<1>2. top[Binding(p)] \in [id : Invocations, status : Status]
  BY <1>1, ReceiptType DEF OnReceipt
<1>3. /\ top'[Binding(p)] \notin {Absent, Torn}
      /\ top'[Binding(p)].id = work[p].id
      /\ top'[Binding(p)].status = s
  BY <1>1, <1>2, StatusRewritten DEF OnReceipt
<1>4. pc[p] = "commitTop" => CommitTop(p)
  BY DEF AbortTop, DemoteTop, RolledBackTop
<1> QED
  BY <1>1, <1>3, <1>4 DEF OnReceipt, HasReceipt, Binding

\* The failure itself leaves the receipts alone.
LEMMA AbandonSamePlace ==
  ASSUME TypeOK, NEW p \in Invocations, Knows(p), pc[p] \in Published,
         NEW x, Abandon(p, x), UNCHANGED <<lock, req, txn, top>>
  PROVE  Knows(p)'
<1>1. OnReceipt(p)'
  BY AbandonKeeps DEF Knows, WorksOnReceipt, OnReceipt, HasReceipt, Binding
<1> QED
  BY <1>1, AbandonKeeps, AbandonKnows

\* A mutation is not admitted with a half-written entry.
LEMMA TornIsNotAdmitted ==
  ASSUME NEW r, NEW b, NEW v, NEW c,
         Admission(r, resolveContext(b, v, Torn, c)) = "lock"
  PROVE  FALSE
<1>1. ReceiptState(b) \in {"none", "TAMPERED", "RECOVERY_REQUIRED", "settled"}
  BY DEF ReceiptState
<1>2. c \in releases => Block(Torn) # c \/ c = Absent
  BY DEF Block
<1>3. resolveContext(b, v, Torn, c) \in {"TAMPERED", "RECOVERY_REQUIRED"}
  BY <1>1, <1>2 DEF resolveContext, Block
<1> QED
  BY <1>3 DEF Admission

\* What a process knows after a step of its own.
LEMMA OwnKnows ==
  ASSUME IInv, NEW p \in Invocations, Moves(p), TypeOK'
  PROVE  Knows(p)'
<1> USE DEF Locked, Ended, Published, Pending, Recording, Restoring, IInv,
        TypeOK, Knows, LockHeld, Started, TakesOwnPath, ContextIsWhole, WorksOnOwn,
        WorksOnRecorded, WorksOnReceipt, OnReceipt, HasReceipt,
        CopiesFollowCode, CopiesAre, Binding, IsRollback,
        disk, files, copies, store
<1>1. CASE Start(p)
  BY <1>1 DEF Start, Goto
<1>2. CASE InspectEntry(p)
  BY <1>2 DEF InspectEntry, Goto
<1>3. CASE InspectCurrent(p)
  BY <1>3 DEF InspectCurrent, Goto
<1>4. CASE Resolve(p)
  <2> DEFINE c == work[p].current
             state == resolveContext(Binding(p), req[p].release,
                                     work[p].entry, c)
             l == Admission(req[p], state)
             w == [work[p] EXCEPT !.rules = IF c \in Versions THEN rules[c]
                                            ELSE Absent]
  <2>1. pc[p] = "resolve" /\ Continue(p, l, w) /\ UNCHANGED <<disk, lock>>
    BY <1>4 DEF Resolve
  <2>2. w.entry = work[p].entry
    BY DEF Works
  <2>3. l \in {"failed", "done", "lock"}
    BY DEF Admission
  <2>4. l = "lock" => work[p].entry # Torn
    BY TornIsNotAdmitted
  <2>5. req[p].op # "rollback"
    BY <2>1
  <2> HIDE DEF l, w
  <2> QED
    BY <2>1, <2>2, <2>3, <2>4, <2>5 DEF Continue, Goto
<1>5. CASE ReadReceipt(p)
  <2> DEFINE b == Binding(p)
             w == [work[p] EXCEPT !.entry = entry[b], !.id = top[b].id,
                                  !.status = top[b].status]
  <2>1. CASE receiptWithMatchingBackup(b)
    <3>1. b \in Bindings
      BY <1>5, RequestType DEF ReadReceipt
    <3>2. txn[top[b].id] # Absent /\ top[b].id \in Invocations
      BY <2>1, <3>1, ReceiptType
      DEF receiptWithMatchingBackup, ReceiptIsRecorded
    <3>3. w.id = top[b].id
      BY DEF Works
    <3>4. PICK l \in {"report", "lock"} : Continue(p, l, w)
      BY <1>5, <2>1 DEF ReadReceipt
    <3>5. work'[p] = w /\ pc'[p] \in {"report", "lock"}
      BY <3>4 DEF Continue, Goto
    <3>6. UNCHANGED <<req, txn, lock>> /\ pc[p] = "readReceipt"
      BY <1>5, <3>4 DEF ReadReceipt, Continue
    <3>7. work'[p].id # Absent /\ txn'[work'[p].id] # Absent
      BY <3>2, <3>3, <3>5, <3>6, TransactionAssumption
    <3>8. req[p].op = "rollback"
      BY <3>6
    <3> QED
      BY <3>5, <3>6, <3>7, <3>8
  <2>2. CASE ~receiptWithMatchingBackup(b)
    BY <1>5, <2>2 DEF ReadReceipt, Continue, Goto
  <2> QED
    BY <2>1, <2>2
<1>6. CASE Lock(p)
  BY <1>6 DEF Lock, Continue, Goto
<1>7. CASE Prepare(p)
  <2>1. UNCHANGED <<lock, req>> /\ pc[p] = "prepare"
    BY <1>7 DEF Prepare
  <2>2. CASE UNCHANGED <<txn, work>> /\ Goto(p, "releaseFail")
    BY <2>1, <2>2 DEF Goto
  <2>3. ASSUME NEW t \in Txns, t.binding = Binding(p),
               txn' = [txn EXCEPT ![p] = t],
               work' = [work EXCEPT ![p].id = p], Goto(p, "backupReceipt")
        PROVE  Knows(p)'
    <3>1. work'[p].id = p /\ pc'[p] = "backupReceipt" /\ txn'[p] = t /\ t # Absent
      BY <2>3, TransactionAssumption DEF Goto, Works
    <3> QED
      BY <2>1, <2>3, <3>1
  <2> QED
    BY <1>7, <2>2, <2>3, PrepareRecords
<1>8. CASE WriteBackupReceipt(p)
  BY <1>8 DEF WriteBackupReceipt, Goto
<1>9. CASE WriteTopReceipt(p)
  <2>1. Binding(p) \in Bindings /\ pc[p] = "topReceipt"
    BY <1>9, RequestType DEF WriteTopReceipt
  <2>2. /\ top'[Binding(p)] = [id |-> p, status |-> "PREPARED"]
        /\ pc'[p] = "precheck"
        /\ UNCHANGED <<req, work, txn, backup, lock>>
    BY <1>9, <2>1 DEF WriteTopReceipt, Goto
  <2>3. [id |-> p, status |-> "PREPARED"] \notin {Absent, Torn}
    <3>1. [id |-> p, status |-> "PREPARED"] \in [id : Invocations, status : Status]
      BY DEF Status
    <3> QED
      BY <3>1, TransactionAssumption
  <2>4. HasReceipt(Binding(p))' /\ top'[Binding(p)].id = p
        /\ top'[Binding(p)].status = "PREPARED"
    BY <2>2, <2>3
  <2> QED
    BY <2>1, <2>2, <2>4
<1>10. CASE Precheck(p)
  BY <1>10 DEF Precheck, Goto
<1>11. CASE AbortBackup(p)
  BY <1>11 DEF AbortBackup, Goto, SetBackup
<1>12. CASE AbortTop(p)
  BY <1>12 DEF AbortTop, Goto, SetTop
<1>13. CASE ActivateRelease(p)
  BY <1>13 DEF ActivateRelease, Goto
<1>14. CASE WriteRules(p)
  BY <1>14 DEF WriteRules, Goto
<1>15. CASE WriteCurrent(p)
  BY <1>15 DEF WriteCurrent, Goto
<1>16. CASE CheckActivation(p)
  <2>1. CASE pc'[p] \in {"writeEntry"} /\ UNCHANGED work
    BY <1>16, <2>1 DEF CheckActivation
  <2>2. CASE \E x : Abandon(p, x)
    BY <1>16, <2>2, AbandonSamePlace DEF CheckActivation
  <2> QED
    BY <1>16, <2>1, <2>2 DEF CheckActivation, Goto
<1>17. CASE WriteEntry(p)
  <2>1. /\ pc[p] = "writeEntry"
        /\ UNCHANGED <<top, backup, txn, lock, req>>
        /\ (Goto(p, "readback") /\ UNCHANGED work) \/ Abandon(p, TRUE)
    BY <1>17 DEF WriteEntry
  <2>2. CASE Goto(p, "readback") /\ UNCHANGED work
    BY <2>1, <2>2 DEF Goto
  <2>3. CASE Abandon(p, TRUE)
    BY <2>1, <2>3, AbandonSamePlace
  <2> QED
    BY <2>1, <2>2, <2>3
<1>18. CASE ReadBackEntry(p)
  <2>1. CASE pc'[p] \in {"verify", "removeCurrent"} /\ UNCHANGED work
    BY <1>18, <2>1 DEF ReadBackEntry
  <2>2. CASE \E x : Abandon(p, x)
    BY <1>18, <2>2, AbandonSamePlace DEF ReadBackEntry
  <2> QED
    BY <1>18, <2>1, <2>2 DEF ReadBackEntry, Goto
<1>19. CASE RemoveCurrent(p)
  BY <1>19 DEF RemoveCurrent, Goto
<1>20. CASE Verify(p)
  <2>1. /\ pc[p] = "verify"
        /\ UNCHANGED <<disk, lock, req>>
    BY <1>20 DEF Verify
  <2>2. \/ /\ Goto(p, "commitTop")
           /\ work' = [work EXCEPT ![p].verified = rules[txn[p].release]]
        \/ Abandon(p, FALSE)
    BY <1>20 DEF Verify
  <2>3. CASE /\ Goto(p, "commitTop")
             /\ work' = [work EXCEPT ![p].verified = rules[txn[p].release]]
    <3>1. pc'[p] = "commitTop" /\ work'[p].id = work[p].id
      BY <2>3 DEF Goto, Works
    <3> QED
      BY <2>1, <3>1
  <2>4. CASE Abandon(p, FALSE)
    BY <2>1, <2>4, AbandonSamePlace
  <2> QED
    BY <2>2, <2>3, <2>4
<1>21. CASE CommitTop(p)
  <2>1. pc[p] = "commitTop" /\ pc'[p] = "commitBackup" /\ UNCHANGED work
    BY <1>21 DEF CommitTop, Goto
  <2>2. /\ OnReceipt(p)'
        /\ top'[Binding(p)].status = "COMMITTED"
        /\ UNCHANGED <<backup, txn, req, lock>>
    BY <1>21, <2>1, RewrittenReceipt
  <2> QED
    BY <2>1, <2>2
<1>22. CASE CommitBackup(p)
  BY <1>22 DEF CommitBackup, Goto, SetBackup
<1>23. CASE FinalCheck(p)
  BY <1>23 DEF FinalCheck, Goto
<1>24. CASE DemoteBackup(p)
  BY <1>24 DEF DemoteBackup, Goto, SetBackup
<1>25. CASE DemoteTop(p)
  <2>1. pc[p] = "demoteTop" /\ Abandon(p, FALSE)
    BY <1>25 DEF DemoteTop
  <2>2. work'[p].id = work[p].id /\ pc'[p] = "restore"
    BY <2>1, AbandonKeeps
  <2>3. OnReceipt(p)' /\ UNCHANGED <<backup, txn, req, lock>>
    BY <1>25, <2>2, RewrittenReceipt
  <2> QED
    BY <2>1, <2>2, <2>3, AbandonKnows
<1>26. CASE RestoreCheck(p)
  <2>1. /\ pc[p] = "restore"
        /\ pc'[p] \in {"restoreEntry", "releaseFail"}
        /\ UNCHANGED <<disk, lock, req, work>>
    BY <1>26 DEF RestoreCheck, Goto
  <2>2. pc'[p] = "restoreEntry" => OnReceipt(p)
    <3>1. CASE req[p].op = "rollback"
      <4>1. pc'[p] = "restoreEntry" =>
              /\ receiptWithMatchingBackup(Binding(p))
              /\ top[Binding(p)].id = work[p].id
        BY <1>26, <3>1 DEF RestoreCheck, Goto
      <4> QED
        BY <4>1 DEF receiptWithMatchingBackup
    <3>2. CASE req[p].op # "rollback"
      BY <2>1, <3>2
    <3> QED
      BY <3>1, <3>2
  <2> QED
    BY <2>1, <2>2
<1>27. CASE RestoreEntry(p)
  <2>1. /\ pc[p] = "restoreEntry"
        /\ pc'[p] \in {"restoreCurrent", "releaseFail", "recreate", "detach"}
        /\ UNCHANGED <<disk, lock, req>>
    BY <1>27 DEF RestoreEntry, Goto
  <2>2. work'[p].id = work[p].id
    BY <1>27 DEF RestoreEntry, Works
  <2> QED
    BY <2>1, <2>2
<1>28. CASE DetachEntry(p)
  BY <1>28 DEF DetachEntry, Goto
<1>29. CASE RecreateEntry(p)
  BY <1>29 DEF RecreateEntry, Goto
<1>30. CASE ConfirmEntry(p)
  BY <1>30 DEF ConfirmEntry, Goto
<1>31. CASE PutBackEntry(p)
  BY <1>31 DEF PutBackEntry, Goto
<1>32. CASE RestoreCurrent(p)
  BY <1>32 DEF RestoreCurrent, Goto
<1>33. CASE RestoreRules(p)
  BY <1>33 DEF RestoreRules, Goto
<1>34. CASE RestoreFinal(p)
  BY <1>34 DEF RestoreFinal, Goto
<1>35. CASE RolledBackBackup(p)
  BY <1>35 DEF RolledBackBackup, Goto, SetBackup
<1>36. CASE RolledBackTop(p)
  BY <1>36 DEF RolledBackTop, Goto, SetTop
<1>37. CASE Unlock(p)
  BY <1>37 DEF Unlock, Continue, Goto
<1>38. CASE Report(p)
  BY <1>38 DEF Report, Continue, Goto
<1>39. CASE Interrupt(p)
  BY <1>39, AbandonSamePlace DEF Interrupt
<1>40. CASE Crash(p)
  BY <1>40 DEF Crash, Die, Continue, Goto
<1>41. CASE CrashDuringCreate(p)
  BY <1>41 DEF CrashDuringCreate, Die, Continue, Goto
<1> QED
  BY <1>1, <1>2, <1>3, <1>4, <1>5, <1>6, <1>7, <1>8, <1>9, <1>10, <1>11,
    <1>12, <1>13, <1>14, <1>15, <1>16, <1>17, <1>18, <1>19, <1>20, <1>21,
    <1>22, <1>23, <1>24, <1>25, <1>26, <1>27, <1>28, <1>29, <1>30, <1>31,
    <1>32, <1>33, <1>34, <1>35, <1>36, <1>37, <1>38, <1>39, <1>40, <1>41
  DEF Moves, Step

-----------------------------------------------------------------------------

\* An id is never given back: a process only becomes more published.
LEMMA PublishedStays ==
  ASSUME TypeOK, NEW p \in Invocations, Moves(p), pc'[p] \in Unpublished
  PROVE  pc[p] \in Unpublished
BY SMTT(30)
DEF TypeOK, Unpublished, Ended, Moves, Step, Start, InspectEntry, InspectCurrent, Resolve,
    ReadReceipt, Lock, Prepare, WriteBackupReceipt, WriteTopReceipt,
    Precheck, AbortBackup, AbortTop, ActivateRelease, WriteRules,
    WriteCurrent, CheckActivation, WriteEntry, ReadBackEntry, RemoveCurrent,
    Verify, CommitTop, CommitBackup, FinalCheck, DemoteBackup, DemoteTop,
    RestoreCheck, RestoreEntry, DetachEntry, RecreateEntry, ConfirmEntry,
    PutBackEntry, RestoreCurrent, RestoreRules, RestoreFinal,
    RolledBackBackup, RolledBackTop, Unlock, Report, Interrupt, Crash,
    CrashDuringCreate, Die, Continue, Goto, Abandon, Admission

\* The receipts while both copies stay as they are.
LEMMA SameReceipts ==
  ASSUME IInv, NEW p \in Invocations, Moves(p), UNCHANGED <<top, backup>>
  PROVE  /\ UnpublishedIsNowhere'
         /\ ReceiptIsRecorded'
         /\ ReceiptsRecoverable'
<1>1. \A b \in Bindings : HasReceipt(b)' <=> HasReceipt(b)
  BY DEF HasReceipt
<1>2. \A b \in Bindings : HasReceipt(b) => txn'[top[b].id] = txn[top[b].id]
  <2>1. \A b \in Bindings : HasReceipt(b) => top[b].id \in Invocations
    BY ReceiptType DEF IInv
  <2>2. Prepare(p) => \A b \in Bindings : HasReceipt(b) => top[b].id # p
    BY DEF IInv, Prepare, UnpublishedIsNowhere, Unpublished
  <2> QED
    BY <2>1, <2>2, TxnsAreKept DEF IInv
<1>3. UnpublishedIsNowhere'
  <2> SUFFICES ASSUME NEW q \in Invocations, NEW b \in Bindings,
                      pc'[q] \in Unpublished, HasReceipt(b)
               PROVE  top[b].id # q
    BY <1>1 DEF UnpublishedIsNowhere
  <2>1. pc[q] \in Unpublished
    BY PublishedStays, OthersKeepTheirMemory DEF IInv
  <2> QED
    BY <2>1 DEF IInv, UnpublishedIsNowhere
<1>4. ReceiptIsRecorded'
  BY <1>1, <1>2 DEF IInv, ReceiptIsRecorded
<1>5. ReceiptsRecoverable'
  BY <1>1, <1>2 DEF IInv, ReceiptsRecoverable, receiptWithMatchingBackup
<1> QED
  BY <1>3, <1>4, <1>5

\* The receipts when one of the copies of one binding is rewritten: it is
\* enough to look at that binding.
LEMMA OneReceipt ==
  ASSUME IInv, NEW p \in Invocations, Moves(p), NEW b \in Bindings, UNCHANGED txn,
         \A c \in Bindings \ {b} : top'[c] = top[c],
         \A c \in Bindings \ {b} :
           HasReceipt(c) => backup'[top[c].id] = backup[top[c].id],
         HasReceipt(b)' =>
           /\ txn[top'[b].id] # Absent
           /\ txn[top'[b].id].binding = b
           /\ \/ top'[b].status = backup'[top'[b].id]
              \/ recoverableSplit(top'[b].status, backup'[top'[b].id])
           /\ \/ HasReceipt(b) /\ top'[b].id = top[b].id
              \/ top'[b].id = p /\ pc'[p] \notin Unpublished
  PROVE  /\ UnpublishedIsNowhere'
         /\ ReceiptIsRecorded'
         /\ ReceiptsRecoverable'
<1>1. \A c \in Bindings \ {b} : HasReceipt(c)' <=> HasReceipt(c)
  BY DEF HasReceipt
<1>2. UnpublishedIsNowhere'
  <2> SUFFICES ASSUME NEW q \in Invocations, NEW c \in Bindings,
                      pc'[q] \in Unpublished, HasReceipt(c)'
               PROVE  top'[c].id # q
    BY DEF UnpublishedIsNowhere
  <2>1. pc[q] \in Unpublished
    BY PublishedStays, OthersKeepTheirMemory DEF IInv
  <2> QED
    BY <1>1, <2>1 DEF IInv, UnpublishedIsNowhere
<1>3. ReceiptIsRecorded'
  BY <1>1 DEF IInv, ReceiptIsRecorded
<1>4. ReceiptsRecoverable'
  <2> SUFFICES ASSUME NEW c \in Bindings, HasReceipt(c)'
               PROVE  receiptWithMatchingBackup(c)'
    BY DEF ReceiptsRecoverable
  <2>1. CASE c = b
    BY <2>1 DEF receiptWithMatchingBackup, recoverableSplit
  <2>2. CASE c # b
    BY <1>1, <2>2
    DEF IInv, ReceiptsRecoverable, receiptWithMatchingBackup, recoverableSplit
  <2> QED
    BY <2>1, <2>2
<1> QED
  BY <1>2, <1>3, <1>4

\* A transaction has the receipt of one binding only.
LEMMA ReceiptsDiffer ==
  ASSUME IInv, NEW b \in Bindings, HasReceipt(b),
         NEW c \in Bindings \ {b}, HasReceipt(c)
  PROVE  top[c].id # top[b].id
BY DEF IInv, ReceiptIsRecorded

\* Each of the two copies is only rewritten to a pair a rollback accepts.
LEMMA ReceiptsStayRecoverable ==
  ASSUME IInv, NEW p \in Invocations, Moves(p), TypeOK'
  PROVE  /\ UnpublishedIsNowhere'
         /\ ReceiptIsRecorded'
         /\ ReceiptsRecoverable'
<1>b. PICK b : b = Binding(p)
  OBVIOUS
<1>0. Knows(p) /\ TypeOK /\ Binding(p) = b
  BY <1>b DEF IInv
<1>1. CASE UNCHANGED <<top, backup>>
  BY <1>1, SameReceipts
<1>2. CASE WriteBackupReceipt(p)
  <2>1. b \in Bindings /\ UNCHANGED <<txn, top>>
    BY <1>0, <1>2, OwnTxnType DEF WriteBackupReceipt, Recording
  <2>2. \A c \in Bindings : HasReceipt(c) => top[c].id # p
    BY <1>2 DEF WriteBackupReceipt, IInv, UnpublishedIsNowhere, Unpublished
  <2>3. \A c \in Bindings : HasReceipt(c) => backup'[top[c].id] = backup[top[c].id]
    BY <1>0, <1>2, <2>2, ReceiptType DEF WriteBackupReceipt, TypeOK
  <2>4. HasReceipt(b)' => HasReceipt(b) /\ top'[b].id = top[b].id
    BY <2>1 DEF HasReceipt
  <2> QED
    BY <2>1, <2>3, <2>4, OneReceipt
    DEF IInv, ReceiptIsRecorded, ReceiptsRecoverable, receiptWithMatchingBackup
<1>3. CASE WriteTopReceipt(p)
  <2>1. /\ b \in Bindings /\ txn[p] \in Txns /\ txn[p].binding = b
        /\ UNCHANGED <<backup, txn>> /\ pc[p] = "topReceipt"
    BY <1>0, <1>3, OwnTxnType DEF WriteTopReceipt, Recording
  <2>2. /\ top'[b] = [id |-> p, status |-> "PREPARED"]
        /\ \A c \in Bindings \ {b} : top'[c] = top[c]
    BY <1>0, <1>3, <2>1 DEF WriteTopReceipt, TypeOK
  <2>3. backup[p] = "PREPARED"
    BY <1>0, <2>1 DEF Knows, CopiesFollowCode
  <2>4. txn[p] # Absent /\ pc'[p] \notin Unpublished
    BY <1>0, <1>3, <2>1, TransactionAssumption
    DEF WriteTopReceipt, Goto, Unpublished, TypeOK
  <2> QED
    BY <2>1, <2>2, <2>3, <2>4, OneReceipt
<1>4. CASE AbortBackup(p) \/ CommitBackup(p) \/ DemoteBackup(p)
  <2>1. /\ b \in Bindings /\ work[p].id = p
        /\ UNCHANGED <<top, txn>>
        /\ HasReceipt(b) /\ top[b].id = p
    BY <1>0, <1>4, OwnTxnType
    DEF AbortBackup, CommitBackup, DemoteBackup, Published, Pending, Knows,
        WorksOnReceipt, OnReceipt
  <2>2. \E s \in Status : /\ backup' = [backup EXCEPT ![p] = s]
                          /\ \/ top[b].status = s
                             \/ recoverableSplit(top[b].status, s)
    BY <1>0, <1>4
    DEF AbortBackup, CommitBackup, DemoteBackup, SetBackup, Published, Pending,
        Knows, CopiesFollowCode, CopiesAre, recoverableSplit, Status
  <2>3. \A c \in Bindings \ {b} : HasReceipt(c) => top[c].id # p /\ top[c].id \in Invocations
    BY <1>0, <2>1, ReceiptsDiffer, ReceiptType
  <2>4. \A c \in Bindings \ {b} : HasReceipt(c) => backup'[top[c].id] = backup[top[c].id]
    BY <1>0, <2>2, <2>3 DEF TypeOK
  <2>5. \/ top[b].status = backup'[p]
        \/ recoverableSplit(top[b].status, backup'[p])
    BY <1>0, <2>2 DEF TypeOK
  <2>6. txn[p] # Absent /\ txn[p].binding = b
    BY <2>1 DEF IInv, ReceiptIsRecorded
  <2> QED
    BY <2>1, <2>4, <2>5, <2>6, OneReceipt
<1>5. CASE RolledBackBackup(p)
  <2> DEFINE i == work[p].id
  <2>1. /\ b \in Bindings /\ i \in Invocations
        /\ UNCHANGED <<top, txn>>
        /\ HasReceipt(b) /\ top[b].id = i
        /\ backup' = [backup EXCEPT ![i] = "ROLLED_BACK"]
    BY <1>0, <1>5, RestoredTxnType
    DEF RolledBackBackup, SetBackup, Restoring, Knows, WorksOnReceipt, OnReceipt
  <2>2. \A c \in Bindings \ {b} : HasReceipt(c) => top[c].id # i /\ top[c].id \in Invocations
    BY <1>0, <2>1, ReceiptsDiffer, ReceiptType
  <2>3. /\ \A c \in Bindings \ {b} : HasReceipt(c) => backup'[top[c].id] = backup[top[c].id]
        /\ backup'[i] = "ROLLED_BACK"
    BY <1>0, <2>1, <2>2 DEF TypeOK
  <2>4. \/ top[b].status = "ROLLED_BACK"
        \/ recoverableSplit(top[b].status, "ROLLED_BACK")
    BY <1>0, <2>1, ReceiptType DEF recoverableSplit, Status
  <2>5. txn[i] # Absent /\ txn[i].binding = b
    BY <2>1 DEF IInv, ReceiptIsRecorded
  <2> QED
    BY <2>1, <2>3, <2>4, <2>5, OneReceipt
<1>6. CASE AbortTop(p) \/ CommitTop(p) \/ DemoteTop(p) \/ RolledBackTop(p)
  <2>1. PICK s \in Status :
          /\ top' = [top EXCEPT ![b].status = s]
          /\ top'[b] = [top[b] EXCEPT !.status = s]
          /\ b \in Bindings
          /\ OnReceipt(p)
          /\ UNCHANGED <<backup, txn, req, lock>>
          /\ CopiesFollowCode(p)
          /\ \/ AbortTop(p) /\ s = "ROLLED_BACK"
             \/ CommitTop(p) /\ s = "COMMITTED"
             \/ DemoteTop(p) /\ s = "PREPARED"
             \/ RolledBackTop(p) /\ s = "ROLLED_BACK"
    BY <1>0, <1>6, TopRewritten
  <2>2. HasReceipt(b) /\ top[b].id = work[p].id
    BY <1>0, <2>1 DEF OnReceipt
  <2>3. top'[b].id = work[p].id /\ top'[b].status = s
    BY <1>0, <2>1, <2>2, ReceiptType, StatusRewritten
  <2>4. s = backup[work[p].id] \/ recoverableSplit(s, backup[work[p].id])
    <3>1. RolledBackTop(p) => backup[work[p].id] = "ROLLED_BACK"
      BY <2>1 DEF RolledBackTop, CopiesFollowCode
    <3>2. AbortTop(p) \/ CommitTop(p) \/ DemoteTop(p) => work[p].id = p
      BY <1>0, OwnTxnType DEF AbortTop, CommitTop, DemoteTop, Published, Pending
    <3>3. /\ AbortTop(p) => backup[p] = "ROLLED_BACK"
          /\ CommitTop(p) => backup[p] = "PREPARED"
          /\ DemoteTop(p) => backup[p] = "PREPARED"
      BY <2>1
      DEF AbortTop, CommitTop, DemoteTop, CopiesFollowCode, CopiesAre, Pending
    <3> QED
      BY <2>1, <3>1, <3>2, <3>3 DEF recoverableSplit
  <2>5. \A c \in Bindings \ {b} : top'[c] = top[c]
    BY <1>0, <2>1 DEF TypeOK
  <2>6. txn[work[p].id] # Absent /\ txn[work[p].id].binding = b
    BY <2>1, <2>2 DEF IInv, ReceiptIsRecorded
  <2> QED
    BY <2>1, <2>2, <2>3, <2>4, <2>5, <2>6, OneReceipt
<1>7. CASE /\ pc[p] = "topReceipt"
           /\ top' = [top EXCEPT ![Binding(p)] = Torn]
           /\ UNCHANGED <<backup, txn>>
  <2>1. b \in Bindings
    BY <1>0, <1>7, OwnTxnType DEF Recording
  <2>2. ~HasReceipt(b)' /\ \A c \in Bindings \ {b} : top'[c] = top[c]
    BY <1>0, <1>7, <2>1 DEF HasReceipt, TypeOK
  <2> QED
    BY <1>7, <2>1, <2>2, OneReceipt
<1>8. ASSUME UNCHANGED top
      PROVE  /\ UnpublishedIsNowhere'
             /\ ReceiptIsRecorded'
             /\ ReceiptsRecoverable'
  BY <1>1, <1>2, <1>4, <1>5, <1>8, BackupSteps
<1> QED
  BY <1>3, <1>6, <1>7, <1>8, TopSteps

-----------------------------------------------------------------------------

\* The invariant holds before anybody has been started.
LEMMA InitInvariant == Init => IInv
<1> SUFFICES ASSUME Init PROVE IInv
  OBVIOUS
<1>1. TypeOK
  BY TransactionAssumption, NoWorkType
  DEF Init, TypeOK, PC, Entries, Installed, Rules
<1>2. \A b \in Bindings : ~HasReceipt(b)
  BY DEF Init, HasReceipt
<1>3. \A p \in Invocations : Knows(p)
  BY DEF Init, Knows, LockHeld, Started, TakesOwnPath, ContextIsWhole, WorksOnOwn,
     WorksOnRecorded, WorksOnReceipt, CopiesFollowCode, Locked, Published,
     Pending, Recording, Restoring
<1> QED
  BY <1>1, <1>2, <1>3
  DEF IInv, UnpublishedIsNowhere, ReceiptIsRecorded, ReceiptsRecoverable

\* The invariant is inductive: every step of every process and every save in
\* the editor preserves it.
LEMMA NextInvariant == IInv /\ [Next]_vars => IInv'
<1> SUFFICES ASSUME IInv, [Next]_vars PROVE IInv'
  OBVIOUS
<1>1. ASSUME NEW p \in Invocations, Moves(p)
      PROVE  IInv'
  <2>1. TypeOK'
    BY <1>1, MoveTypeOK DEF IInv
  <2>2. \A q \in Invocations : Knows(q)'
    BY <1>1, <2>1, OwnKnows, OthersKnow DEF IInv
  <2> QED
    BY <1>1, <2>1, <2>2, ReceiptsStayRecoverable DEF IInv
<1>2. ASSUME NEW b \in Bindings, EditEntry(b)
      PROVE  IInv'
  <2>1. TypeOK'
    BY <1>2, EditTypeOK DEF IInv
  <2>2. UNCHANGED <<top, backup, txn, lock, pc, req, work>>
    BY <1>2 DEF EditEntry, copies
  <2> QED
    BY <2>1, <2>2 DEF IInv, Knows, LockHeld, Started, TakesOwnPath, ContextIsWhole,
       WorksOnOwn, WorksOnRecorded, WorksOnReceipt, OnReceipt, HasReceipt,
       CopiesFollowCode, CopiesAre, Binding, IsRollback, UnpublishedIsNowhere,
       ReceiptIsRecorded, ReceiptsRecoverable, receiptWithMatchingBackup
<1>3. CASE UNCHANGED vars
  BY <1>3
  DEF vars, IInv, TypeOK, Knows, LockHeld, Started, TakesOwnPath, ContextIsWhole,
     WorksOnOwn, WorksOnRecorded, WorksOnReceipt, OnReceipt, HasReceipt,
     CopiesFollowCode, CopiesAre, Binding, IsRollback, UnpublishedIsNowhere,
     ReceiptIsRecorded, ReceiptsRecoverable, receiptWithMatchingBackup
<1> QED
  BY <1>1, <1>2, <1>3 DEF Next, Moves

\* The invariant holds in every reachable state.
LEMMA Invariant == Spec => []IInv
BY InitInvariant, NextInvariant, PTL DEF Spec

\* TypeOK holds whatever the invocations, requests, deaths and saves are: the
\* steps of transaction.ts only ever produce files, receipts and contexts of
\* the kinds its readers expect.
THEOREM TypeCorrect == Spec => []TypeOK
<1>1. IInv => TypeOK
  BY DEF IInv
<1> QED
  BY <1>1, Invariant, PTL

\* At every point where a process may die, and while others work, both copies
\* of every receipt are a pair receiptWithMatchingBackup (receipts.ts) accepts:
\* a rollback is never refused because of the receipts themselves.
THEOREM ReceiptsAlwaysRecoverable == Spec => []ReceiptsRecoverable
<1>1. IInv => ReceiptsRecoverable
  BY DEF IInv
<1> QED
  BY <1>1, Invariant, PTL

\* The rules file of a release is written by the holder of the lock only.
LEMMA RulesSteps ==
  ASSUME NEW p \in Invocations, Moves(p), ~RestoreRules(p)
  PROVE  UNCHANGED rules \/ pc[p] = "writeRules"
BY DEF Moves, Step, Start, InspectEntry, InspectCurrent, Resolve,
    ReadReceipt, Lock, Prepare, WriteBackupReceipt, WriteTopReceipt,
    Precheck, AbortBackup, AbortTop, ActivateRelease, WriteCurrent,
    CheckActivation, WriteEntry, ReadBackEntry, RemoveCurrent, Verify,
    CommitTop, CommitBackup, FinalCheck, DemoteBackup, DemoteTop,
    RestoreCheck, RestoreEntry, DetachEntry, RecreateEntry, ConfirmEntry,
    PutBackEntry, RestoreCurrent, RestoreFinal, RolledBackBackup,
    RolledBackTop, Unlock, Report, Interrupt, Crash, CrashDuringCreate,
    WriteRules, disk, store

\* Restoring one binding (recovery.ts, otherBindingReferences) leaves the rules
\* of every release alone that another binding's metadata names, also when
\* other invocations move while the restore is at work.
THEOREM SharedRulesArePreserved == Spec => SharedRulesPreserved
<1>1. IInv /\ [Next]_vars =>
        [\A p \in Invocations, v \in Versions :
           pc[p] = "restoreRules" /\ v \in otherBindings(Binding(p)) =>
             rules'[v] = rules[v]]_vars
  <2> SUFFICES ASSUME IInv, Next,
                      NEW p \in Invocations, NEW v \in Versions,
                      pc[p] = "restoreRules", v \in otherBindings(Binding(p))
               PROVE  rules'[v] = rules[v]
    OBVIOUS
  <2>1. CASE RestoreRules(p)
    <3>1. /\ rules \in [Versions -> Rules]
          /\ UNCHANGED rules \/ txn[work[p].id].release # v
      BY <2>1 DEF RestoreRules, otherBindingReferences, IInv, TypeOK
    <3>2. \/ UNCHANGED rules
          \/ \E x : rules' = [rules EXCEPT ![txn[work[p].id].release] = x]
      BY <2>1 DEF RestoreRules
    <3> QED
      BY <3>1, <3>2
  <2>2. ASSUME Moves(p), ~RestoreRules(p)
        PROVE  rules'[v] = rules[v]
    BY <2>2, RulesSteps
  <2>3. ASSUME NEW q \in Invocations \ {p}, Moves(q)
        PROVE  rules'[v] = rules[v]
    <3>1. pc[q] \notin Locked
      BY DEF IInv, Knows, LockHeld, Locked
    <3> QED
      BY <2>3, <3>1, RulesSteps DEF Locked, RestoreRules
  <2>4. ASSUME NEW b \in Bindings, EditEntry(b)
        PROVE  rules'[v] = rules[v]
    BY <2>4 DEF EditEntry, store
  <2> QED
    BY <2>1, <2>2, <2>3, <2>4 DEF Next, Moves
<1> QED
  BY <1>1, Invariant, PTL DEF Spec, SharedRulesPreserved
-----------------------------------------------------------------------------
(* The files.                                                              *)

\* The images a transaction records differ in the block only.
RecordsAreChanges ==
  \A id \in Invocations :
    txn[id] # Absent =>
      /\ Text(txn[id].applied) = Text(txn[id].before)
      /\ Block(txn[id].applied) = txn[id].curApplied

\* Nothing has been moved aside for a transaction that is not published, or
\* whose restore is about to move the entry.
DetachedOnce ==
  \A p \in Invocations :
    /\ pc[p] \in Unpublished \cup Published => detached[p] = Absent
    /\ pc[p] = "restore" /\ ~IsRollback(p) => detached[p] = Absent
    /\ pc[p] = "detach" => detached[work[p].id] = Absent

TextInv == RecordsAreChanges /\ DetachedOnce /\ UserTextRecoverable

-----------------------------------------------------------------------------
(* The text of the user.                                                    *)

\* Every step of a process, for the facts that hold of all of them.
LEMMA FilesOfOthers ==
  ASSUME TypeOK, NEW p \in Invocations, Moves(p)
  PROVE  /\ pc[p] \notin Locked =>
              UNCHANGED <<entry, current, detached, releases, rules>>
         /\ \A b \in Bindings \ {Binding(p)} :
              entry'[b] = entry[b] /\ current'[b] = current[b] /\ top'[b] = top[b]
         /\ saved' = saved
BY DEF TypeOK, Moves, Step, Start, InspectEntry, InspectCurrent, Resolve,
    ReadReceipt, Lock, Prepare, WriteBackupReceipt, WriteTopReceipt,
    Precheck, AbortBackup, AbortTop, ActivateRelease, WriteRules,
    WriteCurrent, CheckActivation, WriteEntry, ReadBackEntry, RemoveCurrent,
    Verify, CommitTop, CommitBackup, FinalCheck, DemoteBackup, DemoteTop,
    RestoreCheck, RestoreEntry, DetachEntry, RecreateEntry, ConfirmEntry,
    PutBackEntry, RestoreCurrent, RestoreRules, RestoreFinal,
    RolledBackBackup, RolledBackTop, Unlock, Report, Interrupt, Crash,
    CrashDuringCreate, Die, SetTop, Locked, disk, files, copies, store, env

\* Which steps change the entry or what was moved aside.
LEMMA EntrySteps ==
  ASSUME NEW p \in Invocations, Moves(p)
  PROVE  \/ UNCHANGED <<entry, detached>>
         \/ WriteEntry(p) \/ DetachEntry(p) \/ RecreateEntry(p) \/ PutBackEntry(p)
         \/ /\ CrashDuringCreate(p)
            /\ entry[Binding(p)] = Absent
            /\ entry' = [entry EXCEPT ![Binding(p)] = Torn]
            /\ UNCHANGED detached
BY DEF Moves, Step, Start, InspectEntry, InspectCurrent, Resolve,
    ReadReceipt, Lock, Prepare, WriteBackupReceipt, WriteTopReceipt,
    Precheck, AbortBackup, AbortTop, ActivateRelease, WriteRules,
    WriteCurrent, CheckActivation, ReadBackEntry, RemoveCurrent,
    Verify, CommitTop, CommitBackup, FinalCheck, DemoteBackup, DemoteTop,
    RestoreCheck, RestoreEntry, ConfirmEntry, RestoreCurrent, RestoreRules,
    RestoreFinal, RolledBackBackup, RolledBackTop, Unlock, Report, Interrupt,
    Crash, CrashDuringCreate, disk, files, copies, store

\* The operations on the managed block keep the text outside it.
LEMMA BlockImages ==
  ASSUME NEW e \in Entries \cup {Absent, Torn}
  PROVE  /\ Text(removeManagedBlock(e)) = Text(e)
         /\ Block(removeManagedBlock(e)) = Absent
         /\ \A v \in Versions : /\ Text(installManagedBlock(e, v)) = Text(e)
                                /\ Block(installManagedBlock(e, v)) = v
<1>1. \A x \in Entries : x \notin {Absent, Torn}
  BY TransactionAssumption
<1>2. \A t \in Texts, v \in Versions \cup {Absent} :
        Text([text |-> t, block |-> v]) = t /\ Block([text |-> t, block |-> v]) = v
  BY <1>1 DEF Text, Block, Entries
<1>3. Text(e) \in Texts
  BY BlockOperations
<1> QED
  BY <1>2, <1>3 DEF removeManagedBlock, installManagedBlock

\* What Prepare records of the files, when it records anything.
LEMMA PrepareImages ==
  ASSUME TypeOK, NEW p \in Invocations, Knows(p), Prepare(p), pc'[p] = "backupReceipt"
  PROVE  /\ txn'[p].before = work[p].entry
         /\ txn'[p].applied = AppliedEntry(p)
         /\ txn'[p].curBefore = current[Binding(p)]
         /\ txn'[p].curApplied = AppliedCurrent(p)
         /\ work'[p].id = p
         /\ \A q \in Invocations \ {p} : txn'[q] = txn[q]
         /\ Text(txn'[p].applied) = Text(txn'[p].before)
         /\ Block(txn'[p].applied) = txn'[p].curApplied
<1>1. /\ Binding(p) \in Bindings /\ req[p].release \in Versions
      /\ ~IsRollback(p) /\ pc[p] = "prepare"
  BY RequestType DEF Prepare, Knows, Ended, WorksOnOwn
<1>2. work[p].entry \in Entries \cup {Absent, Torn}
  BY DEF TypeOK, Works
<1>3. ~RulesStale(p)
  BY DEF Prepare, Goto, TypeOK
<1>4. /\ txn'[p].before = work[p].entry
      /\ txn'[p].applied = AppliedEntry(p)
      /\ txn'[p].curBefore = current[Binding(p)]
      /\ txn'[p].curApplied = AppliedCurrent(p)
      /\ \A q \in Invocations \ {p} : txn'[q] = txn[q]
  BY <1>3 DEF Prepare, TypeOK
<1>5. work'[p].id = p
  BY <1>3 DEF Prepare, TypeOK, Works
<1>6. /\ Text(AppliedEntry(p)) = Text(work[p].entry)
      /\ Block(AppliedEntry(p)) = AppliedCurrent(p)
  BY <1>1, <1>2, BlockImages DEF AppliedEntry, AppliedCurrent
<1> QED
  BY <1>4, <1>5, <1>6

\* Prepare either records and goes on, or changes nothing and gives up.
LEMMA PrepareOutcome ==
  ASSUME TypeOK, NEW p \in Invocations, Prepare(p)
  PROVE  \/ pc'[p] = "backupReceipt"
         \/ pc'[p] = "releaseFail" /\ UNCHANGED <<txn, work>>
BY DEF Prepare, Goto, TypeOK

LEMMA RecordsStay ==
  ASSUME IInv, RecordsAreChanges, NEW p \in Invocations, Moves(p)
  PROVE  RecordsAreChanges'
<1>1. CASE Prepare(p)
  BY <1>1, PrepareImages, PrepareOutcome DEF IInv, RecordsAreChanges
<1>2. CASE ~Prepare(p)
  BY <1>2, TxnsAreKept DEF IInv, RecordsAreChanges
<1> QED
  BY <1>1, <1>2

\* Where a process is next tells where it was.
LEMMA CameFrom ==
  ASSUME TypeOK, NEW p \in Invocations, Knows(p), Moves(p)
  PROVE  /\ pc'[p] \in Unpublished \cup Published => pc[p] \in Unpublished \cup Published
         /\ pc'[p] = "restore" /\ ~IsRollback(p)' =>
              pc[p] \in Published /\ work'[p].id = work[p].id
         /\ pc'[p] = "detach" =>
              /\ detached[work[p].id] = Absent
              /\ work'[p].id = work[p].id
<1>1. pc'[p] \in Unpublished \cup Published => pc[p] \in Unpublished \cup Published
  BY SMTT(30) DEF TypeOK, Unpublished, Published, Pending, Ended, Moves, Step, Start,
    InspectEntry, InspectCurrent, Resolve,
    ReadReceipt, Lock, Prepare, WriteBackupReceipt, WriteTopReceipt,
    Precheck, AbortBackup, AbortTop, ActivateRelease, WriteRules,
    WriteCurrent, CheckActivation, WriteEntry, ReadBackEntry, RemoveCurrent,
    Verify, CommitTop, CommitBackup, FinalCheck, DemoteBackup, DemoteTop,
    RestoreCheck, RestoreEntry, DetachEntry, RecreateEntry, ConfirmEntry,
    PutBackEntry, RestoreCurrent, RestoreRules, RestoreFinal,
    RolledBackBackup, RolledBackTop, Unlock, Report, Interrupt, Crash,
    CrashDuringCreate, Die, Continue, Goto, Abandon, Admission
<1>2. pc'[p] = "restore" => \/ Lock(p) /\ IsRollback(p)'
                            \/ pc[p] \in Published /\ \E x : Abandon(p, x)
  BY DEF TypeOK, Unpublished, Published, Pending, Ended, Moves, Step, Start,
    InspectEntry, InspectCurrent, Resolve, IsRollback,
    ReadReceipt, Lock, Prepare, WriteBackupReceipt, WriteTopReceipt,
    Precheck, AbortBackup, AbortTop, ActivateRelease, WriteRules,
    WriteCurrent, CheckActivation, WriteEntry, ReadBackEntry, RemoveCurrent,
    Verify, CommitTop, CommitBackup, FinalCheck, DemoteBackup, DemoteTop,
    RestoreCheck, RestoreEntry, DetachEntry, RecreateEntry, ConfirmEntry,
    PutBackEntry, RestoreCurrent, RestoreRules, RestoreFinal,
    RolledBackBackup, RolledBackTop, Unlock, Report, Interrupt, Crash,
    CrashDuringCreate, Die, Continue, Goto, Admission
<1>3. pc'[p] = "detach" => RestoreEntry(p)
  BY DEF TypeOK, Ended, Moves, Step, Start,
    InspectEntry, InspectCurrent, Resolve,
    ReadReceipt, Lock, Prepare, WriteBackupReceipt, WriteTopReceipt,
    Precheck, AbortBackup, AbortTop, ActivateRelease, WriteRules,
    WriteCurrent, CheckActivation, WriteEntry, ReadBackEntry, RemoveCurrent,
    Verify, CommitTop, CommitBackup, FinalCheck, DemoteBackup, DemoteTop,
    RestoreCheck, DetachEntry, RecreateEntry, ConfirmEntry,
    PutBackEntry, RestoreCurrent, RestoreRules, RestoreFinal,
    RolledBackBackup, RolledBackTop, Unlock, Report, Interrupt, Crash,
    CrashDuringCreate, Die, Continue, Goto, Abandon, Admission
<1>4. RestoreEntry(p) /\ pc'[p] = "detach" =>
        detached[work[p].id] = Absent /\ work'[p].id = work[p].id
  BY DEF RestoreEntry, Goto, TypeOK, Works
<1> QED
  BY <1>1, <1>2, <1>3, <1>4, AbandonKeeps


\* Only the restore that works on a published receipt moves an entry aside.
LEMMA DetachedStays ==
  ASSUME IInv, DetachedOnce, NEW p \in Invocations, Moves(p), TypeOK'
  PROVE  DetachedOnce'
<1>1. CASE DetachEntry(p)
  <2>1. /\ pc[p] = "detach" /\ pc'[p] = "recreate" /\ OnReceipt(p)
        /\ detached' = [detached EXCEPT ![work[p].id] = entry[Binding(p)]]
        /\ Binding(p) \in Bindings
    BY <1>1, RequestType
    DEF DetachEntry, Goto, IInv, TypeOK, Knows, WorksOnReceipt, Restoring, Ended
  <2>2. \A q \in Invocations \ {p} :
          /\ pc'[q] = pc[q] /\ req'[q] = req[q] /\ work'[q] = work[q]
          /\ pc[q] \notin Locked
    BY <2>1, OthersKeepTheirMemory DEF IInv, Knows, LockHeld, Locked
  <2>3. \A q \in Invocations \ {p} : pc[q] \in Unpublished => q # work[p].id
    BY <2>1 DEF IInv, UnpublishedIsNowhere, OnReceipt
  <2>4. \A q \in Invocations \ {p} :
          pc[q] \notin Published \cup {"restore", "detach"}
    BY <2>2 DEF Locked, Published, Pending
  <2>5. \A q \in Invocations \ {p} : pc'[q] \in Unpublished => detached'[q] = Absent
    BY <2>1, <2>2, <2>3 DEF DetachedOnce, IInv, TypeOK
  <2>6. pc'[p] \notin Unpublished \cup Published \cup {"restore", "detach"}
    BY <2>1 DEF Unpublished, Published, Pending
  <2> QED
    BY <2>2, <2>4, <2>5, <2>6 DEF DetachedOnce
<1>2. CASE ~DetachEntry(p)
  <2>1. UNCHANGED detached
    BY <1>2, EntrySteps DEF WriteEntry, RecreateEntry, PutBackEntry
  <2>2. \A q \in Invocations \ {p} :
          pc'[q] = pc[q] /\ req'[q] = req[q] /\ work'[q] = work[q]
    BY OthersKeepTheirMemory DEF IInv
  <2>3. Knows(p) /\ TypeOK
    BY DEF IInv
  <2> QED
    BY <2>1, <2>2, <2>3, CameFrom DEF DetachedOnce, IsRollback
<1> QED
  BY <1>1, <1>2

\* Whatever an invocation does to the entry, the text is still there, or it is
\* in the file the entry was moved to.
LEMMA TextStays ==
  ASSUME IInv, TextInv, NEW p \in Invocations, Moves(p), NEW b \in Bindings,
         saved[b] # EmptyText
  PROVE  \/ Text(entry'[b]) = saved[b]
         \/ \E id \in Invocations : Text(detached'[id]) = saved[b]
<1> DEFINE Here == Text(entry[b]) = saved[b]
<1>t. TypeOK /\ Knows(p)
  BY DEF IInv
<1>1. CASE UNCHANGED <<entry, detached>>
  BY <1>1 DEF TextInv, UserTextRecoverable
<1>2. CASE WriteEntry(p)
  <2>1. /\ UNCHANGED detached /\ txn[p] # Absent
        /\ Binding(p) \in Bindings
    BY <1>2, <1>t, OwnTxnType, TransactionAssumption
    DEF WriteEntry, Published, Pending, Knows, WorksOnOwn
  <2>2. \/ entry' = entry
        \/ /\ entry[Binding(p)] = txn[p].before
           /\ entry' = [entry EXCEPT ![Binding(p)] = txn[p].applied]
    BY <1>2 DEF WriteEntry
  <2>3. Text(txn[p].applied) = Text(txn[p].before)
    BY <2>1 DEF TextInv, RecordsAreChanges
  <2>4. Text(entry'[b]) = Text(entry[b])
    BY <2>1, <2>2, <2>3, <1>t DEF TypeOK
  <2> QED
    BY <2>1, <2>4 DEF TextInv, UserTextRecoverable
<1>3. CASE DetachEntry(p)
  <2>1. /\ detached[work[p].id] = Absent
        /\ work[p].id \in Invocations
        /\ detached' = [detached EXCEPT ![work[p].id] = entry[Binding(p)]]
        /\ entry' = [entry EXCEPT ![Binding(p)] = Absent]
    BY <1>3, <1>t, RestoredTxnType
    DEF DetachEntry, Restoring, TextInv, DetachedOnce
  <2>2. Text(Absent) = EmptyText
    BY DEF Text
  <2>3. CASE b = Binding(p)
    <3>1. Here => Text(detached'[work[p].id]) = saved[b]
      BY <2>1, <2>3, <1>t DEF TypeOK
    <3>2. \A id \in Invocations : Text(detached[id]) = saved[b] => detached'[id] = detached[id]
      BY <2>1, <2>2, <1>t DEF TypeOK
    <3> QED
      BY <3>1, <3>2, <2>1 DEF TextInv, UserTextRecoverable
  <2>4. CASE b # Binding(p)
    <3>1. entry'[b] = entry[b]
      BY <2>1, <2>4, <1>t DEF TypeOK
    <3>2. \A id \in Invocations : Text(detached[id]) = saved[b] => detached'[id] = detached[id]
      BY <2>1, <2>2, <1>t DEF TypeOK
    <3> QED
      BY <3>1, <3>2 DEF TextInv, UserTextRecoverable
  <2> QED
    BY <2>3, <2>4
<1>4. ASSUME UNCHANGED detached, entry'[b] = entry[b] \/ entry[b] = Absent
      PROVE  \/ Text(entry'[b]) = saved[b]
             \/ \E id \in Invocations : Text(detached'[id]) = saved[b]
  <2>1. Text(Absent) = EmptyText
    BY DEF Text
  <2> QED
    BY <1>4, <2>1 DEF TextInv, UserTextRecoverable
<1>5. CASE RecreateEntry(p)
  <2>1. UNCHANGED detached /\ (entry'[b] = entry[b] \/ entry[b] = Absent)
    BY <1>5, <1>t DEF RecreateEntry, TypeOK
  <2> QED
    BY <1>4, <2>1
<1>6. CASE PutBackEntry(p)
  <2>1. UNCHANGED detached /\ (entry'[b] = entry[b] \/ entry[b] = Absent)
    BY <1>6, <1>t DEF PutBackEntry, TypeOK
  <2> QED
    BY <1>4, <2>1
<1>7. CASE /\ entry[Binding(p)] = Absent
           /\ entry' = [entry EXCEPT ![Binding(p)] = Torn]
           /\ UNCHANGED detached
  <2>1. entry'[b] = entry[b] \/ entry[b] = Absent
    BY <1>7, <1>t DEF TypeOK
  <2> QED
    BY <1>4, <1>7, <2>1
<1> QED
  BY <1>1, <1>2, <1>3, <1>5, <1>6, <1>7, EntrySteps

LEMMA InitText == Init => TextInv
<1> SUFFICES ASSUME Init PROVE TextInv
  OBVIOUS
<1>1. RecordsAreChanges /\ DetachedOnce
  BY DEF Init, RecordsAreChanges, DetachedOnce, Unpublished, Published, Pending
<1>2. UserTextRecoverable
  <2> SUFFICES ASSUME NEW b \in Bindings, saved[b] # EmptyText
               PROVE  Text(entry[b]) = saved[b]
    BY DEF UserTextRecoverable
  <2>1. entry[b] \in [text : Texts, block : {Absent}] \cup {Absent}
    BY DEF Init
  <2>2. \A x \in [text : Texts, block : {Absent}] : x \in Entries
    BY DEF Entries
  <2>3. entry[b] # Absent /\ entry[b] # Torn /\ saved[b] = entry[b].text
    BY <2>1, <2>2, TransactionAssumption DEF Init
  <2> QED
    BY <2>3 DEF Text
<1> QED
  BY <1>1, <1>2 DEF TextInv

LEMMA NextText == IInv /\ IInv' /\ TextInv /\ [Next]_vars => TextInv'
<1> SUFFICES ASSUME IInv, IInv', TextInv, [Next]_vars PROVE TextInv'
  OBVIOUS
<1>1. ASSUME NEW p \in Invocations, Moves(p)
      PROVE  TextInv'
  <2>1. RecordsAreChanges' /\ DetachedOnce'
    BY <1>1, RecordsStay, DetachedStays DEF TextInv, IInv
  <2>2. saved' = saved
    BY <1>1, FilesOfOthers DEF IInv
  <2>3. UserTextRecoverable'
    BY <1>1, <2>2, TextStays DEF UserTextRecoverable
  <2> QED
    BY <2>1, <2>3 DEF TextInv
<1>2. ASSUME NEW b \in Bindings, EditEntry(b)
      PROVE  TextInv'
  <2>1. UNCHANGED <<txn, detached, pc, req, work>>
    BY <1>2 DEF EditEntry
  <2>2. PICK t \in Texts :
          /\ entry' = [entry EXCEPT ![b] = [text |-> t, block |-> Block(entry[b])]]
          /\ saved' = [saved EXCEPT ![b] = t]
    BY <1>2 DEF EditEntry
  <2>3. [text |-> t, block |-> Block(entry[b])] \in Entries
    BY BlockOperations DEF IInv, TypeOK, Entries, Installed
  <2>4. Text(entry'[b]) = saved'[b]
    <3>1. [text |-> t, block |-> Block(entry[b])] \notin {Absent, Torn}
      BY <2>3, TransactionAssumption
    <3> QED
      BY <2>2, <3>1 DEF Text, IInv, TypeOK
  <2>5. \A c \in Bindings \ {b} : entry'[c] = entry[c] /\ saved'[c] = saved[c]
    BY <2>2 DEF IInv, TypeOK
  <2>6. UserTextRecoverable'
    BY <2>1, <2>4, <2>5 DEF TextInv, UserTextRecoverable
  <2> QED
    BY <2>1, <2>6 DEF TextInv, RecordsAreChanges, DetachedOnce, IsRollback
<1>3. CASE UNCHANGED vars
  BY <1>3 DEF vars, TextInv, RecordsAreChanges, DetachedOnce, IsRollback,
              UserTextRecoverable
<1> QED
  BY <1>1, <1>2, <1>3 DEF Next, Moves

LEMMA TextInvariant == Spec => []TextInv
BY InitText, NextText, Invariant, PTL DEF Spec

\* However installations, uninstalls and rollbacks overlap, fail and die, the text
\* the user saved last is in the entry file or in the file a restore (recovery.ts,
\* restoreEntrySnapshot) moved it to.
THEOREM UserTextIsRecoverable == Spec => []UserTextRecoverable
<1>1. TextInv => UserTextRecoverable
  BY DEF TextInv
<1> QED
  BY <1>1, TextInvariant, PTL


-----------------------------------------------------------------------------
\* Assumptions of the second part.
NoRecovery == \A r \in Requests : r.op # "rollback"
OneAtATime == MaxRunning = 1 /\ IsFiniteSet(Invocations)
Undisturbed == MaxEdits = 0 /\ (NoRecovery \/ OneAtATime)

\* A transaction started from files that agree.
Matched(id) == Block(txn[id].before) = txn[id].curBefore

\* The transaction an invocation changes or restores.
Its(p) == txn[work[p].id]
EntryIs(p, e) == entry[Binding(p)] = e
CurrentIs(p, c) == current[Binding(p)] = c

\* A mutation that has compared the preimages and changes the files.
Changing == Published \ {"precheck", "abortBackup", "abortTop"}
Activated == {"verify", "commitTop", "commitBackup", "finalCheck",
              "demoteBackup", "demoteTop"}
Restored == {"restoreRules", "restoreFinal", "rolledBackup", "rolledTop"}
OwnRestore(p) == pc[p] = "restore" /\ ~IsRollback(p)

\* A mutation that has not begun to change the files finds them in agreement.
Begins(p) ==
  /\ pc[p] \in {"prepare", "abortBackup", "abortTop", "precheck"} \cup Recording
       => Consistent(Binding(p))
  /\ pc[p] \in {"precheck"} \cup Recording =>
       CurrentIs(p, Its(p).curBefore) /\ Its(p).curApplied = AppliedCurrent(p)

\* The image of each file at each place of a mutation.
Advances(p) ==
  /\ pc[p] \in Changing =>
       /\ Matched(p)
       /\ Its(p).curApplied = AppliedCurrent(p)
       /\ RulesRestorable(p)
  /\ pc[p] \in {"apply", "writeRules", "writeCurrent"} =>
       EntryIs(p, Its(p).before) /\ CurrentIs(p, Its(p).curBefore)
  /\ pc[p] \in {"checkActivation", "writeEntry"} => EntryIs(p, Its(p).before)
  /\ pc[p] \in {"readback", "removeCurrent"} => EntryIs(p, Its(p).applied)
  /\ pc[p] = "checkActivation" => CurrentIs(p, Its(p).curApplied)
  /\ pc[p] = "removeCurrent" => req[p].op = "uninstall"
  /\ pc[p] \in {"writeRules", "writeCurrent", "checkActivation"} =>
       req[p].op # "uninstall"
  /\ pc[p] \in {"writeEntry", "readback", "removeCurrent"} =>
       CurrentIs(p, IF req[p].op = "uninstall" THEN Its(p).curBefore
                                               ELSE Its(p).curApplied)
  /\ pc[p] \in Activated =>
       EntryIs(p, Its(p).applied) /\ CurrentIs(p, Its(p).curApplied)

\* The image of each file at each place of a restore, which goes on to its end
\* when it is the restore of a failed mutation.
Restores(p) ==
  /\ ~work[p].preserve
  /\ pc[p] \in {"lock", "restore"} /\ IsRollback(p) =>
       work[p].status # "ROLLED_BACK"
  /\ OwnRestore(p) \/ pc[p] \in Restoring =>
       /\ Matched(work[p].id)
       /\ CurrentRestorable(Binding(p), work[p].id)
       /\ top[Binding(p)].status # "ROLLED_BACK"
  /\ OwnRestore(p) =>
       /\ work[p].id = p
       /\ entry[Binding(p)] \in {Its(p).before, Its(p).applied}
       /\ RulesRestorable(p)
  /\ pc[p] = "restoreEntry" => EntryRestorable(Binding(p), work[p].id)
  /\ pc[p] = "restoreEntry" /\ ~IsRollback(p) => detached[work[p].id] = Absent
  /\ pc[p] = "detach" => EntryIs(p, work[p].expected)
  /\ pc[p] = "recreate" => detached[work[p].id] = work[p].expected
  /\ pc[p] = "recreate" /\ ~IsRollback(p) => EntryIs(p, Absent)
  /\ pc[p] = "confirm" /\ ~IsRollback(p) => EntryIs(p, Its(p).before)
  /\ pc[p] = "putBack" => IsRollback(p)
  /\ pc[p] \in {"restoreCurrent"} \cup Restored => EntryIs(p, Its(p).before)
  /\ pc[p] \in Restored => CurrentIs(p, Its(p).curBefore)

\* Files that disagree have an open or a committed receipt, at all times.
MixedIsOpen ==
  \A b \in Bindings :
    ~Consistent(b) => /\ HasReceipt(b)
                      /\ top[b].status \in {"PREPARED", "COMMITTED"}
                      /\ txn[top[b].id].curBefore \in Installed

\* Without recoveries every binding but the one under way is in agreement.
OthersAgree ==
  /\ lock = Free => \A b \in Bindings : Consistent(b)
  /\ lock # Free => pc[lock] \in Locked \cup {"crashed"}
  /\ \A p \in Invocations :
       pc[p] \in Locked =>
         \A b \in Bindings : Consistent(b) \/ b = Binding(p)
  /\ \A p \in Invocations :
       pc[p] \in {"releaseOk", "releaseFail"} => Consistent(Binding(p))

\* One at a time, what was inspected is still there.
InspectionHolds ==
  /\ \A p, q \in Running : p = q
  /\ \A p \in Invocations :
       /\ pc[p] \in {"inspectCurrent", "resolve", "lock", "prepare"} /\ ~IsRollback(p) =>
            EntryIs(p, work[p].entry)
       /\ pc[p] = "resolve" => CurrentIs(p, work[p].current)
       /\ pc[p] = "lock" /\ ~IsRollback(p) => Consistent(Binding(p))
  /\ \A id \in Invocations : txn[id] # Absent => Matched(id)

FilesInv ==
  /\ \A p \in Invocations : Begins(p) /\ Advances(p) /\ Restores(p)
  /\ MixedIsOpen
  /\ NoRecovery => OthersAgree
  /\ OneAtATime => InspectionHolds

-----------------------------------------------------------------------------
(* What a step of another invocation leaves alone.                          *)

\* What an invocation knows of the files survives the steps of all others.
LEMMA OthersKnowFiles ==
  ASSUME IInv, FilesInv, NEW p \in Invocations, Moves(p), NEW q \in Invocations \ {p}
  PROVE  Begins(q)' /\ Advances(q)' /\ Restores(q)'
<1>1. pc'[q] = pc[q] /\ req'[q] = req[q] /\ work'[q] = work[q]
  BY OthersKeepTheirMemory DEF IInv
<1>2. Begins(q) /\ Advances(q) /\ Restores(q)
  BY DEF FilesInv
<1>3. CASE pc[q] \in Locked
  <2>1. pc[p] \notin Locked
    BY <1>3, LockStays DEF IInv
  <2>2. UNCHANGED <<entry, current, detached, releases, rules, top, backup, txn>>
    BY <2>1, FilesOfOthers, OutsideTheLock DEF IInv
  <2>3. Begins(q)' /\ Advances(q)'
    BY <1>1, <1>2, <2>2
    DEF Begins, Advances, Consistent, CurrentIs, EntryIs, Its, Binding, Matched,
        AppliedCurrent, RulesRestorable
  <2>4. Restores(q)'
    BY SMTT(30), <1>1, <1>2, <2>2
    DEF Restores, CurrentIs, EntryIs, Its, Binding, Matched, IsRollback, OwnRestore,
        RulesRestorable, CurrentRestorable, EntryRestorable
  <2> QED
    BY <2>3, <2>4
<1>4. CASE pc[q] \notin Locked
  <2>1. pc[q] \notin {"prepare", "abortBackup", "abortTop", "precheck", "apply",
             "writeRules", "writeCurrent", "restore", "restoreEntry", "detach",
             "recreate", "confirm", "putBack", "restoreCurrent",
             "checkActivation", "writeEntry", "readback", "removeCurrent"}
             \cup Recording \cup Changing \cup Activated \cup Restored
             \cup Restoring
    BY <1>4 DEF Locked, Recording, Changing, Published, Pending, Activated, Restored, Restoring
  <2> QED
    BY <1>1, <1>2, <2>1 DEF Begins, Advances, Restores, OwnRestore, IsRollback
<1> QED
  BY <1>3, <1>4


-----------------------------------------------------------------------------
(* What a step does to the files it knows.                                  *)

\* The places at which nothing is known of the files.
Elsewhere == PC \ ((Locked \cup {"lock"}) \ {"releaseOk", "releaseFail"})

LEMMA NothingKnown ==
  ASSUME NEW p \in Invocations, pc'[p] \in Elsewhere, ~work'[p].preserve
  PROVE  Begins(p)' /\ Advances(p)' /\ Restores(p)'
BY DEF Elsewhere, PC, Locked, Begins, Advances, Restores, OwnRestore, Recording,
       Changing, Published, Pending, Activated, Restored, Restoring

\* A rollback runs alone.
LEMMA RollbackIsAlone ==
  ASSUME IInv, Undisturbed, NEW p \in Invocations,
         pc[p] \notin {"idle"} \cup Ended, IsRollback(p)
  PROVE  OneAtATime
BY DEF IInv, Knows, Started, IsRollback, Undisturbed, NoRecovery

\* What a mutation has changed when it fails.
LEMMA AbandonedFiles ==
  ASSUME IInv, FilesInv, NEW p \in Invocations, pc[p] \in Changing,
         Abandon(p, FALSE), UNCHANGED <<entry, current, rules, txn, req>>,
         top'[Binding(p)].status # "ROLLED_BACK"
  PROVE  Begins(p)' /\ Advances(p)' /\ Restores(p)'
<1>1. /\ pc'[p] = "restore" /\ work'[p].id = work[p].id
      /\ ~work'[p].preserve
  BY DEF IInv, TypeOK, Abandon, Goto, Works
<1>2. /\ ~IsRollback(p) /\ work[p].id = p
  BY DEF Changing, IInv, Knows, WorksOnOwn
<1>3. /\ Matched(p) /\ Its(p) = txn[p]
      /\ RulesRestorable(p)
      /\ entry[Binding(p)] \in {Its(p).before, Its(p).applied}
      /\ current[Binding(p)] \in {Its(p).curBefore, Its(p).curApplied}
  <2>1. Matched(p) /\ Its(p) = txn[p] /\ RulesRestorable(p)
    BY <1>2 DEF FilesInv, Advances, Its
  <2>2. CASE pc[p] \in {"apply", "writeRules", "writeCurrent"}
    BY <2>1, <2>2 DEF FilesInv, Advances, EntryIs, CurrentIs
  <2>3. CASE pc[p] \in {"checkActivation", "writeEntry"}
    BY <2>1, <2>3 DEF FilesInv, Advances, EntryIs, CurrentIs
  <2>4. CASE pc[p] \in {"readback", "removeCurrent"}
    BY <2>1, <2>4 DEF FilesInv, Advances, EntryIs, CurrentIs
  <2>5. CASE pc[p] \in Activated
    BY <2>1, <2>5 DEF FilesInv, Advances, EntryIs, CurrentIs
  <2> QED
    BY <2>1, <2>2, <2>3, <2>4, <2>5 DEF Changing, Published, Pending, Activated
<1>4. /\ Matched(work[p].id)' /\ RulesRestorable(p)' /\ ~IsRollback(p)'
      /\ CurrentRestorable(Binding(p), work[p].id)'
      /\ (entry[Binding(p)] \in {Its(p).before, Its(p).applied})'
      /\ (top[Binding(p)].status # "ROLLED_BACK")'
  BY <1>1, <1>2, <1>3 DEF Matched, RulesRestorable, CurrentRestorable, Its, Binding, IsRollback
<1> QED
  BY <1>1, <1>2, <1>4 DEF Begins, Advances, Restores, OwnRestore, Recording,
       Changing, Published, Pending, Activated, Restored, Restoring

\* The same when the receipt is not rewritten.
LEMMA AbandonedOpen ==
  ASSUME IInv, FilesInv, NEW p \in Invocations, pc[p] \in Changing \cap Pending,
         Abandon(p, FALSE), UNCHANGED <<entry, current, rules, txn, req, top>>
  PROVE  Begins(p)' /\ Advances(p)' /\ Restores(p)'
<1>1. top[Binding(p)].status = "PREPARED"
  BY DEF IInv, Knows, CopiesFollowCode, CopiesAre
<1> QED
  BY <1>1, AbandonedFiles


\* Steps before a mutation begins to change files.
LEMMA BeginningFiles ==
  ASSUME IInv, FilesInv, Undisturbed, NEW p \in Invocations, TypeOK',
         \/ Start(p) \/ InspectEntry(p) \/ InspectCurrent(p) \/ Resolve(p)
         \/ ReadReceipt(p) \/ Lock(p) \/ Prepare(p) \/ WriteBackupReceipt(p)
         \/ WriteTopReceipt(p) \/ Precheck(p) \/ AbortBackup(p) \/ AbortTop(p)
  PROVE  Begins(p)' /\ Advances(p)' /\ Restores(p)'
<1>t. TypeOK /\ Knows(p) /\ Begins(p) /\ Advances(p) /\ Restores(p)
  BY DEF IInv, FilesInv
<1>k. ~work[p].preserve /\ ~NoWork.preserve
  BY <1>t DEF Restores, NoWork
<1> USE DEF Recording, Changing, Published, Pending, Activated, Restored, Restoring,
            OwnRestore
<1>1. CASE Start(p) \/ InspectEntry(p) \/ InspectCurrent(p)
  <2>1. pc'[p] \in {"inspectEntry", "readReceipt", "inspectCurrent", "resolve"}
    BY <1>1, <1>t DEF Start, InspectEntry, InspectCurrent, Goto, TypeOK
  <2>2. ~work'[p].preserve
    BY <1>1, <1>t, <1>k DEF Start, InspectEntry, InspectCurrent, TypeOK, Works
  <2> QED
    BY <2>1, <2>2, NothingKnown DEF Elsewhere, PC, Locked
<1>2. CASE Resolve(p)
  <2>1. pc[p] = "resolve" /\ UNCHANGED disk /\ \E l \in {"failed", "done", "lock"} : \E x :
          Continue(p, l, [work[p] EXCEPT !.rules = x])
    BY <1>2 DEF Resolve, Admission
  <2>2. pc'[p] \in {"failed", "done", "lock"} /\ ~work'[p].preserve
    BY <2>1, <1>t, <1>k DEF Continue, Goto, TypeOK, Works
  <2>3. ~IsRollback(p)
    BY <2>1, <1>t DEF Knows, TakesOwnPath
  <2>4. pc'[p] = "lock" => ~IsRollback(p)'
    BY <2>1, <2>3 DEF IsRollback, Continue, Goto, Ended, TypeOK, IInv
  <2>5. CASE pc'[p] = "lock"
    BY <2>2, <2>4, <2>5 DEF Begins, Advances, Restores
  <2>6. CASE pc'[p] # "lock"
    BY <2>2, <2>6, NothingKnown DEF Elsewhere, PC, Locked, Ended
  <2> QED
    BY <2>5, <2>6
<1>3. CASE ReadReceipt(p)
  <2> DEFINE b == Binding(p)
             w == [work[p] EXCEPT !.entry = entry[b], !.id = top[b].id,
                                  !.status = top[b].status]
  <2>1. w.status = top[b].status /\ ~w.preserve
    BY <1>t, <1>k DEF TypeOK, Works
  <2>2. \/ Continue(p, "report", w)
        \/ Continue(p, "lock", w) /\ top[b].status # "ROLLED_BACK"
        \/ Continue(p, "failed", NoWork)
    BY <1>3 DEF ReadReceipt
  <2>3. pc'[p] \in {"report", "lock", "failed"}
    BY <2>2, <1>t DEF Continue, Goto, TypeOK
  <2>4. ~work'[p].preserve
    BY <2>2, <2>1, <1>t, <1>k DEF Continue, TypeOK
  <2>5. pc'[p] = "lock" => work'[p].status # "ROLLED_BACK"
    BY <2>2, <2>1, <1>t DEF Continue, Goto, TypeOK, Ended
  <2>6. CASE pc'[p] = "lock"
    BY <2>4, <2>5, <2>6 DEF Begins, Advances, Restores
  <2>7. CASE pc'[p] # "lock"
    BY <2>3, <2>4, <2>7, NothingKnown DEF Elsewhere, PC, Locked, Ended
  <2> QED
    BY <2>6, <2>7
<1>4. CASE Lock(p)
  <2>1. pc[p] = "lock" /\ UNCHANGED disk
    BY <1>4 DEF Lock
  <2>2. CASE pc'[p] = "failed" /\ ~work'[p].preserve
    BY <2>2, NothingKnown DEF Elsewhere, PC, Locked, Ended
  <2>3. CASE /\ lock = Free \/ IsRollback(p)
             /\ Goto(p, IF IsRollback(p) THEN "restore" ELSE "prepare")
             /\ UNCHANGED <<req, work>>
    <3>1. CASE IsRollback(p)
      <4>1. pc'[p] = "restore" /\ IsRollback(p)' /\ work'[p].status # "ROLLED_BACK"
            /\ ~work'[p].preserve
        BY <2>1, <2>3, <3>1, <1>t DEF Goto, TypeOK, IsRollback, Restores
      <4> QED
        BY <4>1 DEF Begins, Advances, Restores
    <3>2. CASE ~IsRollback(p)
      <4>1. pc'[p] = "prepare" /\ ~IsRollback(p)' /\ ~work'[p].preserve
        BY <2>1, <2>3, <3>2, <1>t DEF Goto, TypeOK, IsRollback, Restores
      <4>2. Binding(p) \in Bindings
        BY <2>1, <1>t, RequestType DEF Ended
      <4>3. Consistent(Binding(p))
        BY <2>1, <2>3, <3>2, <4>2
        DEF Undisturbed, FilesInv, OthersAgree, InspectionHolds
      <4>4. Consistent(Binding(p))'
        BY <4>3, <2>1, <2>3 DEF Consistent, Binding, disk, files
      <4> QED
        BY <4>1, <4>4 DEF Begins, Advances, Restores
    <3> QED
      BY <3>1, <3>2
  <2>4. Continue(p, "failed", NoWork) => pc'[p] = "failed" /\ ~work'[p].preserve
    BY <1>k, <1>t DEF Continue, Goto, Ended, TypeOK
  <2> QED
    BY <1>4, <2>2, <2>3, <2>4 DEF Lock, IsRollback
<1>5. CASE Prepare(p)
  <2>1. pc[p] = "prepare" /\ UNCHANGED <<files, req>>
    BY <1>5 DEF Prepare
  <2>2. CASE pc'[p] = "releaseFail" /\ UNCHANGED <<txn, work>>
    BY <2>2, <1>k, NothingKnown DEF Elsewhere, PC, Locked
  <2>3. CASE pc'[p] = "backupReceipt"
    <3>1. /\ txn'[p].curBefore = current[Binding(p)] /\ work'[p].id = p
          /\ txn'[p].curApplied = AppliedCurrent(p)
      BY <1>5, <2>3, <1>t, PrepareImages
    <3>2. ~work'[p].preserve
      BY <1>5, <1>k, <1>t DEF Prepare, TypeOK, Works
    <3>3. /\ Consistent(Binding(p))' /\ (CurrentIs(p, Its(p).curBefore))'
          /\ (Its(p).curApplied = AppliedCurrent(p))'
      BY <2>1, <3>1, <1>t
      DEF Consistent, Binding, files, CurrentIs, Its, Begins, AppliedCurrent
    <3> QED
      BY <2>3, <3>2, <3>3 DEF Begins, Advances, Restores
  <2> QED
    BY <1>5, <1>t, <2>2, <2>3, PrepareOutcome
<1>6. CASE WriteBackupReceipt(p) \/ WriteTopReceipt(p)
  <2>1. /\ pc[p] \in {"backupReceipt", "topReceipt"}
        /\ pc'[p] \in {"topReceipt", "precheck"}
        /\ UNCHANGED <<files, req, work, txn>>
    BY <1>6, <1>t DEF WriteBackupReceipt, WriteTopReceipt, Goto, TypeOK
  <2>2. /\ Consistent(Binding(p))' /\ (CurrentIs(p, Its(p).curBefore))'
        /\ (Its(p).curApplied = AppliedCurrent(p))'
    BY <2>1, <1>t
    DEF Consistent, Binding, files, CurrentIs, Its, Begins, AppliedCurrent
  <2> QED
    BY <2>1, <2>2, <1>k DEF Begins, Advances, Restores
<1>7. CASE Precheck(p)
  <2>1. /\ pc[p] = "precheck" /\ work[p].id = p /\ Its(p) = txn[p]
        /\ UNCHANGED <<disk, req, work>>
    BY <1>7, <1>t DEF Precheck, Knows, WorksOnOwn, Its
  <2>2. Consistent(Binding(p)) /\ CurrentIs(p, txn[p].curBefore)
    BY <2>1, <1>t DEF Begins
  <2>3. CASE pc'[p] = "abortBackup"
    <3>1. Consistent(Binding(p))'
      BY <2>1, <2>2 DEF Consistent, Binding, disk, files
    <3> QED
      BY <2>1, <2>3, <3>1, <1>k DEF Begins, Advances, Restores
  <2>4. CASE /\ pc'[p] = "apply"
             /\ entry[Binding(p)] = txn[p].before
             /\ txn[p].localRules => rules[txn[p].release] = txn[p].rulesBefore
    <3>1. Matched(p) /\ RulesRestorable(p) /\ EntryIs(p, txn[p].before)
      BY <2>2, <2>4 DEF Matched, Consistent, CurrentIs, EntryIs, RulesRestorable
    <3>2. txn[p].curApplied = AppliedCurrent(p)
      BY <2>1, <1>t DEF Begins
    <3> QED
      BY <2>1, <2>2, <2>4, <3>1, <3>2, <1>k
      DEF Begins, Advances, Restores, Matched, RulesRestorable, EntryIs, CurrentIs,
          Its, Binding, AppliedCurrent, disk, files, store
  <2> QED
    BY <1>7, <1>t, <2>3, <2>4 DEF Precheck, Goto, TypeOK
<1>8. CASE AbortBackup(p)
  <2>1. pc[p] = "abortBackup" /\ pc'[p] = "abortTop" /\ UNCHANGED <<files, req, work>>
    BY <1>8, <1>t DEF AbortBackup, Goto, TypeOK
  <2>2. Consistent(Binding(p))'
    BY <2>1, <1>t DEF Consistent, Binding, files, Begins
  <2> QED
    BY <2>1, <2>2, <1>k DEF Begins, Advances, Restores
<1>9. CASE AbortTop(p)
  BY <1>9, <1>t, <1>k, NothingKnown DEF AbortTop, Goto, TypeOK, Elsewhere, PC, Locked
<1> QED
  BY <1>1, <1>2, <1>3, <1>4, <1>5, <1>6, <1>7, <1>8, <1>9


\* What a mutation knows while it changes the files.
LEMMA ChangingKnows ==
  ASSUME IInv, FilesInv, NEW p \in Invocations, pc[p] \in Changing
  PROVE  /\ ~IsRollback(p) /\ work[p].id = p /\ Its(p) = txn[p] /\ ~work[p].preserve
         /\ txn[p] \in Txns /\ Binding(p) \in Bindings
         /\ Matched(p) /\ RulesRestorable(p) /\ txn[p].curApplied = AppliedCurrent(p)
<1>1. pc[p] \in Published /\ Knows(p) /\ Advances(p) /\ Restores(p) /\ TypeOK
  BY DEF Changing, IInv, FilesInv
<1>2. ~IsRollback(p) /\ work[p].id = p
  BY <1>1 DEF Knows, WorksOnOwn
<1>3. txn[p] \in Txns /\ Binding(p) \in Bindings
  BY <1>1, OwnTxnType
<1> QED
  BY <1>1, <1>2, <1>3 DEF Advances, Its, Restores

\* The next place of a mutation: what it has to know there.
LEMMA Reaches ==
  ASSUME IInv, FilesInv, NEW p \in Invocations, pc[p] \in Changing,
         pc'[p] \in Changing, UNCHANGED <<txn, req>>,
         work'[p].id = work[p].id, ~work'[p].preserve,
         RulesRestorable(p)',
         pc'[p] \in {"apply", "writeRules", "writeCurrent", "checkActivation", "writeEntry"}
           => entry'[Binding(p)] = txn[p].before,
         pc'[p] \in {"readback", "removeCurrent"} \cup Activated
           => entry'[Binding(p)] = txn[p].applied,
         pc'[p] \in {"apply", "writeRules", "writeCurrent"}
           => current'[Binding(p)] = txn[p].curBefore,
         pc'[p] \in {"checkActivation"} \cup Activated
           => current'[Binding(p)] = txn[p].curApplied,
         pc'[p] = "removeCurrent" => req[p].op = "uninstall",
         pc'[p] \in {"writeRules", "writeCurrent", "checkActivation"} =>
           req[p].op # "uninstall",
         pc'[p] \in {"writeEntry", "readback", "removeCurrent"} =>
           current'[Binding(p)] = IF req[p].op = "uninstall" THEN txn[p].curBefore
                                                             ELSE txn[p].curApplied
  PROVE  Begins(p)' /\ Advances(p)' /\ Restores(p)'
<1>1. /\ Its(p)' = txn[p] /\ Matched(p)' /\ (Its(p).curApplied = AppliedCurrent(p))'
      /\ ~IsRollback(p)'
  BY ChangingKnows DEF Its, Matched, AppliedCurrent, IsRollback
<1>2. Begins(p)'
  BY DEF Begins, Recording, Changing, Published, Pending
<1>3. Advances(p)'
  BY <1>1 DEF Advances, EntryIs, CurrentIs, Binding
<1>4. Restores(p)'
  BY <1>1 DEF Restores, OwnRestore, Restoring, Restored, Changing, Published, Pending
<1> QED
  BY <1>2, <1>3, <1>4

\* Steps of a mutation that changes files.
LEMMA AdvancingFiles ==
  ASSUME IInv, FilesInv, NEW p \in Invocations,
         \/ Interrupt(p) \/ ActivateRelease(p) \/ WriteRules(p) \/ WriteCurrent(p)
         \/ CheckActivation(p) \/ WriteEntry(p) \/ ReadBackEntry(p) \/ RemoveCurrent(p)
         \/ Verify(p) \/ CommitTop(p) \/ CommitBackup(p) \/ FinalCheck(p)
         \/ DemoteBackup(p) \/ DemoteTop(p)
  PROVE  Begins(p)' /\ Advances(p)' /\ Restores(p)'
<1>p. pc[p] \in Changing
  BY DEF Interrupt, ActivateRelease, WriteRules, WriteCurrent, CheckActivation,
    WriteEntry, ReadBackEntry, RemoveCurrent, Verify, CommitTop, CommitBackup,
    FinalCheck, DemoteBackup, DemoteTop, Changing, Published, Pending
<1>t. TypeOK /\ Knows(p) /\ Advances(p) /\ Restores(p)
  BY DEF IInv, FilesInv
<1>k. /\ ~IsRollback(p) /\ work[p].id = p /\ Its(p) = txn[p] /\ ~work[p].preserve
      /\ txn[p] \in Txns /\ Binding(p) \in Bindings
      /\ Matched(p) /\ RulesRestorable(p) /\ txn[p].curApplied = AppliedCurrent(p)
  BY <1>p, ChangingKnows
<1> DEFINE b == Binding(p)
<1> USE DEF EntryIs, CurrentIs
<1>1. CASE Interrupt(p)
  BY <1>1, <1>p, AbandonedOpen DEF Interrupt, Pending, disk, files, copies, store
<1>2. CASE ActivateRelease(p)
  <2>1. /\ pc[p] = "apply" /\ UNCHANGED <<files, txn, req, work, rules>>
        /\ pc'[p] \in {"writeRules", "writeEntry"}
        /\ pc'[p] = "writeEntry" <=> req[p].op = "uninstall"
    BY <1>2, <1>t DEF ActivateRelease, Goto, TypeOK
  <2>2. RulesRestorable(p)'
    BY <2>1, <1>k DEF RulesRestorable
  <2>3. entry[b] = txn[p].before /\ current[b] = txn[p].curBefore
    BY <2>1, <1>t, <1>k DEF Advances
  <2> QED
    BY <2>1, <2>2, <2>3, <1>k, <1>p, Reaches
    DEF Changing, Published, Pending, Activated, files
<1>3. CASE WriteRules(p)
  <2>1. /\ pc[p] = "writeRules" /\ UNCHANGED <<files, txn, req, work>>
        /\ pc'[p] = "writeCurrent"
    BY <1>3, <1>t DEF WriteRules, Goto, TypeOK
  <2>2. RulesRestorable(p)'
    BY <1>3, <1>k, <1>t DEF RulesRestorable, WriteRules, TypeOK, Txns
  <2>3. /\ entry[b] = txn[p].before /\ current[b] = txn[p].curBefore
        /\ req[p].op # "uninstall"
    BY <2>1, <1>t, <1>k DEF Advances
  <2> QED
    BY <2>1, <2>2, <2>3, <1>k, <1>p, Reaches
    DEF Changing, Published, Pending, Activated, files
<1>4. CASE WriteCurrent(p)
  <2>1. /\ pc[p] = "writeCurrent" /\ UNCHANGED <<entry, store, txn, req, work>>
        /\ pc'[p] = "checkActivation"
        /\ current'[b] = txn[p].curApplied
    BY <1>4, <1>t, <1>k DEF WriteCurrent, Goto, TypeOK
  <2>2. RulesRestorable(p)'
    BY <2>1, <1>k DEF RulesRestorable, store
  <2>3. entry[b] = txn[p].before /\ req[p].op # "uninstall"
    BY <2>1, <1>t, <1>k DEF Advances
  <2> QED
    BY <2>1, <2>2, <2>3, <1>k, <1>p, Reaches
    DEF Changing, Published, Pending, Activated
<1>5. CASE CheckActivation(p)
  <2>1. pc[p] = "checkActivation" /\ UNCHANGED <<disk, req>>
    BY <1>5 DEF CheckActivation
  <2>2. entry[b] = txn[p].before /\ current[b] = txn[p].curApplied
    BY <2>1, <1>t, <1>k DEF Advances
  <2>3. CASE pc'[p] = "writeEntry" /\ UNCHANGED work
    <3>1. RulesRestorable(p)' /\ req[p].op # "uninstall"
      BY <2>1, <1>k, <1>t DEF RulesRestorable, disk, store, Advances
    <3> QED
      BY <2>1, <2>2, <2>3, <3>1, <1>k, <1>p, Reaches
      DEF Changing, Published, Pending, Activated, disk, files
  <2>4. CASE Abandon(p, FALSE)
    BY <2>1, <2>4, <1>p, AbandonedOpen DEF Pending, disk, files, copies, store
  <2>5. CASE PostimageLive(p)
    <3>1. Goto(p, "writeEntry") /\ UNCHANGED work
      BY <1>5, <2>2, <2>5 DEF CheckActivation
    <3> QED
      BY <2>3, <3>1, <1>t DEF Goto, TypeOK
  <2>6. CASE ~PostimageLive(p)
    <3>1. Abandon(p, PostimageLive(p))
      BY <1>5, <2>6 DEF CheckActivation
    <3>2. PostimageLive(p) = FALSE
      BY <2>6 DEF PostimageLive
    <3>3. Abandon(p, FALSE)
      BY <3>1, <3>2
    <3> QED
      BY <2>4, <3>3
  <2> QED
    BY <2>5, <2>6
<1>6. CASE WriteEntry(p)
  <2>1. pc[p] = "writeEntry" /\ UNCHANGED <<current, detached, copies, store, txn, req>>
    BY <1>6 DEF WriteEntry
  <2>2. /\ entry[b] = txn[p].before
        /\ current[b] = IF req[p].op = "uninstall" THEN txn[p].curBefore
                                                  ELSE txn[p].curApplied
    BY <2>1, <1>t, <1>k DEF Advances
  <2>3. pc'[p] = "readback" /\ UNCHANGED work /\ entry'[b] = txn[p].applied
    BY <1>6, <2>2, <1>t, <1>k DEF WriteEntry, Goto, TypeOK
  <2>4. RulesRestorable(p)'
    BY <2>1, <1>k DEF RulesRestorable, store
  <2> QED
    BY <2>1, <2>2, <2>3, <2>4, <1>k, <1>p, Reaches
    DEF Changing, Published, Pending, Activated
<1>7. CASE ReadBackEntry(p)
  <2>1. pc[p] = "readback" /\ UNCHANGED <<disk, req>>
    BY <1>7 DEF ReadBackEntry
  <2>2. /\ entry[b] = txn[p].applied
        /\ current[b] = IF req[p].op = "uninstall" THEN txn[p].curBefore
                                                  ELSE txn[p].curApplied
    BY <2>1, <1>t, <1>k DEF Advances
  <2>3. /\ pc'[p] = IF req[p].op = "uninstall" THEN "removeCurrent" ELSE "verify"
        /\ UNCHANGED work
    BY <1>7, <2>2, <1>t DEF ReadBackEntry, Goto, TypeOK
  <2>4. RulesRestorable(p)'
    BY <2>1, <1>k DEF RulesRestorable, disk, store
  <2> QED
    BY <2>1, <2>2, <2>3, <2>4, <1>k, <1>p, Reaches
    DEF Changing, Published, Pending, Activated, disk, files
<1>8. CASE RemoveCurrent(p)
  <2>1. pc[p] = "removeCurrent" /\ UNCHANGED <<entry, store, txn, req, work>>
        /\ pc'[p] = "verify" /\ current'[b] = Absent
    BY <1>8, <1>t, <1>k DEF RemoveCurrent, Goto, TypeOK
  <2>2. entry[b] = txn[p].applied /\ req[p].op = "uninstall"
    BY <2>1, <1>t, <1>k DEF Advances
  <2>3. txn[p].curApplied = Absent
    BY <2>2, <1>k DEF AppliedCurrent
  <2>4. RulesRestorable(p)'
    BY <2>1, <1>k DEF RulesRestorable, store
  <2> QED
    BY <2>1, <2>2, <2>3, <2>4, <1>k, <1>p, Reaches
    DEF Changing, Published, Pending, Activated
<1>9. CASE Verify(p)
  <2>1. pc[p] = "verify" /\ UNCHANGED <<disk, req>>
    BY <1>9 DEF Verify
  <2>2. entry[b] = txn[p].applied /\ current[b] = txn[p].curApplied
    BY <2>1, <1>t, <1>k DEF Advances, Activated
  <2>3. CASE /\ Goto(p, "commitTop")
             /\ work' = [work EXCEPT ![p].verified = rules[txn[p].release]]
    <3>1. pc'[p] = "commitTop" /\ work'[p].id = work[p].id /\ ~work'[p].preserve
      BY <2>3, <1>t, <1>k DEF Goto, TypeOK, Works
    <3>2. RulesRestorable(p)'
      BY <2>1, <1>k DEF RulesRestorable, disk, store
    <3> QED
      BY <2>1, <2>2, <3>1, <3>2, <1>k, <1>p, Reaches
      DEF Changing, Published, Pending, Activated, disk, files
  <2>4. CASE Abandon(p, FALSE)
    BY <2>1, <2>4, <1>p, AbandonedOpen DEF Pending, disk, files, copies, store
  <2> QED
    BY <1>9, <2>3, <2>4 DEF Verify
<1>10. CASE CommitTop(p) \/ CommitBackup(p) \/ FinalCheck(p) \/ DemoteBackup(p)
  <2>1. /\ pc[p] \in Activated /\ UNCHANGED <<files, store, txn, req, work>>
        /\ pc'[p] \in {"commitBackup", "finalCheck", "releaseOk", "demoteBackup",
                       "demoteTop"}
    BY <1>10, <1>t DEF CommitTop, CommitBackup, FinalCheck, DemoteBackup, Goto,
      TypeOK, Activated, disk
  <2>2. entry[b] = txn[p].applied /\ current[b] = txn[p].curApplied
    BY <2>1, <1>t, <1>k DEF Advances
  <2>3. RulesRestorable(p)'
    BY <2>1, <1>k DEF RulesRestorable, store
  <2>4. CASE pc'[p] = "releaseOk"
    BY <2>1, <2>4, <1>k, NothingKnown DEF Elsewhere, PC, Locked
  <2>5. CASE pc'[p] # "releaseOk"
    BY <2>1, <2>2, <2>3, <2>5, <1>k, <1>p, Reaches
    DEF Changing, Published, Pending, Activated, files
  <2> QED
    BY <2>4, <2>5
<1>11. CASE DemoteTop(p)
  <2>1. Abandon(p, FALSE) /\ UNCHANGED <<files, store, txn, req>>
    BY <1>11 DEF DemoteTop
  <2>2. top'[b].status = "PREPARED"
    <3>1. top'[b] = [top[b] EXCEPT !.status = "PREPARED"]
      BY <1>11, <1>t, <1>k DEF DemoteTop, SetTop, TypeOK
    <3>2. HasReceipt(b)
      BY <1>11, <1>t DEF DemoteTop, Knows, WorksOnReceipt, Published, OnReceipt
    <3> QED
      BY <3>1, <3>2, <1>t, <1>k, ReceiptType, StatusRewritten DEF Status
  <2> QED
    BY <2>1, <2>2, <1>p, AbandonedFiles DEF files, store
<1> QED
  BY <1>1, <1>2, <1>3, <1>4, <1>5, <1>6, <1>7, <1>8, <1>9, <1>10, <1>11


\* What a restore knows that has validated the receipt, or restores its own.
LEMMA RestoringKnows ==
  ASSUME IInv, FilesInv, NEW p \in Invocations, OwnRestore(p) \/ pc[p] \in Restoring
  PROVE  /\ ~work[p].preserve /\ work[p].id \in Invocations /\ Its(p) \in Txns
         /\ Binding(p) \in Bindings
         /\ Matched(work[p].id) /\ CurrentRestorable(Binding(p), work[p].id)
         /\ top[Binding(p)].status # "ROLLED_BACK"
<1>1. pc[p] \in {"restore"} \cup Restoring /\ Knows(p) /\ Restores(p) /\ TypeOK
  BY DEF OwnRestore, IInv, FilesInv
<1> QED
  BY <1>1, RestoredTxnType DEF Restores, Its

\* The next place of a restore: what it has to know there.
LEMMA Restarts ==
  ASSUME IInv, FilesInv, NEW p \in Invocations, pc[p] \in {"restore"} \cup Restoring,
         pc'[p] \in Restoring, UNCHANGED <<txn, req, top>>,
         work'[p].id = work[p].id, ~work'[p].preserve,
         Matched(work[p].id), top[Binding(p)].status # "ROLLED_BACK",
         current'[Binding(p)] \in {Its(p).curBefore, Its(p).curApplied},
         pc'[p] = "restoreEntry" =>
           /\ EntryRestorable(Binding(p), work[p].id)'
           /\ ~IsRollback(p) => detached'[work[p].id] = Absent,
         pc'[p] = "detach" => entry'[Binding(p)] = work'[p].expected,
         pc'[p] = "recreate" =>
           /\ detached'[work[p].id] = work'[p].expected
           /\ ~IsRollback(p) => entry'[Binding(p)] = Absent,
         pc'[p] = "confirm" /\ ~IsRollback(p) => entry'[Binding(p)] = Its(p).before,
         pc'[p] = "putBack" => IsRollback(p),
         pc'[p] \in {"restoreCurrent"} \cup Restored => entry'[Binding(p)] = Its(p).before,
         pc'[p] \in Restored => current'[Binding(p)] = Its(p).curBefore
  PROVE  Begins(p)' /\ Advances(p)' /\ Restores(p)'
<1>1. /\ Its(p)' = Its(p) /\ Matched(work[p].id)' /\ IsRollback(p)' = IsRollback(p)
      /\ Binding(p)' = Binding(p)
      /\ CurrentRestorable(Binding(p), work[p].id)'
  BY DEF Its, Matched, IsRollback, Binding, CurrentRestorable
<1>2. Begins(p)' /\ Advances(p)'
  BY DEF Begins, Advances, Recording, Changing, Published, Pending, Activated, Restoring
<1>3. Restores(p)'
  BY <1>1 DEF Restores, OwnRestore, EntryIs, CurrentIs, Restoring, Restored, Matched,
              CurrentRestorable, Its, EntryRestorable, Binding, IsRollback
<1> QED
  BY <1>2, <1>3


\* Steps of a restore.
LEMMA RestoringFiles ==
  ASSUME IInv, TextInv, FilesInv, Undisturbed, NEW p \in Invocations,
         \/ RestoreCheck(p) \/ RestoreEntry(p) \/ DetachEntry(p) \/ RecreateEntry(p)
         \/ ConfirmEntry(p) \/ PutBackEntry(p) \/ RestoreCurrent(p) \/ RestoreRules(p)
         \/ RestoreFinal(p) \/ RolledBackBackup(p) \/ RolledBackTop(p)
  PROVE  Begins(p)' /\ Advances(p)' /\ Restores(p)'
<1> DEFINE b == Binding(p)
           id == work[p].id
           t == Its(p)
<1>p. pc[p] \in {"restore"} \cup Restoring
  BY DEF RestoreCheck, RestoreEntry, DetachEntry, RecreateEntry, ConfirmEntry,
    PutBackEntry, RestoreCurrent, RestoreRules, RestoreFinal, RolledBackBackup,
    RolledBackTop, Restoring
<1>t. TypeOK /\ Knows(p) /\ Restores(p) /\ ~work[p].preserve
  BY DEF IInv, FilesInv, Restores
<1>r. id \in Invocations /\ t \in Txns /\ b \in Bindings
  BY <1>p, <1>t, RestoredTxnType DEF Its
<1>k. pc[p] \in Restoring \/ OwnRestore(p) =>
        /\ Matched(id) /\ current[b] \in {t.curBefore, t.curApplied}
        /\ top[b].status # "ROLLED_BACK"
  BY RestoringKnows DEF CurrentRestorable, Its
<1>f. pc'[p] = "releaseFail" /\ UNCHANGED work => Begins(p)' /\ Advances(p)' /\ Restores(p)'
  BY <1>t, NothingKnown DEF Elsewhere, PC, Locked
<1> USE DEF EntryIs, CurrentIs
<1>1. CASE RestoreCheck(p)
  <2>1. pc[p] = "restore" /\ UNCHANGED <<disk, req, work>>
        /\ pc'[p] \in {"restoreEntry", "releaseFail"}
    BY <1>1, <1>t DEF RestoreCheck, Goto, TypeOK
  <2>2. CASE pc'[p] = "restoreEntry"
    <3>1. /\ CurrentRestorable(b, id) /\ EntryRestorable(b, id)
          /\ IsRollback(p) => /\ receiptWithMatchingBackup(b)
                              /\ top[b].id = id
                              /\ top[b].status = work[p].status
      BY <1>1, <2>2, <1>t DEF RestoreCheck, Goto, TypeOK, IsRollback
    <3>2. CASE IsRollback(p)
      <4>1. top[b].status # "ROLLED_BACK"
        BY <2>1, <3>1, <3>2, <1>t DEF Restores
      <4>2. InspectionHolds
        BY <2>1, <3>2, RollbackIsAlone DEF Ended, FilesInv
      <4>3. Matched(id)
        BY <4>2, <1>r, <2>1, <1>t DEF InspectionHolds, Knows, WorksOnRecorded
      <4> QED
        BY <2>1, <2>2, <3>1, <3>2, <4>1, <4>3, <1>t, <1>p, Restarts
        DEF EntryRestorable, CurrentRestorable, Its, Binding, disk, files, copies, Restoring, Restored
    <3>3. CASE ~IsRollback(p)
      <4>1. OwnRestore(p) /\ id = p
        BY <2>1, <3>3, <1>t DEF OwnRestore, Restores
      <4>2. detached[id] = Absent
        BY <4>1, <2>1, <3>3 DEF TextInv, DetachedOnce
      <4> QED
        BY <2>1, <2>2, <3>1, <4>1, <4>2, <1>k, <1>t, <1>p, Restarts
        DEF EntryRestorable, CurrentRestorable, Its, Binding, disk, files, copies, Restoring, Restored
    <3> QED
      BY <3>2, <3>3
  <2> QED
    BY <2>1, <2>2, <1>f
<1>2. CASE RestoreEntry(p)
  <2>1. /\ pc[p] = "restoreEntry" /\ UNCHANGED <<disk, req>>
        /\ EntryRestorable(b, id) /\ (~IsRollback(p) => detached[id] = Absent)
    BY <1>2, <1>t DEF RestoreEntry, Restores
  <2>2. CASE Goto(p, "restoreCurrent") /\ UNCHANGED work /\ entry[b] = t.before
    <3>1. pc'[p] = "restoreCurrent"
      BY <2>2, <1>t DEF Goto, TypeOK
    <3> QED
      BY <2>1, <2>2, <3>1, <1>k, <1>t, <1>p, Restarts
      DEF disk, files, copies, Restoring, Restored
  <2>3. CASE /\ work' = [work EXCEPT ![p].expected = detached[id]]
             /\ detached[id] # Absent /\ Goto(p, "recreate")
    <3>1. /\ pc'[p] = "recreate" /\ work'[p].expected = detached[id]
          /\ work'[p].id = id /\ ~work'[p].preserve
      BY <2>3, <1>t DEF Goto, TypeOK, Works
    <3> QED
      BY <2>1, <2>3, <3>1, <1>k, <1>t, <1>p, Restarts
      DEF disk, files, copies, Restoring, Restored
  <2>4. CASE /\ work' = [work EXCEPT ![p].expected = entry[b]]
             /\ Goto(p, "detach")
    <3>1. /\ pc'[p] = "detach" /\ work'[p].expected = entry[b]
          /\ work'[p].id = id /\ ~work'[p].preserve
      BY <2>4, <1>t DEF Goto, TypeOK, Works
    <3> QED
      BY <2>1, <3>1, <1>k, <1>t, <1>p, Restarts
      DEF disk, files, copies, Restoring, Restored
  <2> QED
    BY <1>2, <2>1, <2>2, <2>3, <2>4, <1>t DEF RestoreEntry, Its
<1>3. CASE DetachEntry(p)
  <2>1. /\ pc[p] = "detach" /\ pc'[p] = "recreate"
        /\ UNCHANGED <<current, txn, top, req, work>>
        /\ detached'[id] = entry[b] /\ entry'[b] = Absent
    BY <1>3, <1>t, <1>r DEF DetachEntry, Goto, TypeOK, copies
  <2>2. entry[b] = work[p].expected
    BY <2>1, <1>t DEF Restores
  <2> QED
    BY <2>1, <2>2, <1>k, <1>t, <1>p, Restarts DEF Restoring, Restored
<1>4. CASE RecreateEntry(p)
  <2>1. /\ pc[p] = "recreate" /\ UNCHANGED <<current, txn, top, req, work>>
        /\ detached[id] = work[p].expected
    BY <1>4, <1>t DEF RecreateEntry, copies, Restores
  <2>2. /\ pc'[p] = "confirm"
        /\ entry[b] = Absent => entry'[b] = t.before
    BY <1>4, <2>1, <1>t, <1>r DEF RecreateEntry, Goto, TypeOK, Its
  <2>3. ~IsRollback(p) => entry[b] = Absent
    BY <2>1, <1>t DEF Restores
  <2> QED
    BY <2>1, <2>2, <2>3, <1>k, <1>t, <1>p, Restarts DEF Restoring, Restored
<1>5. CASE ConfirmEntry(p)
  <2>1. /\ pc[p] = "confirm" /\ UNCHANGED <<disk, req, work>>
        /\ pc'[p] = IF entry[b] = t.before THEN "restoreCurrent" ELSE "putBack"
    BY <1>5, <1>t DEF ConfirmEntry, Goto, TypeOK, Its
  <2>2. ~IsRollback(p) => entry[b] = t.before
    BY <2>1, <1>t DEF Restores
  <2> QED
    BY <2>1, <2>2, <1>k, <1>t, <1>p, Restarts DEF Restoring, Restored, disk, files, copies
<1>6. CASE PutBackEntry(p)
  BY <1>6, <1>f, <1>t DEF PutBackEntry, Goto, TypeOK
<1>7. CASE RestoreCurrent(p)
  <2>1. pc[p] = "restoreCurrent" /\ UNCHANGED <<entry, copies, store, txn, req, work>>
    BY <1>7 DEF RestoreCurrent
  <2>2. entry[b] = t.before
    BY <2>1, <1>t DEF Restores
  <2>3. \/ pc'[p] = "releaseFail"
        \/ pc'[p] = "restoreRules" /\ current'[b] = t.curBefore
    BY <1>7, <1>t, <1>r DEF RestoreCurrent, Goto, TypeOK, Its
  <2>4. CASE pc'[p] = "restoreRules" /\ current'[b] = t.curBefore
    BY <2>1, <2>2, <2>4, <1>k, <1>t, <1>p, Restarts DEF Restoring, Restored, copies
  <2> QED
    BY <2>1, <2>3, <2>4, <1>f
<1>8. CASE RestoreRules(p) \/ RestoreFinal(p) \/ RolledBackBackup(p)
  <2>1. /\ pc[p] \in Restored /\ UNCHANGED <<files, top, txn, req, work>>
        /\ pc'[p] \in {"restoreFinal", "rolledBackup", "rolledTop", "releaseFail"}
    BY <1>8, <1>t DEF RestoreRules, RestoreFinal, RolledBackBackup, Goto, TypeOK,
      Restored, disk, files, copies
  <2>2. entry[b] = t.before /\ current[b] = t.curBefore
    BY <2>1, <1>t DEF Restores
  <2>3. CASE pc'[p] # "releaseFail"
    BY <2>1, <2>2, <2>3, <1>k, <1>t, <1>p, Restarts DEF Restoring, Restored, files
  <2> QED
    BY <2>1, <2>3, <1>f
<1>9. CASE RolledBackTop(p)
  <2>1. pc'[p] \in {"releaseOk", "releaseFail"} /\ UNCHANGED work
    BY <1>9, <1>t DEF RolledBackTop, Goto, TypeOK
  <2> QED
    BY <2>1, <1>t, NothingKnown DEF Elsewhere, PC, Locked
<1> QED
  BY <1>1, <1>2, <1>3, <1>4, <1>5, <1>6, <1>7, <1>8, <1>9


\* What an invocation knows of the files after any step of its own.
LEMMA OwnFiles ==
  ASSUME IInv, TextInv, FilesInv, Undisturbed, NEW p \in Invocations, Moves(p), TypeOK'
  PROVE  Begins(p)' /\ Advances(p)' /\ Restores(p)'
<1>t. TypeOK /\ ~work[p].preserve /\ ~NoWork.preserve
  BY DEF IInv, FilesInv, Restores, NoWork
<1>1. CASE Unlock(p) \/ Report(p)
  <2>1. \E l \in Ended \cup {"report"} : Continue(p, l, NoWork)
    BY <1>1 DEF Unlock, Report, Ended
  <2>2. pc'[p] \in Ended \cup {"report"} /\ ~work'[p].preserve
    BY <2>1, <1>t DEF Continue, Goto, TypeOK
  <2> QED
    BY <2>2, NothingKnown DEF Elsewhere, PC, Locked, Ended
<1>2. CASE Crash(p) \/ CrashDuringCreate(p)
  <2>1. Continue(p, "crashed", NoWork)
    BY <1>2 DEF Crash, CrashDuringCreate, Die
  <2>2. pc'[p] = "crashed" /\ ~work'[p].preserve
    BY <2>1, <1>t DEF Continue, Goto, TypeOK
  <2> QED
    BY <2>2, NothingKnown DEF Elsewhere, PC, Locked, Ended
<1> QED
  BY <1>1, <1>2, BeginningFiles, AdvancingFiles, RestoringFiles DEF Moves, Step

-----------------------------------------------------------------------------
(* Files that disagree.                                                     *)

\* A step changes the entry or the metadata, never both, and which one.
LEMMA FileSteps ==
  ASSUME NEW p \in Invocations, Moves(p)
  PROVE  /\ UNCHANGED entry \/ UNCHANGED current
         /\ \/ UNCHANGED current
            \/ WriteCurrent(p) \/ RemoveCurrent(p) \/ RestoreCurrent(p)
            \/ /\ CrashDuringCreate(p)
               /\ current' = [current EXCEPT ![Binding(p)] = Torn]
         /\ ~UNCHANGED <<entry, current>> /\ UNCHANGED top =>
              pc[p] \in Changing \cup Restoring /\ UNCHANGED txn
BY DEF Changing, Published, Pending, Restoring, Moves, Step, Start, InspectEntry,
    InspectCurrent, Resolve, ReadReceipt, Lock, Prepare, WriteBackupReceipt,
    WriteTopReceipt, Precheck, AbortBackup, AbortTop, ActivateRelease, WriteRules,
    WriteCurrent, CheckActivation, WriteEntry, ReadBackEntry, RemoveCurrent,
    Verify, CommitTop, CommitBackup, FinalCheck, DemoteBackup, DemoteTop,
    RestoreCheck, RestoreEntry, DetachEntry, RecreateEntry, ConfirmEntry,
    PutBackEntry, RestoreCurrent, RestoreRules, RestoreFinal,
    RolledBackBackup, RolledBackTop, Unlock, Report, Interrupt, Crash,
    CrashDuringCreate, disk, files, copies, store

\* A receipt is only rewritten or replaced while the files agree.
LEMMA ReceiptsChangeInAgreement ==
  ASSUME IInv, TextInv, FilesInv, NEW p \in Invocations, Moves(p), ~UNCHANGED top
  PROVE  Consistent(Binding(p)) /\ UNCHANGED <<entry, current>>
<1>t. TypeOK /\ Knows(p) /\ Begins(p) /\ Advances(p) /\ Restores(p)
  BY DEF IInv, FilesInv
<1>1. CASE \/ WriteTopReceipt(p) \/ AbortTop(p)
           \/ pc[p] = "topReceipt" /\ CrashDuringCreate(p)
  BY <1>1, <1>t DEF Begins, Recording, WriteTopReceipt, AbortTop, CrashDuringCreate, files
<1>2. CASE RolledBackTop(p)
  BY <1>2, <1>t
  DEF Restores, Restored, Restoring, RolledBackTop, files, Consistent, EntryIs,
      CurrentIs, Its, Matched
<1>3. CASE CommitTop(p) \/ DemoteTop(p)
  <2>1. pc[p] \in Changing /\ pc[p] \in Activated /\ UNCHANGED files
    BY <1>3 DEF CommitTop, DemoteTop, Changing, Published, Pending, Activated
  <2>2. Its(p) = txn[p] /\ txn[p] \in Txns
    BY <2>1, ChangingKnows
  <2>3. entry[Binding(p)] = txn[p].applied /\ current[Binding(p)] = txn[p].curApplied
    BY <2>1, <2>2, <1>t DEF Advances, EntryIs, CurrentIs
  <2>4. Block(txn[p].applied) = txn[p].curApplied
    BY <2>2, TransactionAssumption DEF TextInv, RecordsAreChanges
  <2> QED
    BY <2>1, <2>3, <2>4 DEF Consistent, files
<1> QED
  BY <1>1, <1>2, <1>3, TopSteps

\* Files that disagree keep their open receipt.
LEMMA MixedStays ==
  ASSUME IInv, TextInv, FilesInv, NEW p \in Invocations, Moves(p), TypeOK'
  PROVE  MixedIsOpen'
<1> SUFFICES ASSUME NEW b \in Bindings, ~Consistent(b)'
             PROVE  /\ HasReceipt(b)'
                    /\ top'[b].status \in {"PREPARED", "COMMITTED"}
                    /\ txn'[top'[b].id].curBefore \in Installed
  BY DEF MixedIsOpen
<1> DEFINE Open(r, x) == /\ r \notin {Absent, Torn}
                         /\ r.status \in {"PREPARED", "COMMITTED"}
                         /\ x[r.id].curBefore \in Installed
<1>t. TypeOK /\ Knows(p) /\ Begins(p) /\ Advances(p) /\ Restores(p)
  BY DEF IInv, FilesInv
<1>o. ~Consistent(b) => Open(top[b], txn)
  BY DEF FilesInv, MixedIsOpen, HasReceipt
<1>m. \A id \in Invocations : txn[id] \in Txns /\ Matched(id) => txn[id].curBefore \in Installed
  BY BlockOperations DEF Matched, Txns
\* The receipt of an invocation that changes files is open, by its own place.
<1>c. ASSUME b = Binding(p), \/ pc[p] \in Changing \cup Restoring
                             \/ OwnRestore(p)
      PROVE  Open(top[b], txn)
  <2>1. OnReceipt(p)
    BY <1>c, <1>t DEF Knows, WorksOnReceipt, OwnRestore, Changing
  <2>2. top[b] \in [id : Invocations, status : Status] /\ top[b].id = work[p].id
    BY <2>1, <1>c, <1>t, ReceiptType DEF OnReceipt
  <2>3. CASE pc[p] \in Changing
    <3>1. top[b].status # "ROLLED_BACK"
      BY <2>3, <1>c, <1>t DEF Knows, CopiesFollowCode, CopiesAre, Changing, Published, Pending
    <3>2. txn[work[p].id].curBefore \in Installed
      BY <2>3, <1>m, ChangingKnows
    <3> QED
      BY <2>1, <2>2, <3>1, <3>2, <1>c DEF OnReceipt, HasReceipt, Status
  <2>4. CASE OwnRestore(p) \/ pc[p] \in Restoring
    <3>1. top[b].status # "ROLLED_BACK" /\ txn[work[p].id].curBefore \in Installed
      BY <2>4, <1>m, <1>c, RestoringKnows DEF Its
    <3> QED
      BY <2>1, <2>2, <3>1, <1>c DEF OnReceipt, HasReceipt, Status
  <2> QED
    BY <1>c, <2>3, <2>4
<1>s. ASSUME UNCHANGED <<entry, current>>
      PROVE  ~Consistent(b)
  BY <1>s DEF Consistent
<1>1. CASE b # Binding(p)
  <2>1. entry'[b] = entry[b] /\ current'[b] = current[b] /\ top'[b] = top[b]
    BY <1>1, <1>t, FilesOfOthers
  <2>2. Open(top[b], txn)
    BY <2>1, <1>o DEF Consistent
  <2>3. top[b].id \in Invocations /\ txn[top[b].id] # Absent /\ HasReceipt(b)
    BY <2>2, <1>t, ReceiptType DEF HasReceipt, IInv, ReceiptIsRecorded
  <2>4. txn'[top[b].id] = txn[top[b].id]
    BY <2>3, <1>t, TxnsAreKept DEF IInv, UnpublishedIsNowhere, Prepare, Unpublished
  <2> QED
    BY <2>1, <2>2, <2>4 DEF HasReceipt
<1>2. CASE b = Binding(p) /\ UNCHANGED <<entry, current, top>>
  <2>1. Open(top[b], txn)
    BY <1>2, <1>o, <1>s
  <2>3. top[b].id \in Invocations /\ txn[top[b].id] # Absent /\ HasReceipt(b)
    BY <2>1, <1>t, ReceiptType DEF HasReceipt, IInv, ReceiptIsRecorded
  <2>4. txn'[top[b].id] = txn[top[b].id]
    BY <2>3, <1>t, TxnsAreKept DEF IInv, UnpublishedIsNowhere, Prepare, Unpublished
  <2> QED
    BY <1>2, <2>1, <2>4 DEF HasReceipt
<1>3. CASE b = Binding(p) /\ ~UNCHANGED top
  BY <1>3, <1>s, ReceiptsChangeInAgreement
<1>4. CASE b = Binding(p) /\ UNCHANGED top /\ ~UNCHANGED <<entry, current>>
  <2>1. pc[p] \in Changing \cup Restoring /\ UNCHANGED txn
    BY <1>4, FileSteps
  <2> QED
    BY <1>4, <2>1, <1>c DEF HasReceipt
<1> QED
  BY <1>1, <1>2, <1>3, <1>4

-----------------------------------------------------------------------------
(* Without recoveries.                                                      *)

\* Whoever gives up the lock leaves its binding in agreement: a mutation that
\* fails restores it, and that restore does not fail.
LEMMA ReleasedAgrees ==
  ASSUME IInv, TextInv, FilesInv, Undisturbed, NoRecovery,
         NEW p \in Invocations, Moves(p), pc[p] \in Locked,
         pc'[p] \in {"releaseOk", "releaseFail"}
  PROVE  Consistent(Binding(p)) /\ UNCHANGED <<entry, current, req>>
<1> DEFINE b == Binding(p)
           t == Its(p)
<1>t. TypeOK /\ Knows(p) /\ Begins(p) /\ Advances(p) /\ Restores(p) /\ OthersAgree
  BY DEF IInv, FilesInv
<1>b. b \in Bindings /\ ~IsRollback(p)
  BY <1>t, RequestType DEF Locked, Ended, NoRecovery, IsRollback
<1>m. \A id \in Invocations : txn[id] # Absent =>
        Block(txn[id].applied) = txn[id].curApplied
  BY DEF TextInv, RecordsAreChanges
<1>1. \/ Prepare(p) \/ AbortTop(p) \/ FinalCheck(p) \/ RestoreCheck(p)
      \/ RestoreEntry(p) \/ PutBackEntry(p) \/ RestoreCurrent(p)
      \/ RestoreRules(p) \/ RestoreFinal(p) \/ RolledBackTop(p)
  BY <1>t DEF TypeOK, Locked, Ended, Moves, Step, Start,
    InspectEntry, InspectCurrent, Resolve,
    ReadReceipt, Lock, Prepare, WriteBackupReceipt, WriteTopReceipt,
    Precheck, AbortBackup, AbortTop, ActivateRelease, WriteRules,
    WriteCurrent, CheckActivation, WriteEntry, ReadBackEntry, RemoveCurrent,
    Verify, CommitTop, CommitBackup, FinalCheck, DemoteBackup, DemoteTop,
    RestoreCheck, RestoreEntry, DetachEntry, RecreateEntry, ConfirmEntry,
    PutBackEntry, RestoreCurrent, RestoreRules, RestoreFinal,
    RolledBackBackup, RolledBackTop, Unlock, Report, Interrupt, Crash,
    CrashDuringCreate, Die, Continue, Goto, Abandon, Admission
<1>2. CASE Prepare(p) \/ AbortTop(p)
  BY <1>2, <1>t DEF Begins, Prepare, AbortTop, files
<1>3. CASE FinalCheck(p)
  <2>1. pc[p] \in Changing /\ pc[p] \in Activated /\ UNCHANGED <<disk, req>>
    BY <1>3 DEF FinalCheck, Changing, Published, Activated
  <2>2. /\ work[p].id = p /\ Its(p) = txn[p] /\ txn[p] \in Txns
    BY <2>1, ChangingKnows
  <2>3. entry[b] = txn[p].applied /\ current[b] = txn[p].curApplied
    BY <2>1, <2>2, <1>t DEF Advances, EntryIs, CurrentIs
  <2> QED
    BY <2>1, <2>2, <2>3, <1>m, TransactionAssumption DEF Consistent, disk, files
<1>4. CASE RestoreCheck(p)
  <2>1. OwnRestore(p) /\ work[p].id = p
    BY <1>4, <1>b, <1>t DEF RestoreCheck, OwnRestore, Restores
  <2>2. Torn \notin otherBindings(b)
    <3>1. \A c \in Bindings \ {b} : current[c] \in Installed
      BY <1>t, BlockOperations DEF OthersAgree, Consistent, TypeOK
    <3> QED
      BY <3>1, TransactionAssumption DEF otherBindings, Installed
  <2>3. EntryRestorable(b, p) /\ CurrentRestorable(b, p) /\ RulesRestorable(p)
    BY <2>1, <1>b, <1>t DEF Restores, EntryRestorable, Its, TextInv, DetachedOnce, OwnRestore
  <2>4. Goto(p, "restoreEntry")
    BY <1>4, <2>1, <2>2, <2>3, <1>b DEF RestoreCheck, IsRollback
  <2> QED
    BY <2>4, <1>t DEF Goto, TypeOK
<1>5. CASE RestoreEntry(p)
  <2>1. ~Goto(p, "releaseFail")
    BY <1>5, <1>t DEF RestoreEntry, Restores, Goto, TypeOK
  <2> QED
    BY <1>5, <2>1 DEF RestoreEntry, Goto
<1>6. CASE PutBackEntry(p)
  BY <1>6, <1>t, <1>b DEF PutBackEntry, Restores
<1>7. CASE RestoreCurrent(p)
  <2>1. EntryRestored(p) /\ CurrentRestorable(b, work[p].id)
    BY <1>7, <1>t DEF RestoreCurrent, Restores, EntryRestored, EntryIs, Its, Restoring
  <2> QED
    BY <1>7, <2>1, <1>t DEF RestoreCurrent, Goto, TypeOK
<1>8. CASE RestoreRules(p) \/ RestoreFinal(p) \/ RolledBackTop(p)
  <2>1. pc[p] \in Restored /\ pc[p] \in Restoring /\ UNCHANGED <<files, req>>
    BY <1>8 DEF RestoreRules, RestoreFinal, RolledBackTop, Restored, Restoring, disk
  <2>2. Matched(work[p].id) /\ entry[b] = t.before /\ current[b] = t.curBefore
    BY <2>1, <1>t DEF Restores, EntryIs, CurrentIs
  <2> QED
    BY <2>1, <2>2 DEF Consistent, Matched, Its, files
<1> QED
  BY <1>1, <1>2, <1>3, <1>4, <1>5, <1>6, <1>7, <1>8

\* Who holds the lock after a step.
LEMMA LockPasses ==
  ASSUME IInv, NoRecovery, NEW p \in Invocations, Moves(p)
  PROVE  /\ pc[p] \notin Locked =>
              \/ UNCHANGED lock /\ pc'[p] \notin Locked
              \/ lock = Free /\ lock' = p /\ pc'[p] = "prepare"
         /\ pc[p] \in Locked =>
              \/ Unlock(p) /\ lock' = Free /\ pc'[p] \notin Locked
              \/ UNCHANGED lock /\ pc'[p] = "crashed"
              \/ UNCHANGED <<lock, req>> /\ pc'[p] \in Locked
<1>t. TypeOK /\ Knows(p)
  BY DEF IInv
<1>1. CASE pc[p] \notin Locked
  <2>1. \/ Start(p) \/ InspectEntry(p) \/ InspectCurrent(p) \/ Resolve(p)
        \/ ReadReceipt(p) \/ Lock(p) \/ Report(p)
    BY <1>1 DEF Locked, Moves, Step, Prepare, WriteBackupReceipt, WriteTopReceipt,
      Precheck, AbortBackup, AbortTop, ActivateRelease, WriteRules,
      WriteCurrent, CheckActivation, WriteEntry, ReadBackEntry, RemoveCurrent,
      Verify, CommitTop, CommitBackup, FinalCheck, DemoteBackup, DemoteTop,
      RestoreCheck, RestoreEntry, DetachEntry, RecreateEntry, ConfirmEntry,
      PutBackEntry, RestoreCurrent, RestoreRules, RestoreFinal,
      RolledBackBackup, RolledBackTop, Unlock, Interrupt, Crash, CrashDuringCreate
  <2>2. CASE \/ Start(p) \/ InspectEntry(p) \/ InspectCurrent(p) \/ Resolve(p)
             \/ ReadReceipt(p) \/ Report(p)
    BY <1>1, <2>2, <1>t DEF Start, InspectEntry, InspectCurrent, Resolve, ReadReceipt, Report,
      Continue, Goto, Admission, Locked, TypeOK
  <2>3. CASE Lock(p)
    <3>1. ~IsRollback(p)
      BY <2>3, <1>t, RequestType DEF Lock, Ended, NoRecovery, IsRollback
    <3> QED
      BY <1>1, <2>3, <3>1, <1>t DEF Lock, IsRollback, Continue, Goto, Locked, TypeOK
  <2> QED
    BY <2>1, <2>2, <2>3
<1>2. CASE pc[p] \in Locked /\ Unlock(p)
  BY <1>2, <1>t DEF Unlock, Continue, Goto, TypeOK, Locked
<1>3. CASE pc[p] \in Locked /\ (Crash(p) \/ CrashDuringCreate(p))
  BY <1>3, <1>t DEF Crash, CrashDuringCreate, Die, Continue, Goto, TypeOK
<1>4. CASE pc[p] \in Locked /\ ~Unlock(p) /\ ~Crash(p) /\ ~CrashDuringCreate(p)
  BY SMTT(30), <1>4, <1>t DEF Locked, Moves, Step, Start, InspectEntry, InspectCurrent, Resolve,
    ReadReceipt, Lock, Prepare, WriteBackupReceipt, WriteTopReceipt,
    Precheck, AbortBackup, AbortTop, ActivateRelease, WriteRules,
    WriteCurrent, CheckActivation, WriteEntry, ReadBackEntry, RemoveCurrent,
    Verify, CommitTop, CommitBackup, FinalCheck, DemoteBackup, DemoteTop,
    RestoreCheck, RestoreEntry, DetachEntry, RecreateEntry, ConfirmEntry,
    PutBackEntry, RestoreCurrent, RestoreRules, RestoreFinal,
    RolledBackBackup, RolledBackTop, Report, Interrupt, Goto, Abandon, TypeOK
<1> QED
  BY <1>1, <1>2, <1>3, <1>4

\* Between the processes all bindings agree but the one the lock is held for.
LEMMA OthersAgreeStays ==
  ASSUME IInv, TextInv, FilesInv, Undisturbed, NoRecovery,
         NEW p \in Invocations, Moves(p), TypeOK'
  PROVE  OthersAgree'
<1>t. TypeOK /\ Knows(p) /\ OthersAgree
  BY DEF IInv, FilesInv
<1>o. \A q \in Invocations \ {p} : pc'[q] = pc[q] /\ req'[q] = req[q]
  BY <1>t, OthersKeepTheirMemory
<1>1. CASE pc[p] \notin Locked
  <2>1. \A b \in Bindings : Consistent(b)' <=> Consistent(b)
    BY <1>1, <1>t, FilesOfOthers DEF Consistent
  <2>2. CASE UNCHANGED lock /\ pc'[p] \notin Locked
    <3>1. lock # Free => pc'[lock] \in Locked \cup {"crashed"}
      <4>1. pc[p] # "crashed"
        BY <1>1 DEF Moves, Step, Start, InspectEntry, InspectCurrent, Resolve,
          ReadReceipt, Lock, Prepare, WriteBackupReceipt, WriteTopReceipt,
          Precheck, AbortBackup, AbortTop, ActivateRelease, WriteRules,
          WriteCurrent, CheckActivation, WriteEntry, ReadBackEntry, RemoveCurrent,
          Verify, CommitTop, CommitBackup, FinalCheck, DemoteBackup, DemoteTop,
          RestoreCheck, RestoreEntry, DetachEntry, RecreateEntry, ConfirmEntry,
          PutBackEntry, RestoreCurrent, RestoreRules, RestoreFinal,
          RolledBackBackup, RolledBackTop, Unlock, Report, Interrupt, Crash,
          CrashDuringCreate, Locked
      <4> QED
        BY <1>1, <4>1, <1>o, <1>t DEF OthersAgree, TypeOK
    <3>2. \A q \in Invocations : pc'[q] \in Locked =>
            \A b \in Bindings : Consistent(b)' \/ b = Binding(q)'
      BY <2>1, <2>2, <1>o, <1>t DEF OthersAgree, Binding
    <3>3. \A q \in Invocations : pc'[q] \in {"releaseOk", "releaseFail"} =>
            Consistent(Binding(q))'
      <4>1. SUFFICES ASSUME NEW q \in Invocations,
                            pc'[q] \in {"releaseOk", "releaseFail"}
                     PROVE  Consistent(Binding(q))'
        OBVIOUS
      <4>2. q # p /\ pc[q] = pc'[q] /\ Binding(q)' = Binding(q) /\ Consistent(Binding(q))
        BY <4>1, <2>2, <1>o, <1>t DEF OthersAgree, Binding, Locked
      <4>3. Binding(q) \in Bindings
        BY <4>1, <4>2, RequestType DEF IInv, Ended
      <4> QED
        BY <2>1, <4>2, <4>3
    <3> QED
      BY <2>1, <2>2, <3>1, <3>2, <3>3, <1>t DEF OthersAgree
  <2>3. CASE lock = Free /\ lock' = p /\ pc'[p] = "prepare"
    <3>1. \A b \in Bindings : Consistent(b)'
      BY <2>1, <2>3, <1>t DEF OthersAgree
    <3>2. \A q \in Invocations : pc'[q] \in {"releaseOk", "releaseFail"} =>
            Binding(q)' \in Bindings
      <4>1. SUFFICES ASSUME NEW q \in Invocations,
                            pc'[q] \in {"releaseOk", "releaseFail"}
                     PROVE  Binding(q)' \in Bindings
        OBVIOUS
      <4>2. q # p
        BY <4>1, <2>3
      <4> QED
        BY <4>1, <4>2, <1>o, RequestType DEF IInv, Ended, Binding
    <3> QED
      BY <2>3, <3>1, <3>2, TransactionAssumption DEF OthersAgree, Locked
  <2> QED
    BY <1>1, <2>2, <2>3, LockPasses
<1>2. CASE pc[p] \in Locked
  <2>1. /\ lock = p /\ p # Free /\ \A q \in Invocations \ {p} : pc'[q] \notin Locked
        /\ Binding(p) \in Bindings
    BY <1>2, <1>o, <1>t, RequestType, TransactionAssumption
    DEF IInv, Knows, LockHeld, Locked, Ended
  <2>2. \A b \in Bindings \ {Binding(p)} : Consistent(b) /\ Consistent(b)'
    BY <1>2, <1>t, FilesOfOthers DEF OthersAgree, Consistent
  <2>3. CASE Unlock(p) /\ lock' = Free /\ pc'[p] \notin Locked
    <3>1. Consistent(Binding(p)) /\ UNCHANGED <<entry, current>>
      BY <2>3, <1>t DEF Unlock, OthersAgree, disk, files
    <3>2. \A b \in Bindings : Consistent(b)'
      BY <2>2, <3>1 DEF Consistent
    <3>3. \A q \in Invocations : pc'[q] \notin Locked
      BY <2>1, <2>3
    <3> QED
      BY <2>3, <3>2, <3>3 DEF OthersAgree, Locked
  <2>4. CASE UNCHANGED lock /\ pc'[p] = "crashed"
    <3>1. \A q \in Invocations : pc'[q] \notin Locked
      BY <2>1, <2>4 DEF Locked
    <3> QED
      BY <2>1, <2>4, <3>1 DEF OthersAgree, Locked
  <2>5. CASE UNCHANGED <<lock, req>> /\ pc'[p] \in Locked
    <3>1. Binding(p)' = Binding(p)
      BY <2>5 DEF Binding
    <3>2. pc'[p] \in {"releaseOk", "releaseFail"} => Consistent(Binding(p))'
      BY <1>2, <3>1, ReleasedAgrees DEF Consistent
    <3>3. \A q \in Invocations : pc'[q] \in Locked => q = p
      BY <2>1
    <3> QED
      BY <2>1, <2>2, <2>5, <3>1, <3>2, <3>3 DEF OthersAgree, Locked
  <2> QED
    BY <1>2, <2>3, <2>4, <2>5, LockPasses
<1> QED
  BY <1>1, <1>2

-----------------------------------------------------------------------------
(* One invocation at a time.                                                *)

\* Nobody else runs when an invocation takes a step.
LEMMA RunsAlone ==
  ASSUME IInv, OneAtATime, \A q, r \in Running : q = r, NEW p \in Invocations, Moves(p)
  PROVE  \A q \in Running' : q = p
<1>o. \A q \in Invocations \ {p} : pc'[q] = pc[q]
  BY OthersKeepTheirMemory DEF IInv
<1>1. CASE Start(p)
  <2>1. Running = {}
    <3>1. IsFiniteSet(Running)
      BY FS_Subset DEF OneAtATime, Running
    <3>2. Cardinality(Running) \in Nat /\ Cardinality(Running) < 1
      BY <1>1, <3>1, FS_CardinalityType DEF Start, OneAtATime
    <3>3. Cardinality(Running) = 0
      BY <3>2
    <3> QED
      BY <3>1, <3>3, FS_EmptySet
  <2> QED
    BY <2>1, <1>o DEF Running
<1>2. CASE ~Start(p)
  <2>1. p \in Running
    BY <1>2 DEF Running, Ended, Locked, Moves, Step, InspectEntry, InspectCurrent, Resolve,
      ReadReceipt, Lock, Prepare, WriteBackupReceipt, WriteTopReceipt,
      Precheck, AbortBackup, AbortTop, ActivateRelease, WriteRules,
      WriteCurrent, CheckActivation, WriteEntry, ReadBackEntry, RemoveCurrent,
      Verify, CommitTop, CommitBackup, FinalCheck, DemoteBackup, DemoteTop,
      RestoreCheck, RestoreEntry, DetachEntry, RecreateEntry, ConfirmEntry,
      PutBackEntry, RestoreCurrent, RestoreRules, RestoreFinal,
      RolledBackBackup, RolledBackTop, Unlock, Report, Interrupt, Crash,
      CrashDuringCreate
  <2> QED
    BY <2>1, <1>o DEF Running
<1> QED
  BY <1>1, <1>2

\* A mutation is admitted from files that agree.
LEMMA AdmittedAgree ==
  ASSUME NEW r, NEW b, NEW v, NEW e, NEW c,
         Admission(r, resolveContext(b, v, e, c)) = "lock"
  PROVE  Block(e) = c
<1>1. ReceiptState(b) \notin {"TAMPERED", "RECOVERY_REQUIRED"}
  BY DEF Admission, resolveContext
<1>2. resolveContext(b, v, e, c) # "TAMPERED"
  BY DEF Admission
<1> QED
  BY <1>1, <1>2 DEF resolveContext

\* What an invocation has inspected alone is what it acts on.
LEMMA InspectionStays ==
  ASSUME IInv, FilesInv, OneAtATime, NEW p \in Invocations, Moves(p), TypeOK'
  PROVE  InspectionHolds'
<1> DEFINE b == Binding(p)
<1>t. TypeOK /\ Knows(p) /\ Begins(p) /\ InspectionHolds
  BY DEF IInv, FilesInv
<1>1. \A q \in Running' : q = p
  BY <1>t, RunsAlone DEF InspectionHolds
<1>2. \A q \in Invocations \ {p} :
        pc'[q] \notin {"inspectCurrent", "resolve", "lock", "prepare"}
  BY <1>1 DEF Running, Ended
<1>3. pc'[p] \in {"inspectCurrent", "resolve", "lock", "prepare"} =>
        \/ InspectEntry(p) \/ InspectCurrent(p) \/ Resolve(p) \/ ReadReceipt(p) \/ Lock(p)
  BY SMTT(30), <1>t DEF TypeOK, Ended, Moves, Step, Start,
    Prepare, WriteBackupReceipt, WriteTopReceipt,
    Precheck, AbortBackup, AbortTop, ActivateRelease, WriteRules,
    WriteCurrent, CheckActivation, WriteEntry, ReadBackEntry, RemoveCurrent,
    Verify, CommitTop, CommitBackup, FinalCheck, DemoteBackup, DemoteTop,
    RestoreCheck, RestoreEntry, DetachEntry, RecreateEntry, ConfirmEntry,
    PutBackEntry, RestoreCurrent, RestoreRules, RestoreFinal,
    RolledBackBackup, RolledBackTop, Unlock, Report, Interrupt, Crash,
    CrashDuringCreate, Die, Continue, Goto, Abandon
<1> DEFINE Seen == /\ pc[p] \in {"inspectCurrent", "resolve", "lock", "prepare"}
                        /\ ~IsRollback(p) => EntryIs(p, work[p].entry)
                   /\ pc[p] = "resolve" => CurrentIs(p, work[p].current)
                   /\ pc[p] = "lock" /\ ~IsRollback(p) => Consistent(b)
<1>4. Seen'
  <2>1. CASE InspectEntry(p)
    BY <2>1, <1>t DEF InspectEntry, Goto, TypeOK, Works, disk, files, EntryIs, Binding
  <2>2. CASE InspectCurrent(p)
    <3>1. /\ pc[p] = "inspectCurrent" /\ pc'[p] = "resolve"
          /\ UNCHANGED <<entry, current, req>>
          /\ work'[p].current = current[b] /\ work'[p].entry = work[p].entry
      BY <2>2, <1>t DEF InspectCurrent, Goto, TypeOK, Works, disk, files
    <3>2. EntryIs(p, work[p].entry)
      BY <3>1, <1>t DEF InspectionHolds, Knows, TakesOwnPath
    <3> QED
      BY <3>1, <3>2 DEF EntryIs, CurrentIs, Binding
  <2>3. CASE Resolve(p)
    <3> DEFINE l == Admission(req[p], resolveContext(b, req[p].release, work[p].entry,
                                                    work[p].current))
    <3>1. /\ pc[p] = "resolve" /\ UNCHANGED <<entry, current>>
          /\ pc'[p] = l /\ l \in {"failed", "done", "lock"}
          /\ l = "lock" => req' = req /\ work'[p].entry = work[p].entry
      BY <2>3, <1>t DEF Resolve, Admission, Continue, Goto, Ended, TypeOK, Works, disk, files
    <3>2. EntryIs(p, work[p].entry) /\ CurrentIs(p, work[p].current)
      BY <3>1, <1>t DEF InspectionHolds, Knows, TakesOwnPath
    <3>3. l = "lock" => Consistent(b)
      BY <3>2, AdmittedAgree DEF Consistent, EntryIs, CurrentIs
    <3> QED
      BY <3>1, <3>2, <3>3 DEF EntryIs, CurrentIs, Binding, Consistent
  <2>4. CASE ReadReceipt(p)
    <3>1. pc'[p] \in {"report", "lock", "failed"} /\ (pc'[p] = "lock" => req' = req)
          /\ IsRollback(p)
      BY <2>4, <1>t DEF ReadReceipt, Continue, Goto, Ended, TypeOK, Knows, TakesOwnPath
    <3> QED
      BY <3>1 DEF IsRollback
  <2>5. CASE Lock(p)
    <3>1. pc[p] = "lock" /\ UNCHANGED <<entry, current>>
      BY <2>5 DEF Lock, disk, files
    <3>2. \/ pc'[p] = "failed"
          \/ pc'[p] \in {"restore", "prepare"} /\ UNCHANGED <<req, work>>
      BY <2>5, <1>t DEF Lock, Continue, Goto, TypeOK
    <3> QED
      BY <3>1, <3>2, <1>t DEF InspectionHolds, IsRollback, EntryIs, Binding
  <2>6. CASE pc'[p] \notin {"inspectCurrent", "resolve", "lock", "prepare"}
    BY <2>6
  <2> QED
    BY <1>3, <2>1, <2>2, <2>3, <2>4, <2>5, <2>6
<1>5. ASSUME NEW id \in Invocations, txn'[id] # Absent
      PROVE  Matched(id)'
  <2>1. CASE id = p /\ Prepare(p) /\ pc'[p] = "backupReceipt"
    <3>1. ~IsRollback(p) /\ pc[p] = "prepare"
      BY <2>1, <1>t DEF Prepare, Knows, WorksOnOwn
    <3>2. EntryIs(p, work[p].entry) /\ Consistent(b)
      BY <3>1, <1>t DEF InspectionHolds, Begins
    <3>3. txn'[p].before = entry[b] /\ txn'[p].curBefore = current[b]
      BY <2>1, <3>2, <1>t, PrepareImages DEF EntryIs
    <3> QED
      BY <2>1, <3>2, <3>3 DEF Matched, Consistent
  <2>2. CASE ~(id = p /\ Prepare(p) /\ pc'[p] = "backupReceipt")
    <3>1. txn'[id] = txn[id]
      BY <2>2, <1>t, PrepareOutcome, TxnsAreKept
    <3> QED
      BY <1>5, <3>1, <1>t DEF InspectionHolds, Matched
  <2> QED
    BY <2>1, <2>2
<1> QED
  BY <1>1, <1>2, <1>4, <1>5 DEF InspectionHolds

-----------------------------------------------------------------------------
LEMMA InitFiles == Init => FilesInv
<1> SUFFICES ASSUME Init PROVE FilesInv
  OBVIOUS
<1>1. \A b \in Bindings : Consistent(b)
  <2> SUFFICES ASSUME NEW b \in Bindings PROVE Consistent(b)
    OBVIOUS
  <2>1. entry[b] \in [text : Texts, block : {Absent}] \cup {Absent} /\ current[b] = Absent
    BY DEF Init
  <2> QED
    BY <2>1 DEF Consistent, Block
<1>2. \A p \in Invocations : Begins(p) /\ Advances(p) /\ Restores(p)
  BY DEF Init, NoWork, Begins, Advances, Restores, OwnRestore, Recording, Changing,
         Published, Pending, Activated, Restored, Restoring
<1>3. OthersAgree /\ InspectionHolds
  BY <1>1 DEF Init, OthersAgree, InspectionHolds, Running, Locked
<1> QED
  BY <1>1, <1>2, <1>3 DEF FilesInv, MixedIsOpen

LEMMA NextFiles ==
  ASSUME Undisturbed
  PROVE  IInv /\ IInv' /\ TextInv /\ FilesInv /\ [Next]_vars => FilesInv'
<1> SUFFICES ASSUME IInv, IInv', TextInv, FilesInv, [Next]_vars PROVE FilesInv'
  OBVIOUS
<1>t. TypeOK /\ TypeOK'
  BY DEF IInv
<1>1. ASSUME NEW p \in Invocations, Moves(p)
      PROVE  FilesInv'
  <2>1. \A q \in Invocations : Begins(q)' /\ Advances(q)' /\ Restores(q)'
    BY <1>1, <1>t, OwnFiles, OthersKnowFiles
  <2>2. MixedIsOpen'
    BY <1>1, <1>t, MixedStays
  <2>3. NoRecovery => OthersAgree'
    BY <1>1, <1>t, OthersAgreeStays
  <2>4. OneAtATime => InspectionHolds'
    BY <1>1, <1>t, InspectionStays
  <2> QED
    BY <2>1, <2>2, <2>3, <2>4 DEF FilesInv, NoRecovery, OneAtATime
<1>2. ASSUME NEW b \in Bindings, EditEntry(b)
      PROVE  FALSE
  BY <1>2, <1>t DEF EditEntry, TypeOK, Undisturbed
<1>3. CASE UNCHANGED vars
  BY SMTT(30), <1>3 DEF vars, FilesInv, Begins, Advances, Restores, MixedIsOpen, OthersAgree,
    InspectionHolds, Consistent, EntryIs, CurrentIs, Its, Binding, OwnRestore, IsRollback,
    Matched, AppliedCurrent, RulesRestorable, CurrentRestorable, EntryRestorable,
    HasReceipt, Running
<1> QED
  BY <1>1, <1>2, <1>3 DEF Next, Moves

LEMMA FilesInvariant == ASSUME Undisturbed PROVE Spec => []FilesInv
<1>1. IInv /\ IInv' /\ TextInv /\ FilesInv /\ [Next]_vars => FilesInv'
  BY NextFiles
<1> QED
  BY <1>1, InitFiles, Invariant, TextInvariant, PTL DEF Spec

\* Nobody saves while the installer works, and either nobody rolls back or one
\* invocation runs at a time: then an entry and a metadata file that disagree, at
\* any moment and after any death, have a receipt a rollback can start from
\* (transaction.ts, performMutation; docs/installer-architecture.md:104 ff.).
THEOREM MixedStatesHaveReceipts == ASSUME Undisturbed PROVE Spec => []MixedStateHasReceipt
<1>1. FilesInv => MixedStateHasReceipt
  BY DEF FilesInv, MixedIsOpen, MixedStateHasReceipt
<1> QED
  BY <1>1, FilesInvariant, PTL

-----------------------------------------------------------------------------
(* The version of a binding changes atomically.                             *)

\* A binding none of whose files changes has the same outcomes as before.
LEMMA SameOutcomes ==
  ASSUME IInv, FilesInv, NEW p \in Invocations, Moves(p), NEW b \in Bindings,
         entry'[b] = entry[b], current'[b] = current[b], top'[b] = top[b]
  PROVE  Outcomes(b)' = Outcomes(b)
<1>1. Consistent(b)' <=> Consistent(b)
  BY DEF Consistent
<1>2. CASE Consistent(b)
  BY <1>1, <1>2 DEF Outcomes
<1>3. CASE ~Consistent(b)
  <2>1. HasReceipt(b)
    BY <1>3 DEF FilesInv, MixedIsOpen
  <2>2. top[b].id \in Invocations
    BY <2>1, ReceiptType DEF IInv
  <2>3. txn'[top[b].id] = txn[top[b].id]
    BY <2>1, <2>2, TxnsAreKept DEF IInv, UnpublishedIsNowhere, Prepare, Unpublished
  <2> QED
    BY <1>1, <1>3, <2>3 DEF Outcomes
<1> QED
  BY <1>2, <1>3

\* The versions a change or a restore moves between.
LEMMA InTransition ==
  ASSUME IInv, FilesInv, NEW p \in Invocations, pc[p] \in Changing \cup Restoring
  PROVE  /\ Binding(p) \in Bindings
         /\ top[Binding(p)].id = work[p].id
         /\ Its(p).curBefore \in Installed /\ Its(p).curApplied \in Installed
         /\ current[Binding(p)] \in {Its(p).curBefore, Its(p).curApplied}
<1>t. TypeOK /\ Knows(p) /\ Advances(p) /\ Restores(p)
  BY DEF IInv, FilesInv
<1>1. OnReceipt(p)
  BY <1>t DEF Knows, WorksOnReceipt, Changing
<1>2. CASE pc[p] \in Changing
  <2>1. /\ txn[p] \in Txns /\ Binding(p) \in Bindings /\ Matched(p) /\ Its(p) = txn[p]
    BY <1>2, ChangingKnows
  <2>2. txn[p].curBefore \in Installed /\ txn[p].curApplied \in Installed
    BY <2>1, BlockOperations DEF Matched, Txns
  <2>3. current[Binding(p)] \in {Its(p).curBefore, Its(p).curApplied}
    BY <1>2, <1>t DEF Advances, CurrentIs, Changing, Published, Pending, Activated
  <2> QED
    BY <1>1, <2>1, <2>2, <2>3 DEF OnReceipt
<1>3. CASE pc[p] \in Restoring
  <2>1. /\ Its(p) \in Txns /\ Binding(p) \in Bindings /\ Matched(work[p].id)
        /\ CurrentRestorable(Binding(p), work[p].id)
    BY <1>3, RestoringKnows
  <2>2. Its(p).curBefore \in Installed /\ Its(p).curApplied \in Installed
    BY <2>1, BlockOperations DEF Matched, Its, Txns
  <2> QED
    BY <1>1, <2>1, <2>2 DEF OnReceipt, CurrentRestorable, Its
<1> QED
  BY <1>2, <1>3

\* A change or a restore writes the metadata of one of the two versions.
LEMMA MetadataSteps ==
  ASSUME IInv, FilesInv, NEW p \in Invocations, Moves(p), NEW b \in Bindings,
         b = Binding(p), pc[p] \in Changing \cup Restoring
  PROVE  \/ current'[b] \in {Its(p).curBefore, Its(p).curApplied}
         \/ CrashDuringCreate(p) /\ current'[b] = Torn
<1>t. TypeOK /\ current[b] \in {Its(p).curBefore, Its(p).curApplied}
  BY InTransition DEF IInv
<1>1. CASE UNCHANGED current
  BY <1>1, <1>t
<1>2. CASE WriteCurrent(p)
  <2>1. current'[b] = txn[p].curApplied /\ pc[p] \in Changing
    BY <1>2, <1>t DEF WriteCurrent, TypeOK, Changing, Published, Pending
  <2> QED
    BY <2>1, ChangingKnows
<1>3. CASE RemoveCurrent(p)
  <2>1. current'[b] = Absent /\ pc[p] \in Changing /\ req[p].op = "uninstall"
    BY <1>3, <1>t
    DEF RemoveCurrent, TypeOK, Changing, Published, Pending, FilesInv, Advances
  <2> QED
    BY <2>1, ChangingKnows DEF AppliedCurrent
<1>4. CASE RestoreCurrent(p)
  <2>1. UNCHANGED current \/ current'[b] = txn[work[p].id].curBefore
    BY <1>4, <1>t DEF RestoreCurrent, TypeOK
  <2> QED
    BY <2>1, <1>t DEF Its
<1>5. CASE CrashDuringCreate(p) /\ current' = [current EXCEPT ![Binding(p)] = Torn]
  BY <1>5, <1>t DEF TypeOK
<1> QED
  BY <1>1, <1>2, <1>3, <1>4, <1>5, FileSteps

\* What a step does to the outcomes: nothing, or it begins or ends the change of
\* one binding.
Begun(b) == \E v, w \in Installed : /\ Outcomes(b) = {v}
                                    /\ v # w
                                    /\ Outcomes(b)' = {v, w}
Settled(b) == \E v \in Outcomes(b) : /\ Outcomes(b) # {v}
                                     /\ Outcomes(b)' = {v}

LEMMA OutcomeSteps ==
  ASSUME IInv, TextInv, FilesInv, NEW p \in Invocations, Moves(p), TypeOK'
  PROVE  \/ \A c \in Bindings : Outcomes(c)' = Outcomes(c)
         \/ \E b \in Bindings :
              /\ \A c \in Bindings \ {b} : Outcomes(c)' = Outcomes(c)
              /\ Begun(b) \/ Settled(b)
<1>t. TypeOK
  BY DEF IInv
<1>1. \A c \in Bindings \ {Binding(p)} : Outcomes(c)' = Outcomes(c)
  BY <1>t, FilesOfOthers, SameOutcomes
<1>2. CASE Binding(p) \notin Bindings
  BY <1>1, <1>2
<1>3. ASSUME NEW b \in Bindings, b = Binding(p)
      PROVE  Outcomes(b)' = Outcomes(b) \/ Begun(b) \/ Settled(b)
  <2> DEFINE cB == txn[top[b].id].curBefore
             cA == txn[top[b].id].curApplied
  <2>1. CASE UNCHANGED <<entry, current, top>>
    BY <2>1, SameOutcomes
  <2>2. CASE ~UNCHANGED top
    BY <2>2, <1>3, ReceiptsChangeInAgreement DEF Outcomes, Consistent
  <2>3. CASE UNCHANGED top /\ ~UNCHANGED <<entry, current>>
    <3>1. pc[p] \in Changing \cup Restoring /\ UNCHANGED txn
      BY <2>3, FileSteps
    <3>2. cB \in Installed /\ cA \in Installed /\ current[b] \in {cB, cA}
      BY <3>1, <1>3, InTransition DEF Its
    <3>3. /\ Outcomes(b) = IF Consistent(b) THEN {current[b]} ELSE {cB, cA}
          /\ Outcomes(b)' = IF Consistent(b)' THEN {current'[b]} ELSE {cB, cA}
      BY <2>3, <3>1 DEF Outcomes
    <3>4. Consistent(b)' => current'[b] \in {cB, cA}
      <4>1. current'[b] \in {cB, cA} \/ current'[b] = Torn
        BY <3>1, <1>3, InTransition, MetadataSteps DEF Its
      <4>2. Block(entry'[b]) \in Installed
        BY BlockOperations DEF TypeOK
      <4> QED
        BY <4>1, <4>2, TransactionAssumption DEF Consistent, Installed
    <3>5. Consistent(b) /\ Consistent(b)' => current'[b] = current[b]
      BY FileSteps DEF Consistent
    <3>6. CASE (Consistent(b) <=> Consistent(b)') \/ cB = cA
      BY <3>2, <3>3, <3>4, <3>5, <3>6
    <3>7. CASE Consistent(b) /\ ~Consistent(b)' /\ cB # cA
      <4>1. /\ Outcomes(b) = {current[b]} /\ Outcomes(b)' = {cB, cA}
        BY <3>3, <3>7
      <4>2. PICK w \in {cB, cA} : w # current[b]
        BY <3>7
      <4>3. {cB, cA} = {current[b], w}
        BY <3>2, <4>2
      <4> HIDE DEF cB, cA
      <4> QED
        BY <3>2, <4>1, <4>2, <4>3 DEF Begun
    <3>8. CASE ~Consistent(b) /\ Consistent(b)' /\ cB # cA
      <4>1. /\ Outcomes(b) = {cB, cA} /\ Outcomes(b)' = {current'[b]}
            /\ current'[b] \in {cB, cA}
        BY <3>3, <3>4, <3>8
      <4>2. {cB, cA} # {current'[b]}
        BY <3>8
      <4> HIDE DEF cB, cA
      <4> QED
        BY <4>1, <4>2 DEF Settled
    <3> QED
      BY <3>6, <3>7, <3>8
  <2> QED
    BY <2>1, <2>2, <2>3
<1> QED
  BY <1>1, <1>2, <1>3

LEMMA AtomicStep ==
  ASSUME Undisturbed
  PROVE  IInv /\ IInv' /\ TextInv /\ FilesInv /\ [Next]_vars =>
           [Abstract!Next]_[b \in Bindings |-> Outcomes(b)]
<1> SUFFICES ASSUME IInv, IInv', TextInv, FilesInv, [Next]_vars
             PROVE  [Abstract!Next]_[b \in Bindings |-> Outcomes(b)]
  OBVIOUS
<1> DEFINE O == [b \in Bindings |-> Outcomes(b)]
<1>t. TypeOK /\ TypeOK'
  BY DEF IInv
<1>o. O' = [b \in Bindings |-> Outcomes(b)']
  OBVIOUS
<1>1. ASSUME NEW p \in Invocations, Moves(p)
      PROVE  Abstract!Next \/ O' = O
  <2>1. CASE \A c \in Bindings : Outcomes(c)' = Outcomes(c)
    BY <2>1, <1>o
  <2>2. ASSUME NEW b \in Bindings,
               \A c \in Bindings \ {b} : Outcomes(c)' = Outcomes(c),
               Begun(b) \/ Settled(b)
        PROVE  Abstract!Next
    <3>1. O' = [O EXCEPT ![b] = Outcomes(b)'] /\ O[b] = Outcomes(b)
      BY <2>2, <1>o
    <3>2. CASE Begun(b)
      <4>1. PICK v \in Installed, w \in Installed :
               Outcomes(b) = {v} /\ v # w /\ Outcomes(b)' = {v, w}
        BY <3>2 DEF Begun
      <4>2. O[b] = {v} /\ v # w /\ O' = [O EXCEPT ![b] = {v, w}]
        BY <3>1, <4>1
      <4>3. Abstract!Begin(b)
        BY <4>2 DEF Abstract!Begin
      <4> QED
        BY <4>3 DEF Abstract!Next
    <3>3. CASE Settled(b)
      <4>1. PICK v \in Outcomes(b) : Outcomes(b) # {v} /\ Outcomes(b)' = {v}
        BY <3>3 DEF Settled
      <4>2. v \in O[b] /\ O[b] # {v} /\ O' = [O EXCEPT ![b] = {v}]
        BY <3>1, <4>1
      <4>3. Abstract!Settle(b)
        BY <4>2 DEF Abstract!Settle
      <4> QED
        BY <4>3 DEF Abstract!Next
    <3> QED
      BY <2>2, <3>2, <3>3
  <2> QED
    BY <1>1, <1>t, <2>1, <2>2, OutcomeSteps
<1>2. ASSUME NEW b \in Bindings, EditEntry(b)
      PROVE  FALSE
  BY <1>2, <1>t DEF EditEntry, TypeOK, Undisturbed
<1>3. CASE UNCHANGED vars
  BY <1>3 DEF vars, Outcomes, Consistent
<1> QED
  BY <1>1, <1>2, <1>3 DEF Next, Moves

LEMMA InitAtomic == Init => Abstract!Init
<1> SUFFICES ASSUME Init PROVE Abstract!Init
  OBVIOUS
<1>1. \A b \in Bindings : Outcomes(b) = {Absent}
  <2> SUFFICES ASSUME NEW b \in Bindings PROVE Outcomes(b) = {Absent}
    OBVIOUS
  <2>1. entry[b] \in [text : Texts, block : {Absent}] \cup {Absent} /\ current[b] = Absent
    BY DEF Init
  <2> QED
    BY <2>1 DEF Outcomes, Consistent, Block
<1> QED
  BY <1>1 DEF Abstract!Init

\* Under the same assumptions the files and receipts of every binding implement an
\* atomic change of its version (AtomicBinding): a change moves between two
\* versions fixed when it begins, is finished in one of them by the mutation, its
\* restore or a later rollback, and no other change of the binding starts before.
THEOREM TransactionIsAtomic == ASSUME Undisturbed PROVE Spec => ImplementsAtomicBinding
<1>1. IInv /\ IInv' /\ TextInv /\ FilesInv /\ [Next]_vars =>
        [Abstract!Next]_[b \in Bindings |-> Outcomes(b)]
  BY AtomicStep
<1> QED
  BY <1>1, InitAtomic, Invariant, TextInvariant, FilesInvariant, PTL
  DEF Spec, ImplementsAtomicBinding, Abstract!Spec

-----------------------------------------------------------------------------
(* Every open or committed receipt can be rolled back.                      *)

\* The assumptions: one invocation at a time, files are replaced or created whole,
\* and no two bindings bring rules, which share one file in a release they both run.
NoRules == \A r \in Requests : r.rules = Absent
BringsRules(r) == r.rules # Absent \/ r.op = "update"
OneBringsRules == \E b \in Bindings : \A r \in Requests : BringsRules(r) => r.binding = b
Orderly == MaxEdits = 0 /\ OneAtATime /\ ~TornCreates /\ (NoRules \/ OneBringsRules)

\* An installation starts where nothing is installed.
InstallsAnew(p) ==
  pc[p] \in {"lock", "prepare"} /\ req[p].op = "install" => work[p].current = Absent

\* Rules are written by transactions of bindings that bring rules.
RulesFollowRequests ==
  /\ \A id \in Invocations :
       txn[id] # Absent /\ txn[id].localRules =>
         ~NoRules /\ \E r \in Requests : BringsRules(r) /\ r.binding = txn[id].binding
  /\ NoRules => \A v \in Versions : rules[v] = Absent

\* A receipt about to be published is one that can be rolled back.
RecordsLive(p) ==
  pc[p] \in Recording => EntryIs(p, Its(p).before) /\ RulesRestorable(p)

\* Each file of the binding is one of the images its receipt records.
FilesRestorable(b) ==
  /\ EntryRestorable(b, top[b].id)
  /\ CurrentRestorable(b, top[b].id)
  /\ RulesRestorable(top[b].id)

OpenReceipt(b) == HasReceipt(b) /\ top[b].status # "ROLLED_BACK"

RecoveryInv ==
  /\ \A p \in Invocations : InstallsAnew(p) /\ RecordsLive(p)
  /\ RulesFollowRequests
  /\ \A b \in Bindings : OpenReceipt(b) => FilesRestorable(b)

\* An installation is admitted only where nothing is installed.
LEMMA AdmittedAnew ==
  ASSUME NEW r, NEW b, NEW v, NEW e, NEW c, r.op = "install",
         Admission(r, resolveContext(b, v, e, c)) = "lock"
  PROVE  c = Absent
<1>1. resolveContext(b, v, e, c) \in {"ABSENT", "FRESH", "CURRENT", "OUTDATED",
         "DOWNGRADE_BLOCKED", "TAMPERED", "RECOVERY_REQUIRED"}
  BY DEF resolveContext
<1>2. resolveContext(b, v, e, c) \in {"ABSENT", "FRESH"}
  BY <1>1 DEF Admission
<1> QED
  BY <1>2 DEF resolveContext

LEMMA InstallsAnewStays ==
  ASSUME IInv, NEW p \in Invocations, InstallsAnew(p), Moves(p)
  PROVE  InstallsAnew(p)'
<1>t. TypeOK /\ Knows(p)
  BY DEF IInv
<1>1. pc'[p] \in {"lock", "prepare"} => Resolve(p) \/ ReadReceipt(p) \/ Lock(p)
  BY SMTT(30), <1>t DEF TypeOK, Ended, Moves, Step, Start, InspectEntry, InspectCurrent,
    Prepare, WriteBackupReceipt, WriteTopReceipt,
    Precheck, AbortBackup, AbortTop, ActivateRelease, WriteRules,
    WriteCurrent, CheckActivation, WriteEntry, ReadBackEntry, RemoveCurrent,
    Verify, CommitTop, CommitBackup, FinalCheck, DemoteBackup, DemoteTop,
    RestoreCheck, RestoreEntry, DetachEntry, RecreateEntry, ConfirmEntry,
    PutBackEntry, RestoreCurrent, RestoreRules, RestoreFinal,
    RolledBackBackup, RolledBackTop, Unlock, Report, Interrupt, Crash,
    CrashDuringCreate, Die, Continue, Goto, Abandon
<1>2. CASE Resolve(p)
  <2> DEFINE l == Admission(req[p], resolveContext(Binding(p), req[p].release,
                                      work[p].entry, work[p].current))
  <2>1. /\ pc'[p] = l /\ l \in {"failed", "done", "lock"}
        /\ l = "lock" => req' = req /\ work'[p].current = work[p].current
    BY <1>2, <1>t DEF Resolve, Admission, Continue, Goto, Ended, TypeOK, Works
  <2> QED
    BY <2>1, AdmittedAnew DEF InstallsAnew
<1>3. CASE ReadReceipt(p)
  <2>1. IsRollback(p) /\ (pc'[p] \in {"lock", "prepare"} => req' = req)
    BY <1>3, <1>t DEF ReadReceipt, Knows, TakesOwnPath, Continue, Goto, Ended, TypeOK
  <2> QED
    BY <2>1 DEF InstallsAnew, IsRollback
<1>4. CASE Lock(p)
  BY <1>4, <1>t DEF Lock, InstallsAnew, Continue, Goto, Ended, TypeOK
<1> QED
  BY <1>1, <1>2, <1>3, <1>4 DEF InstallsAnew

\* What Prepare records of the rules.
LEMMA PrepareRules ==
  ASSUME TypeOK, NEW p \in Invocations, Knows(p), Prepare(p), pc'[p] = "backupReceipt"
  PROVE  /\ txn'[p].binding = Binding(p)
         /\ txn'[p].localRules <=> RulesSource(p) # Absent
         /\ txn'[p].release = req[p].release
         /\ txn'[p].localRules => txn'[p].rulesBefore = rules[req[p].release]
         /\ UNCHANGED rules
<1>1. ~RulesStale(p)
  BY DEF Prepare, Goto, TypeOK
<1>2. /\ txn'[p].binding = Binding(p)
      /\ txn'[p].release = req[p].release
      /\ txn'[p].rulesBefore = IF RulesSource(p) = Absent THEN Absent
                               ELSE rules[req[p].release]
  BY <1>1 DEF Prepare, TypeOK
<1>3. txn'[p].localRules = (RulesSource(p) # Absent)
  BY <1>1 DEF Prepare, TypeOK
<1>4. UNCHANGED rules
  BY DEF Prepare, store
<1> QED
  BY <1>2, <1>3, <1>4

\* Only transactions of bindings that bring rules record any.
LEMMA PrepareBringsRules ==
  ASSUME IInv, RulesFollowRequests, NEW p \in Invocations, InstallsAnew(p), Prepare(p),
         RulesSource(p) # Absent
  PROVE  ~NoRules /\ BringsRules(req[p]) /\ req[p] \in Requests
<1>1. /\ req[p] \in Requests /\ req[p].op \in Ops /\ ~IsRollback(p) /\ pc[p] = "prepare"
  BY RequestType DEF IInv, Prepare, Knows, Ended, WorksOnOwn
<1>2. CASE CarriesRules(p)
  <2>1. req[p].op = "update"
    BY <1>1, <1>2, TransactionAssumption DEF CarriesRules, InstallsAnew, Ops, IsRollback
  <2>2. work[p].current \in Versions /\ rules[work[p].current] # Absent
    BY <1>2 DEF CarriesRules, RulesSource
  <2> QED
    BY <1>1, <2>1, <2>2 DEF BringsRules, RulesFollowRequests
<1>3. CASE ~CarriesRules(p)
  BY <1>1, <1>3 DEF RulesSource, BringsRules, NoRules
<1> QED
  BY <1>2, <1>3

\* Whose rules a step writes.
LEMMA RulesWriters ==
  ASSUME IInv, NEW p \in Invocations, Moves(p), ~UNCHANGED rules
  PROVE  /\ WriteRules(p) \/ RestoreRules(p)
         /\ work[p].id \in Invocations /\ Its(p) \in Txns /\ Its(p).localRules
         /\ Its(p).binding = Binding(p) /\ Binding(p) \in Bindings
         /\ top[Binding(p)].id = work[p].id
         /\ WriteRules(p) => work[p].id = p
<1>t. TypeOK /\ Knows(p)
  BY DEF IInv
<1>1. WriteRules(p) \/ RestoreRules(p)
  <2>1. pc[p] = "writeRules" => Interrupt(p) \/ Crash(p) \/ CrashDuringCreate(p) \/ WriteRules(p)
    BY DEF Moves, Step, Start, InspectEntry, InspectCurrent, Resolve,
      ReadReceipt, Lock, Prepare, WriteBackupReceipt, WriteTopReceipt,
      Precheck, AbortBackup, AbortTop, ActivateRelease, WriteCurrent,
      CheckActivation, WriteEntry, ReadBackEntry, RemoveCurrent, Verify,
      CommitTop, CommitBackup, FinalCheck, DemoteBackup, DemoteTop,
      RestoreCheck, RestoreEntry, DetachEntry, RecreateEntry, ConfirmEntry,
      PutBackEntry, RestoreCurrent, RestoreRules, RestoreFinal, RolledBackBackup,
      RolledBackTop, Unlock, Report
  <2> QED
    BY <2>1, RulesSteps DEF Interrupt, Crash, CrashDuringCreate, disk, store
<1>2. CASE WriteRules(p)
  <2>1. pc[p] \in Published
    BY <1>2 DEF WriteRules, Published, Pending
  <2>2. txn[p] \in Txns /\ txn[p].binding = Binding(p) /\ work[p].id = p
        /\ Binding(p) \in Bindings /\ OnReceipt(p)
    BY <2>1, <1>t, OwnTxnType DEF Knows, WorksOnReceipt
  <2>3. txn[p].localRules
    BY <1>2 DEF WriteRules
  <2> QED
    BY <1>2, <2>2, <2>3 DEF Its, OnReceipt
<1>3. CASE RestoreRules(p)
  <2>1. pc[p] \in Restoring
    BY <1>3 DEF RestoreRules, Restoring
  <2>2. work[p].id \in Invocations /\ Its(p) \in Txns /\ Binding(p) \in Bindings /\ OnReceipt(p)
    BY <2>1, <1>t, RestoredTxnType DEF Knows, WorksOnReceipt, Its
  <2>3. Its(p).binding = Binding(p)
    BY <2>2 DEF IInv, ReceiptIsRecorded, OnReceipt, Its
  <2>4. Its(p).localRules
    BY <1>3 DEF RestoreRules, Its
  <2> QED
    BY <1>3, <2>2, <2>3, <2>4 DEF OnReceipt, WriteRules, RestoreRules
<1> QED
  BY <1>1, <1>2, <1>3

LEMMA RulesFollowStays ==
  ASSUME IInv, RulesFollowRequests, NEW p \in Invocations, InstallsAnew(p), Moves(p)
  PROVE  RulesFollowRequests'
<1>t. TypeOK /\ Knows(p)
  BY DEF IInv
<1>1. ASSUME NEW id \in Invocations, txn'[id] # Absent, txn'[id].localRules
      PROVE  ~NoRules /\ \E r \in Requests : BringsRules(r) /\ r.binding = txn'[id].binding
  <2>1. CASE id = p /\ Prepare(p) /\ pc'[p] = "backupReceipt"
    BY <2>1, <1>1, <1>t, PrepareRules, PrepareBringsRules DEF Binding
  <2>2. CASE ~(id = p /\ Prepare(p) /\ pc'[p] = "backupReceipt")
    <3>1. txn'[id] = txn[id]
      BY <2>2, <1>t, PrepareOutcome, TxnsAreKept
    <3> QED
      BY <1>1, <3>1 DEF RulesFollowRequests
  <2> QED
    BY <2>1, <2>2
<1>2. NoRules => \A v \in Versions : rules'[v] = Absent
  BY RulesWriters, TransactionAssumption DEF RulesFollowRequests, Its
<1> QED
  BY <1>1, <1>2 DEF RulesFollowRequests, NoRules

\* What a receipt about to be published records is still on disk.
LEMMA RecordsLiveStays ==
  ASSUME IInv, FilesInv, RecoveryInv, Orderly, NEW p \in Invocations, Moves(p), TypeOK',
         NEW q \in Invocations
  PROVE  RecordsLive(q)'
<1>t. TypeOK /\ Knows(p) /\ RecordsLive(q)
  BY DEF IInv, RecoveryInv
<1>1. CASE q # p
  <2>1. pc'[q] = pc[q] /\ req'[q] = req[q] /\ work'[q] = work[q]
    BY <1>1, <1>t, OthersKeepTheirMemory
  <2>2. pc[q] \in Recording => UNCHANGED <<entry, rules, txn>>
    BY <1>1, <1>t, LockStays, FilesOfOthers, OutsideTheLock DEF IInv, Recording, Locked
  <2> QED
    BY <2>1, <2>2, <1>t DEF RecordsLive, EntryIs, Its, Binding, RulesRestorable
<1>2. CASE q = p
  <2>1. pc'[p] \in Recording => Prepare(p) \/ WriteBackupReceipt(p)
    BY SMTT(30), <1>t
    DEF TypeOK, Recording, Ended, Moves, Step, Start, InspectEntry, InspectCurrent,
      Resolve, ReadReceipt, Lock, WriteTopReceipt,
      Precheck, AbortBackup, AbortTop, ActivateRelease, WriteRules,
      WriteCurrent, CheckActivation, WriteEntry, ReadBackEntry, RemoveCurrent,
      Verify, CommitTop, CommitBackup, FinalCheck, DemoteBackup, DemoteTop,
      RestoreCheck, RestoreEntry, DetachEntry, RecreateEntry, ConfirmEntry,
      PutBackEntry, RestoreCurrent, RestoreRules, RestoreFinal,
      RolledBackBackup, RolledBackTop, Unlock, Report, Interrupt, Crash,
      CrashDuringCreate, Die, Continue, Goto, Abandon, Admission
  <2>2. CASE WriteBackupReceipt(p)
    BY <1>2, <2>2, <1>t
    DEF WriteBackupReceipt, Recording, RecordsLive, EntryIs, Its, Binding, RulesRestorable,
        files, store
  <2>3. CASE Prepare(p) /\ pc'[p] = "backupReceipt"
    <3>1. ~IsRollback(p) /\ pc[p] = "prepare" /\ UNCHANGED <<files, req>>
      BY <2>3, <1>t DEF Prepare, Knows, WorksOnOwn
    <3>2. EntryIs(p, work[p].entry)
      BY <3>1 DEF FilesInv, Orderly, InspectionHolds
    <3>3. (EntryIs(p, Its(p).before))'
      BY <2>3, <3>1, <3>2, <1>t, PrepareImages DEF EntryIs, Its, Binding, files
    <3>4. RulesRestorable(p)'
      BY <2>3, <1>t, PrepareRules DEF RulesRestorable
    <3> QED
      BY <1>2, <3>3, <3>4 DEF RecordsLive
  <2>4. Prepare(p) => pc'[p] = "backupReceipt" \/ pc'[p] \notin Recording
    BY <1>t, PrepareOutcome DEF Recording
  <2> QED
    BY <1>2, <2>1, <2>2, <2>3, <2>4 DEF RecordsLive
<1> QED
  BY <1>1, <1>2

\* The transaction of a receipt does not change.
LEMMA RecordedStays ==
  ASSUME IInv, NEW p \in Invocations, Moves(p), NEW b \in Bindings, HasReceipt(b)
  PROVE  /\ top[b].id \in Invocations /\ txn[top[b].id] \in Txns
         /\ txn[top[b].id].binding = b
         /\ txn'[top[b].id] = txn[top[b].id]
<1>1. top[b].id \in Invocations
  BY ReceiptType DEF IInv
<1> QED
  BY <1>1, TxnsAreKept DEF IInv, TypeOK, ReceiptIsRecorded, UnpublishedIsNowhere, Prepare,
    Unpublished

\* The steps of a change or a restore leave the entry an image of its receipt.
LEMMA EntryStaysRestorable ==
  ASSUME IInv, TextInv, RecoveryInv, Orderly, NEW p \in Invocations, Moves(p),
         NEW b \in Bindings, OpenReceipt(b), top'[b] = top[b]
  PROVE  EntryRestorable(b, top[b].id)'
<1> DEFINE id == top[b].id
<1>t. TypeOK /\ Knows(p)
  BY DEF IInv
<1>r. id \in Invocations /\ txn[id] \in Txns /\ txn[id].binding = b /\ txn'[id] = txn[id]
  BY RecordedStays DEF OpenReceipt
<1>e. EntryRestorable(b, id)
  BY DEF RecoveryInv, FilesRestorable
<1>1. CASE entry'[b] = entry[b] /\ detached'[id] = detached[id]
  BY <1>1, <1>r, <1>e DEF EntryRestorable
<1>2. CASE WriteEntry(p)
  <2>1. pc[p] \in Published /\ UNCHANGED detached
    BY <1>2 DEF WriteEntry, Published, Pending
  <2>2. work[p].id = p /\ Binding(p) \in Bindings /\ OnReceipt(p) /\ detached[p] = Absent
    BY <2>1, <1>t, OwnTxnType DEF Knows, WorksOnReceipt, TextInv, DetachedOnce
  <2>3. CASE b = Binding(p)
    <3>1. id = p /\ (entry'[b] = entry[b] \/ entry'[b] = txn[p].applied)
      BY <1>2, <2>2, <2>3, <1>t DEF OnReceipt, WriteEntry, TypeOK
    <3> QED
      BY <2>1, <2>2, <3>1, <1>1, <1>r DEF EntryRestorable
  <2>4. CASE b # Binding(p)
    <3>1. entry'[b] = entry[b]
      BY <1>2, <2>4, <1>t, FilesOfOthers
    <3> QED
      BY <2>1, <3>1, <1>1
  <2> QED
    BY <2>3, <2>4
<1>3. CASE DetachEntry(p) \/ RecreateEntry(p) \/ PutBackEntry(p)
  <2>1. pc[p] \in Restoring
    BY <1>3 DEF DetachEntry, RecreateEntry, PutBackEntry, Restoring
  <2>2. work[p].id \in Invocations /\ Binding(p) \in Bindings /\ OnReceipt(p)
    BY <2>1, <1>t, RestoredTxnType DEF Knows, WorksOnReceipt
  <2>3. CASE b # Binding(p)
    <3>1. work[p].id # id
      BY <2>2, <2>3, <1>r DEF OnReceipt, IInv, ReceiptIsRecorded
    <3>2. entry'[b] = entry[b]
      BY <2>3, <1>t, FilesOfOthers
    <3>3. detached'[id] = detached[id]
      BY <1>3, <3>1, <2>2, <1>r, <1>t DEF DetachEntry, RecreateEntry, PutBackEntry, TypeOK
    <3> QED
      BY <3>2, <3>3, <1>1
  <2>4. CASE b = Binding(p) /\ DetachEntry(p)
    <3>1. /\ work[p].id = id /\ detached[id] = Absent
          /\ entry'[b] = Absent /\ detached'[id] = entry[b]
      BY <2>2, <2>4, <1>r, <1>t DEF OnReceipt, DetachEntry, TypeOK, TextInv, DetachedOnce
    <3> QED
      BY <3>1, <1>e, <1>r DEF EntryRestorable
  <2>5. CASE b = Binding(p) /\ RecreateEntry(p)
    <3>1. /\ work[p].id = id /\ UNCHANGED detached
          /\ entry'[b] = entry[b] \/ (entry[b] = Absent /\ entry'[b] = txn[id].before)
      BY <2>2, <2>5, <1>r, <1>t DEF OnReceipt, RecreateEntry, TypeOK
    <3> QED
      BY <3>1, <1>e, <1>r, <1>1 DEF EntryRestorable
  <2>6. CASE b = Binding(p) /\ PutBackEntry(p)
    <3>1. /\ work[p].id = id /\ UNCHANGED detached
          /\ entry'[b] = entry[b] \/ (entry[b] = Absent /\ entry'[b] = detached[id])
      BY <2>2, <2>6, <1>r, <1>t DEF OnReceipt, PutBackEntry, TypeOK
    <3> QED
      BY <3>1, <1>e, <1>r, <1>1 DEF EntryRestorable
  <2> QED
    BY <1>3, <2>3, <2>4, <2>5, <2>6
<1>4. ~CrashDuringCreate(p)
  BY DEF CrashDuringCreate, Orderly
<1> QED
  BY <1>1, <1>2, <1>3, <1>4, EntrySteps

\* The same for the metadata.
LEMMA CurrentStaysRestorable ==
  ASSUME IInv, TextInv, FilesInv, RecoveryInv, Orderly, NEW p \in Invocations, Moves(p),
         NEW b \in Bindings, OpenReceipt(b), top'[b] = top[b]
  PROVE  CurrentRestorable(b, top[b].id)'
<1> DEFINE id == top[b].id
<1>t. TypeOK /\ Knows(p)
  BY DEF IInv
<1>r. txn'[id] = txn[id]
  BY RecordedStays DEF OpenReceipt
<1>1. CASE current'[b] = current[b]
  BY <1>1, <1>r DEF CurrentRestorable, RecoveryInv, FilesRestorable
<1>2. CASE current'[b] # current[b]
  <2>1. b = Binding(p)
    BY <1>2, <1>t, FilesOfOthers
  <2>2. pc[p] \in Changing \cup Restoring
    BY <1>2, FileSteps, ReceiptsChangeInAgreement
  <2>3. /\ id = work[p].id /\ ~CrashDuringCreate(p)
    BY <2>1, <2>2, InTransition DEF Orderly, CrashDuringCreate
  <2>4. current'[b] \in {txn[id].curBefore, txn[id].curApplied}
    BY <2>1, <2>2, <2>3, MetadataSteps DEF Its
  <2> QED
    BY <2>4, <1>r DEF CurrentRestorable
<1> QED
  BY <1>1, <1>2

\* The same for the rules: another binding that writes into the release brings no
\* rules when this one does.
LEMMA RulesStayRestorable ==
  ASSUME IInv, RecoveryInv, Orderly, NEW p \in Invocations, Moves(p),
         NEW b \in Bindings, OpenReceipt(b), top'[b] = top[b]
  PROVE  RulesRestorable(top[b].id)'
<1> DEFINE id == top[b].id
<1>t. TypeOK /\ Knows(p)
  BY DEF IInv
<1>r. id \in Invocations /\ txn[id] \in Txns /\ txn[id].binding = b /\ txn'[id] = txn[id]
  BY RecordedStays DEF OpenReceipt
<1>1. CASE UNCHANGED rules \/ ~txn[id].localRules
  BY <1>1, <1>r DEF RulesRestorable, RecoveryInv, FilesRestorable
<1>2. CASE ~UNCHANGED rules /\ txn[id].localRules
  <2>1. /\ WriteRules(p) \/ RestoreRules(p)
        /\ work[p].id \in Invocations /\ Its(p) \in Txns /\ Its(p).localRules
        /\ Its(p).binding = Binding(p) /\ Binding(p) \in Bindings
        /\ top[Binding(p)].id = work[p].id
        /\ WriteRules(p) => work[p].id = p
    BY <1>2, RulesWriters
  <2>2. b = Binding(p)
    <3>1. OneBringsRules
      BY <1>2, <1>r, TransactionAssumption DEF Orderly, RecoveryInv, RulesFollowRequests
    <3>2. PICK c \in Bindings : \A r \in Requests : BringsRules(r) => r.binding = c
      BY <3>1 DEF OneBringsRules
    <3>3. txn[id].binding = c /\ Its(p).binding = c
      BY <3>2, <2>1, <1>2, <1>r, TransactionAssumption
      DEF RecoveryInv, RulesFollowRequests, Its
    <3> QED
      BY <3>3, <2>1, <1>r
  <2>3. id = work[p].id
    BY <2>1, <2>2
  <2>4. rules'[txn[id].release] \in {txn[id].rulesBefore, txn[id].rulesApplied}
    <3>1. txn[id].release \in Versions
      BY <1>r DEF Txns
    <3>2. CASE WriteRules(p)
      BY <3>1, <3>2, <2>1, <2>3, <1>2, <1>t DEF WriteRules, TypeOK
    <3>3. CASE RestoreRules(p)
      BY <3>1, <3>3, <2>1, <2>3, <1>2, <1>t DEF RestoreRules, RulesToRestore, TypeOK
    <3> QED
      BY <2>1, <3>2, <3>3
  <2> QED
    BY <2>4, <1>r DEF RulesRestorable
<1> QED
  BY <1>1, <1>2

LEMMA FilesStayRestorable ==
  ASSUME IInv, TextInv, FilesInv, RecoveryInv, Orderly, NEW p \in Invocations, Moves(p),
         TypeOK', NEW b \in Bindings, OpenReceipt(b)'
  PROVE  FilesRestorable(b)'
<1>t. TypeOK /\ Knows(p)
  BY DEF IInv
<1>1. CASE top'[b] = top[b]
  <2>1. OpenReceipt(b)
    BY <1>1 DEF OpenReceipt, HasReceipt
  <2>2. /\ EntryRestorable(b, top[b].id)' /\ CurrentRestorable(b, top[b].id)'
        /\ RulesRestorable(top[b].id)'
    BY <1>1, <2>1, EntryStaysRestorable, CurrentStaysRestorable, RulesStayRestorable
  <2> QED
    BY <1>1, <2>2 DEF FilesRestorable, EntryRestorable, CurrentRestorable, RulesRestorable
<1>2. CASE top'[b] # top[b]
  <2>1. b = Binding(p) /\ ~CrashDuringCreate(p)
    BY <1>2, <1>t, FilesOfOthers DEF CrashDuringCreate, Orderly
  <2>2. CASE WriteTopReceipt(p)
    <3>1. /\ pc[p] \in Recording /\ pc[p] \in Unpublished
          /\ UNCHANGED <<files, store, txn>>
          /\ top'[b] = [id |-> p, status |-> "PREPARED"]
      BY <2>1, <2>2, <1>t DEF WriteTopReceipt, Recording, Unpublished, TypeOK
    <3>2. /\ entry[b] = txn[p].before /\ current[b] = txn[p].curBefore
          /\ RulesRestorable(p) /\ detached[p] = Absent /\ work[p].id = p
      BY <2>1, <3>1, <1>t
      DEF RecoveryInv, RecordsLive, FilesInv, Begins, TextInv, DetachedOnce, Knows,
          WorksOnOwn, EntryIs, CurrentIs, Its
    <3>3. top'[b].id = p
      BY <3>1
    <3> QED
      BY <3>1, <3>2, <3>3
      DEF FilesRestorable, EntryRestorable, CurrentRestorable, RulesRestorable, files, store
  <2>3. CASE AbortTop(p) \/ CommitTop(p) \/ DemoteTop(p) \/ RolledBackTop(p)
    <3>1. PICK s \in Status :
            /\ top'[b] = [top[b] EXCEPT !.status = s]
            /\ OnReceipt(p)
            /\ UNCHANGED txn
            /\ \/ AbortTop(p) /\ s = "ROLLED_BACK"
               \/ CommitTop(p) /\ s = "COMMITTED"
               \/ DemoteTop(p) /\ s = "PREPARED"
               \/ RolledBackTop(p) /\ s = "ROLLED_BACK"
      BY <2>1, <2>3, <1>t, TopRewritten
    <3>2. top[b] \in [id : Invocations, status : Status]
      BY <3>1, <2>1, <1>t, ReceiptType DEF OnReceipt
    <3>3. top'[b].id = top[b].id /\ top'[b].status = s
      BY <3>1, <3>2, StatusRewritten
    <3>4. CommitTop(p) \/ DemoteTop(p)
      BY <3>1, <3>3 DEF OpenReceipt
    <3>5. OpenReceipt(b)
      BY <3>1, <3>4, <2>1, <1>t
      DEF OpenReceipt, OnReceipt, CommitTop, DemoteTop, Knows, CopiesFollowCode, CopiesAre,
          Pending
    <3>6. FilesRestorable(b) /\ UNCHANGED <<files, store, txn>>
      BY <3>4, <3>5 DEF RecoveryInv, CommitTop, DemoteTop
    <3> QED
      BY <3>3, <3>6
      DEF FilesRestorable, EntryRestorable, CurrentRestorable, RulesRestorable, files, store
  <2> QED
    BY <1>2, <2>1, <2>2, <2>3, TopSteps
<1> QED
  BY <1>1, <1>2

LEMMA InitRecovery == Init => RecoveryInv
BY DEF Init, RecoveryInv, InstallsAnew, RecordsLive, Recording, RulesFollowRequests,
       OpenReceipt, HasReceipt

LEMMA NextRecovery ==
  ASSUME Orderly
  PROVE  IInv /\ IInv' /\ TextInv /\ FilesInv /\ RecoveryInv /\ [Next]_vars => RecoveryInv'
<1> SUFFICES ASSUME IInv, IInv', TextInv, FilesInv, RecoveryInv, [Next]_vars
             PROVE  RecoveryInv'
  OBVIOUS
<1>t. TypeOK /\ TypeOK'
  BY DEF IInv
<1>1. ASSUME NEW p \in Invocations, Moves(p)
      PROVE  RecoveryInv'
  <2>1. \A q \in Invocations : InstallsAnew(q)'
    <3>1. InstallsAnew(p)'
      BY <1>1, InstallsAnewStays DEF RecoveryInv
    <3>2. \A q \in Invocations \ {p} : InstallsAnew(q)'
      BY <1>1, <1>t, OthersKeepTheirMemory DEF RecoveryInv, InstallsAnew
    <3> QED
      BY <3>1, <3>2
  <2>2. \A q \in Invocations : RecordsLive(q)'
    BY <1>1, <1>t, RecordsLiveStays
  <2>3. RulesFollowRequests'
    BY <1>1, RulesFollowStays DEF RecoveryInv
  <2>4. \A b \in Bindings : OpenReceipt(b)' => FilesRestorable(b)'
    BY <1>1, <1>t, FilesStayRestorable
  <2> QED
    BY <2>1, <2>2, <2>3, <2>4
    DEF RecoveryInv, FilesRestorable, EntryRestorable, CurrentRestorable, RulesRestorable
<1>2. ASSUME NEW b \in Bindings, EditEntry(b)
      PROVE  FALSE
  BY <1>2, <1>t DEF EditEntry, TypeOK, Orderly
<1>3. CASE UNCHANGED vars
  BY <1>3 DEF vars, RecoveryInv, InstallsAnew, RecordsLive, RulesFollowRequests,
    FilesRestorable, OpenReceipt, HasReceipt, EntryRestorable, CurrentRestorable,
    RulesRestorable, EntryIs, Its, Binding
<1> QED
  BY <1>1, <1>2, <1>3 DEF Next, Moves

LEMMA RecoveryInvariant == ASSUME Orderly PROVE Spec => []RecoveryInv
<1>1. Undisturbed
  BY DEF Orderly, Undisturbed
<1>2. Spec => []FilesInv
  BY <1>1, FilesInvariant
<1>3. IInv /\ IInv' /\ TextInv /\ FilesInv /\ RecoveryInv /\ [Next]_vars => RecoveryInv'
  BY NextRecovery
<1> QED
  BY <1>2, <1>3, InitRecovery, Invariant, TextInvariant, PTL DEF Spec

\* One invocation at a time, with deaths and interruptions anywhere: whenever nobody
\* works on a binding, a rollback of its open or committed receipt passes every check
\* (recovery.ts, restore), unless the receipt's installation brought its own rules
\* file. Files must not be left torn, and two bindings must not both bring rules:
\* the second to write into a shared release makes the receipt of the first useless.
THEOREM ReceiptsAreRestorable ==
  ASSUME Orderly PROVE Spec => []RestorableUnlessFreshRules
<1>1. IInv /\ RecoveryInv => RestorableUnlessFreshRules
  BY DEF IInv, ReceiptsRecoverable, RecoveryInv, OpenReceipt, FilesRestorable,
         RestorableUnlessFreshRules, Restorable
<1>2. Spec => []RecoveryInv
  BY RecoveryInvariant
<1> QED
  BY <1>1, <1>2, Invariant, PTL

=============================================================================
