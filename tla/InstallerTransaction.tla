------------------------ MODULE InstallerTransaction ------------------------
(***************************************************************************)
(* One installation root shared by several invocations of the installer    *)
(* (src/src/transaction.ts and src/src/installer/).                        *)
(*                                                                         *)
(* Each binding (a harness entry file) has three files that must agree:    *)
(* the user's entry file with the managed block in it, current.json, and   *)
(* the receipt last-transaction.json, which has a second copy beside the    *)
(* backups of the transaction it describes.  A mutation records everything *)
(* in a PREPARED receipt, changes the files one at a time, and commits both *)
(* copies of the receipt; a failure, or a later `rollback`, restores.      *)
(*                                                                         *)
(* Every action is the part of an invocation between two points where      *)
(* somebody else can look or act: the user's editor writes the entry file  *)
(* without any lock, other invocations inspect without the lock, and a     *)
(* process may die at every point.  The root lock is the one RootLock      *)
(* specifies (taking and giving it up are single steps here), and a native  *)
(* compare-and-rename is one step.                                         *)
(***************************************************************************)
EXTENDS Integers, FiniteSets

CONSTANTS
  Invocations,  \* processes, each runs one request; also the transaction ids,
                \* numbered in the order they are started
  Bindings,     \* (target root, entry file) pairs
  Versions,     \* release versions, ordered
  Texts,        \* what the user may have in an entry file outside the block
  EmptyText,    \* no text outside the block
  RuleTexts,    \* contents of a local rules file
  Requests,     \* the requests the invocations may be started with
  Absent,       \* no file, no version, no rules
  Torn,         \* a file whose creation was cut short
  Free,         \* the root lock is not held
  MaxRunning,   \* bound: invocations running at the same time
  MaxEdits,     \* bound: saves of the user's editor
  MaxCrashes,   \* bound: processes that die while they hold the lock
  MaxFaults,    \* bound: mutations a signal or an injected fault interrupts
  TornCreates   \* whether a crash may leave a file half written

Ops == {"install", "update", "uninstall", "rollback"}
Status == {"PREPARED", "COMMITTED", "ROLLED_BACK"}
Entries == [text : Texts, block : Versions \cup {Absent}]
Rules == RuleTexts \cup {Absent}
Installed == Versions \cup {Absent}

VARIABLES
  \* on disk
  entry,     \* the entry file of each binding
  current,   \* current.json: the version it names
  top,       \* last-transaction.json
  backup,    \* the status in backups/<binding>/<id>/receipt.json
  txn,       \* what a transaction recorded: preimages and postimages
  detached,  \* the entry file a restore of transaction id moved aside
  releases,  \* versions under releases/
  rules,     \* the local rules file of each release
  lock,      \* the holder of the root lock
  \* the processes
  pc, req, work,
  \* the environment
  edits, crashes, faults,
  saved      \* ghost: the text the user last saved in each entry file

files == <<entry, current, detached>>
copies == <<top, backup>>
store == <<releases, rules>>
disk == <<files, copies, store, txn>>
env == <<edits, crashes, faults, saved>>
vars == <<entry, current, top, backup, txn, detached, releases, rules, lock,
          pc, req, work, edits, crashes, faults, saved>>

\* What an invocation remembers: the context it inspected (entry, current,
\* rules), the receipt it restores (id, status), whether to preserve the
\* entry, the entry it expects to move aside, and the rules it verified.
NoWork == [entry |-> Absent, current |-> Absent, rules |-> Absent,
           id |-> Absent, status |-> "PREPARED", preserve |-> FALSE,
           expected |-> Absent, verified |-> Absent]

Locked == {"prepare", "backupReceipt", "topReceipt", "precheck", "abortBackup",
           "abortTop", "apply", "writeRules", "writeCurrent",
           "checkActivation", "writeEntry", "readback", "removeCurrent",
           "verify", "commitTop", "commitBackup", "finalCheck",
           "demoteBackup", "demoteTop", "restore", "restoreEntry", "detach",
           "recreate", "confirm", "putBack", "restoreCurrent",
           "restoreRules", "restoreFinal", "rolledBackup", "rolledTop",
           "releaseOk", "releaseFail"}
Ended == {"done", "failed", "crashed"}
PC == Locked \cup {"idle", "inspectEntry", "inspectCurrent", "resolve",
                   "readReceipt", "lock", "report"} \cup Ended

Txns == [binding : Bindings, applied : Entries, before : Entries \cup {Absent},
         curBefore : Installed \cup {Torn}, curApplied : Installed,
         release : Versions, relExisted : BOOLEAN, localRules : BOOLEAN,
         rulesBefore : Rules, rulesApplied : Rules]
Works == [entry : Entries \cup {Absent, Torn},
          current : Installed \cup {Torn}, rules : Rules,
          id : Invocations \cup {Absent}, status : Status,
          preserve : BOOLEAN, expected : Entries \cup {Absent, Torn},
          verified : Rules]

ASSUME TransactionAssumption ==
  /\ Invocations \subseteq Nat
  /\ Versions \subseteq Nat
  /\ EmptyText \in Texts
  /\ Requests \subseteq [op : Ops, binding : Bindings, release : Versions,
                         rules : Rules]
  /\ Absent \notin Entries \cup Versions \cup RuleTexts \cup Txns
                   \cup Invocations \cup {Torn}
  /\ Torn \notin Entries \cup Versions
  /\ Absent \notin [id : Invocations, status : Status] \cup Status
  /\ Torn \notin [id : Invocations, status : Status]
  /\ Free \notin Invocations
  /\ MaxRunning \in Nat /\ MaxEdits \in Nat /\ MaxCrashes \in Nat /\ MaxFaults \in Nat
  /\ TornCreates \in BOOLEAN

TypeOK ==
  /\ entry \in [Bindings -> Entries \cup {Absent, Torn}]
  /\ current \in [Bindings -> Installed \cup {Torn}]
  /\ top \in [Bindings -> [id : Invocations, status : Status]
                            \cup {Absent, Torn}]
  /\ backup \in [Invocations -> Status \cup {Absent}]
  /\ txn \in [Invocations -> Txns \cup {Absent}]
  /\ detached \in [Invocations -> Entries \cup {Absent, Torn}]
  /\ releases \subseteq Versions
  /\ rules \in [Versions -> Rules]
  /\ lock \in Invocations \cup {Free}
  /\ pc \in [Invocations -> PC]
  /\ req \in [Invocations -> Requests \cup {Absent}]
  /\ work \in [Invocations -> Works]
  /\ edits \in 0..MaxEdits
  /\ crashes \in 0..MaxCrashes
  /\ faults \in 0..MaxFaults
  /\ saved \in [Bindings -> Texts]

\* The user has an entry file of his own, or none; nothing is installed.
Init ==
  /\ entry \in [Bindings -> [text : Texts, block : {Absent}] \cup {Absent}]
  /\ current = [b \in Bindings |-> Absent]
  /\ top = [b \in Bindings |-> Absent]
  /\ backup = [p \in Invocations |-> Absent]
  /\ txn = [p \in Invocations |-> Absent]
  /\ detached = [p \in Invocations |-> Absent]
  /\ releases = {}
  /\ rules = [v \in Versions |-> Absent]
  /\ lock = Free
  /\ pc = [p \in Invocations |-> "idle"]
  /\ req = [p \in Invocations |-> Absent]
  /\ work = [p \in Invocations |-> NoWork]
  /\ edits = 0 /\ crashes = 0 /\ faults = 0
  /\ saved = [b \in Bindings |-> IF entry[b] = Absent THEN EmptyText
                                                      ELSE entry[b].text]
-----------------------------------------------------------------------------
Goto(p, l) == pc' = [pc EXCEPT ![p] = l]

\* The process goes on remembering w, or it ends and all it knew is gone.
Continue(p, l, w) ==
  /\ Goto(p, l)
  /\ IF l \in Ended
     THEN /\ work' = [work EXCEPT ![p] = NoWork]
          /\ req' = [req EXCEPT ![p] = Absent]
     ELSE /\ work' = [work EXCEPT ![p] = w]
          /\ UNCHANGED req

Binding(p) == req[p].binding
Block(e) == IF e \in {Absent, Torn} THEN Absent ELSE e.block
Text(e) == IF e \in {Absent, Torn} THEN EmptyText ELSE e.text

installManagedBlock(e, v) == [text |-> Text(e), block |-> v]
removeManagedBlock(e) == [text |-> Text(e), block |-> Absent]

HasReceipt(b) == top[b] \notin {Absent, Torn}

\* The two copies of a receipt may differ in these ways only.
recoverableSplit(status, copy) ==
  \/ status = "COMMITTED" /\ copy \in {"PREPARED", "ROLLED_BACK"}
  \/ status = "PREPARED" /\ copy = "ROLLED_BACK"

receiptWithMatchingBackup(b) ==
  /\ HasReceipt(b)
  /\ txn[top[b].id].binding = b
  /\ LET copy == backup[top[b].id]
     IN  top[b].status = copy \/ recoverableSplit(top[b].status, copy)

ReceiptState(b) ==
  IF top[b] = Absent THEN "none"
  ELSE IF ~receiptWithMatchingBackup(b) THEN "TAMPERED"
  ELSE IF top[b].status = "PREPARED" \/ top[b].status # backup[top[b].id]
       THEN "RECOVERY_REQUIRED" ELSE "settled"

\* The state an invocation that has read entry e and metadata c resolves to.
\* A half-written entry is taken to hold a broken marker.
resolveContext(b, v, e, c) ==
  IF ReceiptState(b) \in {"TAMPERED", "RECOVERY_REQUIRED"} THEN ReceiptState(b)
  ELSE IF c = Absent
       THEN IF e = Torn \/ Block(e) # Absent THEN "TAMPERED"
            ELSE IF e = Absent THEN "ABSENT" ELSE "FRESH"
  ELSE IF ReceiptState(b) = "none" \/ c \notin releases \/ Block(e) # c
       THEN "TAMPERED"
  ELSE IF v = c THEN "CURRENT"
  ELSE IF v > c THEN "OUTDATED" ELSE "DOWNGRADE_BLOCKED"

\* What mutate does with a request once it has resolved the context.
Admission(r, state) ==
  IF \/ state \in {"TAMPERED", "RECOVERY_REQUIRED", "DOWNGRADE_BLOCKED"}
     \/ r.op = "install" /\ state = "OUTDATED"
     \/ r.op = "update" /\ state \notin {"OUTDATED", "CURRENT"}
  THEN "failed"
  ELSE IF \/ r.op = "install" /\ state = "CURRENT"
          \/ r.op = "update" /\ state = "CURRENT" /\ r.rules = Absent
          \/ r.op = "uninstall" /\ state \in {"ABSENT", "FRESH"}
  THEN "done" ELSE "lock"
-----------------------------------------------------------------------------
Running == {p \in Invocations : pc[p] \notin {"idle"} \cup Ended}

\* The process is started with one of the requests.
Start(p) ==
  /\ pc[p] = "idle"
  /\ \A q \in Invocations : q < p => pc[q] # "idle"
  /\ Cardinality(Running) < MaxRunning
  /\ \E r \in Requests :
       /\ req' = [req EXCEPT ![p] = r]
       /\ Goto(p, IF r.op = "rollback" THEN "readReceipt" ELSE "inspectEntry")
  /\ UNCHANGED <<disk, lock, work, env>>

\* resolveContext reads the entry file, then current.json, then the receipt;
\* none of it under the lock.
InspectEntry(p) ==
  /\ pc[p] = "inspectEntry"
  /\ work' = [work EXCEPT ![p].entry = entry[Binding(p)]]
  /\ Goto(p, "inspectCurrent")
  /\ UNCHANGED <<disk, lock, req, env>>

InspectCurrent(p) ==
  /\ pc[p] = "inspectCurrent"
  /\ work' = [work EXCEPT ![p].current = current[Binding(p)]]
  /\ Goto(p, "resolve")
  /\ UNCHANGED <<disk, lock, req, env>>

Resolve(p) ==
  /\ pc[p] = "resolve"
  /\ LET c == work[p].current
         state == resolveContext(Binding(p), req[p].release, work[p].entry, c)
     IN Continue(p, Admission(req[p], state),
                 [work[p] EXCEPT !.rules = IF c \in Versions THEN rules[c]
                                                             ELSE Absent])
  /\ UNCHANGED <<disk, lock, env>>

\* rollback reads the entry's identity and validates both receipt copies,
\* without the lock; a receipt that is already rolled back is only reported.
ReadReceipt(p) ==
  /\ pc[p] = "readReceipt"
  /\ LET b == Binding(p)
     IN IF receiptWithMatchingBackup(b)
        THEN Continue(p, IF top[b].status = "ROLLED_BACK" THEN "report"
                                                          ELSE "lock",
                      [work[p] EXCEPT !.entry = entry[b], !.id = top[b].id,
                                      !.status = top[b].status])
        ELSE Continue(p, "failed", NoWork)
  /\ UNCHANGED <<disk, lock, env>>

\* Mutant: the lock directory may exist already.
LockAnyway(p) ==
  /\ pc[p] = "lock"
  /\ lock' = p
  /\ Goto(p, IF req[p].op = "rollback" THEN "restore" ELSE "prepare")
  /\ UNCHANGED <<disk, req, work, env>>

\* A mutation gives up when the lock is held; a rollback takes over the lock
\* of a process that died.
Lock(p) ==
  /\ pc[p] = "lock"
  /\ IF \/ lock = Free
        \/ req[p].op = "rollback" /\ lock # Free /\ pc[lock] = "crashed"
     THEN /\ lock' = p
          /\ Goto(p, IF req[p].op = "rollback" THEN "restore" ELSE "prepare")
          /\ UNCHANGED <<req, work>>
     ELSE /\ Continue(p, "failed", NoWork)
          /\ UNCHANGED lock
  /\ UNCHANGED <<disk, env>>
-----------------------------------------------------------------------------
\* localRulesMutation: the rules to write, Absent when none, and whether the
\* rules carried over from the installed release are still those inspected.
CarriesRules(p) ==
  /\ req[p].op # "uninstall"
  /\ req[p].rules = Absent
  /\ work[p].current \in Versions \ {req[p].release}
  /\ rules[req[p].release] = Absent
RulesSource(p) == IF CarriesRules(p) THEN rules[work[p].current]
                                     ELSE req[p].rules
RulesStale(p) == CarriesRules(p) /\ rules[work[p].current] # work[p].rules

AppliedEntry(p) ==
  IF req[p].op = "uninstall"
  THEN removeManagedBlock(work[p].entry)
  ELSE installManagedBlock(work[p].entry, req[p].release)

\* Mutant: an uninstall records the release as its metadata.
AppliedCurrentOfRelease(p) == req[p].release
AppliedCurrent(p) == IF req[p].op = "uninstall" THEN Absent ELSE req[p].release

\* performMutation up to the receipt: everything a restore needs.  The
\* metadata is read again under the lock, the entry is the inspected one.
Prepare(p) ==
  /\ pc[p] = "prepare"
  /\ IF RulesStale(p)
     THEN /\ Goto(p, "releaseFail")
          /\ UNCHANGED <<txn, work>>
     ELSE /\ LET v == req[p].release
             IN txn' = [txn EXCEPT ![p] =
                  [binding |-> Binding(p),
                   before |-> work[p].entry,
                   applied |-> AppliedEntry(p),
                   curBefore |-> current[Binding(p)],
                   curApplied |-> AppliedCurrent(p),
                   release |-> v,
                   relExisted |-> v \in releases,
                   localRules |-> RulesSource(p) # Absent,
                   rulesBefore |-> IF RulesSource(p) = Absent THEN Absent
                                   ELSE rules[v],
                   rulesApplied |-> RulesSource(p)]]
          /\ work' = [work EXCEPT ![p].id = p]
          /\ Goto(p, "backupReceipt")
  /\ UNCHANGED <<files, copies, store, lock, req, env>>

WriteBackupReceipt(p) ==
  /\ pc[p] = "backupReceipt"
  /\ backup' = [backup EXCEPT ![p] = "PREPARED"]
  /\ Goto(p, "topReceipt")
  /\ UNCHANGED <<files, store, txn, top, lock, req, work, env>>

\* Replaces whatever receipt the binding has.
WriteTopReceipt(p) ==
  /\ pc[p] = "topReceipt"
  /\ top' = [top EXCEPT ![Binding(p)] = [id |-> p, status |-> "PREPARED"]]
  /\ Goto(p, "precheck")
  /\ UNCHANGED <<files, store, txn, backup, lock, req, work, env>>

\* The preimages are still live; if not, nothing is restored and both
\* copies are marked ROLLED_BACK.
Precheck(p) ==
  /\ pc[p] = "precheck"
  /\ LET b == Binding(p)
         t == txn[p]
     IN Goto(p, IF /\ entry[b] = t.before
                   /\ current[b] = t.curBefore
                   /\ t.localRules => rules[t.release] = t.rulesBefore
                THEN "apply" ELSE "abortBackup")
  /\ UNCHANGED <<disk, lock, req, work, env>>

\* Rewrites the status of one copy of a receipt.
SetBackup(id, status) == backup' = [backup EXCEPT ![id] = status]
SetTop(p, status) == top' = [top EXCEPT ![Binding(p)].status = status]

AbortBackup(p) ==
  /\ pc[p] = "abortBackup"
  /\ SetBackup(p, "ROLLED_BACK")
  /\ Goto(p, "abortTop")
  /\ UNCHANGED <<files, store, txn, top, lock, req, work, env>>

AbortTop(p) ==
  /\ pc[p] = "abortTop"
  /\ SetTop(p, "ROLLED_BACK")
  /\ Goto(p, "releaseFail")
  /\ UNCHANGED <<files, store, txn, backup, lock, req, work, env>>
-----------------------------------------------------------------------------
\* Mutant: the failed mutation is only marked as rolled back.
AbandonUnrestored(p, preserveEntry) ==
  /\ work' = [work EXCEPT ![p].preserve = preserveEntry]
  /\ Goto(p, "abortBackup")

\* From here on a failure restores: at once for the entry too, unless the
\* failure is a ConcurrentEntryChange, which leaves the entry alone.
Abandon(p, preserveEntry) ==
  /\ work' = [work EXCEPT ![p].preserve = preserveEntry]
  /\ Goto(p, "restore")

\* A signal seen at a checkpoint, or an injected fault.
Interrupt(p) ==
  /\ pc[p] \in {"apply", "writeCurrent", "checkActivation", "verify",
                "commitTop"}
  /\ faults < MaxFaults
  /\ faults' = faults + 1
  /\ Abandon(p, FALSE)
  /\ UNCHANGED <<disk, lock, req, edits, crashes, saved>>

\* The staged release is renamed into place; an uninstall leaves releases alone.
ActivateRelease(p) ==
  /\ pc[p] = "apply"
  /\ IF req[p].op = "uninstall"
     THEN Goto(p, "writeEntry") /\ UNCHANGED releases
     ELSE Goto(p, "writeRules") /\ releases' = releases \cup {txn[p].release}
  /\ UNCHANGED <<files, copies, rules, txn, lock, req, work, env>>

WriteRules(p) ==
  /\ pc[p] = "writeRules"
  /\ rules' = IF txn[p].localRules
              THEN [rules EXCEPT ![txn[p].release] = txn[p].rulesApplied]
              ELSE rules
  /\ Goto(p, "writeCurrent")
  /\ UNCHANGED <<files, copies, releases, txn, lock, req, work, env>>

WriteCurrent(p) ==
  /\ pc[p] = "writeCurrent"
  /\ current' = [current EXCEPT ![Binding(p)] = txn[p].curApplied]
  /\ Goto(p, "checkActivation")
  /\ UNCHANGED <<entry, detached, copies, store, txn, lock, req, work, env>>

PostimageLive(p) ==
  /\ current[Binding(p)] = txn[p].curApplied
  /\ txn[p].localRules => rules[txn[p].release] = txn[p].rulesApplied

\* Last look before the entry is activated.
CheckActivation(p) ==
  /\ pc[p] = "checkActivation"
  /\ IF PostimageLive(p) /\ entry[Binding(p)] = txn[p].before
     THEN Goto(p, "writeEntry") /\ UNCHANGED work
     ELSE Abandon(p, PostimageLive(p))
  /\ UNCHANGED <<disk, lock, req, env>>

\* Mutant: the inspected entry is not compared with the live one.
WriteEntryUnchecked(p) ==
  /\ pc[p] = "writeEntry"
  /\ entry' = [entry EXCEPT ![Binding(p)] = txn[p].applied]
  /\ Goto(p, "readback")
  /\ UNCHANGED <<current, detached, copies, store, txn, lock, req, work, env>>

\* Compare and rename for an entry that existed, exclusive create otherwise;
\* a changed entry is never written.
WriteEntry(p) ==
  /\ pc[p] = "writeEntry"
  /\ IF entry[Binding(p)] = txn[p].before
     THEN /\ entry' = [entry EXCEPT ![Binding(p)] = txn[p].applied]
          /\ Goto(p, "readback")
          /\ UNCHANGED work
     ELSE /\ Abandon(p, TRUE)
          /\ UNCHANGED entry
  /\ UNCHANGED <<current, detached, copies, store, txn, lock, req, env>>

\* atomicWrite reports every failure of a bound write as a concurrent change;
\* atomicCreate reports a readback failure as an ordinary error.
ReadBackEntry(p) ==
  /\ pc[p] = "readback"
  /\ IF entry[Binding(p)] = txn[p].applied
     THEN /\ Goto(p, IF req[p].op = "uninstall" THEN "removeCurrent"
                                                ELSE "verify")
          /\ UNCHANGED work
     ELSE Abandon(p, txn[p].before # Absent)
  /\ UNCHANGED <<disk, lock, req, env>>

RemoveCurrent(p) ==
  /\ pc[p] = "removeCurrent"
  /\ current' = [current EXCEPT ![Binding(p)] = Absent]
  /\ Goto(p, "verify")
  /\ UNCHANGED <<entry, detached, copies, store, txn, lock, req, work, env>>

Verify(p) ==
  /\ pc[p] = "verify"
  /\ IF PostimageLive(p) /\ entry[Binding(p)] = txn[p].applied
     THEN /\ work' = [work EXCEPT ![p].verified = rules[txn[p].release]]
          /\ Goto(p, "commitTop")
     ELSE Abandon(p, FALSE)
  /\ UNCHANGED <<disk, lock, req, env>>

\* Mutant: the copy beside the backups is committed first.
CommitBackupFirst(p) ==
  /\ pc[p] = "commitTop"
  /\ SetBackup(p, "COMMITTED")
  /\ Goto(p, "commitBackup")
  /\ UNCHANGED <<files, store, txn, top, lock, req, work, env>>

CommitTop(p) ==
  /\ pc[p] = "commitTop"
  /\ SetTop(p, "COMMITTED")
  /\ Goto(p, "commitBackup")
  /\ UNCHANGED <<files, store, txn, backup, lock, req, work, env>>

CommitBackup(p) ==
  /\ pc[p] = "commitBackup"
  /\ SetBackup(p, "COMMITTED")
  /\ Goto(p, "finalCheck")
  /\ UNCHANGED <<files, store, txn, top, lock, req, work, env>>

\* The joint postimage once more; a mismatch takes the commit back.
FinalCheck(p) ==
  /\ pc[p] = "finalCheck"
  /\ Goto(p, IF /\ entry[Binding(p)] = txn[p].applied
                /\ current[Binding(p)] = txn[p].curApplied
                /\ \/ req[p].op = "uninstall"
                   \/ rules[txn[p].release] = work[p].verified
             THEN "releaseOk" ELSE "demoteBackup")
  /\ UNCHANGED <<disk, lock, req, work, env>>

DemoteBackup(p) ==
  /\ pc[p] = "demoteBackup"
  /\ SetBackup(p, "PREPARED")
  /\ Goto(p, "demoteTop")
  /\ UNCHANGED <<files, store, txn, top, lock, req, work, env>>

DemoteTop(p) ==
  /\ pc[p] = "demoteTop"
  /\ SetTop(p, "PREPARED")
  /\ Abandon(p, FALSE)
  /\ UNCHANGED <<files, store, txn, backup, lock, req, env>>
-----------------------------------------------------------------------------
otherBindings(b) == {current[c] : c \in Bindings \ {b}}

\* Mutant: other bindings are not looked at.
noOtherBinding(p) == FALSE

\* Another binding runs the release: its rules are not touched.
otherBindingReferences(p) == txn[work[p].id].release \in otherBindings(Binding(p))

\* The entry is a recorded image, or its image waits in the detached file.
EntryRestorable(b, id) ==
  LET t == txn[id]
      images == {t.before, t.applied}
  IN /\ \/ entry[b] \in images
        \/ entry[b] = Absent /\ detached[id] # Absent
     /\ detached[id] # Absent =>
          /\ detached[id] \in images
          /\ entry[b] \in {Absent, t.before, detached[id]}

CurrentRestorable(b, id) == current[b] \in {txn[id].curBefore, txn[id].curApplied}

RulesRestorable(id) ==
  txn[id].localRules =>
    rules[txn[id].release] \in {txn[id].rulesBefore, txn[id].rulesApplied}

\* restore, up to its first change.  A rollback validates the copies again
\* and requires the receipt it read before it took the lock, and an entry
\* file that is still the one it saw (a save in place keeps its identity, a
\* replacement does not).
RestoreCheck(p) ==
  /\ pc[p] = "restore"
  /\ LET b == Binding(p)
         id == work[p].id
         rollback == req[p].op = "rollback"
         sameReceipt == /\ receiptWithMatchingBackup(b)
                        /\ top[b].id = id
                        /\ top[b].status = work[p].status
         ok == /\ rollback => sameReceipt
               /\ Torn \notin otherBindings(b)
               /\ work[p].preserve \/ EntryRestorable(b, id)
               /\ CurrentRestorable(b, id)
               /\ otherBindingReferences(p) \/ RulesRestorable(id)
         replaced == rollback /\ work[p].entry \notin {Absent, entry[b]}
     IN \/ ok /\ Goto(p, "restoreEntry")
        \/ (~ok \/ replaced) /\ Goto(p, "releaseFail")
  /\ UNCHANGED <<disk, lock, req, work, env>>

\* The entry is looked at again; what is there now is moved aside next.
RestoreEntry(p) ==
  /\ pc[p] = "restoreEntry"
  /\ LET b == Binding(p)
         id == work[p].id
     IN IF work[p].preserve
        THEN Goto(p, "restoreCurrent") /\ UNCHANGED work
        ELSE IF ~EntryRestorable(b, id)
        THEN Goto(p, "releaseFail") /\ UNCHANGED work
        ELSE IF detached[id] = Absent /\ entry[b] = txn[id].before
        THEN Goto(p, "restoreCurrent") /\ UNCHANGED work
        ELSE /\ work' = [work EXCEPT ![p].expected =
                           IF detached[id] # Absent THEN detached[id]
                                                    ELSE entry[b]]
             /\ Goto(p, IF detached[id] # Absent THEN "recreate" ELSE "detach")
  /\ UNCHANGED <<disk, lock, req, env>>

\* Whatever the entry path holds by now is renamed to the detached file.
DetachEntry(p) ==
  /\ pc[p] = "detach"
  /\ detached' = [detached EXCEPT ![work[p].id] = entry[Binding(p)]]
  /\ entry' = [entry EXCEPT ![Binding(p)] = Absent]
  /\ Goto(p, "recreate")
  /\ UNCHANGED <<current, copies, store, txn, lock, req, work, env>>

\* The detached bytes must be the expected ones; then the old entry is
\* created, unless the path is taken again.
RecreateEntry(p) ==
  /\ pc[p] = "recreate"
  /\ LET b == Binding(p)
         id == work[p].id
     IN IF detached[id] # work[p].expected
        THEN Goto(p, "putBack") /\ UNCHANGED entry
        ELSE /\ entry' = IF entry[b] = Absent
                         THEN [entry EXCEPT ![b] = txn[id].before] ELSE entry
             /\ Goto(p, "confirm")
  /\ UNCHANGED <<current, detached, copies, store, txn, lock, req, work, env>>

\* Mutant: the restored entry is compared with the wrong image.
ConfirmApplied(p) ==
  /\ pc[p] = "confirm"
  /\ Goto(p, IF entry[Binding(p)] = txn[work[p].id].applied
             THEN "restoreCurrent" ELSE "putBack")
  /\ UNCHANGED <<disk, lock, req, work, env>>

ConfirmEntry(p) ==
  /\ pc[p] = "confirm"
  /\ Goto(p, IF entry[Binding(p)] = txn[work[p].id].before
             THEN "restoreCurrent" ELSE "putBack")
  /\ UNCHANGED <<disk, lock, req, work, env>>

\* The detached bytes return to an empty path; the restore fails.
PutBackEntry(p) ==
  /\ pc[p] = "putBack"
  /\ entry' = IF entry[Binding(p)] = Absent
              THEN [entry EXCEPT ![Binding(p)] = detached[work[p].id]]
              ELSE entry
  /\ Goto(p, "releaseFail")
  /\ UNCHANGED <<current, detached, copies, store, txn, lock, req, work, env>>

\* The entry as restored, unless it is being preserved.
EntryRestored(p) ==
  work[p].preserve \/ entry[Binding(p)] = txn[work[p].id].before

RestoreCurrent(p) ==
  /\ pc[p] = "restoreCurrent"
  /\ IF EntryRestored(p) /\ CurrentRestorable(Binding(p), work[p].id)
     THEN /\ current' = [current EXCEPT ![Binding(p)] =
                           txn[work[p].id].curBefore]
          /\ Goto(p, "restoreRules")
     ELSE /\ Goto(p, "releaseFail")
          /\ UNCHANGED current
  /\ UNCHANGED <<entry, detached, copies, store, txn, lock, req, work, env>>

\* The rules to leave in a release that existed before.
\* Mutant: rules are removed, as if there had been none.
NoRulesBefore(t) == Absent
RulesToRestore(t) == t.rulesBefore

\* A release this transaction brought keeps the rules written into it.
RestoreRules(p) ==
  /\ pc[p] = "restoreRules"
  /\ LET t == txn[work[p].id]
         own == ~otherBindingReferences(p) /\ t.localRules
     IN IF EntryRestored(p) /\ (own => RulesRestorable(work[p].id))
        THEN /\ rules' = IF own /\ t.relExisted
                         THEN [rules EXCEPT ![t.release] = RulesToRestore(t)]
                         ELSE rules
             /\ Goto(p, "restoreFinal")
        ELSE /\ Goto(p, "releaseFail")
             /\ UNCHANGED rules
  /\ UNCHANGED <<files, copies, releases, txn, lock, req, work, env>>

\* The joint postimage the restore must end in.
FinalImage(p) ==
  LET t == txn[work[p].id] IN
  /\ EntryRestored(p)
  /\ current[Binding(p)] = t.curBefore
  /\ t.localRules /\ ~otherBindingReferences(p) =>
       rules[t.release] = IF t.relExisted THEN t.rulesBefore ELSE t.rulesApplied

RestoreFinal(p) ==
  /\ pc[p] = "restoreFinal"
  /\ Goto(p, IF FinalImage(p) THEN "rolledBackup" ELSE "releaseFail")
  /\ UNCHANGED <<disk, lock, req, work, env>>

RolledBackBackup(p) ==
  /\ pc[p] = "rolledBackup"
  /\ SetBackup(work[p].id, "ROLLED_BACK")
  /\ Goto(p, "rolledTop")
  /\ UNCHANGED <<files, store, txn, top, lock, req, work, env>>

\* A mutation that was rolled back has failed; a rollback has succeeded.
RolledBackTop(p) ==
  /\ pc[p] = "rolledTop"
  /\ SetTop(p, "ROLLED_BACK")
  /\ Goto(p, IF req[p].op = "rollback" THEN "releaseOk" ELSE "releaseFail")
  /\ UNCHANGED <<files, store, txn, backup, lock, req, work, env>>

Unlock(p) ==
  /\ pc[p] \in {"releaseOk", "releaseFail"}
  /\ lock' = Free
  /\ Continue(p, IF pc[p] = "releaseFail" THEN "failed"
                 ELSE IF req[p].op = "rollback" THEN "report" ELSE "done",
              NoWork)
  /\ UNCHANGED <<disk, env>>

\* rollback reports success only for a state resolveContext accepts.
Report(p) ==
  /\ pc[p] = "report"
  /\ LET b == Binding(p)
         state == resolveContext(b, req[p].release, entry[b], current[b])
     IN Continue(p, IF state \in {"TAMPERED", "RECOVERY_REQUIRED"}
                    THEN "failed" ELSE "done", NoWork)
  /\ UNCHANGED <<disk, lock, env>>
-----------------------------------------------------------------------------
\* What an invocation does by itself.
Step(p) ==
  \/ InspectEntry(p) \/ InspectCurrent(p) \/ Resolve(p) \/ ReadReceipt(p)
  \/ Lock(p) \/ Prepare(p) \/ WriteBackupReceipt(p) \/ WriteTopReceipt(p)
  \/ Precheck(p) \/ AbortBackup(p) \/ AbortTop(p) \/ ActivateRelease(p)
  \/ WriteRules(p) \/ WriteCurrent(p) \/ CheckActivation(p) \/ WriteEntry(p)
  \/ ReadBackEntry(p) \/ RemoveCurrent(p) \/ Verify(p) \/ CommitTop(p)
  \/ CommitBackup(p) \/ FinalCheck(p) \/ DemoteBackup(p) \/ DemoteTop(p)
  \/ RestoreCheck(p) \/ RestoreEntry(p) \/ DetachEntry(p) \/ RecreateEntry(p)
  \/ ConfirmEntry(p) \/ PutBackEntry(p) \/ RestoreCurrent(p)
  \/ RestoreRules(p) \/ RestoreFinal(p) \/ RolledBackBackup(p)
  \/ RolledBackTop(p) \/ Unlock(p) \/ Report(p)

\* The process dies.  Before it has the lock that changes nothing on disk;
\* while it has the lock, the lock stays behind.
Die(p) ==
  /\ crashes < MaxCrashes
  /\ crashes' = crashes + 1
  /\ Continue(p, "crashed", NoWork)
  /\ UNCHANGED <<lock, edits, faults, saved>>

Crash(p) ==
  /\ pc[p] \in Locked
  /\ Die(p)
  /\ UNCHANGED disk

\* A file is created under its final name and then filled, so a process that
\* dies in between leaves it torn (a replacement is prepared under another name).
CrashDuringCreate(p) ==
  /\ TornCreates
  /\ LET b == Binding(p)
     IN \/ /\ pc[p] = "topReceipt"
           /\ top[b] = Absent
           /\ top' = [top EXCEPT ![b] = Torn]
           /\ UNCHANGED <<files, backup>>
        \/ /\ \/ pc[p] = "writeCurrent"
              \/ pc[p] = "restoreCurrent" /\ EntryRestored(p)
                 /\ txn[work[p].id].curBefore # Absent
           /\ current[b] = Absent
           /\ current' = [current EXCEPT ![b] = Torn]
           /\ UNCHANGED <<entry, detached, copies>>
        \/ /\ \/ pc[p] = "writeEntry" /\ txn[p].before = Absent
              \/ pc[p] = "recreate" /\ detached[work[p].id] = work[p].expected
                 /\ txn[work[p].id].before # Absent
           /\ entry[b] = Absent
           /\ entry' = [entry EXCEPT ![b] = Torn]
           /\ UNCHANGED <<current, detached, copies>>
  /\ Die(p)
  /\ UNCHANGED <<store, txn>>

\* The user saves the entry file with another text outside the block.
EditEntry(b) ==
  /\ edits < MaxEdits
  /\ entry[b] # Torn
  /\ \E t \in Texts \ {Text(entry[b])} :
       /\ entry' = [entry EXCEPT ![b] = [text |-> t, block |-> Block(entry[b])]]
       /\ saved' = [saved EXCEPT ![b] = t]
  /\ edits' = edits + 1
  /\ UNCHANGED <<current, detached, copies, store, txn, lock, pc, req, work,
                 crashes, faults>>

Next == \/ \E p \in Invocations : \/ Start(p) \/ Step(p) \/ Interrupt(p)
                                  \/ Crash(p) \/ CrashDuringCreate(p)
        \/ \E b \in Bindings : EditEntry(b)

Spec == Init /\ [][Next]_vars

\* A process that is not killed runs to its end.
FairSpec == Spec /\ \A p \in Invocations : WF_vars(Step(p))
-----------------------------------------------------------------------------
\* No process that could still repair the binding holds the lock.
Quiet == lock = Free \/ pc[lock] = "crashed"

\* Entry and metadata name the same version, or neither names any.
Consistent(b) == Block(entry[b]) = current[b]

(***************************************************************************)
(* At every point where a process may die, both copies of the receipt that  *)
(* a binding has form a pair that a rollback accepts: equal, or one of the  *)
(* splits receiptWithMatchingBackup (installer/receipts.ts:38) lists.       *)
(***************************************************************************)
ReceiptsRecoverable ==
  \A b \in Bindings : HasReceipt(b) => receiptWithMatchingBackup(b)

(***************************************************************************)
(* docs/installer-architecture.md:104 ff.: an interruption never leaves an   *)
(* entry and a metadata file that disagree without a receipt a rollback can *)
(* start from.                                                             *)
(***************************************************************************)
MixedStateHasReceipt ==
  \A b \in Bindings :
    Quiet /\ ~Consistent(b) =>
      HasReceipt(b) /\ top[b].status \in {"PREPARED", "COMMITTED"}

\* Rules this transaction creates in a release it brings itself.
FreshRules(id) == txn[id].localRules /\ ~txn[id].relExisted

\* Every check a rollback of the binding's receipt makes succeeds.
Restorable(b) ==
  LET id == top[b].id IN
  /\ receiptWithMatchingBackup(b)
  /\ EntryRestorable(b, id)
  /\ CurrentRestorable(b, id)
  /\ txn[id].release \in otherBindings(b) \/
       /\ RulesRestorable(id)
       /\ FreshRules(id) => rules[txn[id].release] = txn[id].rulesApplied

(***************************************************************************)
(* docs/installer-architecture.md:121 ff.: whenever nobody works on the      *)
(* binding, a rollback of its open or committed receipt succeeds.          *)
(***************************************************************************)
AlwaysRestorable ==
  \A b \in Bindings :
    Quiet /\ HasReceipt(b) /\ top[b].status # "ROLLED_BACK" => Restorable(b)

\* The same without the installations that bring their own rules file.
RestorableUnlessFreshRules ==
  \A b \in Bindings :
    (/\ Quiet
     /\ HasReceipt(b)
     /\ top[b].status # "ROLLED_BACK"
     /\ ~FreshRules(top[b].id)) => Restorable(b)

(***************************************************************************)
(* The installer never loses what the user saved last: it is in the entry   *)
(* file, or in the file a restore moved it to.                             *)
(***************************************************************************)
UserTextRecoverable ==
  \A b \in Bindings :
    \/ saved[b] = EmptyText
    \/ Text(entry[b]) = saved[b]
    \/ \E id \in Invocations : Text(detached[id]) = saved[b]

(***************************************************************************)
(* Restoring one binding never changes the rules of a release another       *)
(* binding runs (recovery.ts:13, otherBindingReferences).                  *)
(***************************************************************************)
SharedRulesPreserved ==
  [][\A p \in Invocations, v \in Versions :
       pc[p] = "restoreRules" /\ v \in otherBindings(Binding(p)) =>
         rules'[v] = rules[v]]_vars

(***************************************************************************)
(* docs/installer-architecture.md:120: "Ein PREPARED-Receipt blockiert neue *)
(* Mutationen, bis Recovery ausgefuehrt wurde": the receipt of an open      *)
(* transaction is not replaced by that of another one.                     *)
(***************************************************************************)
PreparedBlocksMutation ==
  [][\A b \in Bindings :
       HasReceipt(b) /\ top[b].status = "PREPARED" => top'[b].id = top[b].id]_vars

(***************************************************************************)
(* A restore that passed its checks ends with its receipt rolled back,      *)
(* unless the process dies, which leaves the lock to be taken over; the     *)
(* installations that bring their own rules file are excepted, as above.    *)
(***************************************************************************)
RecoverySucceeds ==
  \A id \in Invocations :
    (/\ \E p \in Invocations : pc[p] = "restoreEntry" /\ work[p].id = id
     /\ ~FreshRules(id)) ~>
      \/ \E b \in Bindings : top[b] = [id |-> id, status |-> "ROLLED_BACK"]
      \/ lock # Free /\ pc[lock] = "crashed"
-----------------------------------------------------------------------------
\* A binding whose files agree is in one version, otherwise in one of the two
\* its receipt records.
Outcomes(b) == IF Consistent(b) THEN {current[b]}
               ELSE {txn[top[b].id].curBefore, txn[top[b].id].curApplied}

Abstract == INSTANCE AtomicBinding WITH
              Installed <- Installed,
              Nothing <- Absent,
              outcomes <- [b \in Bindings |-> Outcomes(b)]

\* The files and the receipts implement an atomic change of version.
ImplementsAtomicBinding == Abstract!Spec
=============================================================================
