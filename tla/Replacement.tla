----------------------------- MODULE Replacement -----------------------------
(***************************************************************************)
(* replaceInstallation: the entry file of an installation that no longer   *)
(* verifies is isolated and a fresh installation is made in a new root.    *)
(* Attempts with different roots share no lock, and the user saves the     *)
(* entry file meanwhile.  A file is its identity (who wrote it and which   *)
(* of their writes it is), the user's text in it and its managed block.    *)
(* The native primitives that compare a snapshot and then rename or unlink *)
(* by name are two steps.  Local rules and the files of the fresh root are *)
(* left to InstallerTransaction; a failed write of the attempt's own       *)
(* private files, a failed guard of a directory, and a failed read are     *)
(* the same failure here.                                                  *)
(***************************************************************************)
EXTENDS Naturals

CONSTANTS Attempts, Editor,
          Missing,      \* no file has the name
          OldBlock,     \* the envelope that no longer verifies
          NoBlock,
          MaxSaves      \* bound: files the user saves

ASSUME ReplacementAssumption == MaxSaves \in Nat /\ Editor \notin Attempts

VARIABLES live,         \* the file at entryPath
          pc,
          original,     \* context.original of each attempt
          owned,        \* the snapshot the attempt takes for its own
          read,         \* context.entry of its InstallerTransaction
          backup,       \* entry.bin in its quarantine
          detached,     \* detached.bin in its quarantine
          aside,        \* the file its installer's rollback has renamed away
          answer,
          saves,        \* number of saves
          latest,       \* observation: the text the user saved last
          unsafe        \* observation: files written in an unguarded moment

vars == <<live, pc, original, owned, read, backup, detached, aside, answer,
          saves, latest, unsafe>>

Texts == 0..MaxSaves
File(who, n, text, block) == [id |-> <<who, n>>, text |-> text, block |-> block]
FileIds == (Attempts \cup {Editor}) \X (0..3 \cup Texts)
Files == [id : FileIds, text : Texts,
          block : Attempts \cup {OldBlock, NoBlock}]
Bytes(f) == <<f.text, f.block>>

ASSUME MissingAssumption == Missing \notin Files

\* The files an attempt writes at entryPath, in the order it does.
user(a)     == File(a, 1, original[a].text, NoBlock)
applied(a)  == File(a, 2, read[a].text, a)
restored(a) == File(a, 3, original[a].text, original[a].block)

\* What it awaits: before it asks for the entry to be renamed, until the renamed
\* file has been compared, then in the installation, and in restore.
Early == {"start", "reserve", "quarantine", "backup", "sync", "check"}
Detaching == {"detach", "compare"}
Installing == {"create", "created", "cleanup", "own", "context", "activate", "replace",
               "replaced", "commit", "aside", "final"}
Restoring == {"restore", "unlink", "recreate", "recreated", "recleanup", "rebind", "confirm"}
Running == Early \cup Detaching \cup Installing \cup Restoring

TypeOK == /\ live \in Files \cup {Missing}
          /\ pc \in [Attempts -> Running \cup {"answered", "dead"}]
          /\ {original, owned, read, detached, aside} \subseteq [Attempts -> Files \cup {Missing}]
          /\ backup \in [Attempts -> {"none", "written", "durable"}]
          /\ answer \in [Attempts -> {"pending", "PLANNED", "SUCCESS", "NOT_REQUIRED",
                                      "RESTORED", "RETAINED"}]
          /\ \A a \in Attempts : answer[a] # "pending" <=> pc[a] = "answered"
          /\ saves \in Texts /\ latest \in Texts /\ unsafe \subseteq FileIds

Init == /\ live = File(Editor, 0, 0, OldBlock)
        /\ pc = [a \in Attempts |-> "start"]
        /\ original = [a \in Attempts |-> Missing]
        /\ owned = original /\ read = original /\ detached = original /\ aside = original
        /\ backup = [a \in Attempts |-> "none"]
        /\ answer = [a \in Attempts |-> "pending"]
        /\ saves = 0 /\ latest = 0 /\ unsafe = {}

\* Moments in which an attempt does not look at the entry again before it changes
\* the name or adopts the file: between compare and rename or unlink in a native
\* primitive, and between a read back and the snapshot that follows it.
Unguarded == {"cleanup", "recleanup", "replace", "unlink", "own", "rebind"}

\* The attempt in `by', or the user, writes file f at the entry.
Put(f, by) == /\ live' = f
              /\ unsafe' = unsafe \cup {i \in {f.id} : \E a \in Attempts \ by : pc[a] \in Unguarded}

observed == <<saves, latest, unsafe>>
snapshots == <<original, owned, read>>
copies == <<backup, detached, aside>>

Goto(a, to) == pc' = [pc EXCEPT ![a] = to] /\ UNCHANGED answer
Step(a, from, to) == pc[a] = from /\ Goto(a, to)
Answer(a, result) == /\ answer' = [answer EXCEPT ![a] = result]
                     /\ pc' = [pc EXCEPT ![a] = "answered"]

\* A step that reads the entry, or changes only what belongs to the attempt.
Private(v) == UNCHANGED <<live, observed, v>>
-----------------------------------------------------------------------------
(* Failure of whatever is awaited, before it has had an effect or after.   *)

\* Mutant: `detached' is set once the rename has returned.
UntouchedLate == Early \cup {"detach"}

\* detached is still false.
Untouched == Early

Throws(a) == IF pc[a] \in Untouched THEN Answer(a, "NOT_REQUIRED")
             ELSE IF pc[a] \in Detaching \cup Restoring THEN Answer(a, "RETAINED")
             ELSE Goto(a, "restore")

\* A failure in the transaction once the new entry is bound makes it roll back.
Fail(a) == /\ pc[a] \in Running
           /\ \/ Throws(a)
              \/ pc[a] = "commit" /\ live = owned[a] /\ Goto(a, "aside")
           /\ Private(<<snapshots, copies>>)

\* The rollback renames the entry aside, whatever has the name by now.  The next
\* checkpoint finds no entry, so that neither the rollback nor restore puts one back.
RollbackDetaches(a) ==
  /\ live # Missing
  /\ Step(a, "aside", "restore")
  /\ aside' = [aside EXCEPT ![a] = live]
  /\ live' = Missing
  /\ UNCHANGED <<snapshots, backup, detached, observed>>

\* SIGKILL, or SIGINT outside the transaction.
Die(a) == /\ pc[a] \in Running
          /\ Goto(a, "dead")
          /\ Private(<<snapshots, copies>>)
-----------------------------------------------------------------------------
(* validation, reserve and quarantine                                      *)

\* The entry has one managed envelope and is bound to its snapshot.
Validate(a) == /\ live # Missing /\ live.block # NoBlock
               /\ Step(a, "start", "reserve")
               /\ original' = [original EXCEPT ![a] = live]
               /\ Private(<<owned, read, copies>>)

DryRun(a) == /\ pc[a] = "reserve" /\ Answer(a, "PLANNED")
             /\ Private(<<snapshots, copies>>)

\* Probe both parents, make the fresh root and sync its parent.
Reserve(a) == /\ live = original[a]
              /\ Step(a, "reserve", "quarantine")
              /\ Private(<<snapshots, copies>>)

\* Make the private directory beside the entry and sync the entry's parent.
Quarantine(a) == /\ Step(a, "quarantine", "backup")
                 /\ Private(<<snapshots, copies>>)

\* resources.json, entry.bin and the local rules.
Backup(a) == /\ Step(a, "backup", "sync")
             /\ backup' = [backup EXCEPT ![a] = "written"]
             /\ Private(<<snapshots, detached, aside>>)

SyncBackup(a) == /\ Step(a, "sync", "check")
                 /\ backup' = [backup EXCEPT ![a] = "durable"]
                 /\ Private(<<snapshots, detached, aside>>)

Check(a) == /\ live = original[a]
            /\ Step(a, "check", "detach")
            /\ Private(<<snapshots, copies>>)
-----------------------------------------------------------------------------
(* detach and install                                                      *)

\* The rename takes whatever has the name; it may fail after it has taken effect.
Detach(a) == /\ pc[a] = "detach" /\ live # Missing
             /\ detached' = [detached EXCEPT ![a] = live]
             /\ live' = Missing
             /\ Goto(a, "compare") \/ Throws(a)
             /\ UNCHANGED <<snapshots, backup, aside, observed>>

\* Mutant: the renamed file is not compared.
CompareNothing(a) == Step(a, "compare", "create") /\ Private(<<snapshots, copies>>)

Compare(a) == /\ detached[a] = original[a]
              /\ Step(a, "compare", "create")
              /\ Private(<<snapshots, copies>>)

\* atomicCreate of file f, which never replaces a file.
Create(a, f, from, to) == /\ live = Missing
                          /\ Step(a, from, to)
                          /\ Put(f, {a})
                          /\ UNCHANGED <<snapshots, copies, saves, latest>>

\* A failure inside the native create makes it remove its own file again.
CreateFails(a, f, from, to) == /\ Step(a, from, to)
                               /\ live = f
                               /\ Private(<<snapshots, copies>>)

\* It compares the snapshot and then unlinks the name.
Cleanup(a, from) == /\ pc[a] = from /\ live # Missing
                    /\ live' = Missing
                    /\ Throws(a)
                    /\ UNCHANGED <<snapshots, copies, observed>>

ReadBack(a, f, from, to) == /\ Step(a, from, to)
                            /\ live # Missing /\ Bytes(live) = Bytes(f)
                            /\ Private(<<snapshots, copies>>)

\* entrySnapshot after the read back: whatever has the name is taken for owned.
\* In restore, `restored' takes the place of `owned'.
Own(a, from, to) == /\ live # Missing
                    /\ Step(a, from, to)
                    /\ owned' = [owned EXCEPT ![a] = live]
                    /\ Private(<<original, read, copies>>)

\* resolveContext: an entry without a marker, in a root without a transaction.
ReadContext(a) == /\ live # Missing /\ live.block = NoBlock
                  /\ Step(a, "context", "activate")
                  /\ read' = [read EXCEPT ![a] = live]
                  /\ Private(<<original, owned, copies>>)

\* The checkpoints, and the comparison in secure_write_file.
Activate(a) == /\ live = owned[a] /\ live = read[a]
               /\ Step(a, "activate", "replace")
               /\ Private(<<snapshots, copies>>)

\* renameat over the name.
Replace(a) == /\ Step(a, "replace", "replaced")
              /\ Put(applied(a), {a})
              /\ UNCHANGED <<snapshots, copies, saves, latest>>

\* Read back, and afterEntry: the bytes expected of the user's text and this binding.
AfterEntry(a) == /\ Step(a, "replaced", "commit")
                 /\ live # Missing
                 /\ Bytes(live) = Bytes(applied(a)) /\ live.text = user(a).text
                 /\ owned' = [owned EXCEPT ![a] = live]
                 /\ Private(<<original, read, copies>>)

\* beforeVerification, afterCommitTopReceipt and the comparison after the commit.
Commit(a) == /\ live = owned[a]
             /\ Step(a, "commit", "final")
             /\ Private(<<snapshots, copies>>)

\* Mutant: the entry is compared before the last sync only.
FinishUnchecked(a) == /\ pc[a] = "final" /\ Answer(a, "SUCCESS")
                      /\ Private(<<snapshots, copies>>)

\* verify, status, the sync of the entry's parent and the last comparison.
Finish(a) == /\ pc[a] = "final" /\ live = owned[a]
             /\ Answer(a, "SUCCESS")
             /\ Private(<<snapshots, copies>>)
-----------------------------------------------------------------------------
(* restore                                                                 *)

\* Mutant: whatever has the name is removed.
RestoreForced(a) == /\ Step(a, "restore", IF owned[a] = Missing THEN "recreate" ELSE "unlink")
                    /\ Private(<<snapshots, copies>>)

\* Only an entry that is provably its own is removed: the comparison in JavaScript
\* and the one in secure_remove_file.
Restore(a) == /\ owned[a] # Missing => live = owned[a]
              /\ Step(a, "restore", IF owned[a] = Missing THEN "recreate" ELSE "unlink")
              /\ Private(<<snapshots, copies>>)

Unlink(a) == /\ live # Missing
             /\ Step(a, "unlink", "recreate")
             /\ live' = Missing
             /\ UNCHANGED <<snapshots, copies, observed>>

\* Mutant: the restored entry is not compared after the sync.
ConfirmUnchecked(a) == /\ pc[a] = "confirm" /\ Answer(a, "RESTORED")
                       /\ Private(<<snapshots, copies>>)

Confirm(a) == /\ pc[a] = "confirm" /\ live = owned[a]
              /\ Answer(a, "RESTORED")
              /\ Private(<<snapshots, copies>>)
-----------------------------------------------------------------------------
\* The user's editor saves the text it shows, changed or not, around the block it
\* shows.
Save == /\ saves < MaxSaves
        /\ \E text \in {saves + 1} \cup {f.text : f \in {live} \ {Missing}} :
             /\ Put(File(Editor, saves + 1, text, IF live = Missing THEN NoBlock ELSE live.block), {})
             /\ latest' = text
        /\ saves' = saves + 1
        /\ UNCHANGED <<pc, answer, snapshots, copies>>

Attempt(a) ==
  \/ Fail(a) \/ RollbackDetaches(a) \/ Die(a)
  \/ Validate(a) \/ DryRun(a) \/ Reserve(a) \/ Quarantine(a) \/ Backup(a)
  \/ SyncBackup(a) \/ Check(a) \/ Detach(a) \/ Compare(a)
  \/ Create(a, user(a), "create", "created")
  \/ CreateFails(a, user(a), "created", "cleanup")
  \/ Cleanup(a, "cleanup")
  \/ ReadBack(a, user(a), "created", "own")
  \/ Own(a, "own", "context")
  \/ ReadContext(a) \/ Activate(a) \/ Replace(a) \/ AfterEntry(a) \/ Commit(a) \/ Finish(a)
  \/ Restore(a) \/ Unlink(a)
  \/ Create(a, restored(a), "recreate", "recreated")
  \/ CreateFails(a, restored(a), "recreated", "recleanup")
  \/ Cleanup(a, "recleanup")
  \/ ReadBack(a, restored(a), "recreated", "rebind")
  \/ Own(a, "rebind", "confirm")
  \/ Confirm(a)

Next == Save \/ \E a \in Attempts : Attempt(a)

Spec == Init /\ [][Next]_vars
-----------------------------------------------------------------------------
\* The file that is on disk under some name, for good.
Kept == {live} \cup {detached[a] : a \in Attempts} \cup {aside[a] : a \in Attempts}
          \cup {original[a] : a \in {b \in Attempts : backup[b] # "none"}}

\* What the user saved last is never lost: it is at the entry, in a quarantine or
\* beside the entry, however attempts overlap, fail, roll back and die.  Only a save
\* that hits an unguarded moment can be.
UserTextKept == <<Editor, saves>> \in unsafe \/ \E f \in Kept \ {Missing} : f.text = latest

\* An attempt that says no recovery is required, or that it only planned, has never
\* moved the entry, not even by a call that reported a failure.
NotRequiredIsUntouched ==
  \A a \in Attempts : answer[a] \in {"NOT_REQUIRED", "PLANNED"} => detached[a] = Missing

\* The entry leaves its name only when its bytes are durable in the quarantine.
IsolationIsDurable == \A a \in Attempts : detached[a] # Missing => backup[a] = "durable"

\* Two attempts never both succeed in replacing the same entry.
OneSuccessPerEntry ==
  \A a, b \in Attempts : a # b /\ answer[a] = "SUCCESS" /\ answer[b] = "SUCCESS"
                           => original[a] # original[b]

Answers(a, result) == answer[a] = "pending" /\ answer'[a] = result

\* An answer is true when it is given.  At a SUCCESS the entry is the user's text
\* with the block of the new root, and the file it replaces is in the quarantine.
\* At a RESTORED the entry has its original bytes again, unless the user or another
\* attempt wrote it in an unguarded moment.
AnswerIsTrue ==
  [][\A a \in Attempts :
       /\ Answers(a, "SUCCESS") =>
            /\ live' # Missing /\ Bytes(live') = <<original[a].text, a>>
            /\ detached[a] = original[a]
       /\ Answers(a, "RESTORED") =>
            /\ live' # Missing
            /\ Bytes(live') = Bytes(original[a]) \/ live'.id \in unsafe]_vars
=============================================================================
