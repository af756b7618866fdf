# Verification of agent-governance

TLA+ models of the program in this repository, the TLC configurations that
check them, and proofs that TLAPS checks. The program is an installer and
runtime for governance rules of coding agents: a TypeScript CLI (`src/src`), a
small native helper for file operations (`src/native`), a provider bridge
(`src/integrations`) and repository tools (`src/tools`).

All paths below are relative to the repository root, which is `src/`.

## 1. Inventory

### 1.1 Components, their state and their operations

| component | code | state it keeps | operations |
|---|---|---|---|
| installation-root lock | `src/installer/locking.ts` | directory `.transaction.lock`, its `owner.json` | take the lock, run an action, give it up; reclaim the lock of a dead process (rollback only) |
| installer transaction | `src/transaction.ts`, `src/installer/*.ts`, `src/planner.ts` | the user's entry file, `current.json`, the receipt `last-transaction.json` and its copy beside the backups, `releases/<version>`, the local rules file of a release | `install`, `update`, `uninstall`, `rollback`, `status`, `verify`, `plan` |
| native filesystem primitives | `native/agent_governance_fs.c`, `src/native-filesystem.ts`, `src/filesystem.ts`, `src/target.ts` | none of its own; every operation is bound to the identity (device, inode) of a directory and an object | create without replacing, compare and replace, rename without replacing, remove, create and remove directories |
| managed block, release verification | `src/managed-block.ts`, `src/release.ts` | none | insert, verify and remove the marked block of an entry file; verify the digests of a release |
| binding replacement | `src/replacement.ts`, `src/installer/replacement-*.ts` | a quarantine directory with the original entry file, and the transaction's state | `replaceInstallation`: validation, reserve, quarantine, detach, install, verify, with a best-effort restore |
| signal coordinator | `src/signals.ts` | the first signal received | latch, checkpoint, dispose |
| resume checkpoint store | `src/resume-checkpoint.ts`, `src/resume-checkpoint-schema.ts` | append-only files `1.json`, `2.json`, ... in a private directory, staged files | `materialize`, `read`, `flush`, `executeEffect`, `recoverEffect` |
| resume resolution | `src/resume-resolve.ts`, `src/resume-toon.ts` | none | choose the one checkpoint to resume, encode and decode the projection |
| init wizard | `src/init/orchestrator.ts` and its helpers | the targets selected, the status and plan shown for each, what is done so far | inspect, select, prepare tools, plan, confirm, apply and verify each target, answer |
| tool preparation | `src/init/tool-preparation/*` | the operation it has begun | inspect `gh`, ask, install it with the package manager, ask, log in, inspect again |
| release lookup | `src/installer/latest.ts` | none | read the latest version from the network, to show it |
| work items | `src/work-items.ts` | none; the repository's labels are the caller's | accept the catalogs, check a classification, plan labels, find drift |
| catalogs | `src/closed-toml.ts`, `src/*-catalog.ts`, `src/ssot-manifest.ts`, ... | none | validate static data |
| command line | `src/cli.ts`, `src/public-commands.ts`, `src/terminal/*` | none | parse, dispatch, present |
| provider bridge | `integrations/microsoft-agent-governance-toolkit/bridge/*` | the evidence log | evaluate an action envelope, answer the hook of a tool call, fail closed |
| repository tools | `tools/*.py` | none | release preparation, consistency checks, dependency freshness |

### 1.2 How they interact

The CLI and the init wizard build one `InstallerTransaction` per run, in a
process of its own. A mutation first inspects the binding (entry file, metadata,
receipt) *without* the lock, then runs `performMutation` under the root lock of
`locking.ts`; every file change goes through `mutation.ts` and
`release-staging.ts` to the native helper. `signals.ts` latches SIGINT/SIGTERM,
and the transaction looks at the latch at its checkpoints. `replacement.ts`
wraps an `InstallerTransaction` on a fresh installation root and hooks into its
checkpoints. Several processes share the disk: other invocations of the
installer (same root, same or another binding), and the user's editor, which
knows no lock. The resume checkpoint store is independent of the installer and
shares only the native primitives with it; several agents may write one store, and
`resume-resolve.ts` reads several stores while they do. The provider bridge is
independent of all of it: every tool call of an agent starts a hook process, which
reads the files of the bridge and appends a line to one evidence log.

### 1.3 What is hard

* **Interleaving without a lock.** Inspection precedes the lock; the editor
  never takes it; a recovery acts on somebody else's lock directory.
* **Death at every point.** A mutation is about ten separate changes on disk,
  the receipt exists twice, and a rollback may itself be killed and repeated.
* **Ordering of the receipt copies.** Which copy is written first decides
  whether a half-finished status change can be recovered.
* **Sharing.** Bindings share releases and the local rules inside a release: a
  restore of one must not disturb another.
* **Stale evidence.** Identity checks, probes of a process id and comparisons
  are made before the operation that relies on them.
* **Answers that must be true.** A wizard or a replacement that fails or is
  interrupted halfway must say what it has changed, whoever changed something else
  meanwhile.
* **Signals.** Who listens decides what a signal does, and that changes several
  times in a run; between two listeners a signal ends the process.
* **At-most-once effects** in the checkpoint store, with a claim that must be on
  disk before the effect and an outcome that may stay unknown.

### 1.4 What makes each component correct

* *Lock*: two protected actions never overlap; the evidence of a living holder
  is never destroyed; the lock of a dead holder can be taken over.
* *Transaction*: a change of version is atomic for each binding, whoever
  finishes it; an interrupted change can always be rolled back; the copies of
  the receipt always form a recoverable pair; an open transaction is not
  overwritten; the user's text outside the block survives; rules shared with
  another binding survive.
* *Native primitives*: compare-and-replace never destroys an object other than
  the one compared, and a call that fails leaves nothing half done behind.
* *Managed block*: removing gives the original bytes back, after any number of
  updates; no operation loses what the user wrote around the block.
* *Replacement*: until `detach` nothing of the user's changes; afterwards the user's
  text is in the quarantine, beside the entry or at it; every answer is true; two
  replacements do not both succeed.
* *Signals*: the first signal wins, a read-only stage ends with it, and a prompt
  does not wait for a user who does not answer.
* *Checkpoint store*: the history is a chain that only grows; one writer wins a
  generation; an effect is dispatched at most once per preparation; an outcome
  is recorded only after readback.
* *Init wizard*: what is applied is what was confirmed; an answer accounts for every
  target and every external operation that was started.
* *Tool preparation*: nothing is installed and no login started without a yes.
* *Provider bridge*: an action is allowed only by pinned files and a confirmed
  approval, and never without evidence on disk.
* *Work items*: an accepted catalog makes sense; a label plan converges and takes no
  label from another owner.
* *Resume resolution*: the answer is a function of the stores named, and a task with
  an unresolved effect is not overlooked.

## 2. Plan

The order is by importance; each module is proved about where that is possible.

1. `InstallationLock` with `RootLock` (what a lock promises) and
   `InstallationLockProofs`. **Done.**
2. `InstallerTransaction` with `AtomicBinding` (what an installer promises) and
   `InstallerTransactionProofs` (the receipts, then the files and the refinement).
   **Done**, every safety property of its runs is proved.
3. `ResumeCheckpointStore` with `EffectLedger` (what a record of external effects
   promises) and `ResumeCheckpointStoreProofs`. **Done**, every safety property of
   its runs is proved.
4. `Replacement` and `ReplacementProofs`: every phase with overlapping attempts and
   an editor. **Done**, every safety property of its run is proved.
5. `SignalCoordinator`, `ToolPreparation` and `InitWizard`, which composes them:
   confirmation against targets that change, signals, tools. **Done**, every safety
   property of its run is proved.
6. `ProviderBridge` and `ProviderBridgeProofs`: the evaluation while files are
   replaced. **Done**, its properties are proved.
7. `ManagedBlock`, `ResumeResolution`, `WorkItems`: one run with the bridge, and
   `MCComponentsProofs`. **Done**; `UserTextSurvives` is left to TLC.
8. `NativeFilesystem` and `NativeFilesystemProofs`: the system calls of the C helper in
   a directory that others change. **Done**, its properties are proved; a refinement to
   the atomic steps that 1 to 4 use is left.
9. A history of receipts (what an overwritten receipt was worth) and whole sessions
   (that a user who repeats the documented commands gets an installation out of any
   state the program leaves). To do.
10. The classification of dependency freshness (`tools/socket_freshness.py`). To do.

The lock and the transaction are separate modules because their state spaces
multiply: the transaction uses the lock as `RootLock` specifies it (3.2), and
the lock is shown to implement `RootLock`.

## 3. Modules

### 3.1 `InstallationLock`, `RootLock`, `MCInstallationLock`

`withInstallationLock` and `reclaimStaleLock` step by step: each action is one
system call on the shared directory, `pc[p]` is the place in the code, and
`Exit` is the end or the death of a process at any of them. A lock directory is
named by the invocation that made it, which stands for its inode (an
invocation makes at most one). `bound`, `seen` and `retired` are the locals of
the code that later steps rely on. Left out: the check of file modes and of
stray directory entries, and the reuse of process ids.

`RootLock` is the abstract lock: acquire, release, exit, and the displacement of
a holder that has exited. `holder` is the directory at the lock path.

### 3.2 `InstallerTransaction`, `AtomicBinding`, `MCInstallerTransaction`

One installation root, several bindings. On disk: `entry`, `current`, `top`
(`last-transaction.json`), `backup` (the copy beside the backups, by its status),
`txn` (the contents of a receipt: preimages and postimages), `detached`
(`.restore.bin`), `releases`, `rules`. `Invocations` run one request each;
`work[p]` is what an invocation remembers and later compares with (it is cleared
when the invocation ends, as a process's memory is). An action is
the code between two points where somebody else can look or act, in the order of
the code: inspection (`InspectEntry` .. `Resolve`), `Lock`, `Prepare` ..
`WriteTopReceipt`, `Precheck`, the changes (`ActivateRelease` .. `RemoveCurrent`),
`Verify` .. `FinalCheck` with the demotion of a commit, the restore
(`RestoreCheck` .. `RolledBackTop`) that a failing mutation and a rollback share,
`Unlock`, `Report`. `Interrupt` is a latched signal, or a native operation that
fails, at a checkpoint; `Crash` and `CrashDuringCreate` are deaths; `EditEntry`
is the user.

`AtomicBinding` is the promise for each binding: a change may be in two versions
while it is under way and settles in one of them. The refinement maps a binding
whose entry and metadata agree to the version they name, and otherwise to the
two versions its receipt records.

What is abstracted, and why that is faithful:

* The root lock is `RootLock`'s: taking it and giving it up are single steps and
  only a crashed holder is displaced. Run `lock_overlap` shows when the code does
  not give this; what the transaction does then is outside these runs.
* A compare-and-replace of the native helper is one step. The code documents the
  window that remains between its comparison and its rename.
* Inode evidence is abstracted to content. Where the code demands an unchanged
  inode (`RestoreCheck`), the model allows both outcomes when the content changed.
* A half-written entry file is taken to contain a broken marker.
* The backups are written in the same step as the receipt's contents
  (`Prepare`): nothing reads them before the receipt is published.
* Nobody but the installer changes `current.json`, `releases` and `rules`. The
  user saves text outside the block, never deletes the file.
* Dry runs, `plan`, `status` and `verify` only read and are left out, as are
  release contents and the wording of plans and errors.

### 3.3 `ResumeCheckpointStore`, `EffectLedger`, `MCResumeCheckpointStore`

One directory of generations `files`, of which `durable` survive a power failure;
`call[p]` is the call an agent is in, with the identity it is bound to (`known`);
`inflight` and `applied` are the executions and the effects in the world. An action
is the code between two awaits where somebody else can act: `materialize`,
`executeEffect`, `recoverEffect` and `Record` read the history, decide (`publish`)
and stage; `Rename`, `Sync` and `Confirm` publish and confirm; `Dispatch` and
`CallbackReturns` surround the effect; `Readback` asks the authority. `Fail` is any
rejection, exception or death; `PowerLoss` ends everything and may take the latest
renames that were not synced.

`EffectLedger` is the promise to a reader of the record: an effect happens at most
once, only while the record calls its outcome unknown; what is recorded as
committed happened, what is recorded as not applied did not. The refinement maps
the record to what the latest checkpoint says.

What is abstracted, and why that is faithful:

* An identity (generation and fingerprint) is the history it stands for: the
  fingerprint covers the predecessor's. Callers may state any identity that was
  current at some time.
* `history()` is one step. Generations only grow and are never rewritten
  (`DurableIsFinal`, and no replacing rename), so reading them one by one gives the
  history as it was at the listing of the directory.
* The first read of `executeEffect` is merged with the one in `publish`, which
  repeats it with the identity the first one returned and rejects a change.
* The fresh UUID in the event of a claim or readback is one no other checkpoint has.
* A state is its effects and a payload. The schema of the payload, the binding of
  an effect (target, action, inputs) and the size limits are checks of one value.
  The `message` trigger, `toToon`, `validateToon` and `evidenceReference` only read.
* Staged files are not modelled: their names are fresh, and `history()` skips them.
* A power failure loses a suffix of the unsynced renames, as a journaling file
  system does. A rename the code has synced is never lost.
* The authority keeps its contract: it answers `NOT_APPLIED` only when the effect
  did not happen and no execution is active or outstanding
  (`src/resume-checkpoint.ts:27`, `docs/resume-checkpoints.md:140-144`); a published
  claim whose caller still runs is outstanding. Without that no store could promise
  `AppliedOnce`. `UNKNOWN` is always a possible answer.

### 3.4 `Replacement`, `MCReplacement`

`replaceInstallation` and the transaction inside it, as far as they concern the
entry: `live` is the file at the entry path; of each attempt, `pc[a]` is what it
awaits, `original`, `owned` and `read` are its snapshots (the last one is the
transaction's), `backup` the quarantined bytes, `detached` the renamed file, `aside`
what a rollback of the inner transaction renamed, `answer` what it answered. A file
is who wrote it and when (its inode), the version of the user's text and the binding
its block belongs to. The actions follow the code from `Validate` to `Finish`, then
`Restore` to `Confirm`; `Fail` is any rejection, also of a call that has taken
effect; `Die` is a death; `Save` is the user's editor.

* The comparison inside a native primitive and the rename or unlink that follows it
  are two steps, and so are a read back and the snapshot that adopts the file. The
  moments in between are `Unguarded`, and `unsafe` collects the files written in
  them: the properties except exactly these (4.4).
* Attempts replace the block of one entry and have different new roots, so they share
  no lock.
* Local rules, metadata and the files of the fresh root are the transaction's (3.2)
  and not repeated. `resources.json` is one step with the backup.
* The editor saves the text it shows; it does not delete the entry.

### 3.5 `SignalCoordinator`, `ToolPreparation`, `InitWizard`, `MCInitWizard`

`SignalCoordinator` is who listens for signals (`listener`) and what it remembers
(`latched`); a signal without a listener kills the process. `ToolPreparation` goes
from command to question to command (`at`): `Spawn`, the three ways a child process
ends, `Ask` and its answers; `operation` and `effectContext` are what the code
remembers of changes it has begun; `gh` is the machine. `InitWizard` extends both:
`pc` is what `runInit` or `runInitTools` awaits, `Begin` registers a coordinator for
a stage, one action each ends a stage, `Apply...` are the outcomes of the transaction
of one target, `Verify` follows, and an answer lists targets, tools, signal and
effect as the result (or the error) does.

* A target is the number of its key in the order of `compareTargets`; its install
  state is all that matters of it. Which harness is supported, and where, is an input.
* The transaction of a target is one step with the outcomes that 3.2 explains; a
  failed rollback leaves `RECOVERY_REQUIRED`.
* `TargetDrift` and `ToolDrift` are other programs and other terminals. A child's
  command is not interleaved with a change of what it inspects.
* Signals are events of the JavaScript loop: a signal that the kernel has delivered
  and the loop has not is one that comes later.
* Screens, wording and the latest version are only shown and left out.

### 3.6 `ProviderBridge`

One evaluation per `call`, by a hook process or by a caller with an envelope; `file`
is what others may replace between any two reads; `log` and `synced` are the evidence.
Each read of a file is an action, with the digest it is compared to. `asked` is what
the pinned bindings (or the caller) say, an observation the properties compare with;
`envelope` is what the evaluation really works on.

* A file's content is `pinned`, `other` or `unusable`. Another content never has the
  digest of the pinned one.
* The policy engine is vendored code. With its pinned modules and the pinned
  `policy.json` it decides as the rules of that file say, in the order of their
  priority; with any others it may allow.
* The approval verifier is the caller's: it confirms, refuses or throws.
* Ids are valid, or too long once they have their prefix.

### 3.7 `ManagedBlock`, `ResumeResolution`, `WorkItems`, `NativeFilesystem`, `NativeCallers`, `MCComponents`

`ManagedBlock` keeps the user's text around the block character by character, since
line ends are what its flags are about, and of the block its version, line ends and
flags. `Put`, `Update`, `Uninstall` and `Replace` are the operations with their
verification; the user edits anywhere, the block and its flags included.

`ResumeResolution` opens and reads the candidates one after the other; a store is its
fault, or the facts about its newest checkpoint that `bindingMatches` and the test of
unresolved effects look at. `steady` are the stores nobody touched meanwhile.

`WorkItems` accepts a catalog (`Load`), plans the labels of a repository and lets the
caller carry the plan out, or classifies an item, projects it and reads it back. Names
and markers are members of small sets; syntax, colours and lengths are left out.

`NativeFilesystem` follows each operation of the helper from the open of the directory
in `native-filesystem.ts` to its answer: one action per system call, so that `Others`
may change a name, a file in place or the directory at the path between any two, a
second call may race for the same names, a call may fail and the process die.
`write` and `replace` are `secure_write_file` with the snapshot just read and with an
earlier one of the caller, `detach` and `move` the two renames without replacement;
`probe` creates, renames and removes a file of its own, and clears both names after a
failure. A snapshot is an inode and a stamp for everything a write changes.
`OnlyBoundIsTaken` says that what a call takes from a name is its own or unchanged what
it was told of; `raced` collects the calls of which an unguarded moment (`Unguarded`:
after the last comparison; `Touch`: before the snapshot of a new file is final) was hit,
for which no system call gives a promise; who hits it may also be another call, with a
rename, an unlink or the bytes it writes. `NoResidue` says what a failed call cleans up.
`NativeCallers` holds the constants of the module with their assumptions, for
`MCComponents`, which instantiates the module and has other uses for its names.

These four and the bridge share no state. `MCComponents` puts them side by side with
a variable `part` that says which one a behaviour is of; the variables of the others
rest in one state, so that the state spaces are added and not multiplied. The module
holds no more than the inputs (catalogs, requests) and that wiring.

### 3.8 Runs

| run | what it shows |
|---|---|
| `lock_mutators` | four installs/updates/uninstalls, any of them dying anywhere: protected actions exclude each other and the protocol implements `RootLock` |
| `lock_recovery` | two mutators and two recoveries: exclusion is lost only by a recovery's rename of a holder's directory; a running holder's evidence survives; the lock of a dead owner is retired |
| `lock_overlap` | **violation**: with a recovery `MutualExclusion` fails (4.1) |
| `txn_mutators` | three overlapping mutations with stale contexts, two deaths, torn files, one interruption: the receipt copies are a recoverable pair, a mixed state has a receipt, and the change of version is atomic |
| `txn_sequential` | four invocations one after the other on two bindings that share releases and rules, two deaths: open and committed receipts are restorable, other bindings' rules are kept, the version change is atomic, a validated restore completes |
| `txn_editor` | two at a time of three invocations, with rollbacks and one death, while the user saves twice: the text saved last is in the entry file or in the file a restore moved it to |
| `store_effects` | two agents race for the generations of one history, prepare, execute, recover and retry an operation, with failures and power losses anywhere: the effect happens at most once, never before its claim is durable; confirmed checkpoints are durable, durable ones final; the history stays readable, and the store implements `EffectLedger` |
| `replacement` | two replacements of one entry with different roots, failing or dying anywhere, while the user saves twice: the user's text is kept, at most one of them succeeds, and each answer is true of the files |
| `init_wizard` | the wizard with its tool preparation, two signals at any moment and another program that changes a target or `gh`: only what was approved is changed, only what was authorized is started, an answer accounts for all of it, a signal is answered and ends a prompt |
| `components` | the provider bridge while its files are replaced: what is allowed is authorized and has evidence; the managed block between edits: uninstalling gives the file back, the user's text survives; the resolution of candidates while agents write: the answer fits the stores; work items: an accepted catalog is sound, a label plan converges; the native helper while others change the directory: a call takes only what it was told of, and leaves nothing half done behind |
| `find_open_receipt` | **violation**: an open receipt is replaced (4.2) |
| `find_fresh_rules` | **violation**: a receipt no rollback accepts (4.3) |

Bounds, and why they are enough to be interesting:

* Lock: overlap needs a dead owner, a recovery, and two more invocations; four
  processes with up to two recoveries contain all of that, including two
  recoveries that race for one directory.
* `MaxRunning` limits how many invocations are alive at the same time.
  `txn_mutators` has all three alive, so that each may hold a stale inspection of
  a state two others have left. `txn_sequential` has one alive at a time: with an
  overlapping rollback the guarantees fail for the reason of 4.2, and what is
  left to ask is whether any *sequence* of complete, failed and killed runs keeps
  them.
* `MaxCrashes` = 2 allows a rollback that dies while it repairs a death;
  `MaxFaults` = 1 an interruption in addition; `MaxEdits` = 2 a save before and one
  during a restore.
* `TornCreates` lets a death leave a newly created file half written. It is on
  where the claim is about mixed states, and off where it is that a rollback
  succeeds, because the code gives no such promise then (4.4).
* Two versions give every order (install, update, blocked downgrade); two rules
  contents, rules that differ before and after; two texts, a saved text that
  differs from the recorded one.
* Checkpoint store: `MaxGenerations` = 5 is preparation, claim, denial, a second
  preparation and its claim, the shortest history in which an effect could happen
  twice. Two agents let one recover while the other executes, and race for each
  generation. Two events let a request repeat the latest one, reuse an older one, add
  nothing or lose the race.
* Replacement: two attempts are what one needs to pass the comparisons of the other;
  two saves are one before and one during an attempt, or two during it.
* Wizard: two targets, so that one can fail after the other is done, and one of them
  can be entered by hand; two signals, so that a second and different one can follow
  the first; one change by somebody else. All three modes, all platforms, `gh` absent,
  logged out or logged in.
* The type invariants of the transaction and of the store are proved (5); no run
  repeats them.
* Components: two calls that share the log, and one replacement of a file (or of the
  whole runtime) between any two reads; texts of up to three characters, which hold a
  line end of two characters and something beside it, two edits and one replacement;
  two stores of which three are named, so that one is named twice; catalogs of two
  projections and two markers over two dimensions, so that any two can collide; two
  native calls, which race for one name, one change by others and one failing system
  call between any two steps. Calls and process ids are interchangeable (`SYMMETRY`).
* `CHECK_DEADLOCK FALSE` in the runs of the lock, the transaction, the replacement,
  the wizard and the components: invocations end, so every instance stops.

Fairness is weak fairness of each invocation's own steps (`Step(p)`) in the lock and
the transaction, and of the process's own steps (`SystemStep`) in the wizard: a process
that is not killed runs on, and a read or a child process ends. Starting an invocation,
a death, a signal, a save, an answer of the user and a change by others are not fair.
Nothing else is assumed; there is no fairness between processes beyond what an
operating system's scheduler gives. The other specifications state none.

## 4. What the runs found

1. **Recovery may displace a living owner** (`lock_overlap`). `reclaimStaleLock`
   reads and probes the owner, and only then captures the identity of the
   directory it renames. If the lock changed hands in between, the identity is
   that of a living owner's directory. The comparison after the rename stops the
   recovery (which is why `HolderKeepsEvidence` holds), but the lock path is free
   and a third invocation enters. `docs/installer-threat-model.md:89` promises
   that overlapping mutations are prevented.
2. **An open receipt is replaced** (`find_open_receipt`). The state is resolved
   before the lock and not again under it. A mutation that inspected a clean
   binding takes the lock after another one died with a `PREPARED` receipt and a
   rollback took the lock over, failed or died, and left it free, and writes its
   own receipt over it. `docs/installer-architecture.md:120` says that a
   `PREPARED` receipt blocks new mutations.
3. **A receipt no rollback accepts** (`find_fresh_rules`). If a transaction brings
   its own release and local rules and stops before the rules are written, the
   joint postimage of the restore demands the rules it never wrote.
   `docs/installer-architecture.md:123` says such states are closed by the
   idempotent rollback.
4. Observed while modelling, without a run: a file that is created, not replaced
   (the entry a restore recreates, a first `current.json`, a first receipt), is
   filled under its final name, and a death in between leaves bytes that equal no
   recorded image. A rollback of a `COMMITTED` receipt that dies between entry and
   metadata leaves two `COMMITTED` copies over files that disagree, which a second
   rollback repairs but `status` calls `TAMPERED`. A save between the replacement
   of the entry and its readback makes the mutation restore metadata and keep the
   entry, with the block in it, under `ROLLED_BACK`. A `PREPARED` receipt is
   published before the preimages are compared, so a stale inspection and a death
   in between leave a receipt that rollback refuses. A lock directory without
   `owner.json` is never reclaimed. The rollback of a receipt that is already
   rolled back skips the lock, so it does not clear a stale one.
   Bindings that run the same release share its rules file: if both bring rules and one
   leaves the release, the receipt of the other records images that are gone, and its
   rollback is refused (TLC finds it when requests of two bindings bring rules; in
   `txn_sequential` those of one binding do).
   `docs/installer-architecture.md:104-107` describes a `.restore/` directory
   where the code uses a `.restore.bin` file.
5. The same for the replacement. `replacement.ts:115` and `:123` take a snapshot of
   whatever is at the entry after the read back of a create: a save in between is
   adopted as the program's own, and may be called restored. After a rollback of the
   inner transaction the entry is absent and its bytes are in
   `.entry.agent-governance-<id>.restore.bin`; the answer is `RETAINED`, where
   `docs/installer-cli-reference.md` says the rollback may create a new inode.
6. And the managed block: a file that ends in a lone carriage return cannot be
   installed (its verification sees another line end than the installation); each
   replacement leaves the line ends around the old block as user text; a block whose
   flags the user has flipped still verifies.
7. And the wizard: an error of `spawn` (`gh.ts:53`) forgets a signal that was forwarded;
   a failure to read the second answer loses the effect context of the installation
   (`index.ts:109`); a signal latched while a transaction has nothing to do, or after
   its last checkpoint (`transaction.ts:56`), is dropped. The properties of the run are
   stated for what the code does promise: read-only stages and interruptions.
8. And the bridge: the evidence line says `allow` while the hook answered `deny` if the
   sync of the log failed (`codex-hook.mjs:162`); ids of 248 to 256 characters pass the
   hook and are refused by the envelope, so the action is denied with an evidence line
   that has no ids.
9. And work items: drift in a dimension of cardinality `many` may be reported for an
   item that is projected and read back correctly, because markers cover fewer values
   than labels; label names are compared exactly, where GitHub ignores case.
10. And the native helper: `secure_write_file` (`agent_governance_fs.c:249-250`) hands
   its cleanup a snapshot taken before it wrote, so that after a write or a sync that
   fails once bytes were written the temporary stays; `secure_create_no_replace`
   refreshes the snapshot first, and then also removes what somebody else wrote in
   place into the new file before that. If the helper cannot look at its temporary
   (`agent_governance_fs.c:257`) it throws without a cleanup.

## 5. Proofs

`InstallationLockProofs` proves, for any set of invocations and recoveries:

* `TypeCorrect`, `EvidenceIsKept` (`HolderKeepsEvidence`) and
  `OnlyRetiringOverlaps` (`OverlapOnlyByRetiring`) of `Spec`;
* `MutatorsExclude` (`MutualExclusion`) and `MutatorsImplementRootLock` (the
  refinement of `RootLock`) when there is no recovery (`NoRecovery`), which is the
  weakest assumption that works: with one recovery, run `lock_overlap` violates
  both.

From `LockAssumption` only (the sentinels are not invocations). The properties are
not inductive. The inductive invariant `IInv` adds that a directory nobody made yet
is nowhere (`FreshDirectory`), that a recovery renames at most once and the
directory never returns (`RetiredOnce`), that what is emptied belonged to a process
that has exited (`ProbedIsDead`), and that a claimant owns a directory that is at
the lock path or was renamed away (`ClaimantOwns`). From that: two holders own two
directories, and only one of them can be at the lock path. `MakerIsInside`
strengthens it for the case without recoveries.

`InstallerTransactionProofs` proves of the receipts, for any number of invocations, bindings,
versions, deaths, faults and saves, and for every mix of requests, overlapping
rollbacks included (which the runs bound most tightly):

* `TypeCorrect`;
* `ReceiptsAlwaysRecoverable` (`ReceiptsRecoverable`): both copies of a receipt
  always are a pair a rollback accepts;
* `SharedRulesArePreserved` (`SharedRulesPreserved`, an action property): a
  restore leaves the rules of every release alone that another binding names.

From `TransactionAssumption` only (the sentinels are different from everything
else, requests are requests). None of them is inductive: what a step writes to one
copy of a receipt is recoverable only because of what the other copy holds, and
that depends on the place in the code and on nobody else writing. The inductive
invariant `IInv` therefore has one part for each process, `Knows(p)`, and one for
the receipts on disk. `Knows(p)` says what holds at each place: who is between
`prepare` and `releaseOk` holds the lock (`LockHeld`), a mutation works on its own
recorded transaction and a restore on a recorded one (`WorksOnOwn`,
`WorksOnRecorded`), after publication the binding's receipt is the one worked on
(`WorksOnReceipt`), and the two copies have the statuses of that place
(`CopiesFollowCode`). `OthersKnow` shows that no other process disturbs it, because
receipts are only written under the lock (`OutsideTheLock`, `LockStays`); `OwnKnows`
goes through the actions. On disk, the id of an unpublished invocation is in no
receipt (`UnpublishedIsNowhere`), and a receipt names the one binding its recorded
transaction is about (`ReceiptIsRecorded`), so that a write to one copy concerns a
single binding (`OneReceipt`, `ReceiptsDiffer`).

From that invariant the module goes on to the files:

* `UserTextIsRecoverable` (`UserTextRecoverable`), with no further assumption. The two
  images a transaction records have the same text (`RecordsAreChanges`), so every
  write keeps it; and a restore moves an entry aside only where nothing was moved
  before (`DetachedOnce`), so nothing that was put away is overwritten.
* `MixedStatesHaveReceipts` (`MixedStateHasReceipt`) and `TransactionIsAtomic`
  (`ImplementsAtomicBinding`, the refinement of `AtomicBinding`) when `Undisturbed`: the
  user does not save meanwhile, and either no request is a rollback or one invocation
  runs at a time. Deaths, faults and torn files are allowed anywhere, and any number
  of mutations may overlap. The assumptions are needed: a save between the replacement
  of the entry and its readback leaves a block under a receipt that is rolled back
  (section 4, item 4), and when a rollback overlaps with others a mutation can replace
  an open receipt (item 2).
* `ReceiptsAreRestorable` (`RestorableUnlessFreshRules`) when `Orderly`: no saves, one
  invocation at a time, no torn files, and no two bindings bring rules (`BringsRules`:
  a request with a rules file, or an update, which carries the installed one over). It is
  false without the last one, in a way the run's requests leave out: bindings that run
  the same release share one rules file, so when one binding writes its rules there and
  then leaves the release, the images the other one recorded are gone and its receipt
  cannot be rolled back (item 4). One at a time, because an overlapping mutation may
  publish a receipt of preimages that are no longer there, and die (item 4 as well).

The invariant `FilesInv` says which recorded image each file is at every place in the
code, for a mutation that has not begun to change files (`Begins`), one that has
(`Advances`) and a restore (`Restores`). Whoever begins has found entry and metadata in
agreement, which is the point where both assumptions enter: alone, because what was
inspected is still there (`InspectionHolds`); without rollbacks, because whoever gives up
the lock leaves its binding in agreement, for a restore of its own never fails
(`ReleasedAgrees`), and nobody takes over the lock of a dead process (`OthersAgree`).
Receipts are therefore only closed or replaced in agreement
(`ReceiptsChangeInAgreement`), and files that disagree keep an open one (`MixedIsOpen`).
A step changes the entry or the metadata and never both, which makes every step of the
files a step of `AtomicBinding` or a stutter (`OutcomeSteps`). `RecoveryInv` adds that
what a receipt is about to record is on disk when it is published (`RecordsLive`).

`ResumeCheckpointStoreProofs` proves every property that the runs of the store
check, for any number of agents, operations, events, payloads and generations:

* `TypeCorrect`, `HistoryStaysIntact`, `EffectsHappenOnce`, `DispatchesAreDurable`,
  `AcknowledgementsAreDurable`, and the action property `DurableGenerationsAreFinal`;
* `StoreImplementsLedger`: the store implements `EffectLedger`.

From `StoreAssumption` only (events and agents differ, the sentinel is neither an
operation nor a checkpoint). `AppliedOnce` needs most of the invariant `IInv`. A
call is bound to a prefix of the history, and to all of it exactly when it read the
current one (`KnownIsPrefix`); so a rename that succeeds continues what its writer
checked (`DraftsAreValid`). A pending claim is what the history says from its
generation on (`ClaimsStand`), because the only ways out of `UNKNOWN` are readbacks,
and one that still can be published with a denial tells the truth
(`DenialsAreTrue`): a claim published later would have taken its generation. Hence
one claim at a time (`ClaimsExclude`), nothing happened before it
(`ClaimsAreUndispatched`), and nothing happens twice (`StartedOnce`). What a confirmed
call knows is durable (`ConfirmedIsDurable`), so an effect that has begun is claimed
in every history a power failure can leave (`StartedIsClaimed`). `CommitsAreTrue`
adds, for the refinement, that only what happened is called committed. The proof
names all steps that begin a call as one (`Begins`, `Moves`) and preserves each part
of the invariant in a lemma.

`ReplacementProofs` proves, for any number of attempts and saves:

* `TypeCorrect`, `NotRequiredIsTrue` (`NotRequiredIsUntouched`), `IsolatesDurably`
  (`IsolationIsDurable`), `SuccessIsExclusive` (`OneSuccessPerEntry`), `UserTextIsKept`
  (`UserTextKept`) and the action property `AnswersAreTrue` (`AnswerIsTrue`): all that
  its run checks.

From `ReplacementAssumption` and `MissingAssumption` (the user is not an attempt, the
absent entry is no file). What an attempt did follows from where it stands
(`InPlace`). A file is written at one place of one attempt, so one that was renamed
away never comes back to the entry (`Gone`); two attempts that both succeed would have
renamed the same file. What an attempt adopts as its own is its own, or was written in
an unguarded moment (`OwnInv`). `UserTextKept` is the hard one: the text saved last may
be in a file that an attempt removes without another look, so the invariant says of
every such place that the text of the file is already held in a quarantine, or that it
was written in an unguarded moment (`Secured`, `Replaceable`).

`ProviderBridgeProofs` proves, for any number of calls, requests and replacements:

* `TypeCorrect`, `AllowsAreAuthorized` (`AllowIsAuthorized`) and `AllowsHaveEvidence`
  (`AllowHasEvidence`).

From `BridgeAssumption` only (requests are requests). `Settled` says what an evaluation
holds at each place: whatever it has read was pinned when it was read, and the envelope
it decides about is the one that was asked; replacing files afterwards does not matter,
since nothing is read twice. `Evident` says that the line of a hook that goes on to
allow is in the log, and in its synced part from the reply on, which is all a power
loss leaves.

`InitWizardProofs` proves, for any targets, platforms, initial states, numbers of signals
and of changes by others:

* `TypeCorrect` (`TypeOK`), `OnlyApprovedChanges` (`ApprovedChangesOnly`),
  `OnlyAuthorizedEffects` (`EffectsAuthorized`), `NoSilentEffect`
  (`InterruptionReportsEffect`), `AnswersAccount` (`TargetsAccounted`) and the action
  property `SignalsDecide` (`SignalAnswered`).

From `TargetsAssumption` (finitely many targets, numbered in the order of their keys)
and `InputsAssumption` (inputs are inputs). `IInv` has one part for each of the three
modules that the wizard is composed of. A listening coordinator has latched the first
signal there was (`Latched`). What was started was allowed, and what may be started next
has its yes (`Consented`); what has been begun is remembered until the preparation
returns (`Carried`). The loop over the targets (`Loop`) counts what it has verified, and
a change is of a target that it has reached (`Changes`), so that an answer, whenever it
comes, misses at most the target in progress. Each action is shown to preserve the three
parts separately, those of the modules it does not touch in one step.

`NativeFilesystemProofs` proves, for any number of calls, process ids, changes by others
and failing system calls:

* `TypeCorrect`, `NothingIsLeft` (`NoResidue`) and the action property
  `OnlyWhatItWasTold` (`OnlyBoundIsTaken`).

From `CallersAssumption` (calls are not numbers, the sentinel is neither a call, a number
nor a process id) and `BoundsAssumption` (the bounds are numbers). The inductive
invariant `Inv` has these parts:

* `Control`: where a call can stand with its operation and, in a probe, its phase, what
  it is about there, and that it has made its file by then. `DistinctPids`: no two
  writers at work share a process id, so no temporary name has two of them.
* `Directories`, the names as a whole. No inode has two names (`Injective`), an inode
  nobody has made yet has none and is in no snapshot (`FreshOthers`, `FreshCalls`), no
  file has been written more often than there were writers (`Stamps`). With that an
  equal inode and an equal stamp mean that nothing was written since the snapshot, which
  is what every comparison in the helper relies on. At the names a call does not share
  is only its own file (`Own`).
* `UnracedCalls`, for a call none of whose unguarded moments was hit: what it is about
  to rename or unlink still is what it compared, and a file with the stamp of the
  call's snapshot was last written by the call. `OnlyBoundIsTaken` follows from it step
  by step.
* `UntouchedCalls`, for a call whose file nobody else changed or moved: the file is at
  the name its place says (`AtHome`) with the bytes its place says, and what the call
  forgoes to clean up is in `failed`. `NoResidue` follows from it at the answer.

What a step of one call does to the directory is stated once for all system calls
(`StepHasEffect`), and so is what it leaves alone of the others. Then each part of the
invariant is preserved by the steps of a call and by those of others separately.

The proof corrected the model in one place. A call can write its bytes into the
unguarded moment of another one: a replacement reads while the directory is exchanged,
so that it takes the entry that another call has just created for the one it may
replace, and that call fills the entry between the comparison and the rename. `Put` now
records it in `raced`; it is the window of `agent_governance_fs.c:259` with another call
of the program on the other side. It takes two changes by others, one more than the run
allows, and with `MaxOthers` = 2 TLC finds it.

`MCComponentsProofs` proves of the components that share no state, for any bounds,
texts, line ends, stores, catalogs and labels:

* `PartsTypeCorrect` (`PartsTypeOK`), `UninstallGivesBack` (`RoundTrip`),
  `ResolutionIsHonest` (`PendingIsReported`), `AcceptedCatalogsAreSound`
  (`CatalogIsSound`), `NativeLeavesNothing` (`NoResidue`) and the action properties
  `PlansReconcile` (`PlanReconciles`) and `NativeTakesWhatItWasTold`
  (`OnlyBoundIsTaken`): all that the run `components` checks but `UserTextSurvives`, and
  the properties of the bridge, which are proved of the bridge alone.

From the assumptions of the bridge and the native helper and `ComponentsAssumption`
(bounds are numbers, and an item may have a classification of each of the two dimensions;
the line ends are characters, the labels of the catalogs are labels, and an absent block
is neither a block nor a version). Each component keeps an invariant
of its own, also while it rests; `PartsInv` is all of them, since a step of one component
leaves the variables of the others alone (`PartsSteps`).

* `EntryInv`: as long as the user leaves the file alone, what stands around the block is
  the user's text and exactly the line ends whose flags the block carries
  (`Surrounded`). `EndIsDropped` says that a line end put behind a text is found and
  taken away again, whatever the text ends in, so `Uninstall` gives `base` back; the
  recorded line end is kept by every update (`UpdateKeepsEntry`).
* `ResolutionInv`: what was seen is what is behind the position (`Behind`), no store
  twice; a store that nobody touched since is among the matches exactly if it matches
  now. An outcome is one of the ways an inspection ends (`Concluded`).
* `ItemsInv`: a catalog that was accepted has a value for every dimension, gives each
  label name to one projection (`OneProjectionPerName`) and each marker to one value, and
  the plan is the one for the labels that are there. Hence a plan speaks of everything
  once (`PlanIsComplete`), and what is made or changed by carrying it out is then in
  order and was nobody else's (`ApplyReconciles`). One value of each dimension is an item
  without violations (`SomeItemFits`). What is read back from labels and title is of the
  item (`ReadBackIsOfItem`), and of a dimension of at most one value an item without
  violations has one (`SingleIsSingle`), so the two sides agree (`DriftIsOfMany`).
* Of the native helper, the invariant and the steps are those of
  `NativeFilesystemProofs`; the lemmas `SameNative...` identify the two instances.

The proof of `PlansReconcile` corrected the model: `projectionAction` (and `WithoutGh` in
`ToolPreparation`) was a CASE whose conditions overlap, which TLC takes in their order but
TLA+ leaves open. They are now what the code is, one return after the other.

Model-checked only:

* the liveness properties `StaleLockIsRetired`, `RecoverySucceeds` and
  `SignalEndsPrompt`, which are out of the prover's reach;
* `UserTextSurvives` of `ManagedBlock`, which rests on `SelectSeq`: its value for every
  sequence is an induction over data.

Proved and in no run are `IsolationIsDurable` and the type invariants of the lock, the
replacement, the transaction, the store and the bridge; that of the native helper is
checked as a part of `PartsTypeOK`.

## 6. Not modelled

* The TOON projection of a checkpoint, the closed TOML and JSON parsers, the catalogs
  of static data and the SSOT manifest: parsing and printing of closed grammars, with
  no state and no second actor. Their tests are tables of inputs, which a model would
  repeat.
* The command line beyond its exit codes, and every screen: presentation.
* The verification of a release: digests of a directory tree, read once.
* Release preparation, consistency checks and the other tools of the repository run
  offline on a checkout. Dependency freshness is planned (2).
* The native helper on the two platforms: 3.7 models what Linux and macOS have in
  common. `fstat` of an open file does not fail there, and a directory is opened right
  after it was made. `ensureDirectoryTree` repeats one of its operations, and the
  inspection of paths (`filesystem.ts`, `target.ts`) is not modelled. The other modules
  use its operations as atomic or in the two steps of 3.4; that each implements the
  atomic step, up to the moments 3.7 names, is not shown as a refinement.
* The policy engine is vendored; what it decides is an assumption of 3.6.
* The bundle, the documentation and the site are texts.
