-------------------------- MODULE ReplacementProofs --------------------------
(***************************************************************************)
(* Proofs about the replacement of a binding, for any number of attempts   *)
(* and saves.                                                              *)
(*                                                                         *)
(* The argument: what an attempt did follows from where it stands          *)
(* (InPlace); a file that was renamed away never comes back, because every *)
(* file is written at one place of one attempt (Gone); and whatever an     *)
(* attempt removes from the entry without looking has a text that a        *)
(* quarantine holds, or was written in an unguarded moment (Replaceable).  *)
(***************************************************************************)
EXTENDS Replacement, TLAPS

\* What an attempt has done and read when it stands where it stands.
InPlace(a) ==
  /\ pc[a] = "start" => original[a] = Missing /\ owned[a] = Missing /\ backup[a] = "none"
  /\ pc[a] \in Running \ {"start"} => original[a] # Missing
  /\ backup[a] # "none" => original[a] # Missing
  /\ pc[a] = "sync" => backup[a] = "written"
  /\ pc[a] \in {"check"} \cup Detaching \cup Installing \cup Restoring => backup[a] = "durable"
  /\ pc[a] \in Early \cup {"detach"} => detached[a] = Missing
  /\ detached[a] # Missing => backup[a] = "durable"
  /\ answer[a] \in {"NOT_REQUIRED", "PLANNED"} => detached[a] = Missing
  /\ pc[a] \in Installing \/ answer[a] = "SUCCESS" =>
       detached[a] = original[a] /\ original[a] # Missing
  /\ pc[a] \in {"activate", "replace", "replaced", "commit", "aside", "final"} => read[a] # Missing
  /\ pc[a] \in {"commit", "final"} =>
       owned[a] # Missing /\ Bytes(owned[a]) = <<original[a].text, a>>
  /\ aside[a] # Missing => pc[a] \in Restoring \cup {"answered", "dead"}

LInv == TypeOK /\ \A a \in Attempts : InPlace(a)

\* The steps of an attempt that write a file at the entry, ...
Writes(a) == \/ Create(a, user(a), "create", "created")
             \/ Replace(a)
             \/ Create(a, restored(a), "recreate", "recreated")

\* ... that remove or move the file there, ...
Moves(a) == \/ Detach(a) \/ RollbackDetaches(a)
Removes(a) == Cleanup(a, "cleanup") \/ Cleanup(a, "recleanup") \/ Unlink(a)

\* ... and the others, in the three parts of the code.
Prepares(a) == \/ Fail(a) \/ Die(a) \/ Validate(a) \/ DryRun(a) \/ Reserve(a)
               \/ Quarantine(a) \/ Backup(a) \/ SyncBackup(a) \/ Check(a) \/ Compare(a)
Installs(a) == \/ CreateFails(a, user(a), "created", "cleanup")
               \/ ReadBack(a, user(a), "created", "own")
               \/ Own(a, "own", "context")
               \/ ReadContext(a) \/ Activate(a) \/ AfterEntry(a) \/ Commit(a) \/ Finish(a)
Restores(a) == \/ Restore(a)
               \/ CreateFails(a, restored(a), "recreated", "recleanup")
               \/ ReadBack(a, restored(a), "recreated", "rebind")
               \/ Own(a, "rebind", "confirm")
               \/ Confirm(a)

LEMMA StepsOfAttempt ==
  ASSUME NEW a \in Attempts, Attempt(a)
  PROVE  Writes(a) \/ Moves(a) \/ Removes(a) \/ Prepares(a) \/ Installs(a) \/ Restores(a)
BY DEF Attempt, Writes, Moves, Removes, Prepares, Installs, Restores

(***************************************************************************)
(* Who writes the entry while another attempt is in an unguarded moment    *)
(* leaves a mark.                                                          *)
(***************************************************************************)
LEMMA PutMarks ==
  ASSUME NEW f, NEW by, Put(f, by)
  PROVE  /\ live' = f
         /\ unsafe \subseteq unsafe' /\ unsafe' \subseteq unsafe \cup {f.id}
         /\ (\E a \in Attempts \ by : pc[a] \in Unguarded) => f.id \in unsafe'
BY DEF Put

\* A file is made of an identity, a text and a block.
LEMMA FieldsOfFile ==
  ASSUME NEW f \in Files
  PROVE  f.id \in FileIds /\ f.text \in Texts /\ f.block \in Attempts \cup {OldBlock, NoBlock}
BY DEF Files

\* What an attempt writes.
LEMMA WrittenFiles ==
  ASSUME NEW a \in Attempts
  PROVE  /\ original[a] \in Files =>
              /\ user(a) \in Files /\ user(a).id = <<a, 1>> /\ user(a).text = original[a].text
              /\ user(a).block = NoBlock
              /\ restored(a) \in Files /\ restored(a).id = <<a, 3>>
              /\ restored(a).text = original[a].text /\ restored(a).block = original[a].block
         /\ read[a] \in Files =>
              /\ applied(a) \in Files /\ applied(a).id = <<a, 2>> /\ applied(a).text = read[a].text
              /\ applied(a).block = a
<1>1. 1 \in 0..3 /\ 2 \in 0..3 /\ 3 \in 0..3
  OBVIOUS
<1>2. ASSUME original[a] \in Files
      PROVE  /\ user(a) \in Files /\ user(a).id = <<a, 1>> /\ user(a).text = original[a].text
             /\ user(a).block = NoBlock
             /\ restored(a) \in Files /\ restored(a).id = <<a, 3>>
             /\ restored(a).text = original[a].text /\ restored(a).block = original[a].block
  <2>1. original[a].text \in Texts /\ original[a].block \in Attempts \cup {OldBlock, NoBlock}
    BY <1>2, FieldsOfFile
  <2> QED
    BY <1>1, <2>1 DEF user, restored, File, Files, FileIds
<1>3. ASSUME read[a] \in Files
      PROVE  /\ applied(a) \in Files /\ applied(a).id = <<a, 2>> /\ applied(a).text = read[a].text
             /\ applied(a).block = a
  <2>1. read[a].text \in Texts
    BY <1>3, FieldsOfFile
  <2> QED
    BY <1>1, <2>1 DEF applied, File, Files, FileIds
<1> QED
  BY <1>2, <1>3

LEMMA InitLInv == Init => LInv
<1> SUFFICES ASSUME Init PROVE LInv
  OBVIOUS
<1> USE DEF Init
<1>1. saves \in Texts /\ latest \in Texts /\ live \in Files
  <2>1. 0 \in Texts
    BY ReplacementAssumption DEF Texts
  <2> QED
    BY <2>1 DEF File, Files, FileIds
<1>2. TypeOK
  BY <1>1 DEF TypeOK, Running, Early
<1>3. ASSUME NEW a \in Attempts PROVE InPlace(a)
  BY DEF InPlace, Running, Early, Detaching, Installing, Restoring
<1> QED
  BY <1>2, <1>3 DEF LInv

LEMMA NextLInv == LInv /\ [Next]_vars => LInv'
<1> SUFFICES ASSUME LInv, [Next]_vars PROVE LInv'
  OBVIOUS
<1> USE DEF LInv
<1>1. ASSUME NEW a \in Attempts, Prepares(a) PROVE LInv'
  <2> USE <1>1 DEF Prepares, Private, Step, Goto, Answer, snapshots, copies, observed
  <2>1. TypeOK'
    BY DEF TypeOK, Fail, Throws, Die, Validate, DryRun, Reserve, Quarantine, Backup, SyncBackup, Check,
           Compare, Running, Early, Detaching, Installing, Restoring
  <2>2. ASSUME NEW b \in Attempts PROVE InPlace(b)'
    BY <2>2 DEF TypeOK, InPlace, Fail, Throws, Die, Validate, DryRun, Reserve, Quarantine, Backup, SyncBackup, Check,
           Compare, Running, Early, Detaching, Installing, Restoring, Untouched
  <2> QED
    BY <2>1, <2>2
<1>2. ASSUME NEW a \in Attempts, Writes(a) PROVE LInv'
  <2>1. /\ user(a) \in Files \/ pc[a] # "create"
        /\ applied(a) \in Files \/ pc[a] # "replace"
        /\ restored(a) \in Files \/ pc[a] # "recreate"
    <3>1. pc[a] \in {"create", "recreate"} => original[a] \in Files
      BY DEF TypeOK, InPlace, Running, Installing, Restoring
    <3>2. pc[a] = "replace" => read[a] \in Files
      BY DEF TypeOK, InPlace
    <3> QED
      BY <3>1, <3>2, WrittenFiles
  <2>2. /\ live' \in Files /\ unsafe' \subseteq FileIds
        /\ UNCHANGED <<snapshots, copies, saves, latest, answer>>
    <3>1. \A g \in Files : g.id \in FileIds
      BY DEF Files
    <3> QED
      BY <1>2, <2>1, <3>1, PutMarks DEF TypeOK, Writes, Create, Replace, Step, Goto
  <2>3. /\ pc' = [pc EXCEPT ![a] = pc'[a]]
        /\ <<pc[a], pc'[a]>> \in {<<"create", "created">>, <<"replace", "replaced">>,
                                  <<"recreate", "recreated">>}
    BY <1>2 DEF TypeOK, Writes, Create, Replace, Step, Goto
  <2>4. TypeOK'
    BY <2>2, <2>3 DEF TypeOK, snapshots, copies, Running, Installing, Restoring
  <2>5. ASSUME NEW b \in Attempts PROVE InPlace(b)'
    BY <2>2, <2>3, <2>5 DEF TypeOK, InPlace, snapshots, copies, Running, Early, Detaching, Installing, Restoring
  <2> QED
    BY <2>4, <2>5
<1>3. ASSUME NEW a \in Attempts, Moves(a) \/ Removes(a) PROVE LInv'
  <2> USE <1>3 DEF Moves, Removes, Detach, RollbackDetaches, Cleanup, Unlink, Throws, Step, Goto, Answer,
                   snapshots, copies, observed, Running, Early, Detaching, Installing, Restoring
  <2>1. TypeOK'
    BY DEF TypeOK
  <2>2. ASSUME NEW b \in Attempts PROVE InPlace(b)'
    BY <2>2 DEF TypeOK, InPlace, Untouched
  <2> QED
    BY <2>1, <2>2
<1>4. ASSUME NEW a \in Attempts, Installs(a) \/ Restores(a) PROVE LInv'
  <2> USE <1>4 DEF Installs, Restores, CreateFails, ReadBack, Own, ReadContext, Activate, AfterEntry, Commit,
                   Finish, Restore, Confirm, Private, Step, Goto, Answer,
                   snapshots, copies, observed, Running, Early, Detaching, Installing, Restoring
  <2>1. TypeOK'
    BY DEF TypeOK
  <2>2. AfterEntry(a) => /\ live \in Files /\ owned' = [owned EXCEPT ![a] = live]
                         /\ Bytes(live) = <<original[a].text, a>>
    <3>1. pc[a] = "replaced" => original[a] \in Files /\ read[a] \in Files
      BY DEF TypeOK, InPlace
    <3> QED
      BY <3>1, WrittenFiles DEF TypeOK, Bytes
  <2>3. ASSUME NEW b \in Attempts PROVE InPlace(b)'
    BY <2>2, <2>3 DEF TypeOK, InPlace
  <2> QED
    BY <2>1, <2>3
<1>5. ASSUME Save PROVE LInv'
  <2>1. UNCHANGED <<pc, answer, snapshots, copies>> /\ saves' = saves + 1 /\ saves < MaxSaves
    BY <1>5 DEF Save
  <2>2. live' \in Files /\ latest' \in Texts /\ unsafe' \subseteq FileIds
    <3>1. PICK text \in {saves + 1} \cup {f.text : f \in {live} \ {Missing}} :
            /\ Put(File(Editor, saves + 1, text, IF live = Missing THEN NoBlock ELSE live.block), {})
            /\ latest' = text
      BY <1>5 DEF Save
    <3>2. saves + 1 \in Texts
      BY <2>1, ReplacementAssumption DEF TypeOK, Texts
    <3>3. live # Missing => live.text \in Texts /\ live.block \in Attempts \cup {OldBlock, NoBlock}
      BY DEF TypeOK, Files
    <3>4. text \in Texts
      BY <3>2, <3>3
    <3> DEFINE g == File(Editor, saves + 1, text, IF live = Missing THEN NoBlock ELSE live.block)
    <3>5. g \in Files /\ g.id \in FileIds
      <4>1. CASE live = Missing
        BY <3>2, <3>4, <4>1 DEF File, Files, FileIds
      <4>2. CASE live # Missing
        BY <3>2, <3>3, <3>4, <4>2 DEF File, Files, FileIds
      <4> QED
        BY <4>1, <4>2
    <3> HIDE DEF g
    <3> QED
      BY <3>1, <3>4, <3>5, PutMarks DEF TypeOK, g
  <2>3. saves' \in Texts
    BY <2>1, ReplacementAssumption DEF TypeOK, Texts
  <2>4. TypeOK'
    BY <2>1, <2>2, <2>3 DEF TypeOK, snapshots, copies
  <2>5. ASSUME NEW b \in Attempts PROVE InPlace(b)'
    BY <2>1 DEF InPlace, snapshots, copies
  <2> QED
    BY <2>4, <2>5
<1>6. CASE UNCHANGED vars
  BY <1>6 DEF vars, TypeOK, InPlace
<1> QED
  BY <1>1, <1>2, <1>3, <1>4, <1>5, <1>6, StepsOfAttempt DEF Next

LEMMA AlwaysLInv == Spec => []LInv
BY InitLInv, NextLInv, PTL DEF Spec

(***************************************************************************)
(* The files, snapshots, copies and answers always have their types.       *)
(***************************************************************************)
THEOREM TypeCorrect == Spec => []TypeOK
<1>1. LInv => TypeOK
  BY DEF LInv
<1> QED
  BY <1>1, AlwaysLInv, PTL


(***************************************************************************)
(* An attempt that answers that no recovery is required, or that it only   *)
(* planned, has never moved the entry (replacement.ts 98-106, 155-160).     *)
(***************************************************************************)
THEOREM NotRequiredIsTrue == Spec => []NotRequiredIsUntouched
<1>1. LInv => NotRequiredIsUntouched
  BY DEF LInv, InPlace, NotRequiredIsUntouched
<1> QED
  BY <1>1, AlwaysLInv, PTL

(***************************************************************************)
(* The entry leaves its name only when its bytes are durable in the        *)
(* quarantine (replacement.ts 84-104).                                      *)
(***************************************************************************)
THEOREM IsolatesDurably == Spec => []IsolationIsDurable
<1>1. LInv => IsolationIsDurable
  BY DEF LInv, InPlace, IsolationIsDurable
<1> QED
  BY <1>1, AlwaysLInv, PTL
-----------------------------------------------------------------------------
(* A file that was renamed away never comes back. *)

\* Where an attempt has not yet written its first, second and third file.
Before1 == Early \cup Detaching \cup {"create"}
Before2 == Before1 \cup {"created", "cleanup", "own", "context", "activate", "replace"}
Before3 == Early \cup Detaching \cup Installing \cup {"restore", "unlink", "recreate"}

\* The file has been written: it is none of those still to come.
Written(f) == /\ \A a \in Attempts : /\ pc[a] \in Before1 => f.id # <<a, 1>>
                                     /\ pc[a] \in Before2 => f.id # <<a, 2>>
                                     /\ pc[a] \in Before3 => f.id # <<a, 3>>
              /\ \A n \in Nat : n > saves => f.id # <<Editor, n>>

Gone == /\ live # Missing => Written(live)
        /\ \A a \in Attempts : detached[a] # Missing =>
             /\ Written(detached[a])
             /\ live # Missing => live.id # detached[a].id
             /\ \A b \in Attempts \ {a} : detached[b] # Missing => detached[b].id # detached[a].id

(***************************************************************************)
(* What a step of an attempt may do to the files: nothing, write one,      *)
(* quarantine the entry, move it aside or remove it.                        *)
(***************************************************************************)
Nothing == UNCHANGED <<live, unsafe, detached, aside>>
Vanishes == live # Missing /\ live' = Missing /\ UNCHANGED unsafe

LEMMA Effects ==
  ASSUME LInv, NEW a \in Attempts, Attempt(a)
  PROVE  /\ pc' = [pc EXCEPT ![a] = pc'[a]]
         /\ UNCHANGED <<saves, latest>>
         /\ \A B \in {Before1, Before2, Before3} : pc'[a] \in B => pc[a] \in B
         /\ \/ Nothing /\ ~Writes(a) /\ ~Moves(a) /\ ~Removes(a)
            \/ Writes(a) /\ UNCHANGED <<snapshots, copies, answer>>
            \/ Vanishes /\ Detach(a) /\ detached' = [detached EXCEPT ![a] = live] /\ UNCHANGED aside
            \/ Vanishes /\ RollbackDetaches(a) /\ aside' = [aside EXCEPT ![a] = live] /\ UNCHANGED detached
            \/ Vanishes /\ Removes(a) /\ UNCHANGED <<detached, aside>>
<1> USE DEF LInv, TypeOK, Private, Step, Goto, Answer, snapshots, copies, observed
<1>1. ASSUME Prepares(a) \/ Installs(a) \/ Restores(a)
      PROVE  UNCHANGED <<live, unsafe, detached, aside, saves, latest>>
  BY <1>1 DEF Prepares, Installs, Restores, Fail, Throws, Die, Validate, DryRun, Reserve, Quarantine, Backup,
              SyncBackup, Check, Compare, CreateFails, ReadBack, Own, ReadContext, Activate, AfterEntry,
              Commit, Finish, Restore, Confirm
<1>2. pc' = [pc EXCEPT ![a] = pc'[a]]
  <2>1. Prepares(a) => pc' = [pc EXCEPT ![a] = pc'[a]]
    BY DEF Prepares, Fail, Throws, Die, Validate, DryRun, Reserve, Quarantine, Backup, SyncBackup, Check, Compare
  <2>2. Installs(a) \/ Restores(a) => pc' = [pc EXCEPT ![a] = pc'[a]]
    BY DEF Installs, Restores, CreateFails, ReadBack, Own, ReadContext, Activate, AfterEntry,
           Commit, Finish, Restore, Confirm
  <2>3. Writes(a) \/ Moves(a) \/ Removes(a) => pc' = [pc EXCEPT ![a] = pc'[a]]
    BY DEF Writes, Moves, Removes, Create, Replace, Detach, RollbackDetaches, Cleanup, Unlink, Throws
  <2> QED
    BY <2>1, <2>2, <2>3, StepsOfAttempt
<1>3. \A B \in {Before1, Before2, Before3} : pc'[a] \in B => pc[a] \in B
  <2> USE DEF Before1, Before2, Before3, Early, Detaching, Installing, Restoring, Running
  <2>1. ASSUME Prepares(a) PROVE \A B \in {Before1, Before2, Before3} : pc'[a] \in B => pc[a] \in B
    BY <2>1 DEF Prepares, Fail, Throws, Die, Validate, DryRun, Reserve, Quarantine, Backup, SyncBackup, Check, Compare
  <2>2. ASSUME Installs(a) \/ Restores(a)
        PROVE  \A B \in {Before1, Before2, Before3} : pc'[a] \in B => pc[a] \in B
    BY <2>2 DEF Installs, Restores, CreateFails, ReadBack, Own, ReadContext, Activate, AfterEntry,
           Commit, Finish, Restore, Confirm
  <2>3. ASSUME Writes(a) \/ Moves(a) \/ Removes(a)
        PROVE  \A B \in {Before1, Before2, Before3} : pc'[a] \in B => pc[a] \in B
    BY <2>3 DEF Writes, Moves, Removes, Create, Replace, Detach, RollbackDetaches, Cleanup, Unlink, Throws
  <2> QED
    BY <2>1, <2>2, <2>3, StepsOfAttempt
<1>4. Writes(a) => UNCHANGED <<snapshots, copies, answer, saves, latest>>
  BY DEF Writes, Create, Replace
<1>5. Detach(a) => /\ Vanishes /\ detached' = [detached EXCEPT ![a] = live]
                   /\ UNCHANGED <<aside, saves, latest>>
  BY DEF Detach, Vanishes
<1>6. RollbackDetaches(a) => /\ Vanishes /\ aside' = [aside EXCEPT ![a] = live]
                             /\ UNCHANGED <<detached, saves, latest>>
  BY DEF RollbackDetaches, Vanishes
<1>7. Removes(a) => Vanishes /\ UNCHANGED <<detached, aside, saves, latest>>
  BY DEF Removes, Cleanup, Unlink, Vanishes
<1> QED
  BY <1>1, <1>2, <1>3, <1>4, <1>5, <1>6, <1>7, StepsOfAttempt DEF Nothing, Moves

\* What an attempt writes has not been written before, and is not to come again.
LEMMA WritesFresh ==
  ASSUME LInv, NEW a \in Attempts, Writes(a)
  PROVE  /\ live = Missing \/ pc[a] = "replace"
         /\ live' # Missing => Written(live)'
         /\ \A f : Written(f) => live'.id # f.id
<1>1. \/ live' = user(a) /\ user(a).id = <<a, 1>> /\ pc[a] = "create" /\ pc'[a] = "created" /\ live = Missing
      \/ live' = applied(a) /\ applied(a).id = <<a, 2>> /\ pc[a] = "replace" /\ pc'[a] = "replaced"
      \/ live' = restored(a) /\ restored(a).id = <<a, 3>> /\ pc[a] = "recreate" /\ pc'[a] = "recreated"
           /\ live = Missing
  <2>1. pc[a] \in {"create", "recreate"} => original[a] \in Files
    BY DEF LInv, TypeOK, InPlace, Running, Installing, Restoring
  <2>2. pc[a] = "replace" => read[a] \in Files
    BY DEF LInv, TypeOK, InPlace
  <2> QED
    BY <2>1, <2>2, WrittenFiles, PutMarks DEF LInv, TypeOK, Writes, Create, Replace, Step, Goto
<1>2. pc' = [pc EXCEPT ![a] = pc'[a]] /\ saves' = saves
  BY Effects DEF Attempt, Writes
<1>3. \A f : Written(f) => live'.id # f.id
  BY <1>1 DEF Written, Before1, Before2, Before3, Early, Detaching, Installing
<1>4. Written(live)'
  <2>1. /\ pc'[a] = "created" => pc'[a] \notin Before1
        /\ pc'[a] = "replaced" => pc'[a] \notin Before2
        /\ pc'[a] = "recreated" => pc'[a] \notin Before3
    BY DEF Before1, Before2, Before3, Early, Detaching, Installing
  <2>2. \A b \in Attempts : \A k, m : live'.id = <<a, k>> => (live'.id = <<b, m>> <=> a = b /\ k = m)
    OBVIOUS
  <2> QED
    BY <1>1, <2>1, <2>2, ReplacementAssumption DEF Written
<1> QED
  BY <1>1, <1>3, <1>4

LEMMA WrittenStays ==
  ASSUME LInv, NEW a \in Attempts, Attempt(a), NEW f, Written(f)
  PROVE  Written(f)'
BY Effects DEF LInv, TypeOK, Written

LEMMA NextGone == LInv /\ Gone /\ [Next]_vars => Gone'
<1> SUFFICES ASSUME LInv, Gone, [Next]_vars PROVE Gone'
  OBVIOUS
<1>1. ASSUME NEW a \in Attempts, Attempt(a), Nothing PROVE Gone'
  BY <1>1, WrittenStays DEF Gone, Nothing
<1>2. ASSUME NEW a \in Attempts, Attempt(a), Writes(a) PROVE Gone'
  <2>1. detached' = detached
    BY <1>2 DEF Writes, Create, Replace, copies
  <2>2. /\ live' # Missing => Written(live)'
        /\ \A b \in Attempts : Written(detached[b]) => live'.id # detached[b].id
    BY <1>2, WritesFresh
  <2> QED
    BY <1>2, <2>1, <2>2, WrittenStays DEF Gone
<1>3. ASSUME NEW a \in Attempts, Attempt(a), Vanishes, UNCHANGED detached PROVE Gone'
  BY <1>3, WrittenStays DEF Gone, Vanishes
<1>4. ASSUME NEW a \in Attempts, Attempt(a), Vanishes, detached' = [detached EXCEPT ![a] = live]
      PROVE  Gone'
  BY <1>4, WrittenStays DEF LInv, TypeOK, Gone, Vanishes
<1>5. ASSUME Save PROVE Gone'
  <2>1. PICK text : live' = File(Editor, saves + 1, text, IF live = Missing THEN NoBlock ELSE live.block)
    BY <1>5, PutMarks DEF Save
  <2>2. live'.id = <<Editor, saves + 1>>
    BY <2>1 DEF File
  <2>3. saves' = saves + 1 /\ saves \in Nat /\ pc' = pc
    BY <1>5, ReplacementAssumption DEF Save, LInv, TypeOK, Texts
  <2>4. detached' = detached
    BY <1>5 DEF Save, copies
  <2>5. \A b \in Attempts : Written(detached[b]) => Written(detached[b])' /\ live'.id # detached[b].id
    BY <2>2, <2>3, <2>4 DEF Written
  <2>6. Written(live)'
    BY <2>2, <2>3, ReplacementAssumption DEF Written
  <2> QED
    BY <2>4, <2>5, <2>6 DEF Gone
<1>6. CASE UNCHANGED vars
  BY <1>6 DEF vars, Gone, Written
<1> QED
  BY <1>1, <1>2, <1>3, <1>4, <1>5, <1>6, Effects DEF Next

LEMMA AlwaysGone == Spec => [](LInv /\ Gone)
<1>1. Init => Gone
  BY ReplacementAssumption DEF Init, Gone, Written, File, Before1, Before2, Before3
<1> QED
  BY <1>1, InitLInv, NextLInv, NextGone, PTL DEF Spec

(***************************************************************************)
(* Two attempts never both succeed in replacing the same entry, although   *)
(* they share no lock (replacement.ts 102-154): each has renamed the entry  *)
(* it replaces into its quarantine, and a file is renamed once.             *)
(***************************************************************************)
THEOREM SuccessIsExclusive == Spec => []OneSuccessPerEntry
<1>1. LInv /\ Gone => OneSuccessPerEntry
  BY DEF LInv, InPlace, Gone, OneSuccessPerEntry
<1> QED
  BY <1>1, AlwaysGone, PTL
-----------------------------------------------------------------------------
(* What an attempt takes for its own, and the user's text. *)

\* An attempt looks at the entry once more after it has read it back.
Adopts(a) ==
  /\ pc[a] = "own" => live = Missing \/ live.text = original[a].text \/ live.id \in unsafe
  /\ pc[a] = "rebind" => live = Missing \/ Bytes(live) = Bytes(original[a]) \/ live.id \in unsafe
  /\ owned[a] # Missing => owned[a].text = original[a].text \/ owned[a].id \in unsafe
  /\ pc[a] = "confirm" =>
       owned[a] # Missing /\ (Bytes(owned[a]) = Bytes(original[a]) \/ owned[a].id \in unsafe)

OwnInv == LInv /\ \A a \in Attempts : Adopts(a)

LEMMA NextOwnInv == OwnInv /\ [Next]_vars => OwnInv'
<1> SUFFICES ASSUME OwnInv, [Next]_vars PROVE OwnInv'
  OBVIOUS
<1>1. LInv'
  BY NextLInv DEF OwnInv
<1> USE DEF OwnInv
<1>2. ASSUME NEW a \in Attempts, Prepares(a), NEW b \in Attempts PROVE Adopts(b)'
  BY <1>2 DEF LInv, TypeOK, InPlace, Adopts, Prepares, Fail, Throws, Die, Validate, DryRun, Reserve, Quarantine,
              Backup, SyncBackup, Check, Compare, Private, Step, Goto, Answer, snapshots, copies, observed
<1>3. ASSUME NEW a \in Attempts, Installs(a) \/ Restores(a), NEW b \in Attempts PROVE Adopts(b)'
  <2>1. pc[a] \in Running \ {"start"} => original[a] \in Files
    BY DEF LInv, TypeOK, InPlace
  <2>2. original[a] \in Files =>
          user(a).text = original[a].text /\ Bytes(restored(a)) = Bytes(original[a])
    BY WrittenFiles DEF Bytes
  <2> USE <1>3, <2>1, <2>2
          DEF LInv, TypeOK, Adopts, Private, Step, Goto, Answer, snapshots, copies, observed,
              Running, Installing, Restoring, Bytes
  <2>3. CASE Installs(a)
    BY <2>3 DEF Installs, CreateFails, ReadBack, Own, ReadContext, Activate, AfterEntry, Commit, Finish
  <2>4. CASE Restores(a)
    BY <2>4 DEF Restores, Restore, CreateFails, ReadBack, Own, Confirm
  <2> QED
    BY <2>3, <2>4
<1>4. ASSUME NEW a \in Attempts, Moves(a) \/ Removes(a), NEW b \in Attempts PROVE Adopts(b)'
  BY <1>4 DEF LInv, TypeOK, Adopts, Moves, Removes, Detach, RollbackDetaches, Cleanup, Unlink, Throws,
              Step, Goto, Answer, snapshots, copies, observed
<1>5. ASSUME NEW a \in Attempts, Writes(a), NEW b \in Attempts PROVE Adopts(b)'
  <2>1. /\ UNCHANGED <<original, owned>>
        /\ pc'[a] \notin {"own", "rebind", "confirm"} /\ (b # a => pc'[b] = pc[b])
    BY <1>5 DEF Writes, Create, Replace, Step, Goto, snapshots, LInv, TypeOK
  <2>2. unsafe \subseteq unsafe' /\ (b # a /\ pc[b] \in Unguarded => live'.id \in unsafe')
    BY <1>5, PutMarks DEF Writes, Create, Replace
  <2> QED
    BY <2>1, <2>2 DEF Adopts, Unguarded
<1>6. ASSUME Save, NEW b \in Attempts PROVE Adopts(b)'
  <2>1. unsafe \subseteq unsafe' /\ (pc[b] \in Unguarded => live'.id \in unsafe')
    BY <1>6, PutMarks DEF Save
  <2> QED
    BY <1>6, <2>1 DEF Save, Adopts, Unguarded, snapshots
<1>7. CASE UNCHANGED vars
  BY <1>1, <1>7 DEF vars, Adopts
<1> QED
  BY <1>1, <1>2, <1>3, <1>4, <1>5, <1>6, <1>7, StepsOfAttempt DEF Next

LEMMA AlwaysOwnInv == Spec => []OwnInv
<1>1. Init => OwnInv
  BY InitLInv DEF Init, OwnInv, Adopts
<1> QED
  BY <1>1, NextOwnInv, PTL DEF Spec

\* Where these two answers are given.
LEMMA AnswersOnce ==
  ASSUME LInv, [Next]_vars, NEW a \in Attempts, answer[a] = "pending",
         answer'[a] \in {"SUCCESS", "RESTORED"}
  PROVE  \/ answer'[a] = "SUCCESS" /\ Finish(a)
         \/ answer'[a] = "RESTORED" /\ Confirm(a)
<1> USE DEF LInv, TypeOK, Private, Step, Goto, Answer
<1>1. ~Save /\ ~UNCHANGED vars
  BY DEF Save, vars
<1>2. PICK b \in Attempts : Attempt(b)
  BY <1>1 DEF Next
<1>3. ~Prepares(b)
  BY DEF Prepares, Fail, Throws, Die, Validate, DryRun, Reserve, Quarantine, Backup, SyncBackup, Check, Compare
<1>4. ~Writes(b)
  BY DEF Writes, Create, Replace
<1>5. ~Moves(b) /\ ~Removes(b)
  BY DEF Moves, Removes, Detach, RollbackDetaches, Cleanup, Unlink, Throws
<1>6. CASE Installs(b)
  BY <1>6 DEF Installs, CreateFails, ReadBack, Own, ReadContext, Activate, AfterEntry, Commit, Finish
<1>7. CASE Restores(b)
  BY <1>7 DEF Restores, CreateFails, ReadBack, Own, Restore, Confirm
<1> QED
  BY <1>2, <1>3, <1>4, <1>5, <1>6, <1>7, StepsOfAttempt

(***************************************************************************)
(* A SUCCESS and a RESTORED are true of the entry and of the quarantine    *)
(* when they are given, whatever the user and other attempts did meanwhile *)
(* (replacement.ts 110-154), except that a restore may have taken a file   *)
(* for its own that was written between its readback and its snapshot.     *)
(***************************************************************************)
THEOREM AnswersAreTrue == Spec => AnswerIsTrue
<1> DEFINE True(a) ==
      /\ Answers(a, "SUCCESS") =>
           /\ live' # Missing /\ Bytes(live') = <<original[a].text, a>>
           /\ detached[a] = original[a]
      /\ Answers(a, "RESTORED") =>
           /\ live' # Missing
           /\ Bytes(live') = Bytes(original[a]) \/ live'.id \in unsafe
<1>1. ASSUME OwnInv, [Next]_vars, NEW a \in Attempts PROVE True(a)
  <2>1. ASSUME Answers(a, "SUCCESS") PROVE Finish(a)
    BY <1>1, <2>1, AnswersOnce DEF Answers, OwnInv
  <2>2. ASSUME Answers(a, "RESTORED") PROVE Confirm(a)
    BY <1>1, <2>2, AnswersOnce DEF Answers, OwnInv
  <2>3. Finish(a) => /\ live' # Missing /\ Bytes(live') = <<original[a].text, a>>
                     /\ detached[a] = original[a]
    BY <1>1 DEF OwnInv, LInv, InPlace, Finish, Private, Installing
  <2>4. Confirm(a) => /\ live' # Missing
                      /\ Bytes(live') = Bytes(original[a]) \/ live'.id \in unsafe
    BY <1>1 DEF OwnInv, Adopts, Confirm, Private
  <2> QED
    BY <2>1, <2>2, <2>3, <2>4
<1>2. OwnInv /\ [Next]_vars => [\A a \in Attempts : True(a)]_vars
  BY <1>1
<1> QED
  BY <1>2, AlwaysOwnInv, PTL DEF Spec, AnswerIsTrue
-----------------------------------------------------------------------------
(* The user's text. *)

\* A quarantine, or the file beside the entry, has the text for good.
Secured(t) == \E a \in Attempts : \/ detached[a] # Missing /\ detached[a].text = t
                                  \/ aside[a] # Missing /\ aside[a].text = t
                                  \/ backup[a] # "none" /\ original[a].text = t

\* The user saved last in no unguarded moment.
Safe == <<Editor, saves>> \notin unsafe

TextInv ==
  /\ live # Missing /\ live.id[1] = Editor => live.id = <<Editor, saves>>
  /\ Safe => /\ live # Missing /\ live.id[1] # Editor => Secured(live.text)
             /\ Secured(latest) \/ (live # Missing /\ live.text = latest)

\* What is removed or replaced without another look has a text that is secured.
Replaceable(a) == Safe => /\ pc[a] = "replace" => Secured(read[a].text)
                          /\ pc[a] \in {"cleanup", "recleanup", "unlink", "replace"} => Secured(latest)

TInv == OwnInv /\ TextInv /\ \A a \in Attempts : Replaceable(a)

LEMMA SecuredStays ==
  ASSUME LInv, NEW a \in Attempts, Attempt(a), NEW t, Secured(t)
  PROVE  Secured(t)'
<1>1. /\ detached[a] # Missing => detached'[a] = detached[a]
      /\ aside[a] # Missing => aside'[a] = aside[a]
      /\ backup[a] # "none" => backup'[a] # "none" /\ original'[a] = original[a]
  <2> USE DEF LInv, TypeOK, InPlace, snapshots, copies, observed
  <2>1. CASE Prepares(a)
    BY <2>1 DEF Prepares, Fail, Die, Validate, DryRun, Reserve, Quarantine, Backup, SyncBackup, Check, Compare,
                Private, Step, Goto, Early
  <2>2. CASE Installs(a) \/ Restores(a)
    BY <2>2 DEF Installs, Restores, CreateFails, ReadBack, Own, ReadContext, Activate, AfterEntry, Commit,
                Finish, Restore, Confirm, Private
  <2>3. CASE Writes(a) \/ Removes(a)
    BY <2>3 DEF Writes, Create, Replace, Removes, Cleanup, Unlink
  <2>4. CASE Moves(a)
    BY <2>4 DEF Moves, Detach, RollbackDetaches, Step, Goto, Early, Restoring
  <2> QED
    BY <2>1, <2>2, <2>3, <2>4, StepsOfAttempt
<1>2. \A b \in Attempts \ {a} :
        UNCHANGED <<detached[b], aside[b], backup[b], original[b]>>
  <2> USE DEF LInv, TypeOK, snapshots, copies, observed
  <2>1. CASE Prepares(a)
    BY <2>1 DEF Prepares, Fail, Die, Validate, DryRun, Reserve, Quarantine, Backup, SyncBackup, Check, Compare,
                Private
  <2>2. CASE Installs(a) \/ Restores(a)
    BY <2>2 DEF Installs, Restores, CreateFails, ReadBack, Own, ReadContext, Activate, AfterEntry, Commit,
                Finish, Restore, Confirm, Private
  <2>3. CASE Writes(a) \/ Removes(a)
    BY <2>3 DEF Writes, Create, Replace, Removes, Cleanup, Unlink
  <2>4. CASE Moves(a)
    BY <2>4 DEF Moves, Detach, RollbackDetaches
  <2> QED
    BY <2>1, <2>2, <2>3, <2>4, StepsOfAttempt
<1> QED
  BY <1>1, <1>2 DEF Secured

\* The files the attempt writes have texts that are secured.
LEMMA WritesSecured ==
  ASSUME TInv, NEW a \in Attempts, Writes(a)
  PROVE  live'.id[1] # Editor /\ (Safe => Secured(live'.text))
<1> USE DEF TInv, OwnInv, LInv
<1>1. CASE pc[a] = "replace"
  <2>1. live' = applied(a) /\ read[a] \in Files
    BY <1>1, PutMarks DEF Writes, Create, Replace, Step, TypeOK, InPlace
  <2> QED
    BY <1>1, <2>1, WrittenFiles, ReplacementAssumption DEF Replaceable
<1>2. CASE pc[a] # "replace"
  <2>1. live' \in {user(a), restored(a)} /\ pc[a] \in {"create", "recreate"}
    BY <1>2, PutMarks DEF Writes, Create, Replace, Step
  <2>2. original[a] \in Files /\ backup[a] # "none"
    BY <2>1 DEF TypeOK, InPlace, Running, Installing, Restoring
  <2> QED
    BY <2>1, <2>2, WrittenFiles, ReplacementAssumption DEF Secured
<1> QED
  BY <1>1, <1>2

LEMMA SaveTInv == TInv /\ Save => TextInv' /\ \A a \in Attempts : Replaceable(a)'
<1> SUFFICES ASSUME TInv, Save PROVE TextInv' /\ \A a \in Attempts : Replaceable(a)'
  OBVIOUS
<1>1. PICK text : /\ Put(File(Editor, saves + 1, text, IF live = Missing THEN NoBlock ELSE live.block), {})
                  /\ latest' = text
  BY DEF Save
<1>2. live'.id = <<Editor, saves + 1>> /\ live'.text = text
  BY <1>1, PutMarks DEF File
<1>3. live'.id = <<Editor, saves'>> /\ live'.text = latest' /\ pc' = pc
  BY <1>1, <1>2 DEF Save
<1>4. ASSUME NEW a \in Attempts, pc[a] \in {"cleanup", "recleanup", "unlink", "replace"}
      PROVE  ~Safe'
  BY <1>1, <1>3, <1>4, PutMarks DEF Safe, Unguarded
<1>5. live' # Missing
  <2>1. LInv'
    BY NextLInv DEF TInv, OwnInv, Next
  <2>2. /\ live' = [id |-> <<Editor, saves'>>, text |-> latest', block |-> live'.block]
        /\ live'.block = IF live = Missing THEN NoBlock ELSE live.block
    BY <1>1, <1>3, PutMarks DEF File
  <2>3. /\ <<Editor, saves'>> \in FileIds /\ latest' \in Texts
        /\ live'.block \in Attempts \cup {OldBlock, NoBlock}
    BY <2>1, <2>2 DEF LInv, TypeOK, FileIds, TInv, OwnInv, Files
  <2> QED
    BY <2>2, <2>3, MissingAssumption DEF Files
<1> QED
  BY <1>3, <1>4, <1>5 DEF TextInv, Replaceable

\* A file that an attempt finds to be its own, when it looks, is secured.
LEMMA OwnIsSecured ==
  ASSUME TInv, NEW a \in Attempts, Safe, live # Missing, live = owned[a], backup[a] # "none"
  PROVE  Secured(live.text) /\ Secured(latest)
BY DEF TInv, OwnInv, Adopts, TextInv, Safe, Secured

LEMMA QuietTInv ==
  ASSUME TInv, NEW a \in Attempts, Prepares(a) \/ Installs(a) \/ Restores(a)
  PROVE  TextInv' /\ \A b \in Attempts : Replaceable(b)'
<1> USE DEF TInv, OwnInv, LInv
<1>1. Attempt(a)
  BY DEF Attempt, Prepares, Installs, Restores
<1>2. UNCHANGED <<live, saves, latest, unsafe>>
  BY DEF Prepares, Installs, Restores, Fail, Die, Validate, DryRun, Reserve, Quarantine, Backup,
         SyncBackup, Check, Compare, CreateFails, ReadBack, Own, ReadContext, Activate, AfterEntry,
         Commit, Finish, Restore, Confirm, Private, observed
<1>3. TextInv'
  BY <1>1, <1>2, SecuredStays DEF TextInv, Safe
<1>4. ASSUME NEW b \in Attempts \ {a} PROVE Replaceable(b)'
  <2> USE DEF TypeOK, Private, Step, Goto, Answer, snapshots
  <2>1. CASE Prepares(a)
    <3>1. pc'[b] = pc[b] /\ read'[b] = read[b]
      BY <2>1 DEF Prepares, Fail, Throws, Die, Validate, DryRun, Reserve, Quarantine, Backup,
                  SyncBackup, Check, Compare
    <3> QED
      BY <1>1, <1>2, <3>1, SecuredStays DEF Replaceable, Safe
  <2>2. CASE Installs(a) \/ Restores(a)
    <3>1. pc'[b] = pc[b] /\ read'[b] = read[b]
      BY <2>2 DEF Installs, Restores, CreateFails, ReadBack, Own, ReadContext, Activate, AfterEntry,
                  Commit, Finish, Restore, Confirm
    <3> QED
      BY <1>1, <1>2, <3>1, SecuredStays DEF Replaceable, Safe
  <2> QED
    BY <2>1, <2>2
<1>5. Replaceable(a)'
  <2> SUFFICES ASSUME Safe, pc'[a] \in {"cleanup", "recleanup", "unlink", "replace"}
               PROVE  /\ Secured(latest)
                      /\ pc'[a] = "replace" => read' = read /\ Secured(read[a].text)
    BY <1>1, <1>2, SecuredStays DEF Replaceable, Safe
  <2>1. \/ CreateFails(a, user(a), "created", "cleanup") /\ pc'[a] = "cleanup"
        \/ CreateFails(a, restored(a), "recreated", "recleanup") /\ pc'[a] = "recleanup"
        \/ Restore(a) /\ owned[a] # Missing /\ pc'[a] = "unlink"
        \/ Activate(a) /\ pc'[a] = "replace"
    <3> USE DEF TypeOK, Step, Goto, Answer
    <3>1. ~Prepares(a)
      BY DEF Prepares, Fail, Throws, Die, Validate, DryRun, Reserve, Quarantine, Backup, SyncBackup, Check, Compare
    <3> QED
      BY <3>1 DEF Installs, Restores, CreateFails, ReadBack, Own, ReadContext, Activate, AfterEntry,
                  Commit, Finish, Restore, Confirm
  <2>2. pc[a] \in {"created", "recreated", "restore", "activate"} =>
          original[a] \in Files /\ backup[a] # "none"
    BY DEF TypeOK, InPlace, Running, Installing, Restoring
  <2>3. ASSUME \/ CreateFails(a, user(a), "created", "cleanup")
               \/ CreateFails(a, restored(a), "recreated", "recleanup")
        PROVE  Secured(latest)
    <3>1. live.text = original[a].text /\ backup[a] # "none"
      BY <2>2, <2>3, WrittenFiles DEF CreateFails, Step
    <3> QED
      BY <3>1 DEF TextInv, Secured
  <2>4. ASSUME Restore(a), owned[a] # Missing PROVE Secured(latest)
    BY <2>2, <2>4, OwnIsSecured DEF Restore, Step
  <2>5. ASSUME Activate(a) PROVE Secured(latest) /\ Secured(read[a].text) /\ read' = read
    <3>1. read[a] # Missing
      BY <2>5 DEF Activate, Step, Goto, InPlace, TypeOK
    <3> QED
      BY <2>2, <2>5, <3>1, OwnIsSecured DEF Activate, Step, Private, snapshots
  <2> QED
    BY <2>1, <2>3, <2>4, <2>5
<1> QED
  BY <1>3, <1>4, <1>5

LEMMA MovingTInv ==
  ASSUME TInv, NEW a \in Attempts, Moves(a) \/ Removes(a)
  PROVE  TextInv' /\ \A b \in Attempts : Replaceable(b)'
<1> USE DEF TInv, OwnInv, LInv
<1>1. Attempt(a)
  BY DEF Attempt, Moves, Removes
<1>2. live # Missing /\ live' = Missing /\ UNCHANGED <<saves, latest, unsafe, read>>
  BY DEF Moves, Removes, Detach, RollbackDetaches, Cleanup, Unlink, observed, snapshots
<1>3. ASSUME Safe PROVE Secured(latest)'
  <2>1. CASE Moves(a)
    <3>1. Secured(latest) => Secured(latest)'
      BY <1>1, <1>2, SecuredStays
    <3>2. live.text = latest => Secured(latest)'
      BY <1>2, <2>1 DEF Moves, Detach, RollbackDetaches, TypeOK, Secured
    <3> QED
      BY <1>3, <3>1, <3>2 DEF TextInv
  <2>2. CASE Removes(a)
    <3>1. Secured(latest)
      BY <1>3, <2>2 DEF Removes, Cleanup, Unlink, Step, Replaceable
    <3> QED
      BY <1>1, <1>2, <3>1, SecuredStays
  <2> QED
    BY <2>1, <2>2
<1>4. ASSUME NEW b \in Attempts PROVE Replaceable(b)'
  <2>1. /\ b # a => pc'[b] = pc[b]
        /\ pc'[a] \notin {"cleanup", "recleanup", "unlink", "replace"}
    BY DEF TypeOK, Moves, Removes, Detach, RollbackDetaches, Cleanup, Unlink, Throws, Step, Goto, Answer
  <2> QED
    BY <1>1, <1>2, <2>1, SecuredStays DEF Replaceable, Safe
<1> QED
  BY <1>2, <1>3, <1>4 DEF TextInv, Safe

LEMMA WritingTInv ==
  ASSUME TInv, NEW a \in Attempts, Writes(a)
  PROVE  TextInv' /\ \A b \in Attempts : Replaceable(b)'
<1> USE DEF TInv, OwnInv, LInv
<1>1. Attempt(a)
  BY DEF Attempt, Writes
<1>2. UNCHANGED <<saves, latest, read>> /\ (Safe' => Safe)
  BY PutMarks DEF Writes, Create, Replace, snapshots, Safe
<1>3. ASSUME Safe PROVE Secured(latest)
  BY <1>3, WritesFresh DEF TextInv, Replaceable
<1>4. live'.id[1] # Editor /\ (Safe => Secured(live'.text))
  BY WritesSecured
<1>5. ASSUME NEW t, Secured(t) PROVE Secured(t)'
  BY <1>1, <1>5, SecuredStays
<1>6. TextInv'
  BY <1>1, <1>2, <1>3, <1>4, SecuredStays DEF TextInv
<1>7. ASSUME NEW b \in Attempts PROVE Replaceable(b)'
  <2>1. /\ b # a => pc'[b] = pc[b]
        /\ pc'[a] \notin {"cleanup", "recleanup", "unlink", "replace"}
    BY DEF TypeOK, Writes, Create, Replace, Step, Goto
  <2> QED
    BY <1>1, <1>2, <2>1, SecuredStays DEF Replaceable
<1> QED
  BY <1>6, <1>7

LEMMA AlwaysTInv == Spec => []TInv
<1>1. Init => TextInv /\ \A a \in Attempts : Replaceable(a)
  <2> SUFFICES ASSUME Init PROVE TextInv /\ \A a \in Attempts : Replaceable(a)
    OBVIOUS
  <2>1. 0 \in Texts
    BY ReplacementAssumption DEF Texts
  <2>2. live \in Files /\ live.id = <<Editor, 0>> /\ live.text = 0
    BY <2>1 DEF Init, File, Files, FileIds
  <2> QED
    BY <2>2, MissingAssumption DEF Init, TextInv, Replaceable
<1>2. TInv /\ [Next]_vars => TInv'
  <2> SUFFICES ASSUME TInv, [Next]_vars PROVE TextInv' /\ \A a \in Attempts : Replaceable(a)'
    BY NextOwnInv DEF TInv
  <2>1. CASE UNCHANGED vars
    BY <2>1 DEF TInv, vars, TextInv, Replaceable, Secured, Safe
  <2>2. CASE Save
    BY <2>2, SaveTInv
  <2>3. ASSUME NEW a \in Attempts, Attempt(a) PROVE TextInv' /\ \A b \in Attempts : Replaceable(b)'
    BY <2>3, StepsOfAttempt, QuietTInv, MovingTInv, WritingTInv
  <2> QED
    BY <2>1, <2>2, <2>3 DEF Next
<1> QED
  BY <1>1, <1>2, AlwaysOwnInv, PTL DEF Spec, TInv

(***************************************************************************)
(* The text the user saved last is at the entry, in a quarantine or beside *)
(* the entry, however many attempts overlap, fail, roll back and die,      *)
(* unless it was saved in an unguarded moment (replacement.ts 84-160,      *)
(* native/agent_governance_fs.c).                                          *)
(***************************************************************************)
THEOREM UserTextIsKept == Spec => []UserTextKept
<1>1. TInv => UserTextKept
  <2> SUFFICES ASSUME TInv, Safe PROVE \E f \in Kept \ {Missing} : f.text = latest
    BY DEF UserTextKept, Safe
  <2>1. CASE live # Missing /\ live.text = latest
    BY <2>1 DEF Kept
  <2>2. CASE Secured(latest)
    <3>1. PICK a \in Attempts : \/ detached[a] # Missing /\ detached[a].text = latest
                                \/ aside[a] # Missing /\ aside[a].text = latest
                                \/ backup[a] # "none" /\ original[a].text = latest
      BY <2>2 DEF Secured
    <3>2. backup[a] # "none" => original[a] # Missing
      BY DEF TInv, OwnInv, LInv, InPlace
    <3> QED
      BY <3>1, <3>2 DEF Kept
  <2> QED
    BY <2>1, <2>2 DEF TInv, TextInv
<1> QED
  BY <1>1, AlwaysTInv, PTL
=============================================================================
