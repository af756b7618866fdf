-------------------------- MODULE NativeFilesystem --------------------------
(***************************************************************************)
(* The file operations of agent_governance_fs.c, system call by system     *)
(* call, as native-filesystem.ts and mutation.ts call them.  A call is     *)
(* given the identity of a directory; it works on the directory it opened  *)
(* at the path while others change the names in it, the bytes of the files *)
(* or the directory at the path itself.                                    *)
(* A snapshot of a file is its inode number and a stamp for its mode, size *)
(* and times, which every write changes.  fstat of an open file does not   *)
(* fail here, and a directory is looked at right after it was made.        *)
(***************************************************************************)
EXTENDS NativeCallers

VARIABLES names,        \* the inode of each name in the directory and in a foreign one
          inode,        \* kind, bytes, stamp and last writer of each inode
          there,        \* the directory that is at the path
          work,         \* each call: where it stands and what it holds
          raced,        \* observation: calls of which an unguarded moment was hit
          touched,      \* observation: calls whose file others changed or moved
          othersLeft, faultsLeft

vars == <<names, inode, there, work, raced, touched, othersLeft, faultsLeft>>

Name(kind, whose) == <<kind, whose>>
Entry == Name("entry", Missing)
Aside == Name("aside", Missing)
Stage == Name("stage", Missing)
Release == Name("release", Missing)
Source(c) == Name("source", c)
Destination(c) == Name("destination", c)
Temporaries == {Name("temporary", p) : p \in Pids}
Shared == {Entry, Aside, Stage, Release} \cup Temporaries
Names == Shared \cup {Source(c) : c \in Callers} \cup {Destination(c) : c \in Callers}

Ids == Callers \cup 0..(2 + MaxOthers)
Snapshots == (Ids \cup {Missing}) \X (0..2 + MaxOthers)
None == <<Missing, 0>>

Writers == {"write", "replace"}
Operations == Writers \cup {"create", "remove", "detach", "probe", "mkdir", "move", "rmdir"}
Ended == {"returned", "threw"}
Places == Ended \cup
          {"idle", "read", "look", "open", "make", "write", "sync", "close", "readback",
           "compare temporary", "compare", "rename over", "unlink", "refresh", "withdraw",
           "unlink made", "stat", "rename", "mkdirat", "check made", "dead"}
Clearing == {"clear source", "clear destination"}
Phases == Clearing \cup {"create", "rename", "remove"}

Idle == [at |-> "idle", op |-> "create", pid |-> Missing, handle |-> "bound",
         name |-> Entry, phase |-> "create", owned |-> None, bound |-> None,
         made |-> None, failed |-> {}]

File(bytes, who) == [kind |-> "file", bytes |-> bytes, stamp |-> 0, by |-> who]
Directory(who) == [kind |-> "directory", bytes |-> "none", stamp |-> 0, by |-> who]

Init == /\ there = "bound"
        /\ \E e \in {0, Missing} :
             names = [d \in {"bound", "foreign"} |->
                        [n \in Names |-> CASE d = "foreign" /\ n = Entry -> 2
                                           [] d = "bound" /\ n = Entry   -> e
                                           [] d = "bound" /\ n = Stage   -> 1
                                           [] OTHER                      -> Missing]]
        /\ inode = [i \in Ids |-> IF i = 1 THEN Directory(Missing) ELSE File("old", Missing)]
        /\ work = [c \in Callers |-> Idle]
        /\ raced = {} /\ touched = {}
        /\ othersLeft = MaxOthers /\ faultsLeft = MaxFaults

TypeOK == /\ there \in {"bound", "foreign"}
          /\ names \in [{"bound", "foreign"} -> [Names -> Ids \cup {Missing}]]
          /\ inode \in [Ids -> [kind : {"file", "directory"},
                                bytes : {"none", "old", "new", "other", "empty", "half"},
                                stamp : 0..2 + MaxOthers, by : Callers \cup {Missing}]]
          /\ work \in [Callers -> [at : Places, op : Operations, pid : Pids \cup {Missing},
                                   handle : {"bound", "foreign"}, name : Names, phase : Phases,
                                   owned : Snapshots, bound : Snapshots, made : Snapshots,
                                   failed : SUBSET (Places \cup {"clearing"})]]
          /\ raced \subseteq Callers /\ touched \subseteq Callers
          /\ othersLeft \in 0..MaxOthers /\ faultsLeft \in 0..MaxFaults
-----------------------------------------------------------------------------
Version(i) == IF i = Missing THEN None ELSE <<i, inode[i].stamp>>
IsA(kind, i) == i # Missing /\ inode[i].kind = kind

Here(c) == names[work[c].handle]
Seen(c, n) == Version(Here(c)[n])

At(c, place) == work[c].at = place
Working(c) == work[c].at \notin Ended \cup {"idle", "dead"}
To(c, place) == [work[c] EXCEPT !.at = place]

\* The name a call makes its file at.
MakeName(c) == IF work[c].op \in Writers THEN Name("temporary", work[c].pid) ELSE work[c].name

\* Moments in which a call does not look at name n again before it acts on it.
Unguarded(c, n) == \/ work[c].at = "compare" /\ work[c].op \in Writers /\ n = MakeName(c)
                   \/ work[c].at = "rename over" /\ n \in {Entry, MakeName(c)}
                   \/ work[c].at \in {"unlink", "rename"} /\ n = work[c].name
                   \/ work[c].at = "unlink made" /\ n = MakeName(c)

\* Somebody changes what is at name n of the directory; to somebody who writes in
\* place, a file whose snapshot has not been taken for good is unguarded as well.
Touch(who, n, inPlace) ==
  LET i == names["bound"][n] IN
  /\ raced' = raced \cup {c \in Callers \ {who} :
                            \/ Unguarded(c, n)
                            \/ inPlace /\ c = i /\ work[c].at \in {"write", "sync", "refresh"}}
  /\ touched' = touched \cup (({i} \cap Callers) \ {who})

Become(c, r) == work' = [work EXCEPT ![c] = r]
Go(c, r) == /\ Become(c, r)
            /\ UNCHANGED <<names, inode, there, raced, touched, othersLeft, faultsLeft>>

\* A change of one name, or of two, in the directory the call has opened.
Rewrite(c, changed) == names' = [names EXCEPT ![work[c].handle] = changed]

Take(c, n, changed, r) == /\ Rewrite(c, changed)
                          /\ Touch(c, n, FALSE)
                          /\ Become(c, r)
                          /\ UNCHANGED <<inode, there, othersLeft, faultsLeft>>

\* A probe that fails once it has made its file removes what is at both names.
Thrown(c) ==
  CASE work[c].op # "probe" \/ work[c].phase \in {"create", "clear destination"} -> To(c, "threw")
    [] work[c].phase \in {"rename", "remove"} ->
         [To(c, "look") EXCEPT !.phase = "clear source", !.name = Source(c)]
    [] work[c].phase = "clear source" ->
         [To(c, "look") EXCEPT !.phase = "clear destination", !.name = Destination(c)]

Throw(c) == Go(c, Thrown(c))

\* The operation, or this part of a probe, is done.
Done(c) == IF work[c].op # "probe" THEN To(c, "returned")
           ELSE CASE work[c].phase = "create" -> [To(c, "open") EXCEPT !.phase = "rename"]
                  [] work[c].phase = "rename" -> [To(c, "look") EXCEPT !.phase = "remove",
                                                                       !.name = Destination(c)]
                  [] work[c].phase = "remove" -> To(c, "returned")
                  [] OTHER                    -> Thrown(c)
-----------------------------------------------------------------------------
\* A caller that replaces holds a snapshot of the entry from before; one that moves
\* or removes a directory holds its identity.
Begin(c, op, pid) ==
  /\ At(c, "idle")
  /\ \A d \in Callers \ {c} : Working(d) => work[d].pid # pid \/ pid = Missing
  /\ pid = Missing <=> op \notin Writers
  /\ Go(c, [Idle EXCEPT
             !.at = IF op \in Writers \cup {"remove"} THEN "read" ELSE "open",
             !.op = op, !.pid = pid,
             !.name = CASE op = "probe" -> Source(c) [] op = "mkdir" -> Release
                        [] op \in {"move", "rmdir"} -> Stage [] OTHER -> Entry,
             !.owned = IF op = "replace" THEN Version(names[there][Entry]) ELSE None,
             !.bound = IF op \in {"move", "rmdir"} THEN <<names[there][Stage], 0>> ELSE None])

\* Mutant: the file that is there now is as good as the one the caller owns.
PassedCurrent(c, previous) == previous

\* The snapshot given to the helper: the caller's own if it holds one.
Passed(c, previous) == IF work[c].op = "replace" THEN work[c].owned ELSE previous

Read(c) ==
  /\ At(c, "read")
  /\ LET i == names[there][Entry] IN
     IF IsA("file", i) /\ inode[i].bytes = "old"
     THEN Go(c, [To(c, "open") EXCEPT !.bound = Passed(c, Version(i))])
     ELSE Throw(c)

Look(c) ==
  /\ At(c, "look")
  /\ LET v == Version(names[there][work[c].name]) IN
     IF v = None THEN Throw(c) ELSE Go(c, [To(c, "open") EXCEPT !.bound = v])

\* Mutant: the directory is taken for the one that was meant.
IdentifiedAny(directory) == TRUE

\* The directory at the path has the identity the call was given.
Identified(directory) == directory = "bound"

Start(c) == CASE work[c].op \in Writers \cup {"create"} -> "make"
              [] work[c].op \in {"remove", "rmdir"}     -> "compare"
              [] work[c].op \in {"detach", "move"}      -> "stat"
              [] work[c].op = "mkdir"                   -> "mkdirat"
              [] work[c].op = "probe"                   ->
                   CASE work[c].phase = "create" -> "make"
                     [] work[c].phase = "rename" -> "stat"
                     [] OTHER                    -> "compare"

Open(c) ==
  /\ At(c, "open")
  /\ IF Identified(there) THEN Go(c, [To(c, Start(c)) EXCEPT !.handle = there]) ELSE Throw(c)
-----------------------------------------------------------------------------
\* secure_create_no_replace and the temporary file of secure_write_file.
Make(c) ==
  /\ At(c, "make")
  /\ IF Here(c)[MakeName(c)] # Missing THEN Throw(c)
     ELSE /\ Rewrite(c, [Here(c) EXCEPT ![MakeName(c)] = c])
          /\ inode' = [inode EXCEPT ![c] = File("empty", c)]
          /\ Become(c, [To(c, "write") EXCEPT !.made = <<c, 0>>])
          /\ UNCHANGED <<there, raced, touched, othersLeft, faultsLeft>>

\* What is written over the text of somebody else need not be all of the file; a write
\* can fall into the unguarded moment of a call that is about to act on that file.
Put(c, bytes) ==
  /\ inode' = [inode EXCEPT ![c].bytes = bytes, ![c].stamp = @ + 1, ![c].by = c]
  /\ raced' = raced \cup {d \in Callers \ {c} :
                            \E n \in Names : names["bound"][n] = c /\ Unguarded(d, n)}

Write(c) == /\ At(c, "write")
            /\ \E b \in {"new"} \cup (IF inode[c].by = c THEN {} ELSE {"half"}) : Put(c, b)
            /\ Become(c, To(c, "sync"))
            /\ UNCHANGED <<names, there, touched, othersLeft, faultsLeft>>

Sync(c) == At(c, "sync") /\ Go(c, [To(c, "close") EXCEPT !.made = Version(c)])

Close(c) == /\ At(c, "close")
            /\ Go(c, CASE work[c].op \in Writers -> To(c, "compare temporary")
                       [] work[c].op = "create"   -> To(c, "readback")
                       [] OTHER                   -> Done(c))

Readback(c) == /\ At(c, "readback")
               /\ LET i == names[there][Entry] IN
                  IF IsA("file", i) /\ inode[i].bytes = "new" THEN Go(c, Done(c)) ELSE Throw(c)

\* Mutant: cleans up with the snapshot of the empty file.
RefreshSkipped(c) == At(c, "refresh") /\ Go(c, To(c, "withdraw"))

Refresh(c) == At(c, "refresh") /\ Go(c, [To(c, "withdraw") EXCEPT !.made = Version(c)])

\* cleanup_exclusive_create
Withdraw(c) == /\ At(c, "withdraw")
               /\ IF Seen(c, MakeName(c)) = work[c].made THEN Go(c, To(c, "unlink made"))
                  ELSE Throw(c)

UnlinkMade(c) == /\ At(c, "unlink made")
                 /\ IF IsA("directory", Here(c)[MakeName(c)]) THEN Throw(c)
                    ELSE Take(c, MakeName(c), [Here(c) EXCEPT ![MakeName(c)] = Missing], Thrown(c))

CompareTemporary(c) == /\ At(c, "compare temporary")
                       /\ IF Seen(c, MakeName(c)) = work[c].made THEN Go(c, To(c, "compare"))
                          ELSE Throw(c)

\* Mutant: compares device and inode only.
SameInode(c) == Here(c)[work[c].name] = work[c].bound[1]

\* The object of the call is still the one it was told of.
SameObject(c) ==
  IF work[c].op \in {"move", "rmdir"}
  THEN IsA("directory", Here(c)[work[c].name]) /\ Here(c)[work[c].name] = work[c].bound[1]
  ELSE IsA("file", Here(c)[work[c].name]) /\ Seen(c, work[c].name) = work[c].bound

Compare(c) == /\ At(c, "compare")
              /\ CASE ~ SameObject(c) /\ work[c].op \in Writers -> Go(c, To(c, "withdraw"))
                   [] ~ SameObject(c) /\ work[c].op \notin Writers -> Throw(c)
                   [] OTHER -> Go(c, To(c, IF work[c].op \in Writers THEN "rename over" ELSE "unlink"))

RenameOver(c) ==
  /\ At(c, "rename over")
  /\ LET t == MakeName(c) IN
     IF Here(c)[t] = Missing \/ IsA("directory", Here(c)[Entry]) THEN Go(c, To(c, "withdraw"))
     ELSE Take(c, Entry, [Here(c) EXCEPT ![Entry] = Here(c)[t], ![t] = Missing],
               To(c, "readback"))

Unlink(c) ==
  /\ At(c, "unlink")
  /\ LET n == work[c].name IN
     IF IsA(IF work[c].op = "rmdir" THEN "directory" ELSE "file", Here(c)[n])
     THEN Take(c, n, [Here(c) EXCEPT ![n] = Missing], Done(c))
     ELSE Throw(c)

\* secure_rename_no_replace and secure_rename_directory_no_replace
Stat(c) == /\ At(c, "stat")
           /\ IF IF work[c].op = "move" THEN SameObject(c) ELSE IsA("file", Here(c)[work[c].name])
              THEN Go(c, To(c, "rename")) ELSE Throw(c)

Target(c) == CASE work[c].op = "detach" -> Aside [] work[c].op = "move" -> Release
               [] OTHER -> Destination(c)

Rename(c) ==
  /\ At(c, "rename")
  /\ LET n == work[c].name IN
     IF Here(c)[n] # Missing /\ Here(c)[Target(c)] = Missing
     THEN Take(c, n, [Here(c) EXCEPT ![Target(c)] = Here(c)[n], ![n] = Missing], Done(c))
     ELSE Throw(c)

MakeDirectory(c) ==
  /\ At(c, "mkdirat")
  /\ IF Here(c)[Release] # Missing THEN Throw(c)
     ELSE /\ Rewrite(c, [Here(c) EXCEPT ![Release] = c])
          /\ inode' = [inode EXCEPT ![c] = Directory(c)]
          /\ Become(c, To(c, "check made"))
          /\ UNCHANGED <<there, raced, touched, othersLeft, faultsLeft>>

CheckMade(c) == /\ At(c, "check made")
                /\ IF IsA("directory", Here(c)[Release]) THEN Go(c, Done(c)) ELSE Throw(c)
-----------------------------------------------------------------------------
\* A system call reports an error.  What was made is removed from then on until it has
\* its name, except that a writer throws at once if it cannot look at its temporary.
\* secure_create_no_replace takes a new snapshot of what it removes.
AfterFault(c) ==
  LET writer == work[c].op \in Writers IN
  CASE work[c].at \in {"write", "sync"} /\ ~ writer         -> To(c, "refresh")
    [] work[c].at \in {"write", "sync"} /\ writer           -> To(c, "withdraw")
    [] work[c].at = "close"                                 -> To(c, "withdraw")
    [] work[c].at \in {"compare", "rename over"} /\ writer  -> To(c, "withdraw")
    [] OTHER                                                -> Thrown(c)

CallFails(c) ==
  /\ Working(c) /\ ~ At(c, "refresh")
  /\ faultsLeft > 0 /\ faultsLeft' = faultsLeft - 1
  /\ \/ UNCHANGED <<inode, raced>>
     \/ At(c, "write") /\ Put(c, "half")
  /\ Become(c, [AfterFault(c) EXCEPT
                 !.failed = @ \cup {IF work[c].phase \in Clearing THEN "clearing"
                                    ELSE work[c].at}])
  /\ UNCHANGED <<names, there, touched, othersLeft>>

\* A call that dies before it has made a file is one that takes no further step.
Die(c) == Working(c) /\ work[c].made # None /\ Go(c, [Idle EXCEPT !.at = "dead"])

\* An editor saves: it writes in place or renames a new file over the name.  A program
\* removes what is there, makes a directory, or exchanges the directory at the path.
OthersPut(n, i, new) ==
  /\ Touch(Missing, n, FALSE)
  /\ names' = [names EXCEPT !["bound"][n] = i]
  /\ inode' = [inode EXCEPT ![i] = new]
  /\ UNCHANGED there

OthersWrite(n) ==
  LET i == names["bound"][n] IN
  /\ IsA("file", i)
  /\ Touch(Missing, n, TRUE)
  /\ inode' = [inode EXCEPT ![i].bytes = "other", ![i].stamp = @ + 1, ![i].by = Missing]
  /\ UNCHANGED <<names, there>>

OthersRemove(n) ==
  /\ names["bound"][n] # Missing
  /\ Touch(Missing, n, FALSE)
  /\ names' = [names EXCEPT !["bound"][n] = Missing]
  /\ UNCHANGED <<inode, there>>

OthersSwap ==
  /\ there' = IF there = "bound" THEN "foreign" ELSE "bound"
  /\ touched' = touched \cup {c \in Callers : work[c].op = "probe" /\ Working(c)}
  /\ UNCHANGED <<names, inode, raced>>

Others ==
  /\ othersLeft > 0 /\ othersLeft' = othersLeft - 1
  /\ LET new == 2 + othersLeft IN
     \/ \E b \in {"old", "other"} : OthersPut(Entry, new, File(b, Missing))
     \/ \E n \in {Aside} \cup Temporaries : OthersPut(n, new, File("other", Missing))
     \/ \E n \in {Entry, Stage, Release} : OthersPut(n, new, Directory(Missing))
     \/ \E n \in Shared : OthersWrite(n) \/ OthersRemove(n)
     \/ OthersSwap
  /\ UNCHANGED <<work, faultsLeft>>

Next == \/ \E c \in Callers :
             \/ \E op \in Operations, pid \in Pids \cup {Missing} : Begin(c, op, pid)
             \/ Read(c) \/ Look(c) \/ Open(c) \/ Make(c) \/ Write(c) \/ Sync(c) \/ Close(c)
             \/ Readback(c) \/ Refresh(c) \/ Withdraw(c) \/ UnlinkMade(c)
             \/ CompareTemporary(c) \/ Compare(c) \/ RenameOver(c) \/ Unlink(c)
             \/ Stat(c) \/ Rename(c) \/ MakeDirectory(c) \/ CheckMade(c)
             \/ CallFails(c) \/ Die(c)
        \/ Others

Spec == Init /\ [][Next]_vars
-----------------------------------------------------------------------------
\* What the call was told it may take.
Told(c) == IF work[c].op = "replace" THEN work[c].owned ELSE work[c].bound

\* The names that lose what was at them.
Taken == {n \in Names : names["bound"][n] \notin {Missing, names'["bound"][n]}}

\* A call takes nothing away from others that it was not told of: what disappears from
\* a name in a step of a call was last written by the call, or is, unchanged, the file
\* or the directory whose identity the call was given; a file that is detached is kept
\* aside.  Neither equal bytes nor the same name nor another directory at the path make
\* a difference.  The one way out is a change between the last comparison and the
\* system call that acts on it (agent_governance_fs.c 130-268, mutation.ts 10-25).
OnlyBoundIsTaken ==
  [][\A c \in Callers : work'[c] # work[c] =>
       /\ names'["foreign"] = names["foreign"]
       /\ \A n \in Taken : LET i == names["bound"][n] IN
            \/ inode[i].by = c
            \/ c \in raced
            \/ Told(c) = IF IsA("directory", i) THEN <<i, 0>> ELSE Version(i)
            \/ work[c].op = "detach" /\ names'["bound"][Aside] = i]_vars

\* What a call made and did not finish is gone when the call answers: no temporary, no
\* file of the capability probe and no half-written file stays, unless others changed
\* it, the cleanup itself failed, or a replacement failed after its temporary was
\* written and before it was compared (agent_governance_fs.c 130-143, 189-258;
\* native-filesystem.ts 105-111).
NoResidue ==
  \A c \in Callers :
    /\ work[c].at \in Ended /\ c \notin touched
    /\ work[c].failed \cap {"withdraw", "unlink made", "clearing"} = {}
    /\ work[c].op \in Writers =>
         work[c].failed \cap {"write", "sync", "compare temporary"} = {}
    => \A n \in Names : names["bound"][n] = c =>
         /\ n \notin Temporaries \cup {Source(c), Destination(c)}
         /\ inode[c].kind = "file" => inode[c].bytes = "new"
=============================================================================
