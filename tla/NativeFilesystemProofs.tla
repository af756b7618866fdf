----------------------- MODULE NativeFilesystemProofs -----------------------
(***************************************************************************)
(* What is proved of NativeFilesystem for any set of calls and process     *)
(* ids, and any bound on the changes of others and the faults: the types,  *)
(* that a call takes nothing away that it was not told of, and that it     *)
(* leaves nothing behind.                                                  *)
(* The inductive invariant has a part on the control of each call, a part  *)
(* on the names of the directory as a whole, a part for a call of which no *)
(* unguarded moment was hit, which gives OnlyBoundIsTaken, and a part for  *)
(* a call whose file nobody else changed, which gives NoResidue.           *)
(***************************************************************************)
EXTENDS NativeFilesystem, TLAPS

Bound == names["bound"]
IsWriter(c) == work[c].op \in Writers

\* The call has not made anything, and may still do so.
Fresh(c) == work[c].at \in {"idle", "read", "open", "make", "mkdirat"} /\ work[c].made = None

\* The call has a file, made by itself, that it has not yet given its name or removed.
Making(c) == \/ work[c].at \in {"write", "sync", "refresh", "close", "compare temporary",
                                "withdraw", "unlink made", "rename over"}
             \/ work[c].at = "compare" /\ IsWriter(c)
-----------------------------------------------------------------------------
(* The control of a call. *)

MakingPlaces == {"open", "make", "write", "sync", "close", "withdraw", "unlink made", "threw"}
ClearingPlaces == {"look", "open", "compare", "unlink"}

\* Where a call with operation op can stand, in phase p of a probe.
PlacesOf(op, p) ==
  CASE op \in Writers -> MakingPlaces \cup {"read", "compare temporary", "compare", "rename over",
                                            "readback", "returned"}
    [] op = "create" -> MakingPlaces \cup {"idle", "dead", "refresh", "readback", "returned"}
    [] op = "remove" -> {"read", "open", "compare", "unlink"} \cup Ended
    [] op \in {"detach", "move"} -> {"open", "stat", "rename"} \cup Ended
    [] op = "rmdir" -> {"open", "compare", "unlink"} \cup Ended
    [] op = "mkdir" -> {"open", "mkdirat", "check made"} \cup Ended
    [] op = "probe" ->
         CASE p = "create" -> MakingPlaces \cup {"refresh"}
           [] p = "rename" -> {"open", "stat", "rename"}
           [] p = "remove" -> ClearingPlaces \cup {"returned"}
           [] p = "clear source" -> ClearingPlaces
           [] p = "clear destination" -> ClearingPlaces \cup {"threw"}

NameOf(c, op, p) ==
  CASE op = "probe" /\ p \in {"create", "rename", "clear source"} -> Source(c)
    [] op = "probe" /\ p \notin {"create", "rename", "clear source"} -> Destination(c)
    [] op = "mkdir" -> Release
    [] op \in {"move", "rmdir"} -> Stage
    [] OTHER -> Entry

\* A call has made its file.
HasMade(r) == \/ r.at \in {"write", "sync", "refresh", "close", "compare temporary", "withdraw",
                           "unlink made", "rename over", "readback", "look"}
              \/ r.at = "compare" /\ r.op \in Writers
              \/ r.phase # "create"

Coherent(c, r) ==
  /\ r.at \in PlacesOf(r.op, r.phase)
  /\ r.name = NameOf(c, r.op, r.phase)
  /\ r.op # "probe" => r.phase = "create"
  /\ r.pid = Missing <=> r.op \notin Writers
  /\ r.handle = "bound"
  /\ r.made # None => r.made[1] = c /\ r.op \in Writers \cup {"create", "probe"}
  /\ HasMade(r) => r.made # None
  /\ r.at \in {"idle", "read", "make"} \/ (r.at = "open" /\ r.phase = "create") => r.made = None
  /\ r.op = "replace" /\ r.at \notin {"read", "threw"} => r.bound = r.owned
  /\ r.op \in {"move", "rmdir"} => r.bound[2] = 0

Control == \A c \in Callers : Coherent(c, work[c])

\* No two calls at work have the same process id.
DistinctPids == \A c, d \in Callers : c # d /\ Working(c) /\ Working(d) /\ IsWriter(c) =>
                                        work[c].pid # work[d].pid
-----------------------------------------------------------------------------
(* The names of the directory. *)

\* No inode has two names.
Injective == \A m, n \in Names : Bound[m] = Bound[n] /\ Bound[m] # Missing => m = n

\* The next inode of the others is at no name, nor is one of a call that has made nothing,
\* and nobody has seen it.
FreshOthers == \A n \in Names : Bound[n] \notin 2..(2 + othersLeft)
FreshCalls == \A c \in Callers : Fresh(c) =>
                /\ \A n \in Names : Bound[n] # c
                /\ \A d \in Callers : work[d].owned[1] # c /\ work[d].bound[1] # c
ForeignNames == \A n \in Names : names["foreign"][n] \notin Callers

\* No file has been written more often than by others, and once by the call that made it.
Stamps == /\ \A i \in Ids : inode[i].stamp <= 1 + MaxOthers - othersLeft
          /\ \A i \in Ids \ Callers : inode[i].stamp <= MaxOthers - othersLeft
          /\ \A c \in Callers : Fresh(c) \/ work[c].at = "write" =>
               inode[c].stamp <= MaxOthers - othersLeft

\* The names of a probe are its own.
PrivateNames(c) == \A n \in {Source(c), Destination(c)} :
                     /\ Bound[n] \in {Missing, c}
                     /\ Bound[n] = c => inode[c].by = c

\* At the temporary name of a writer is its own file, or one that is nobody's.
OwnTemporary(c) == IsWriter(c) /\ Working(c) /\ work[c].at \notin {"read", "open", "make"} =>
                     Bound[MakeName(c)] \notin Callers \ {c}

\* A call that makes a directory makes nothing else, and the others make files.
Kind(c) == /\ work[c].made # None => inode[c].kind = "file"
           /\ work[c].op = "mkdir" /\ (\E n \in Names : Bound[n] = c) => inode[c].kind = "directory"

\* A snapshot is never newer than the file.
Snapshot(c) == /\ work[c].made # None => work[c].made[2] <= inode[c].stamp
               /\ work[c].at = "write" => work[c].made[2] = 0

Own(c) == PrivateNames(c) /\ OwnTemporary(c) /\ Kind(c) /\ Snapshot(c)
-----------------------------------------------------------------------------
(* A call of which no unguarded moment was hit. *)

Unraced(c) ==
  /\ work[c].at \in {"write", "sync", "refresh"} => inode[c].by = c
  /\ work[c].made # None /\ inode[c].stamp = work[c].made[2] => inode[c].by = c
  /\ work[c].at = "unlink made" \/ (IsWriter(c) /\ work[c].at \in {"compare", "rename over"}) =>
       Bound[MakeName(c)] = c /\ inode[c].by = c
  /\ \/ work[c].at \in {"unlink", "rename over"}
     \/ work[c].at = "rename" /\ work[c].op = "move"
     => SameObject(c)

UnracedCalls == \A c \in Callers \ raced : Unraced(c)
-----------------------------------------------------------------------------
(* A call whose file nobody else changed or moved. *)

\* The names its file can have.
Homes(c) == CASE IsWriter(c)            -> {MakeName(c), Entry}
              [] work[c].op = "create"  -> {Entry}
              [] work[c].op = "probe"   -> {Source(c), Destination(c)}
              [] work[c].op = "mkdir"   -> {Release}
              [] OTHER                  -> {}

\* The name its file has.
AtHome(c) ==
  /\ \A n \in Names : Bound[n] = c => n \in Homes(c)
  /\ Making(c) => Bound[MakeName(c)] = c
  /\ work[c].at = "readback" => Bound[Entry] = c
  /\ work[c].phase = "rename" => Bound[Source(c)] = c
  /\ work[c].phase = "remove" /\ work[c].at # "returned" => Bound[Destination(c)] = c

\* Its contents.
Intact(c) ==
  /\ work[c].made # None => inode[c].by = c
  /\ \/ work[c].at \in {"sync", "close", "compare temporary", "rename over", "readback"}
     \/ work[c].at = "compare" /\ IsWriter(c)
     => inode[c].bytes = "new"
  /\ \/ work[c].at \in {"close", "compare temporary", "rename over"}
     \/ work[c].at = "compare" /\ IsWriter(c)
     \/ work[c].at = "withdraw" /\ (IsWriter(c) => work[c].failed \cap {"write", "sync"} = {})
     => work[c].made = Version(c)

\* A probe that clears up finds what is left of it.
Cleared(c) ==
  /\ work[c].op = "probe" /\ Working(c) /\ (work[c].made # None \/ work[c].at = "make") =>
       there = "bound"
  /\ work[c].phase = "clear source" /\ work[c].at \in {"open", "compare", "unlink"} =>
       Bound[Source(c)] = c /\ work[c].bound = Version(c)
  /\ work[c].phase = "clear destination" /\ "clearing" \notin work[c].failed =>
       /\ Bound[Source(c)] # c
       /\ work[c].at \in {"open", "compare", "unlink"} =>
            Bound[Destination(c)] = c /\ work[c].bound = Version(c)

Answered(c) ==
  /\ work[c].at \in Ended
  /\ work[c].failed \cap {"withdraw", "unlink made", "clearing"} = {}
  /\ IsWriter(c) => work[c].failed \cap {"write", "sync", "compare temporary"} = {}
  => \A n \in Names : Bound[n] = c =>
       /\ n \notin Temporaries \cup {Source(c), Destination(c)}
       /\ inode[c].kind = "file" => inode[c].bytes = "new"

Untouched(c) == AtHome(c) /\ Intact(c) /\ Cleared(c) /\ Answered(c)

UntouchedCalls == \A c \in Callers \ touched : work[c].at # "dead" => Untouched(c)
-----------------------------------------------------------------------------
Directories == /\ Injective /\ FreshOthers /\ FreshCalls /\ ForeignNames /\ Stamps
               /\ \A c \in Callers : Own(c)

Inv == TypeOK /\ Control /\ DistinctPids /\ Directories /\ UnracedCalls /\ UntouchedCalls
-----------------------------------------------------------------------------
(* Types. *)

Calls == [at : Places, op : Operations, pid : Pids \cup {Missing},
          handle : {"bound", "foreign"}, name : Names, phase : Phases,
          owned : Snapshots, bound : Snapshots, made : Snapshots,
          failed : SUBSET (Places \cup {"clearing"})]

Inodes == [kind : {"file", "directory"},
           bytes : {"none", "old", "new", "other", "empty", "half"},
           stamp : 0..2 + MaxOthers, by : Callers \cup {Missing}]

\* Every name of the model is a name of the directory, and they are all different.
LEMMA NamesInNames ==
  /\ {Entry, Aside, Stage, Release} \subseteq Names
  /\ \A c \in Callers : Source(c) \in Names /\ Destination(c) \in Names
  /\ \A p \in Pids : Name("temporary", p) \in Names /\ Name("temporary", p) \in Temporaries
  /\ Temporaries \subseteq Names
BY DEF Names, Shared, Temporaries

LEMMA NamesApart ==
  /\ Entry # Aside /\ Entry # Stage /\ Entry # Release
  /\ Aside # Stage /\ Aside # Release /\ Stage # Release
  /\ \A x, y : /\ Source(x) # Destination(y)
               /\ Source(x) \notin Shared /\ Destination(x) \notin Shared
               /\ Source(x) \notin {Entry, Aside, Stage, Release}
               /\ Destination(x) \notin {Entry, Aside, Stage, Release}
               /\ Source(x) = Source(y) => x = y
               /\ Destination(x) = Destination(y) => x = y
               /\ Name("temporary", x) \notin {Entry, Aside, Stage, Release}
               /\ Name("temporary", x) # Source(y) /\ Name("temporary", x) # Destination(y)
               /\ Name("temporary", x) = Name("temporary", y) => x = y
               /\ {Entry, Aside, Stage, Release} \cap Temporaries = {}
               /\ Source(x) \notin Temporaries /\ Destination(x) \notin Temporaries
BY DEF Name, Entry, Aside, Stage, Release, Source, Destination, Shared, Temporaries

\* The numbers of others are inodes, and no call is a number.
LEMMA IdsApart ==
  /\ Callers \subseteq Ids /\ 0 \in Ids /\ 1 \in Ids /\ 2 \in Ids
  /\ \A k \in 1..MaxOthers : 2 + k \in Ids
  /\ Missing \notin Ids /\ Missing \notin Callers
  /\ \A c \in Callers : c \notin Nat
  /\ \A i \in Ids \ Callers : i \in Nat
BY CallersAssumption, BoundsAssumption DEF Ids

LEMMA NoneIsSnapshot == None \in Snapshots
BY BoundsAssumption, IdsApart DEF None, Snapshots

LEMMA VersionIsSnapshot ==
  ASSUME TypeOK, NEW i \in Ids \cup {Missing}
  PROVE  Version(i) \in Snapshots /\ (i # Missing => Version(i) = <<i, inode[i].stamp>>)
         /\ (Version(i) = None <=> i = Missing)
<1>1. CASE i = Missing
  BY <1>1, NoneIsSnapshot DEF Version
<1>2. CASE i # Missing
  <2>1. inode[i].stamp \in 0..2 + MaxOthers
    BY <1>2 DEF TypeOK
  <2>2. QED
    BY <1>2, <2>1 DEF Version, Snapshots, None
<1>3. QED
  BY <1>1, <1>2

-----------------------------------------------------------------------------
(* Where a call goes. *)

LEMMA TypedCall ==
  ASSUME TypeOK, NEW c \in Callers
  PROVE  /\ work[c] \in Calls
         /\ \A place \in Places : To(c, place) \in Calls
BY SMTT(30) DEF TypeOK, Calls, To

LEMMA ThrownIsCall ==
  ASSUME TypeOK, Control, NEW c \in Callers
  PROVE  Thrown(c) \in Calls
<1> DEFINE r == work[c]
<1>1. r \in Calls /\ To(c, "threw") \in Calls /\ To(c, "look") \in Calls
  BY TypedCall DEF Places, Ended
<1>2. r.op # "probe" => r.phase = "create"
  BY DEF Control, Coherent
<1>3. Source(c) \in Names /\ Destination(c) \in Names
  BY NamesInNames
<1>4. r.phase \in {"create", "rename", "remove", "clear source", "clear destination"}
  BY <1>1 DEF Calls, Phases, Clearing
<1>5. CASE r.op # "probe" \/ r.phase \in {"create", "clear destination"}
  BY <1>1, <1>2, <1>5 DEF Thrown
<1>6. CASE r.op = "probe" /\ r.phase \in {"rename", "remove"}
  BY <1>1, <1>3, <1>6 DEF Thrown, Calls, To, Phases, Clearing
<1>7. CASE r.op = "probe" /\ r.phase = "clear source"
  BY <1>1, <1>3, <1>7 DEF Thrown, Calls, To, Phases, Clearing
<1>8. QED
  BY <1>4, <1>5, <1>6, <1>7

\* A call that stands after the making of its file, or has not made one, can throw.
LEMMA ThrownIsCoherent ==
  ASSUME TypeOK, Control, NEW c \in Callers, work[c].at \notin {"idle", "dead"}
  PROVE  Coherent(c, Thrown(c))
<1> DEFINE r == work[c]
<1>1. r \in Calls /\ Coherent(c, r)
  BY TypedCall DEF Control
<1>2. r.phase \in {"create", "rename", "remove", "clear source", "clear destination"}
  BY <1>1 DEF Calls, Phases, Clearing
<1>3. CASE r.op # "probe"
  <2>2. r.op \in Operations /\ r.phase = "create"
    BY <1>1, <1>3 DEF Calls, Coherent
  <2>1. Thrown(c) = [r EXCEPT !.at = "threw"]
    BY <1>3, <2>2 DEF Thrown, To
  <2>3. "threw" \in PlacesOf(r.op, r.phase)
    BY <1>3, <2>2 DEF PlacesOf, MakingPlaces, Operations, Ended, Writers
  <2>4. QED
    BY <1>1, <2>1, <2>2, <2>3 DEF Coherent, Calls, HasMade
<1>4. CASE r.op = "probe" /\ r.phase \in {"create", "clear destination"}
  <2>1. Thrown(c) = [r EXCEPT !.at = "threw"]
    BY <1>4 DEF Thrown, To
  <2>2. "threw" \in PlacesOf(r.op, r.phase)
    BY <1>4 DEF PlacesOf, MakingPlaces, Writers
  <2>3. QED
    BY <1>1, <1>4, <2>1, <2>2 DEF Coherent, Calls, HasMade
<1>5. CASE r.op = "probe" /\ r.phase \in {"rename", "remove", "clear source"}
  <2> DEFINE p == IF r.phase = "clear source" THEN "clear destination" ELSE "clear source"
             n == IF r.phase = "clear source" THEN Destination(c) ELSE Source(c)
  <2>1. Thrown(c) = [r EXCEPT !.at = "look", !.phase = p, !.name = n]
    BY <1>1, <1>5 DEF Thrown, To, Calls
  <2>2. "look" \in PlacesOf("probe", p) /\ n = NameOf(c, "probe", p)
    BY <1>5 DEF PlacesOf, ClearingPlaces, NameOf, Writers
  <2>3. r.made # None
    BY <1>1, <1>5 DEF Coherent, HasMade
  <2> HIDE DEF p, n
  <2>4. p # "create"
    BY <1>5 DEF p
  <2>5. /\ Thrown(c).at = "look" /\ Thrown(c).phase = p /\ Thrown(c).name = n
        /\ Thrown(c).op = "probe" /\ Thrown(c).pid = r.pid /\ Thrown(c).handle = r.handle
        /\ Thrown(c).made = r.made
    BY <1>1, <1>5, <2>1 DEF Calls
  <2>6. r.pid = Missing /\ r.handle = "bound" /\ r.made[1] = c
    BY <1>1, <1>5, <2>3 DEF Coherent, Writers
  <2>7. QED
    BY <2>2, <2>3, <2>4, <2>5, <2>6 DEF Coherent, HasMade, Writers
<1>6. QED
  BY <1>2, <1>3, <1>4, <1>5

LEMMA DoneIsCoherent ==
  ASSUME TypeOK, Control, NEW c \in Callers,
         work[c].at \in {"close", "readback", "unlink", "rename", "check made"}
  PROVE  Done(c) \in Calls /\ Coherent(c, Done(c))
<1> DEFINE r == work[c]
<1>1. r \in Calls /\ Coherent(c, r) /\ To(c, "returned") \in Calls
  BY TypedCall DEF Control, Places, Ended
<1>2. r.phase \in {"create", "rename", "remove", "clear source", "clear destination"}
  BY <1>1 DEF Calls, Phases, Clearing
<1>3. CASE r.op # "probe"
  <2>2. r.op \in Operations /\ r.phase = "create"
    BY <1>1, <1>3 DEF Calls, Coherent
  <2>1. Done(c) = [r EXCEPT !.at = "returned"]
    BY <1>3, <2>2 DEF Done, To
  <2>3. "returned" \in PlacesOf(r.op, r.phase)
    BY <1>3, <2>2 DEF PlacesOf, MakingPlaces, Operations, Ended, Writers
  <2>4. QED
    BY ZenonT(30), <1>1, <1>3, <2>1, <2>2, <2>3 DEF Coherent, Calls, HasMade, Done
<1>4. CASE r.op = "probe" /\ r.phase = "create"
  <2>1. Done(c) = [r EXCEPT !.at = "open", !.phase = "rename"]
    BY <1>1, <1>4 DEF Done, To, Calls
  <2>2. "open" \in PlacesOf("probe", "rename")
    BY DEF PlacesOf, Writers
  <2>3. r.at = "close" /\ r.made # None
    BY <1>1, <1>4 DEF Coherent, HasMade, PlacesOf, MakingPlaces, Writers
  <2>4. r.name = Source(c) /\ NameOf(c, "probe", "rename") = Source(c)
    BY <1>1, <1>4 DEF Coherent, NameOf
  <2>5. Done(c) \in Calls
    BY <1>1, <2>1 DEF Calls, Places, Phases
  <2>6. QED
    BY <1>1, <1>4, <2>1, <2>2, <2>3, <2>4, <2>5 DEF Coherent, Calls, HasMade, Writers
<1>5. CASE r.op = "probe" /\ r.phase = "rename"
  <2>1. Done(c) = [r EXCEPT !.at = "look", !.phase = "remove", !.name = Destination(c)]
    BY <1>1, <1>5 DEF Done, To, Calls
  <2>2. "look" \in PlacesOf("probe", "remove")
    BY DEF PlacesOf, ClearingPlaces, Writers
  <2>3. r.made # None
    BY <1>1, <1>5 DEF Coherent, HasMade
  <2>4. NameOf(c, "probe", "remove") = Destination(c) /\ Destination(c) \in Names
    BY NamesInNames DEF NameOf
  <2>5. Done(c) \in Calls
    BY ZenonT(30), <1>1, <2>1, <2>4 DEF Calls, Places, Phases
  <2>6. /\ Done(c).at = "look" /\ Done(c).phase = "remove" /\ Done(c).name = Destination(c)
        /\ Done(c).op = "probe" /\ Done(c).pid = r.pid /\ Done(c).handle = r.handle
        /\ Done(c).made = r.made
    BY <1>1, <1>5, <2>1 DEF Calls
  <2>7. r.pid = Missing /\ r.handle = "bound" /\ r.made[1] = c
    BY <1>1, <1>5, <2>3 DEF Coherent, Writers
  <2>8. QED
    BY <2>2, <2>3, <2>4, <2>5, <2>6, <2>7 DEF Coherent, HasMade, Writers
<1>6. CASE r.op = "probe" /\ r.phase = "remove"
  <2>1. Done(c) = [r EXCEPT !.at = "returned"]
    BY <1>6 DEF Done, To
  <2>2. "returned" \in PlacesOf(r.op, r.phase)
    BY <1>6 DEF PlacesOf, Writers
  <2>3. QED
    BY ZenonT(30), <1>1, <1>6, <2>1, <2>2 DEF Coherent, Calls, HasMade, Done
<1>7. CASE r.op = "probe" /\ r.phase \in Clearing
  <2>1. Done(c) = Thrown(c)
    BY <1>7 DEF Done, Clearing
  <2>2. QED
    BY <2>1, ThrownIsCall, ThrownIsCoherent
<1>8. QED
  BY <1>2, <1>3, <1>4, <1>5, <1>6, <1>7 DEF Clearing


\* To a place that the operation has, where the call has what HasMade asks for.
LEMMA ToIsCoherent ==
  ASSUME TypeOK, Control, NEW c \in Callers,
         NEW place \in Places \ {"idle", "read", "open", "make"},
         place \in PlacesOf(work[c].op, work[c].phase),
         work[c].made # None \/ ~HasMade(To(c, place)),
         work[c].at \notin {"read", "threw"}
  PROVE  To(c, place) \in Calls /\ Coherent(c, To(c, place))
<1>1. work[c] \in Calls /\ Coherent(c, work[c]) /\ To(c, place) \in Calls
  BY TypedCall DEF Control
<1>2. /\ To(c, place).at = place /\ To(c, place).op = work[c].op
      /\ To(c, place).phase = work[c].phase /\ To(c, place).name = work[c].name
      /\ To(c, place).pid = work[c].pid /\ To(c, place).handle = work[c].handle
      /\ To(c, place).made = work[c].made /\ To(c, place).bound = work[c].bound
      /\ To(c, place).owned = work[c].owned
  BY <1>1 DEF To, Calls
<1>3. QED
  BY <1>1, <1>2 DEF Coherent


CallStep(c) == \/ \E op \in Operations, pid \in Pids \cup {Missing} : Begin(c, op, pid)
               \/ Read(c) \/ Look(c) \/ Open(c) \/ Make(c) \/ Write(c) \/ Sync(c) \/ Close(c)
               \/ Readback(c) \/ Refresh(c) \/ Withdraw(c) \/ UnlinkMade(c)
               \/ CompareTemporary(c) \/ Compare(c) \/ RenameOver(c) \/ Unlink(c)
               \/ Stat(c) \/ Rename(c) \/ MakeDirectory(c) \/ CheckMade(c)
               \/ CallFails(c) \/ Die(c)

\* The inode at a name, and its version as a snapshot.
LEMMA InodeAtName ==
  ASSUME TypeOK, NEW d \in {"bound", "foreign"}, NEW n \in Names
  PROVE  /\ names[d][n] \in Ids \cup {Missing}
         /\ Version(names[d][n]) \in Snapshots
         /\ <<names[d][n], 0>> \in Snapshots
<1>1. names[d][n] \in Ids \cup {Missing}
  BY DEF TypeOK
<1>2. QED
  BY <1>1, VersionIsSnapshot, BoundsAssumption DEF Snapshots

LEMMA BeginIsCoherent ==
  ASSUME TypeOK, Control, NEW c \in Callers, NEW op \in Operations,
         NEW pid \in Pids \cup {Missing}, Begin(c, op, pid)
  PROVE  \E r \in Calls : Become(c, r) /\ Coherent(c, r)
<1> DEFINE n == CASE op = "probe" -> Source(c) [] op = "mkdir" -> Release
                  [] op \in {"move", "rmdir"} -> Stage [] OTHER -> Entry
           owned == IF op = "replace" THEN Version(names[there][Entry]) ELSE None
           bound == IF op \in {"move", "rmdir"} THEN <<names[there][Stage], 0>> ELSE None
           at == IF op \in Writers \cup {"remove"} THEN "read" ELSE "open"
           r == [Idle EXCEPT !.at = at, !.op = op, !.pid = pid, !.name = n,
                             !.owned = owned, !.bound = bound]
<1>1. Become(c, r)
  BY DEF Begin, Go
<1>2. n \in Names /\ n = NameOf(c, op, "create")
  BY NamesInNames DEF NameOf
<1>3. owned \in Snapshots /\ bound \in Snapshots
  BY NamesInNames, InodeAtName, NoneIsSnapshot DEF TypeOK
<1>4. Idle \in Calls
  BY NoneIsSnapshot, NamesInNames DEF Idle, Calls, Places, Operations, Phases
<1>5. at \in {"read", "open"} /\ at \in PlacesOf(op, "create")
  BY DEF PlacesOf, MakingPlaces, Operations, Writers
<1>6. bound = None \/ bound = <<names[there][Stage], 0>>
  OBVIOUS
<1>7. pid = Missing <=> op \notin Writers
  BY DEF Begin
<1>8. op = "replace" => at = "read"
  BY DEF Writers
<1> HIDE DEF n, owned, bound, at
<1>9. r \in Calls
  BY <1>2, <1>3, <1>4, <1>5 DEF Calls, Places
<1>10. /\ r.at = at /\ r.op = op /\ r.pid = pid /\ r.name = n /\ r.owned = owned
       /\ r.bound = bound /\ r.phase = "create" /\ r.made = None /\ r.handle = "bound"
  BY DEF Idle
<1>11. bound[2] = 0
  BY <1>6 DEF None
<1>12. Coherent(c, r)
  BY <1>2, <1>5, <1>7, <1>8, <1>10, <1>11 DEF Coherent, HasMade
<1>13. QED
  BY <1>1, <1>9, <1>12


LEMMA FailureIsCoherent ==
  ASSUME TypeOK, Control, NEW c \in Callers, CallFails(c)
  PROVE  \E r \in Calls : Become(c, r) /\ Coherent(c, r)
<1> DEFINE a == AfterFault(c)
           failed == a.failed \cup {IF work[c].phase \in Clearing THEN "clearing"
                                    ELSE work[c].at}
           r == [a EXCEPT !.failed = failed]
<1>1. work[c] \in Calls /\ Coherent(c, work[c])
  BY TypedCall DEF Control
<1>2. Working(c) /\ work[c].at \notin {"idle", "dead", "refresh", "threw"}
  BY DEF CallFails, Working, At, Ended
<1>4. a \in Calls /\ Coherent(c, a)
  <2> DEFINE writer == work[c].op \in Writers
  <2>1. CASE work[c].at \in {"write", "sync"} /\ ~ writer
    <3>1. a = To(c, "refresh")
      BY <2>1 DEF AfterFault
    <3>2. "refresh" \in PlacesOf(work[c].op, work[c].phase) /\ work[c].made # None
      BY <1>1, <2>1 DEF Coherent, Calls, Operations, Phases, Clearing, PlacesOf, MakingPlaces, ClearingPlaces, HasMade, Ended, Writers
    <3>3. QED
      BY <1>2, <2>1, <3>1, <3>2, ToIsCoherent DEF Places
  <2>2. CASE \/ work[c].at \in {"write", "sync"} /\ writer
             \/ work[c].at = "close"
             \/ work[c].at \in {"compare", "rename over"} /\ writer
    <3>1. a = To(c, "withdraw")
      BY <2>2 DEF AfterFault
    <3>2. "withdraw" \in PlacesOf(work[c].op, work[c].phase) /\ work[c].made # None
      BY <1>1, <2>2 DEF Coherent, Calls, Operations, Phases, Clearing, PlacesOf, MakingPlaces, ClearingPlaces, HasMade, Ended, Writers
    <3>3. QED
      BY <1>2, <2>2, <3>1, <3>2, ToIsCoherent DEF Places
  <2>3. CASE ~ \/ work[c].at \in {"write", "sync", "close"}
               \/ work[c].at \in {"compare", "rename over"} /\ writer
    <3>1. a = Thrown(c)
      BY <2>3 DEF AfterFault
    <3>2. QED
      BY <1>2, <3>1, ThrownIsCall, ThrownIsCoherent
  <2>4. QED
    BY <2>1, <2>2, <2>3
<1>5. Become(c, r)
  BY DEF CallFails
<1> HIDE DEF a
<1>3. failed \in SUBSET (Places \cup {"clearing"})
  BY <1>1, <1>4 DEF Calls
<1> HIDE DEF failed
<1>6. r \in Calls
  BY <1>3, <1>4 DEF Calls
<1>7. /\ r.at = a.at /\ r.op = a.op /\ r.phase = a.phase /\ r.name = a.name /\ r.pid = a.pid
      /\ r.handle = a.handle /\ r.owned = a.owned /\ r.bound = a.bound /\ r.made = a.made
  BY <1>4 DEF Calls
<1>8. Coherent(c, r)
  BY <1>4, <1>7 DEF Coherent, HasMade
<1>9. QED
  BY <1>5, <1>6, <1>8

\* Whatever a call does, it comes to a place of its operation.
LEMMA StepIsCoherent ==
  ASSUME TypeOK, Control, NEW c \in Callers, CallStep(c)
  PROVE  \E r \in Calls : Become(c, r) /\ Coherent(c, r)
<1> DEFINE Goal == \E r \in Calls : Become(c, r) /\ Coherent(c, r)
           op == work[c].op
           phase == work[c].phase
<1> USE DEF Go
<1>1. work[c] \in Calls /\ Coherent(c, work[c])
  BY TypedCall DEF Control
<1>thrown. ASSUME Become(c, Thrown(c)), work[c].at \notin {"idle", "dead"} PROVE Goal
  BY <1>thrown, ThrownIsCall, ThrownIsCoherent
<1>done. ASSUME Become(c, Done(c)),
                work[c].at \in {"close", "readback", "unlink", "rename", "check made"}
         PROVE  Goal
  BY <1>done, DoneIsCoherent
<1>to. ASSUME NEW place \in Places \ {"idle", "read", "open", "make"}, Become(c, To(c, place)),
              place \in PlacesOf(op, phase), work[c].at \notin {"read", "threw"},
              work[c].made # None \/ ~HasMade(To(c, place))
       PROVE  Goal
  BY <1>to, ToIsCoherent
<1>places. /\ op \in Operations
           /\ phase \in {"create", "rename", "remove", "clear source", "clear destination"}
           /\ work[c].made # None => op \in Writers \cup {"create", "probe"}
           /\ HasMade(work[c]) => work[c].made # None
           /\ work[c].at \in PlacesOf(op, phase)
  BY <1>1 DEF Coherent, Calls, Phases, Clearing
<1> SUFFICES Goal
  OBVIOUS
<1> HIDE DEF Goal
<1>begin. ASSUME NEW o \in Operations, NEW pid \in Pids \cup {Missing}, Begin(c, o, pid)
          PROVE  Goal
  BY <1>begin, BeginIsCoherent DEF Goal
<1>sync. CASE Sync(c)
  <2>1. "close" \in PlacesOf(op, phase) /\ work[c].made # None
    BY <1>places, <1>sync DEF Sync, At, PlacesOf, MakingPlaces, ClearingPlaces, HasMade, Ended, Writers
  <2>2. To(c, "close") \in Calls /\ Coherent(c, To(c, "close"))
    BY <2>1, <1>sync, ToIsCoherent DEF Sync, At, Places
  <2> DEFINE r == [To(c, "close") EXCEPT !.made = Version(c)]
  <2>3. Version(c) \in Snapshots /\ Version(c)[1] = c /\ Version(c) # None
    BY VersionIsSnapshot, IdsApart
  <2>4. r \in Calls
    BY <2>2, <2>3 DEF Calls
  <2>5. Coherent(c, r)
    <3> DEFINE t == To(c, "close")
    <3>1. t.at = "close"
      BY <1>1 DEF To, Calls
    <3>2. op \in Writers \cup {"create", "probe"} /\ t.op = op
      BY <1>1, <2>1, <1>places DEF To, Calls
    <3> HIDE DEF t
    <3>3. /\ r.at = t.at /\ r.op = t.op /\ r.phase = t.phase /\ r.name = t.name /\ r.pid = t.pid
          /\ r.handle = t.handle /\ r.owned = t.owned /\ r.bound = t.bound
          /\ r.made = Version(c)
      BY <2>2 DEF Calls, t
    <3>4. Coherent(c, t)
      BY <2>2 DEF t
    <3>5. t.made # None
      BY <3>1, <3>4 DEF Coherent, HasMade
    <3>6. QED
      BY <2>3, <3>1, <3>2, <3>3, <3>4, <3>5 DEF Coherent, HasMade
  <2>6. Become(c, r)
    BY <1>sync DEF Sync
  <2>7. QED
    BY <2>4, <2>5, <2>6 DEF Goal
<1>fails. CASE CallFails(c)
  BY <1>fails, FailureIsCoherent DEF Goal
<1>die. CASE Die(c)
  <2> DEFINE r == [Idle EXCEPT !.at = "dead"]
  <2>1. r \in Calls
    BY NoneIsSnapshot, NamesInNames DEF Idle, Calls, Places, Operations, Phases
  <2>2. Coherent(c, r)
    BY DEF Idle, Coherent, PlacesOf, NameOf, HasMade, None, Writers
  <2>3. QED
    BY <1>die, <2>1, <2>2 DEF Die, Goal

<1>refresh. CASE Refresh(c)
  <2>1. "withdraw" \in PlacesOf(op, phase) /\ work[c].made # None
    BY <1>places, <1>refresh DEF Refresh, At, PlacesOf, MakingPlaces, ClearingPlaces, HasMade, Ended, Writers
  <2>2. To(c, "withdraw") \in Calls /\ Coherent(c, To(c, "withdraw"))
    BY <2>1, <1>refresh, ToIsCoherent DEF Refresh, At, Places
  <2> DEFINE t == To(c, "withdraw")
             r == [t EXCEPT !.made = Version(c)]
  <2>3. Version(c) \in Snapshots /\ Version(c)[1] = c /\ Version(c) # None
    BY VersionIsSnapshot, IdsApart
  <2>4. r \in Calls
    BY <2>2, <2>3 DEF Calls
  <2>5. t.at = "withdraw" /\ op \in Writers \cup {"create", "probe"} /\ t.op = op
    BY <1>1, <2>1, <1>places DEF To, Calls
  <2>6. Become(c, r)
    BY <1>refresh DEF Refresh
  <2> HIDE DEF t
  <2>7. /\ r.at = t.at /\ r.op = t.op /\ r.phase = t.phase /\ r.name = t.name /\ r.pid = t.pid
        /\ r.handle = t.handle /\ r.owned = t.owned /\ r.bound = t.bound
        /\ r.made = Version(c)
    BY <2>2 DEF Calls, t
  <2>8. Coherent(c, t) /\ t.made # None
    BY <2>2, <2>5 DEF t, Coherent, HasMade
  <2>9. Coherent(c, r)
    BY <2>3, <2>5, <2>7, <2>8 DEF Coherent, HasMade
  <2>10. QED
    BY <2>4, <2>6, <2>9 DEF Goal
<1>read. CASE Read(c)
  <2>1. CASE Become(c, Thrown(c))
    BY <2>1, <1>read, <1>thrown DEF Read, At
  <2>2. CASE Become(c, [To(c, "open") EXCEPT !.bound = Passed(c, Version(names[there][Entry]))])
    <3> DEFINE b == Passed(c, Version(names[there][Entry]))
               r == [To(c, "open") EXCEPT !.bound = b]
    <3>1. b \in Snapshots /\ (op = "replace" => b = work[c].owned)
      BY <1>1, NamesInNames, InodeAtName DEF Passed, TypeOK, Calls
    <3> HIDE DEF b
    <3>2. /\ r.at = "open" /\ r.op = op /\ r.phase = phase /\ r.name = work[c].name
          /\ r.pid = work[c].pid /\ r.handle = work[c].handle /\ r.owned = work[c].owned
          /\ r.bound = b /\ r.made = work[c].made /\ r \in Calls
      BY <1>1, <3>1 DEF To, Calls, Places
    <3>3. "open" \in PlacesOf(op, phase) /\ op \in Writers \cup {"remove"}
      BY <1>places, <1>read DEF Read, At, PlacesOf, MakingPlaces, ClearingPlaces, Ended, Writers, Operations
    <3>4. Coherent(c, r)
      BY <1>1, <1>read, <3>1, <3>2, <3>3 DEF Read, At, Coherent, HasMade, Writers
    <3>5. QED
      BY <2>2, <3>2, <3>4 DEF Goal, b
  <2>3. QED
    BY <1>read, <2>1, <2>2 DEF Read, Throw
<1>look. CASE Look(c)
  <2> DEFINE v == Version(names[there][work[c].name])
             r == [To(c, "open") EXCEPT !.bound = v]
  <2>1. CASE Become(c, Thrown(c))
    BY <2>1, <1>look, <1>thrown DEF Look, At
  <2>2. CASE Become(c, r)
    <3>1. v \in Snapshots
      BY <1>1, InodeAtName DEF TypeOK, Calls
    <3> HIDE DEF v
    <3>2. /\ r.at = "open" /\ r.op = op /\ r.phase = phase /\ r.name = work[c].name
          /\ r.pid = work[c].pid /\ r.handle = work[c].handle /\ r.owned = work[c].owned
          /\ r.bound = v /\ r.made = work[c].made /\ r \in Calls
      BY <1>1, <3>1 DEF To, Calls, Places
    <3>3. "open" \in PlacesOf(op, phase) /\ op = "probe" /\ phase # "create"
      BY <1>places, <1>look DEF Look, At, PlacesOf, MakingPlaces, ClearingPlaces, Ended, Writers, Operations
    <3>4. Coherent(c, r)
      BY <1>1, <1>look, <3>1, <3>2, <3>3 DEF Look, At, Coherent, HasMade, Writers
    <3>5. QED
      BY <2>2, <3>2, <3>4 DEF Goal
  <2>3. QED
    BY <1>look, <2>1, <2>2 DEF Look, Throw
<1>open. CASE Open(c)
  <2>1. CASE Become(c, Thrown(c))
    BY <2>1, <1>open, <1>thrown DEF Open, At
  <2>2. CASE Identified(there) /\ Become(c, [To(c, Start(c)) EXCEPT !.handle = there])
    <3> DEFINE s == Start(c)
               r == [To(c, s) EXCEPT !.handle = there]
    <3>1. /\ s \in {"make", "compare", "stat", "mkdirat"} /\ s \in PlacesOf(op, phase)
          /\ s = "make" => phase = "create"
          /\ s = "compare" => op \notin Writers
      BY <1>1, <1>places, <1>open DEF Open, At, Start, PlacesOf, MakingPlaces, ClearingPlaces, Ended, Writers, Operations, Coherent
    <3> HIDE DEF s
    <3>2. /\ r.at = s /\ r.op = op /\ r.phase = phase /\ r.name = work[c].name
          /\ r.pid = work[c].pid /\ r.handle = "bound" /\ r.owned = work[c].owned
          /\ r.bound = work[c].bound /\ r.made = work[c].made /\ r \in Calls
      BY <1>1, <2>2, <3>1 DEF To, Calls, Places, Identified
    <3>3. Coherent(c, r)
      BY <1>1, <1>open, <3>1, <3>2 DEF Open, At, Coherent, HasMade
    <3>4. QED
      BY <2>2, <3>2, <3>3 DEF Goal, s
  <2>3. QED
    BY <1>open, <2>1, <2>2 DEF Open, Throw
<1>make. CASE Make(c)
  <2>1. CASE Become(c, Thrown(c))
    BY <2>1, <1>make, <1>thrown DEF Make, At
  <2>2. CASE Become(c, [To(c, "write") EXCEPT !.made = <<c, 0>>])
    <3> DEFINE r == [To(c, "write") EXCEPT !.made = <<c, 0>>]
    <3>1. <<c, 0>> \in Snapshots /\ <<c, 0>> # None /\ <<c, 0>>[1] = c
      BY IdsApart, BoundsAssumption DEF Snapshots, None
    <3>2. /\ r.at = "write" /\ r.op = op /\ r.phase = phase /\ r.name = work[c].name
          /\ r.pid = work[c].pid /\ r.handle = work[c].handle /\ r.owned = work[c].owned
          /\ r.bound = work[c].bound /\ r.made = <<c, 0>> /\ r \in Calls
      BY <1>1, <3>1 DEF To, Calls, Places
    <3>3. "write" \in PlacesOf(op, phase) /\ op \in Writers \cup {"create", "probe"}
      BY <1>places, <1>make DEF Make, At, PlacesOf, MakingPlaces, ClearingPlaces, Ended, Writers, Operations
    <3>4. Coherent(c, work[c]) /\ work[c].at = "make"
      BY <1>1, <1>make DEF Make, At
    <3> HIDE DEF r
    <3>6. Coherent(c, r)
      BY <3>1, <3>2, <3>3, <3>4 DEF Coherent, HasMade
    <3>5. QED
      BY <2>2, <3>2, <3>6 DEF Goal, r
  <2>3. QED
    BY <1>make, <2>1, <2>2 DEF Make, Throw
<1>write. CASE Write(c)
  <2>1. "sync" \in PlacesOf(op, phase) /\ work[c].made # None
    BY <1>places, <1>write DEF Write, At, PlacesOf, MakingPlaces, ClearingPlaces, HasMade, Ended, Writers
  <2>2. QED
    BY <2>1, <1>write, <1>to DEF Write, At, Places
<1>close. CASE Close(c)
  <2>1. work[c].at = "close" /\ work[c].made # None
    BY <1>places, <1>close DEF Close, At, HasMade
  <2>2. CASE op \in Writers
    <3>1. "compare temporary" \in PlacesOf(op, phase)
      BY <2>2 DEF PlacesOf, Writers
    <3>2. QED
      BY <2>1, <2>2, <3>1, <1>close, <1>to DEF Close, Places, Writers
  <2>3. CASE op = "create"
    <3>1. "readback" \in PlacesOf(op, phase)
      BY <2>3 DEF PlacesOf, Writers
    <3>2. QED
      BY <2>1, <2>3, <3>1, <1>close, <1>to DEF Close, Places, Writers
  <2>4. CASE op \notin Writers \cup {"create"}
    BY <2>1, <2>4, <1>close, <1>done DEF Close
  <2>5. QED
    BY <2>2, <2>3, <2>4
<1>readback. CASE Readback(c)
  BY <1>readback, <1>done, <1>thrown DEF Readback, At, Throw
<1>withdraw. CASE Withdraw(c)
  <2>1. "unlink made" \in PlacesOf(op, phase) /\ work[c].made # None
    BY <1>places, <1>withdraw DEF Withdraw, At, PlacesOf, MakingPlaces, ClearingPlaces, HasMade, Ended, Writers
  <2>2. QED
    BY <2>1, <1>withdraw, <1>to, <1>thrown DEF Withdraw, At, Places, Throw
<1>unlinkMade. CASE UnlinkMade(c)
  BY <1>unlinkMade, <1>thrown DEF UnlinkMade, At, Throw, Take
<1>compareTemporary. CASE CompareTemporary(c)
  <2>1. "compare" \in PlacesOf(op, phase) /\ work[c].made # None
    BY <1>places, <1>compareTemporary DEF CompareTemporary, At, PlacesOf, MakingPlaces, ClearingPlaces, HasMade, Ended, Writers
  <2>2. QED
    BY <2>1, <1>compareTemporary, <1>to, <1>thrown DEF CompareTemporary, At, Places, Throw
<1>compare. CASE Compare(c)
  <2>1. op \in Writers => /\ {"withdraw", "rename over"} \subseteq PlacesOf(op, phase)
                          /\ work[c].made # None
    BY <1>places, <1>compare DEF Compare, At, PlacesOf, MakingPlaces, HasMade, Writers
  <2>2. op \notin Writers => ~HasMade(To(c, "unlink")) \/ work[c].made # None
    BY <1>1, <1>places, <1>compare DEF Compare, At, PlacesOf, MakingPlaces, ClearingPlaces, HasMade, Ended, Operations, To, Calls
  <2>3. op \notin Writers => "unlink" \in PlacesOf(op, phase)
    BY <1>1, <1>places, <1>compare DEF Compare, At, PlacesOf, MakingPlaces, ClearingPlaces, Ended, Operations, Writers
  <2>4. CASE op \in Writers
    BY <2>1, <2>4, <1>compare, <1>to DEF Compare, At, Places
  <2>5. CASE op \notin Writers
    BY <2>2, <2>3, <2>5, <1>compare, <1>to, <1>thrown DEF Compare, At, Places, Throw
  <2>6. QED
    BY <2>4, <2>5
<1>renameOver. CASE RenameOver(c)
  <2>1. {"withdraw", "readback"} \subseteq PlacesOf(op, phase) /\ work[c].made # None
    BY <1>places, <1>renameOver DEF RenameOver, At, PlacesOf, MakingPlaces, ClearingPlaces, HasMade, Ended, Writers
  <2>2. QED
    BY <2>1, <1>renameOver, <1>to DEF RenameOver, At, Places, Take
<1>unlink. CASE Unlink(c)
  BY <1>unlink, <1>done, <1>thrown DEF Unlink, At, Throw, Take
<1>stat. CASE Stat(c)
  <2>1. "rename" \in PlacesOf(op, phase) /\ (work[c].made # None \/ ~HasMade(To(c, "rename")))
    BY <1>1, <1>places, <1>stat DEF Stat, At, PlacesOf, MakingPlaces, ClearingPlaces, HasMade, Ended, Operations, Writers, To, Calls
  <2>2. QED
    BY <2>1, <1>stat, <1>to, <1>thrown DEF Stat, At, Places, Throw
<1>rename. CASE Rename(c)
  BY <1>rename, <1>done, <1>thrown DEF Rename, At, Throw, Take
<1>makeDirectory. CASE MakeDirectory(c)
  <2>1. "check made" \in PlacesOf(op, phase) /\ (work[c].made # None \/ ~HasMade(To(c, "check made")))
    BY <1>1, <1>places, <1>makeDirectory DEF MakeDirectory, At, PlacesOf, MakingPlaces, ClearingPlaces, HasMade, Ended, Operations, Writers, To, Calls
  <2>2. QED
    BY <2>1, <1>makeDirectory, <1>to, <1>thrown DEF MakeDirectory, At, Places, Throw
<1>checkMade. CASE CheckMade(c)
  BY <1>checkMade, <1>done, <1>thrown DEF CheckMade, At, Throw
<1>q. QED
  BY <1>begin, <1>read, <1>look, <1>open, <1>make, <1>write, <1>sync, <1>close, <1>readback,
     <1>refresh, <1>withdraw, <1>unlinkMade, <1>compareTemporary, <1>compare, <1>renameOver,
     <1>unlink, <1>stat, <1>rename, <1>makeDirectory, <1>checkMade, <1>fails, <1>die
  DEF CallStep

-----------------------------------------------------------------------------
(* What a step of a call does to the directory and its files. *)

Quiet == UNCHANGED <<names, inode, raced, touched>>

Renames(changed) == names' = [names EXCEPT !["bound"] = changed]

Makes(c, n, new) ==
  /\ \/ At(c, "make") /\ n = MakeName(c) /\ new = File("empty", c)
     \/ At(c, "mkdirat") /\ n = Release /\ new = Directory(c)
  /\ Bound[n] = Missing
  /\ Renames([Bound EXCEPT ![n] = c])
  /\ inode' = [inode EXCEPT ![c] = new]
  /\ UNCHANGED <<raced, touched>>

Writes(c, bytes) == /\ At(c, "write")
                    /\ Put(c, bytes)
                    /\ UNCHANGED <<names, touched>>

Removes(c, n) == /\ work[c].at \in {"unlink", "unlink made"} /\ Unguarded(c, n)
                 /\ Renames([Bound EXCEPT ![n] = Missing])
                 /\ Touch(c, n, FALSE)
                 /\ UNCHANGED inode

Replaces(c) == LET t == MakeName(c) IN
               /\ At(c, "rename over") /\ Bound[t] # Missing
               /\ Renames([Bound EXCEPT ![Entry] = Bound[t], ![t] = Missing])
               /\ Touch(c, Entry, FALSE)
               /\ UNCHANGED inode

Moves(c) == LET n == work[c].name IN
            /\ At(c, "rename") /\ Bound[n] # Missing /\ Bound[Target(c)] = Missing
            /\ Renames([Bound EXCEPT ![Target(c)] = Bound[n], ![n] = Missing])
            /\ Touch(c, n, FALSE)
            /\ UNCHANGED inode

Effect(c) == \/ Quiet
             \/ \E n \in Names, new \in Inodes : Makes(c, n, new)
             \/ \E bytes \in {"new", "half"} : Writes(c, bytes)
             \/ \E n \in Names : Removes(c, n)
             \/ Replaces(c)
             \/ Moves(c)

LEMMA MakeNameInNames ==
  ASSUME TypeOK, Control, NEW c \in Callers
  PROVE  MakeName(c) \in Names /\ work[c].name \in Names /\ Target(c) \in Names
<1>1. work[c] \in Calls /\ Coherent(c, work[c])
  BY TypedCall DEF Control
<1>2. work[c].op \in Writers => work[c].pid \in Pids
  BY <1>1 DEF Calls, Coherent
<1>3. work[c].name \in Names
  BY <1>1 DEF Calls
<1>4. MakeName(c) \in Names
  BY <1>2, <1>3, NamesInNames DEF MakeName
<1>5. Target(c) \in Names
  BY NamesInNames DEF Target
<1>6. QED
  BY <1>3, <1>4, <1>5

LEMMA StepHasEffect ==
  ASSUME TypeOK, Control, NEW c \in Callers, CallStep(c)
  PROVE  /\ Effect(c)
         /\ there' = there /\ othersLeft' = othersLeft
         /\ faultsLeft' \in 0..MaxFaults
<1> DEFINE Rest == there' = there /\ othersLeft' = othersLeft /\ faultsLeft' \in 0..MaxFaults
           Goal == Effect(c) /\ Rest
<1> SUFFICES Goal
  OBVIOUS
<1>1. work[c].handle = "bound" /\ faultsLeft \in 0..MaxFaults
  BY DEF Control, Coherent, TypeOK
<1>2. MakeName(c) \in Names /\ work[c].name \in Names /\ Target(c) \in Names
  BY MakeNameInNames
<1>go. ASSUME NEW r, Go(c, r) PROVE Goal
  BY <1>go, <1>1 DEF Go, Effect, Quiet
<1>throw. ASSUME Throw(c) PROVE Goal
  BY <1>throw, <1>1 DEF Throw, Go, Effect, Quiet
<1>put. ASSUME NEW b \in {"new", "half"}, At(c, "write"), Put(c, b),
               UNCHANGED <<names, there, touched, othersLeft>>, faultsLeft' \in 0..MaxFaults
        PROVE  Goal
  BY <1>put DEF Effect, Writes
<1>taken. ASSUME NEW n, NEW changed, NEW r, Take(c, n, changed, r)
          PROVE  /\ Renames(changed) /\ Touch(c, n, FALSE) /\ UNCHANGED inode
                 /\ Rest
  BY <1>taken, <1>1 DEF Take, Rewrite, Renames
<1> HIDE DEF Goal, Rest
<1>begin. ASSUME NEW o \in Operations, NEW pid \in Pids \cup {Missing}, Begin(c, o, pid)
          PROVE  Goal
  BY <1>begin, <1>go DEF Begin
<1>read. CASE Read(c)
  BY <1>read, <1>go, <1>throw DEF Read
<1>look. CASE Look(c)
  BY <1>look, <1>go, <1>throw DEF Look
<1>open. CASE Open(c)
  BY <1>open, <1>go, <1>throw DEF Open
<1>make. CASE Make(c)
  <2>1. CASE Throw(c)
    BY <2>1, <1>throw
  <2>2. CASE ~Throw(c)
    <3>1. File("empty", c) \in Inodes
      BY BoundsAssumption DEF File, Inodes
    <3>2. Makes(c, MakeName(c), File("empty", c))
      BY <2>2, <1>make, <1>1 DEF Make, Makes, Here, Bound, Rewrite, Renames
    <3>3. Rest
      BY <2>2, <1>make, <1>1 DEF Make, Rest
    <3>4. QED
      BY <3>1, <3>2, <3>3, <1>2 DEF Goal, Effect
  <2>3. QED
    BY <2>1, <2>2
<1>write. CASE Write(c)
  <2>1. PICK b \in {"new", "half"} : Put(c, b)
    BY <1>write DEF Write
  <2>2. QED
    BY <2>1, <1>put, <1>1, <1>write DEF Write
<1>sync. CASE Sync(c)
  BY <1>sync, <1>go DEF Sync
<1>close. CASE Close(c)
  BY <1>close, <1>go DEF Close
<1>readback. CASE Readback(c)
  BY <1>readback, <1>go, <1>throw DEF Readback
<1>refresh. CASE Refresh(c)
  BY <1>refresh, <1>go DEF Refresh
<1>withdraw. CASE Withdraw(c)
  BY <1>withdraw, <1>go, <1>throw DEF Withdraw
<1>unlinkMade. CASE UnlinkMade(c)
  <2>1. CASE Throw(c)
    BY <2>1, <1>throw
  <2>2. CASE ~Throw(c)
    <3>1. Take(c, MakeName(c), [Bound EXCEPT ![MakeName(c)] = Missing], Thrown(c))
      BY <2>2, <1>unlinkMade, <1>1 DEF UnlinkMade, Here, Bound
    <3>2. Removes(c, MakeName(c)) /\ Rest
      BY <3>1, <1>taken, <1>unlinkMade DEF Removes, UnlinkMade, At, Unguarded
    <3>3. QED
      BY <3>2, <1>2 DEF Goal, Effect
  <2>3. QED
    BY <2>1, <2>2
<1>compareTemporary. CASE CompareTemporary(c)
  BY <1>compareTemporary, <1>go, <1>throw DEF CompareTemporary
<1>compare. CASE Compare(c)
  <2>1. CASE SameObject(c)
    BY <2>1, <1>compare, <1>go DEF Compare
  <2>2. CASE ~SameObject(c)
    BY <2>2, <1>compare, <1>go, <1>throw DEF Compare
  <2>3. QED
    BY <2>1, <2>2
<1>renameOver. CASE RenameOver(c)
  <2>1. CASE Go(c, To(c, "withdraw"))
    BY <2>1, <1>go
  <2>2. CASE ~Go(c, To(c, "withdraw"))
    <3>1. /\ Bound[MakeName(c)] # Missing
          /\ Take(c, Entry, [Bound EXCEPT ![Entry] = Bound[MakeName(c)], ![MakeName(c)] = Missing],
                  To(c, "readback"))
      BY <2>2, <1>renameOver, <1>1 DEF RenameOver, Here, Bound
    <3>2. Replaces(c) /\ Rest
      BY <3>1, <1>taken, <1>renameOver DEF Replaces, RenameOver
    <3>3. QED
      BY <3>2 DEF Goal, Effect
  <2>3. QED
    BY <2>1, <2>2
<1>unlink. CASE Unlink(c)
  <2>1. CASE Throw(c)
    BY <2>1, <1>throw
  <2>2. CASE ~Throw(c)
    <3>1. Take(c, work[c].name, [Bound EXCEPT ![work[c].name] = Missing], Done(c))
      BY <2>2, <1>unlink, <1>1 DEF Unlink, Here, Bound
    <3>2. Removes(c, work[c].name) /\ Rest
      BY <3>1, <1>taken, <1>unlink DEF Removes, Unlink, At, Unguarded
    <3>3. QED
      BY <3>2, <1>2 DEF Goal, Effect
  <2>3. QED
    BY <2>1, <2>2
<1>stat. CASE Stat(c)
  BY <1>stat, <1>go, <1>throw DEF Stat
<1>rename. CASE Rename(c)
  <2>1. CASE Throw(c)
    BY <2>1, <1>throw
  <2>2. CASE ~Throw(c)
    <3>1. /\ Bound[work[c].name] # Missing /\ Bound[Target(c)] = Missing
          /\ Take(c, work[c].name,
                  [Bound EXCEPT ![Target(c)] = Bound[work[c].name], ![work[c].name] = Missing],
                  Done(c))
      BY <2>2, <1>rename, <1>1 DEF Rename, Here, Bound
    <3>2. Moves(c) /\ Rest
      BY <3>1, <1>taken, <1>rename DEF Moves, Rename
    <3>3. QED
      BY <3>2 DEF Goal, Effect
  <2>3. QED
    BY <2>1, <2>2
<1>makeDirectory. CASE MakeDirectory(c)
  <2>1. CASE Throw(c)
    BY <2>1, <1>throw
  <2>2. CASE ~Throw(c)
    <3>1. Directory(c) \in Inodes /\ Release \in Names
      BY BoundsAssumption, NamesInNames DEF Directory, Inodes
    <3>2. Makes(c, Release, Directory(c))
      BY <2>2, <1>makeDirectory, <1>1 DEF MakeDirectory, Makes, Here, Bound, Rewrite, Renames
    <3>3. Rest
      BY <2>2, <1>makeDirectory, <1>1 DEF MakeDirectory, Rest
    <3>4. QED
      BY <3>1, <3>2, <3>3 DEF Goal, Effect
  <2>3. QED
    BY <2>1, <2>2
<1>checkMade. CASE CheckMade(c)
  BY <1>checkMade, <1>go, <1>throw DEF CheckMade
<1>fails. CASE CallFails(c)
  <2>1. faultsLeft' \in 0..MaxFaults
    BY <1>fails, <1>1, BoundsAssumption DEF CallFails
  <2>2. CASE At(c, "write") /\ Put(c, "half")
    BY <2>1, <2>2, <1>put, <1>fails DEF CallFails
  <2>3. CASE UNCHANGED <<inode, raced>>
    BY <2>1, <2>3, <1>fails DEF CallFails, Goal, Rest, Effect, Quiet
  <2>4. QED
    BY <2>2, <2>3, <1>fails DEF CallFails
<1>die. CASE Die(c)
  BY <1>die, <1>go DEF Die
<1>q. QED
  BY <1>begin, <1>read, <1>look, <1>open, <1>make, <1>write, <1>sync, <1>close, <1>readback,
     <1>refresh, <1>withdraw, <1>unlinkMade, <1>compareTemporary, <1>compare, <1>renameOver,
     <1>unlink, <1>stat, <1>rename, <1>makeDirectory, <1>checkMade, <1>fails, <1>die
  DEF CallStep

-----------------------------------------------------------------------------
(* What others do to the directory and its files. *)

OthersFile(i) == i.by = Missing /\ i.stamp = 0

LEMMA OthersHaveEffect ==
  ASSUME TypeOK, Others
  PROVE  /\ \/ \E n \in Shared, new \in Inodes : OthersFile(new) /\ OthersPut(n, 2 + othersLeft, new)
            \/ \E n \in Shared : OthersWrite(n) \/ OthersRemove(n)
            \/ OthersSwap
         /\ work' = work /\ faultsLeft' = faultsLeft
         /\ othersLeft \in 1..MaxOthers /\ othersLeft' = othersLeft - 1
         /\ 2 + othersLeft \in Ids \ Callers /\ 2 + othersLeft \in Nat
<1>1. othersLeft \in 1..MaxOthers /\ othersLeft' = othersLeft - 1
  BY BoundsAssumption DEF Others, TypeOK
<1>2. {Entry, Aside, Stage, Release} \subseteq Shared /\ Temporaries \subseteq Shared
  BY DEF Shared
<1>3. \A b \in {"old", "other"} : File(b, Missing) \in Inodes /\ OthersFile(File(b, Missing))
  BY BoundsAssumption DEF File, Inodes, OthersFile
<1>4. Directory(Missing) \in Inodes /\ OthersFile(Directory(Missing))
  BY BoundsAssumption DEF Directory, Inodes, OthersFile
<1>5. 2 + othersLeft \in Ids \ Callers /\ 2 + othersLeft \in Nat
  BY <1>1, CallersAssumption, BoundsAssumption DEF Ids
<1>6. \/ \E n \in Shared, new \in Inodes : OthersFile(new) /\ OthersPut(n, 2 + othersLeft, new)
      \/ \E n \in Shared : OthersWrite(n) \/ OthersRemove(n)
      \/ OthersSwap
  BY <1>2, <1>3, <1>4 DEF Others
<1>7. QED
  BY <1>1, <1>5, <1>6 DEF Others

LEMMA RenamesBound ==
  ASSUME TypeOK, NEW changed, Renames(changed)
  PROVE  /\ Bound' = changed
         /\ names'["foreign"] = names["foreign"]
         /\ changed \in [Names -> Ids \cup {Missing}] =>
              names' \in [{"bound", "foreign"} -> [Names -> Ids \cup {Missing}]]
BY DEF Renames, Bound, TypeOK

LEMMA TouchTypes ==
  ASSUME TypeOK, NEW who, NEW n, NEW inPlace \in BOOLEAN, Touch(who, n, inPlace)
  PROVE  raced' \subseteq Callers /\ touched' \subseteq Callers
BY DEF Touch, TypeOK

LEMMA CallKeepsTypes ==
  ASSUME TypeOK, Control, Stamps, NEW c \in Callers, CallStep(c)
  PROVE  TypeOK'
<1> DEFINE Data == /\ names' \in [{"bound", "foreign"} -> [Names -> Ids \cup {Missing}]]
                   /\ inode' \in [Ids -> Inodes]
                   /\ raced' \subseteq Callers /\ touched' \subseteq Callers
<1>1. PICK r \in Calls : Become(c, r)
  BY StepIsCoherent
<1>2. work' \in [Callers -> Calls]
  BY <1>1, TypedCall DEF Become, TypeOK, Calls
<1>3. /\ Bound \in [Names -> Ids \cup {Missing}] /\ inode \in [Ids -> Inodes]
      /\ raced \subseteq Callers /\ touched \subseteq Callers
      /\ names \in [{"bound", "foreign"} -> [Names -> Ids \cup {Missing}]]
  BY DEF TypeOK, Inodes, Bound
<1>4. c \in Ids /\ Entry \in Names
  BY IdsApart, NamesInNames
<1>5. MakeName(c) \in Names /\ work[c].name \in Names /\ Target(c) \in Names
  BY MakeNameInNames
<1>6. Data
  <2>1. CASE Quiet
    BY <1>3, <2>1 DEF Quiet
  <2>2. ASSUME NEW n \in Names, NEW new \in Inodes, Makes(c, n, new) PROVE Data
    <3>1. [Bound EXCEPT ![n] = c] \in [Names -> Ids \cup {Missing}]
      BY <1>3, <1>4
    <3>2. QED
      BY <1>3, <1>4, <2>2, <3>1, RenamesBound DEF Makes
  <2>3. ASSUME NEW bytes \in {"new", "half"}, Writes(c, bytes) PROVE Data
    <3>1. inode[c].stamp <= MaxOthers - othersLeft /\ othersLeft \in 0..MaxOthers
      BY <2>3 DEF Writes, At, Stamps, TypeOK
    <3>2. inode[c].stamp + 1 \in 0..2 + MaxOthers
      BY <1>3, <1>4, <3>1, BoundsAssumption DEF Inodes
    <3>3. inode' \in [Ids -> Inodes]
      BY <1>3, <1>4, <2>3, <3>2 DEF Writes, Put, Inodes
    <3>4. QED
      BY <1>3, <2>3, <3>3 DEF Writes, Put
  <2>4. ASSUME NEW n \in Names, Removes(c, n) PROVE Data
    <3>1. [Bound EXCEPT ![n] = Missing] \in [Names -> Ids \cup {Missing}]
      BY <1>3
    <3>2. QED
      BY <1>3, <2>4, <3>1, RenamesBound, TouchTypes DEF Removes
  <2>5. CASE Replaces(c)
    <3> DEFINE t == MakeName(c)
    <3>1. [Bound EXCEPT ![Entry] = Bound[t], ![t] = Missing] \in [Names -> Ids \cup {Missing}]
      BY <1>3, <1>4, <1>5
    <3>2. QED
      BY <1>3, <2>5, <3>1, RenamesBound, TouchTypes DEF Replaces
  <2>6. CASE Moves(c)
    <3> DEFINE n == work[c].name
    <3>1. [Bound EXCEPT ![Target(c)] = Bound[n], ![n] = Missing] \in [Names -> Ids \cup {Missing}]
      BY <1>3, <1>5
    <3>2. QED
      BY <1>3, <2>6, <3>1, RenamesBound, TouchTypes DEF Moves
  <2>7. QED
    BY <2>1, <2>2, <2>3, <2>4, <2>5, <2>6, StepHasEffect DEF Effect
<1>7. there' = there /\ othersLeft' = othersLeft /\ faultsLeft' \in 0..MaxFaults
  BY StepHasEffect
<1>8. QED
  BY <1>2, <1>6, <1>7 DEF TypeOK, Calls, Inodes

LEMMA OthersKeepTypes ==
  ASSUME TypeOK, Stamps, Others
  PROVE  TypeOK'
<1>1. /\ work' = work /\ faultsLeft' = faultsLeft
      /\ othersLeft \in 1..MaxOthers /\ othersLeft' = othersLeft - 1
      /\ 2 + othersLeft \in Ids
  BY OthersHaveEffect
<1>2. othersLeft' \in 0..MaxOthers
  BY <1>1, BoundsAssumption
<1>3. /\ inode \in [Ids -> Inodes] /\ there \in {"bound", "foreign"}
      /\ names \in [{"bound", "foreign"} -> [Names -> Ids \cup {Missing}]]
      /\ raced \subseteq Callers /\ touched \subseteq Callers
  BY DEF TypeOK, Inodes
<1> DEFINE Data == /\ names' \in [{"bound", "foreign"} -> [Names -> Ids \cup {Missing}]]
                   /\ inode' \in [Ids -> Inodes] /\ there' \in {"bound", "foreign"}
                   /\ raced' \subseteq Callers /\ touched' \subseteq Callers
<1>4. Data
  <2>1. ASSUME NEW n \in Shared, NEW new \in Inodes, OthersPut(n, 2 + othersLeft, new) PROVE Data
    BY <1>1, <1>3, <2>1, TouchTypes DEF OthersPut, Names
  <2>2. ASSUME NEW n \in Shared, OthersWrite(n) PROVE Data
    <3> DEFINE i == names["bound"][n]
    <3>1. i \in Ids
      BY <1>3, <2>2 DEF OthersWrite, IsA, Names
    <3>2. inode[i].stamp <= 1 + MaxOthers - othersLeft
      BY <3>1 DEF Stamps
    <3>3. inode[i].stamp + 1 \in 0..2 + MaxOthers
      BY <1>1, <1>3, <3>1, <3>2, BoundsAssumption DEF Inodes
    <3>4. inode' \in [Ids -> Inodes]
      BY <1>3, <2>2, <3>1, <3>3 DEF OthersWrite, Inodes
    <3>5. QED
      BY <1>3, <2>2, <3>4, TouchTypes DEF OthersWrite
  <2>3. ASSUME NEW n \in Shared, OthersRemove(n) PROVE Data
    BY <1>3, <2>3, TouchTypes DEF OthersRemove, Names
  <2>4. CASE OthersSwap
    BY <1>3, <2>4 DEF OthersSwap
  <2>5. QED
    BY <2>1, <2>2, <2>3, <2>4, OthersHaveEffect
<1>5. QED
  BY <1>1, <1>2, <1>4 DEF TypeOK, Inodes

-----------------------------------------------------------------------------
(* Where calls act. *)

LEMMA WhereCallsAct ==
  ASSUME TypeOK, Control, NEW c \in Callers
  PROVE  /\ \A d \in Callers \ {c} : /\ MakeName(c) \notin {Source(d), Destination(d)}
                                     /\ work[c].name \notin {Source(d), Destination(d)}
                                     /\ Target(c) \notin {Source(d), Destination(d)}
         /\ IsWriter(c) => /\ MakeName(c) \in Temporaries
                           /\ work[c].name = Entry
         /\ ~IsWriter(c) => MakeName(c) = work[c].name
         /\ work[c].name \notin Temporaries
         /\ Target(c) \notin Temporaries \cup {Entry, Stage}
         /\ work[c].at \in {"compare temporary", "rename over"} => IsWriter(c)
         /\ work[c].at \in {"make", "mkdirat"} => Fresh(c)
         /\ work[c].at = "mkdirat" => work[c].op = "mkdir"
         /\ work[c].at \in {"make", "write", "sync", "refresh", "close", "withdraw", "unlink made"} =>
              /\ work[c].op \in Writers \cup {"create", "probe"} /\ work[c].phase = "create"
              /\ ~IsWriter(c) => MakeName(c) \in {Entry, Source(c)}
         /\ work[c].at = "rename" => \/ work[c].op = "detach" /\ work[c].name = Entry
                                     \/ work[c].op = "move" /\ work[c].name = Stage
                                     \/ /\ work[c].op = "probe" /\ work[c].phase = "rename"
                                        /\ work[c].name = Source(c)
         /\ work[c].at = "unlink" => \/ work[c].op = "remove" /\ work[c].name = Entry
                                     \/ work[c].op = "rmdir" /\ work[c].name = Stage
                                     \/ /\ work[c].op = "probe"
                                        /\ work[c].name \in {Source(c), Destination(c)}
<1> DEFINE op == work[c].op
           phase == work[c].phase
<1>1. work[c] \in Calls /\ Coherent(c, work[c])
  BY TypedCall DEF Control
<1>2. /\ op \in Operations /\ work[c].name = NameOf(c, op, phase)
      /\ phase \in {"create", "rename", "remove", "clear source", "clear destination"}
      /\ op # "probe" => phase = "create"
      /\ op \in Writers => work[c].pid \in Pids
      /\ work[c].at \in PlacesOf(op, phase)
      /\ work[c].made # None => op \in Writers \cup {"create", "probe"}
      /\ work[c].at = "make" => work[c].made = None
  BY <1>1 DEF Calls, Coherent, Phases, Clearing
<1>3. /\ op = "probe" => work[c].name \in {Source(c), Destination(c)}
      /\ op = "probe" /\ phase \in {"create", "rename"} => work[c].name = Source(c)
      /\ op = "mkdir" => work[c].name = Release
      /\ op \in {"move", "rmdir"} => work[c].name = Stage
      /\ op \notin {"probe", "mkdir", "move", "rmdir"} => work[c].name = Entry
  BY <1>2 DEF NameOf
<1>4. /\ op \in Writers => MakeName(c) = Name("temporary", work[c].pid)
      /\ op \notin Writers => MakeName(c) = work[c].name
  BY DEF MakeName
<1>5. Target(c) \in {Aside, Release, Destination(c)}
  BY DEF Target
<1>6. /\ work[c].at \in {"compare temporary", "rename over"} => op \in Writers
      /\ work[c].at \in {"make", "write", "sync", "refresh", "close", "withdraw", "unlink made"} =>
           op \in Writers \cup {"create", "probe"} /\ phase = "create"
      /\ work[c].at = "mkdirat" => op = "mkdir"
  <2>1. work[c].at \in {"compare temporary", "rename over"} => op \in Writers
    BY <1>2 DEF PlacesOf, MakingPlaces, ClearingPlaces, Operations, Writers, Ended
  <2>2. work[c].at \in {"make", "write", "sync", "refresh", "close", "withdraw", "unlink made"} =>
          op \in Writers \cup {"create", "probe"}
    BY <1>2 DEF PlacesOf, MakingPlaces, ClearingPlaces, Operations, Writers, Ended
  <2>3. op = "probe" /\ phase # "create" =>
          work[c].at \notin {"make", "write", "sync", "refresh", "close", "withdraw", "unlink made"}
    BY <1>2 DEF PlacesOf, MakingPlaces, ClearingPlaces, Operations, Writers, Ended
  <2>4. work[c].at = "mkdirat" => op = "mkdir"
    BY <1>2 DEF PlacesOf, MakingPlaces, ClearingPlaces, Operations, Writers, Ended
  <2>5. QED
    BY <1>2, <2>1, <2>2, <2>3, <2>4
<1>7. work[c].at = "rename" => op \in {"detach", "move"} \/ (op = "probe" /\ phase = "rename")
  <2>1. work[c].at = "rename" => op \in {"detach", "move", "probe"}
    BY <1>2 DEF PlacesOf, MakingPlaces, Operations, Writers, Ended
  <2>2. op = "probe" /\ phase # "rename" => work[c].at # "rename"
    BY <1>2 DEF PlacesOf, MakingPlaces, ClearingPlaces, Writers
  <2>3. QED
    BY <2>1, <2>2
<1>8. work[c].at = "unlink" => op \in {"remove", "rmdir", "probe"}
  BY <1>2 DEF PlacesOf, MakingPlaces, ClearingPlaces, Operations, Writers, Ended
<1>9. \A d \in Callers \ {c} : /\ MakeName(c) \notin {Source(d), Destination(d)}
                               /\ work[c].name \notin {Source(d), Destination(d)}
                               /\ Target(c) \notin {Source(d), Destination(d)}
  <2> TAKE d \in Callers \ {c}
  <2>1. work[c].name \notin {Source(d), Destination(d)}
    BY <1>3, NamesApart
  <2>2. QED
    BY <1>4, <1>5, <2>1, NamesApart
<1>10. /\ work[c].name \notin Temporaries /\ Target(c) \notin Temporaries \cup {Entry, Stage}
       /\ op \in Writers => MakeName(c) \in Temporaries /\ work[c].name = Entry
  <2>1. work[c].name \notin Temporaries
    BY <1>3, NamesApart
  <2>2. Target(c) \notin Temporaries \cup {Entry, Stage}
    BY <1>5, NamesApart
  <2>3. op \in Writers => MakeName(c) \in Temporaries /\ work[c].name = Entry
    BY <1>2, <1>3, <1>4, NamesInNames DEF Writers
  <2>4. QED
    BY <2>1, <2>2, <2>3
<1>11. work[c].at = "mkdirat" => work[c].made = None
  BY <1>2, <1>6 DEF Writers
<1>12. ~IsWriter(c) /\ op \in Writers \cup {"create", "probe"} /\ phase = "create" =>
         MakeName(c) \in {Entry, Source(c)}
  BY <1>3, <1>4 DEF IsWriter
<1>13. work[c].at \in {"make", "mkdirat"} => Fresh(c)
  BY <1>2, <1>11 DEF Fresh
<1>14. work[c].at = "rename" => \/ work[c].op = "detach" /\ work[c].name = Entry
                                \/ work[c].op = "move" /\ work[c].name = Stage
                                \/ /\ work[c].op = "probe" /\ work[c].phase = "rename"
                                   /\ work[c].name = Source(c)
  BY <1>3, <1>7
<1>15. work[c].at = "unlink" => \/ work[c].op = "remove" /\ work[c].name = Entry
                                \/ work[c].op = "rmdir" /\ work[c].name = Stage
                                \/ /\ work[c].op = "probe"
                                   /\ work[c].name \in {Source(c), Destination(c)}
  BY <1>3, <1>8
<1>16. QED
  BY <1>4, <1>6, <1>9, <1>10, <1>12, <1>13, <1>14, <1>15 DEF IsWriter

\* Two calls at work do not make their files at the same temporary name.
LEMMA TemporariesApart ==
  ASSUME TypeOK, Control, DistinctPids, NEW c \in Callers, NEW d \in Callers, c # d,
         IsWriter(c), Working(c), Working(d)
  PROVE  MakeName(c) # MakeName(d)
<1>1. CASE IsWriter(d)
  <2>1. work[c].pid # work[d].pid
    BY DEF DistinctPids
  <2>2. QED
    BY <1>1, <2>1, NamesApart DEF MakeName, IsWriter
<1>2. CASE ~IsWriter(d)
  BY <1>2, WhereCallsAct
<1>3. QED
  BY <1>1, <1>2

LEMMA UnguardedNames ==
  ASSUME TypeOK, Control, NEW c \in Callers, NEW n, Unguarded(c, n)
  PROVE  /\ Working(c) /\ n \in {MakeName(c), work[c].name}
         /\ n \in Names
<1>1. n \in {MakeName(c), Entry, work[c].name} /\ Working(c)
  BY DEF Unguarded, Working, Ended
<1>2. n = Entry => n \in {MakeName(c), work[c].name}
  BY WhereCallsAct DEF Unguarded
<1>3. QED
  BY <1>1, <1>2, MakeNameInNames

-----------------------------------------------------------------------------
(* What a call sees of the steps of another, and of others. *)

\* Its own control does not change, and its file and its names change only in the ways
\* that the observations raced and touched record.
Bystander(d) ==
  /\ work'[d] = work[d]
  /\ inode'[d].kind = inode[d].kind
  /\ inode'[d] # inode[d] => inode'[d].stamp = inode[d].stamp + 1
  /\ \A n \in {Source(d), Destination(d)} :
       Bound'[n] = Bound[n] /\ (Bound[n] = d => inode'[d] = inode[d])
  /\ \A n \in Names : Bound'[n] = d => \E m \in Names : Bound[m] = d
  /\ IsWriter(d) /\ Working(d) => Bound'[MakeName(d)] \in {Bound[MakeName(d)]} \cup (Ids \ Callers) \cup {Missing}
  /\ d \notin raced' =>
       /\ d \notin raced
       /\ \A n \in Names : Unguarded(d, n) /\ Bound[n] # Missing =>
            Bound'[n] = Bound[n] /\ inode'[Bound[n]] = inode[Bound[n]]
       /\ work[d].at \in {"write", "sync", "refresh"} => inode'[d] = inode[d]
  /\ d \notin touched' =>
       /\ d \notin touched
       /\ inode'[d] = inode[d]
       /\ \A n \in Names : Bound'[n] = d <=> Bound[n] = d
       /\ work[d].op = "probe" /\ Working(d) => there' = there

LEMMA CallersAreBystanders ==
  ASSUME TypeOK, Control, DistinctPids, Directories,
         NEW c \in Callers, NEW d \in Callers, c # d, CallStep(c)
  PROVE  Bystander(d)
<1> DEFINE Private == {Source(d), Destination(d)}
           AtWork == work[d].at \in {"write", "sync", "refresh"}
           Data ==
             /\ inode'[d] = inode[d]
             /\ \A i \in Ids \ {c} : inode'[i] = inode[i]
             /\ \A n \in Private : Bound'[n] = Bound[n]
             /\ \A n \in Names : Bound'[n] = d => \E m \in Names : Bound[m] = d
             /\ IsWriter(d) /\ Working(d) => Bound'[MakeName(d)] \in {Bound[MakeName(d)], Missing}
             /\ d \notin raced' =>
                  /\ d \notin raced
                  /\ \A n \in Names : Unguarded(d, n) /\ Bound[n] # Missing =>
                       Bound'[n] = Bound[n] /\ inode'[Bound[n]] = inode[Bound[n]]
             /\ d \notin touched' =>
                  /\ d \notin touched
                  /\ \A n \in Names : Bound'[n] = d <=> Bound[n] = d
<1>1. work'[d] = work[d] /\ there' = there
  BY StepIsCoherent, StepHasEffect DEF Become, TypeOK
<1>2. /\ Bound \in [Names -> Ids \cup {Missing}] /\ inode \in [Ids -> Inodes]
      /\ c \in Ids /\ d \in Ids /\ Entry \in Names /\ MakeName(d) \in Names
      /\ Source(d) \in Names /\ Destination(d) \in Names
      /\ MakeName(c) \in Names /\ work[c].name \in Names /\ Target(c) \in Names
  BY IdsApart, NamesInNames, MakeNameInNames DEF TypeOK, Inodes, Bound
<1>3. /\ MakeName(c) \notin Private /\ work[c].name \notin Private /\ Target(c) \notin Private
      /\ Entry \notin Private /\ Release \notin Private
  BY WhereCallsAct, NamesApart
<1>4. IsWriter(d) /\ Working(d) => /\ MakeName(d) # work[c].name /\ MakeName(d) # Target(c)
                                   /\ MakeName(d) \notin {Entry, Release}
                                   /\ Working(c) => MakeName(d) # MakeName(c)
  <2>1. IsWriter(d) => MakeName(d) \in Temporaries
    BY WhereCallsAct
  <2>2. Working(c) /\ Working(d) /\ IsWriter(d) => MakeName(d) # MakeName(c)
    BY TemporariesApart
  <2>3. QED
    BY <2>1, <2>2, WhereCallsAct, NamesApart
<1>5. Data
  <2>1. CASE Quiet
    BY <1>2, <2>1 DEF Quiet, Bound
  <2>2. ASSUME NEW n \in Names, NEW new \in Inodes, Makes(c, n, new) PROVE Data
    <3>1. Bound' = [Bound EXCEPT ![n] = c] /\ Bound[n] = Missing
      BY <2>2, RenamesBound DEF Makes
    <3>2. inode' = [inode EXCEPT ![c] = new] /\ raced' = raced /\ touched' = touched
      BY <2>2 DEF Makes
    <3>3. \A m \in Names : Bound[m] # c
      BY <2>2, WhereCallsAct DEF Makes, At, Directories, FreshCalls
    <3>4. n \in {MakeName(c), Release} /\ Working(c)
      BY <2>2 DEF Makes, At, Working, Ended
    <3>5. n \notin Private /\ (IsWriter(d) /\ Working(d) => MakeName(d) # n)
      BY <1>3, <1>4, <3>4
    <3>6. \A m \in Names : Bound'[m] = IF m = n THEN c ELSE Bound[m]
      BY <1>2, <3>1
    <3>7. \A i \in Ids \ {c} : inode'[i] = inode[i]
      BY <1>2, <3>2
    <3>8. Missing # d
      BY IdsApart
    <3>9. \A m \in Names : Bound[m] # Missing => Bound[m] \in Ids \ {c}
      BY <1>2, <3>3
    <3>10. QED
      BY <1>2, <3>1, <3>2, <3>5, <3>6, <3>7, <3>8, <3>9
  <2>3. ASSUME NEW bytes \in {"new", "half"}, Writes(c, bytes) PROVE Data
    <3>1. /\ Bound' = Bound /\ touched' = touched
          /\ raced' = raced \cup {e \in Callers \ {c} : \E n \in Names : Bound[n] = c /\ Unguarded(e, n)}
      BY <2>3 DEF Writes, Put, Bound
    <3>2. \A i \in Ids \ {c} : inode'[i] = inode[i]
      BY <1>2, <2>3 DEF Writes, Put
    <3>3. d \notin raced' =>
            /\ d \notin raced
            /\ \A n \in Names : Unguarded(d, n) => Bound[n] # c
      BY <3>1
    <3>4. QED
      BY <1>2, <3>1, <3>2, <3>3
  <2>4. ASSUME NEW n \in Names, Removes(c, n) PROVE Data
    <3>1. Bound' = [Bound EXCEPT ![n] = Missing] /\ inode' = inode
      BY <2>4, RenamesBound DEF Removes
    <3>2. n \in {MakeName(c), work[c].name}
      BY <2>4, UnguardedNames DEF Removes
    <3>3. /\ d \notin raced' => d \notin raced /\ ~Unguarded(d, n)
          /\ d \notin touched' => d \notin touched /\ Bound[n] # d
      BY <2>4 DEF Removes, Touch, Bound
    <3>4. \A m \in Names : Bound'[m] = IF m = n THEN Missing ELSE Bound[m]
      BY <1>2, <3>1
    <3>5. Missing # d
      BY IdsApart
    <3>6. QED
      BY <1>2, <1>3, <3>1, <3>2, <3>3, <3>4, <3>5
  <2>5. CASE Replaces(c)
    <3> DEFINE t == MakeName(c)
    <3>1. /\ Bound' = [Bound EXCEPT ![Entry] = Bound[t], ![t] = Missing] /\ inode' = inode
      BY <2>5, RenamesBound DEF Replaces
    <3>2. IsWriter(c) /\ Working(c)
      BY <2>5, WhereCallsAct DEF Replaces, At, Working, Ended
    <3>3. /\ d \notin raced' => d \notin raced /\ ~Unguarded(d, Entry)
          /\ d \notin touched' => d \notin touched /\ Bound[Entry] # d
      BY <2>5 DEF Replaces, Touch, Bound
    <3>4. \A m \in Names : Bound'[m] = IF m = t THEN Missing ELSE IF m = Entry THEN Bound[t] ELSE Bound[m]
      BY <1>2, <3>1
    <3>5. Bound[t] # d
      BY <2>5, <3>2 DEF Replaces, At, Directories, Own, OwnTemporary
    <3>6. Missing # d
      BY IdsApart
    <3>7. ~Unguarded(d, t)
      <4>1. Working(d) => t # MakeName(d)
        BY <3>2, TemporariesApart
      <4>2. t # work[d].name
        BY <3>2, WhereCallsAct
      <4>3. QED
        BY <4>1, <4>2, UnguardedNames
    <3>8. \A m \in Names : Unguarded(d, m) => m # t
      BY <3>7
    <3>9. t \notin Private /\ (IsWriter(d) /\ Working(d) => MakeName(d) # t /\ MakeName(d) # Entry)
      BY <1>3, <1>4, <3>2
    <3> HIDE DEF t
    <3>10. \A n \in Private : Bound'[n] = Bound[n]
      BY <1>2, <1>3, <3>4, <3>9
    <3>11. \A n \in Names : Bound'[n] = d => Bound[n] = d
      BY <3>4, <3>5, <3>6
    <3>12. IsWriter(d) /\ Working(d) => Bound'[MakeName(d)] = Bound[MakeName(d)]
      BY <1>2, <3>4, <3>9
    <3>13. QED
      BY <1>2, <3>1, <3>3, <3>4, <3>5, <3>6, <3>8, <3>10, <3>11, <3>12
  <2>6. CASE Moves(c)
    <3> DEFINE n == work[c].name
               m == Target(c)
    <3>1. /\ Bound' = [Bound EXCEPT ![m] = Bound[n], ![n] = Missing] /\ inode' = inode
          /\ Bound[n] # Missing /\ Bound[m] = Missing
      BY <2>6, RenamesBound DEF Moves
    <3>2. /\ d \notin raced' => d \notin raced /\ ~Unguarded(d, n)
          /\ d \notin touched' => d \notin touched /\ Bound[n] # d
      BY <2>6 DEF Moves, Touch, Bound
    <3>3. n \in Names /\ m \in Names /\ n # m
      BY <1>2, <3>1
    <3>4. n \notin Private /\ m \notin Private
          /\ (IsWriter(d) /\ Working(d) => MakeName(d) # n /\ MakeName(d) # m)
      BY <1>3, <1>4
    <3> HIDE DEF n, m
    <3>5. \A k \in Names : Bound'[k] = IF k = n THEN Missing ELSE IF k = m THEN Bound[n] ELSE Bound[k]
      BY <1>2, <3>1, <3>3
    <3>6. Missing # d
      BY IdsApart
    <3>7. QED
      BY <1>2, <3>1, <3>2, <3>3, <3>4, <3>5, <3>6
  <2>7. QED
    BY <2>1, <2>2, <2>3, <2>4, <2>5, <2>6, StepHasEffect DEF Effect
<1>6. QED
  BY <1>1, <1>5 DEF Bystander


LEMMA OthersLeaveBystanders ==
  ASSUME TypeOK, Control, Directories, NEW d \in Callers, Others
  PROVE  Bystander(d)
<1> DEFINE Private == {Source(d), Destination(d)}
           new == 2 + othersLeft
<1>1. /\ work' = work /\ new \in Ids \ Callers /\ new \in Nat
      /\ othersLeft \in 1..MaxOthers
  BY OthersHaveEffect
<1>2. /\ Bound \in [Names -> Ids \cup {Missing}] /\ inode \in [Ids -> Inodes]
      /\ d \in Ids /\ MakeName(d) \in Names /\ Private \subseteq Names
      /\ Shared \subseteq Names /\ Missing # d
      /\ names \in [{"bound", "foreign"} -> [Names -> Ids \cup {Missing}]]
  BY IdsApart, NamesInNames, MakeNameInNames DEF TypeOK, Inodes, Bound, Names
<1>3. Shared \cap Private = {}
  BY NamesApart
<1>4. \A n \in Names : Bound[n] # new
  BY <1>1 DEF Directories, FreshOthers
<1>5. \A n \in Names : Unguarded(d, n) => Working(d)
  BY UnguardedNames
<1>6. ASSUME NEW n \in Shared, NEW f \in Inodes, OthersPut(n, new, f) PROVE Bystander(d)
  <2>1. Bound' = [Bound EXCEPT ![n] = new]
    BY <1>2, <1>6 DEF OthersPut, Bound
  <2>2. \A m \in Names : Bound'[m] = IF m = n THEN new ELSE Bound[m]
    BY <1>2, <2>1
  <2>3. \A i \in Ids : i # new => inode'[i] = inode[i]
    BY <1>2, <1>6 DEF OthersPut
  <2>4. /\ d \notin raced' => d \notin raced /\ ~Unguarded(d, n)
        /\ d \notin touched' => d \notin touched /\ Bound[n] # d
        /\ there' = there
    BY <1>2, <1>6 DEF OthersPut, Touch, Bound
  <2>5. inode'[d] = inode[d] /\ new # d
    BY <1>1, <1>2, <2>3
  <2>6. \A m \in Names : Bound[m] # Missing => inode'[Bound[m]] = inode[Bound[m]]
    BY <1>2, <1>4, <2>3
  <2> HIDE DEF new
  <2>7. \A m \in Private : Bound'[m] = Bound[m]
    BY <1>2, <1>3, <2>2
  <2>8. QED
    BY <1>1, <1>2, <2>2, <2>4, <2>5, <2>6, <2>7 DEF Bystander
<1>7. ASSUME NEW n \in Shared, OthersWrite(n) PROVE Bystander(d)
  <2> DEFINE i == Bound[n]
  <2>1. Bound' = Bound /\ there' = there /\ i \in Ids
    BY <1>2, <1>7 DEF OthersWrite, Bound, IsA
  <2>2. /\ \A j \in Ids : j # i => inode'[j] = inode[j]
        /\ inode'[i].kind = inode[i].kind /\ inode'[i].stamp = inode[i].stamp + 1
    BY <1>2, <1>7, <2>1 DEF OthersWrite, Bound, Inodes
  <2>3. /\ d \notin raced' => /\ d \notin raced /\ ~Unguarded(d, n)
                              /\ work[d].at \in {"write", "sync", "refresh"} => d # i
        /\ d \notin touched' => d \notin touched /\ i # d
    BY <1>2, <1>7 DEF OthersWrite, Touch, Bound
  <2>4. \A m \in Names : Bound[m] = i => m = n
    BY <1>2, <2>1, IdsApart DEF Directories, Injective
  <2>5. n \notin Private
    BY <1>3
  <2>6. \A m \in Names : m # n /\ Bound[m] # Missing => inode'[Bound[m]] = inode[Bound[m]]
    BY <1>2, <2>2, <2>4
  <2>7. \A m \in Private : Bound[m] = d => inode'[d] = inode[d]
    BY <1>2, <2>5, <2>6
  <2> HIDE DEF i
  <2>8. /\ inode'[d].kind = inode[d].kind
        /\ inode'[d] # inode[d] => inode'[d].stamp = inode[d].stamp + 1
        /\ d # i => inode'[d] = inode[d]
    BY <1>2, <2>2
  <2>9. QED
    BY <1>1, <1>2, <2>1, <2>3, <2>6, <2>7, <2>8 DEF Bystander
<1>8. ASSUME NEW n \in Shared, OthersRemove(n) PROVE Bystander(d)
  <2>1. Bound' = [Bound EXCEPT ![n] = Missing]
    BY <1>2, <1>8 DEF OthersRemove, Bound
  <2>2. \A m \in Names : Bound'[m] = IF m = n THEN Missing ELSE Bound[m]
    BY <1>2, <2>1
  <2>3. /\ d \notin raced' => d \notin raced /\ ~Unguarded(d, n)
        /\ d \notin touched' => d \notin touched /\ Bound[n] # d
        /\ there' = there /\ inode' = inode
    BY <1>2, <1>8 DEF OthersRemove, Touch, Bound
  <2>4. \A m \in Private : Bound'[m] = Bound[m]
    BY <1>2, <1>3, <2>2
  <2>5. QED
    BY <1>1, <1>2, <2>2, <2>3, <2>4 DEF Bystander
<1>9. CASE OthersSwap
  <2>1. Bound' = Bound /\ inode' = inode /\ raced' = raced
    BY <1>9 DEF OthersSwap, Bound
  <2>2. d \notin touched' => d \notin touched /\ ~(work[d].op = "probe" /\ Working(d))
    BY <1>9 DEF OthersSwap
  <2>3. QED
    BY <1>1, <2>1, <2>2 DEF Bystander
<1>10. QED
  BY <1>6, <1>7, <1>8, <1>9, OthersHaveEffect


LEMMA BystanderKeepsOwn ==
  ASSUME TypeOK, TypeOK', Control, NEW d \in Callers, Own(d), Bystander(d)
  PROVE  Own(d)'
<1>1. work'[d] = work[d] /\ MakeName(d)' = MakeName(d) /\ IsWriter(d)' = IsWriter(d)
      /\ Working(d)' = Working(d)
  BY DEF Bystander, MakeName, IsWriter, Working
<1>2. PrivateNames(d)'
  BY <1>1 DEF Bystander, Own, PrivateNames
<1>3. OwnTemporary(d)'
  BY <1>1, IdsApart DEF Bystander, Own, OwnTemporary
<1>4. Kind(d)'
  BY <1>1 DEF Bystander, Own, Kind
<1>5. Snapshot(d)'
  <2>1. inode[d].stamp \in Nat /\ work[d].made[2] \in Nat
    BY IdsApart, BoundsAssumption DEF TypeOK, Snapshots
  <2>2. inode'[d].stamp = inode[d].stamp \/ inode'[d].stamp = inode[d].stamp + 1
    BY DEF Bystander
  <2>3. QED
    BY <1>1, <2>1, <2>2 DEF Own, Snapshot
<1>6. QED
  BY <1>2, <1>3, <1>4, <1>5 DEF Own

LEMMA BystanderKeepsUnraced ==
  ASSUME TypeOK, TypeOK', Control, NEW d \in Callers, Own(d), Bystander(d),
         d \notin raced => Unraced(d)
  PROVE  d \notin raced' => Unraced(d)'
<1> SUFFICES ASSUME d \notin raced' PROVE Unraced(d)'
  OBVIOUS
<1>1. work'[d] = work[d] /\ MakeName(d)' = MakeName(d) /\ IsWriter(d)' = IsWriter(d)
  BY DEF Bystander, MakeName, IsWriter
<1>2. /\ Unraced(d)
      /\ \A n \in Names : Unguarded(d, n) /\ Bound[n] # Missing =>
           Bound'[n] = Bound[n] /\ inode'[Bound[n]] = inode[Bound[n]]
      /\ work[d].at \in {"write", "sync", "refresh"} => inode'[d] = inode[d]
  BY DEF Bystander
<1>3. MakeName(d) \in Names /\ work[d].name \in Names /\ Missing # d
  BY MakeNameInNames, IdsApart
<1>4. work'[d].at \in {"write", "sync", "refresh"} => inode'[d].by = d
  BY <1>1, <1>2 DEF Unraced
<1>5. work'[d].made # None /\ inode'[d].stamp = work'[d].made[2] => inode'[d].by = d
  <2>1. inode[d].stamp \in Nat /\ work[d].made[2] \in Nat
    BY IdsApart, BoundsAssumption DEF TypeOK, Snapshots
  <2>2. inode'[d] = inode[d] \/ inode'[d].stamp = inode[d].stamp + 1
    BY DEF Bystander
  <2>3. work[d].made # None => work[d].made[2] <= inode[d].stamp
    BY DEF Own, Snapshot
  <2>4. work[d].made # None /\ inode'[d].stamp = work[d].made[2] => inode'[d] = inode[d]
    BY <2>1, <2>2, <2>3
  <2>5. work[d].made # None /\ inode[d].stamp = work[d].made[2] => inode[d].by = d
    BY <1>2 DEF Unraced
  <2>6. QED
    BY <1>1, <2>4, <2>5
<1>6. work'[d].at = "unlink made" \/ (IsWriter(d)' /\ work'[d].at \in {"compare", "rename over"}) =>
        Bound'[MakeName(d)'] = d /\ inode'[d].by = d
  <2> SUFFICES ASSUME work[d].at = "unlink made" \/ (IsWriter(d) /\ work[d].at \in {"compare", "rename over"})
               PROVE  Bound'[MakeName(d)] = d /\ inode'[d].by = d
    BY <1>1
  <2>1. Unguarded(d, MakeName(d))
    BY DEF Unguarded, IsWriter
  <2>2. Bound[MakeName(d)] = d /\ inode[d].by = d
    BY <1>2 DEF Unraced
  <2>3. QED
    BY <1>2, <1>3, <2>1, <2>2
<1>7. \/ work'[d].at \in {"unlink", "rename over"}
      \/ work'[d].at = "rename" /\ work'[d].op = "move"
      => SameObject(d)'
  <2> SUFFICES ASSUME \/ work[d].at \in {"unlink", "rename over"}
                      \/ work[d].at = "rename" /\ work[d].op = "move"
               PROVE  SameObject(d)'
    BY <1>1
  <2>1. SameObject(d)
    BY <1>2 DEF Unraced
  <2>2. Unguarded(d, work[d].name)
    BY WhereCallsAct DEF Unguarded
  <2>3. work[d].handle = "bound"
    BY DEF Control, Coherent
  <2>4. Here(d) = Bound /\ Here(d)' = Bound'
    BY <1>1, <2>3 DEF Here, Bound
  <2>5. Bound[work[d].name] # Missing
    BY <2>1, <2>4 DEF SameObject, IsA
  <2>6. /\ Bound'[work[d].name] = Bound[work[d].name]
        /\ inode'[Bound[work[d].name]] = inode[Bound[work[d].name]]
    BY <1>2, <1>3, <2>2, <2>5
  <2>7. QED
    BY <1>1, <2>1, <2>4, <2>6 DEF SameObject, IsA, Seen, Version
<1>8. QED
  BY <1>4, <1>5, <1>6, <1>7 DEF Unraced

LEMMA BystanderKeepsUntouched ==
  ASSUME TypeOK, TypeOK', Control, NEW d \in Callers, Bystander(d),
         d \notin touched /\ work[d].at # "dead" => Untouched(d)
  PROVE  d \notin touched' /\ work'[d].at # "dead" => Untouched(d)'
<1> SUFFICES ASSUME d \notin touched', work'[d].at # "dead" PROVE Untouched(d)'
  OBVIOUS
<1>1. work'[d] = work[d] /\ MakeName(d)' = MakeName(d) /\ IsWriter(d)' = IsWriter(d)
      /\ Working(d)' = Working(d) /\ Making(d)' = Making(d) /\ Homes(d)' = Homes(d)
  BY DEF Bystander, MakeName, IsWriter, Working, Making, Homes
<1>2. /\ Untouched(d) /\ inode'[d] = inode[d]
      /\ \A n \in Names : Bound'[n] = d <=> Bound[n] = d
      /\ work[d].op = "probe" /\ Working(d) => there' = there
  BY <1>1 DEF Bystander
<1>3. MakeName(d) \in Names /\ Entry \in Names /\ Source(d) \in Names /\ Destination(d) \in Names
  BY MakeNameInNames, NamesInNames
<1>4. AtHome(d)'
  BY <1>1, <1>2, <1>3 DEF Untouched, AtHome
<1>5. Version(d)' = Version(d)
  BY <1>2, IdsApart DEF Version
<1>6. Intact(d)'
  BY <1>1, <1>2, <1>5 DEF Untouched, Intact
<1>7. Cleared(d)'
  BY <1>1, <1>2, <1>3, <1>5 DEF Untouched, Cleared
<1>8. Answered(d)'
  BY <1>1, <1>2 DEF Untouched, Answered
<1>9. QED
  BY <1>4, <1>6, <1>7, <1>8 DEF Untouched

-----------------------------------------------------------------------------
(* The steps of a call, by what they change of what it holds. *)

\* What a call holds while it goes from place to place.
Holds(r, s) == /\ r.op = s.op /\ r.pid = s.pid /\ r.made = s.made
               /\ r.bound = s.bound /\ r.owned = s.owned

LEMMA ToProfile ==
  ASSUME TypeOK, NEW c \in Callers, NEW place
  PROVE  /\ To(c, place).at = place /\ To(c, place).phase = work[c].phase
         /\ To(c, place).failed = work[c].failed
         /\ To(c, place).name = work[c].name
         /\ Holds(To(c, place), work[c])
BY TypedCall DEF To, Calls, Holds

LEMMA ThrownProfile ==
  ASSUME TypeOK, Control, NEW c \in Callers
  PROVE  /\ Holds(Thrown(c), work[c]) /\ Thrown(c).failed = work[c].failed
         /\ work[c].op # "probe" \/ work[c].phase \in {"create", "clear destination"} =>
              Thrown(c).at = "threw" /\ Thrown(c).phase = work[c].phase
         /\ work[c].op = "probe" /\ work[c].phase \in {"rename", "remove"} =>
              Thrown(c).at = "look" /\ Thrown(c).phase = "clear source"
         /\ work[c].op = "probe" /\ work[c].phase = "clear source" =>
              Thrown(c).at = "look" /\ Thrown(c).phase = "clear destination"
<1>1. /\ work[c] \in Calls /\ (work[c].op # "probe" => work[c].phase = "create")
      /\ work[c].phase \in {"create", "rename", "remove", "clear source", "clear destination"}
  BY TypedCall DEF Control, Coherent, Calls, Phases, Clearing
<1>2. CASE work[c].op # "probe" \/ work[c].phase \in {"create", "clear destination"}
  BY <1>1, <1>2, ToProfile DEF Thrown
<1>3. CASE work[c].op = "probe" /\ work[c].phase \in {"rename", "remove"}
  BY <1>1, <1>3 DEF Thrown, To, Calls, Holds
<1>4. CASE work[c].op = "probe" /\ work[c].phase = "clear source"
  BY <1>1, <1>4 DEF Thrown, To, Calls, Holds
<1>5. QED
  BY <1>1, <1>2, <1>3, <1>4

LEMMA DoneProfile ==
  ASSUME TypeOK, Control, NEW c \in Callers
  PROVE  /\ Holds(Done(c), work[c]) /\ Done(c).failed = work[c].failed
         /\ work[c].op # "probe" \/ work[c].phase = "remove" =>
              Done(c).at = "returned" /\ Done(c).phase = work[c].phase
         /\ work[c].op = "probe" /\ work[c].phase = "create" =>
              Done(c).at = "open" /\ Done(c).phase = "rename"
         /\ work[c].op = "probe" /\ work[c].phase = "rename" =>
              Done(c).at = "look" /\ Done(c).phase = "remove"
         /\ work[c].op = "probe" /\ work[c].phase = "clear source" =>
              Done(c).at = "look" /\ Done(c).phase = "clear destination"
         /\ work[c].op = "probe" /\ work[c].phase = "clear destination" =>
              Done(c).at = "threw" /\ Done(c).phase = "clear destination"
<1>1. /\ work[c] \in Calls /\ (work[c].op # "probe" => work[c].phase = "create")
      /\ work[c].phase \in {"create", "rename", "remove", "clear source", "clear destination"}
  BY TypedCall DEF Control, Coherent, Calls, Phases, Clearing
<1>2. CASE work[c].op # "probe" \/ work[c].phase = "remove"
  <2>1. Done(c) = To(c, "returned")
    BY <1>1, <1>2 DEF Done
  <2>2. /\ Done(c).at = "returned" /\ Done(c).phase = work[c].phase
        /\ Done(c).failed = work[c].failed /\ Holds(Done(c), work[c])
    BY <2>1, ToProfile
  <2>3. QED
    BY <1>1, <1>2, <2>2
<1>3. CASE work[c].op = "probe" /\ work[c].phase = "create"
  BY <1>1, <1>3 DEF Done, To, Calls, Holds
<1>4. CASE work[c].op = "probe" /\ work[c].phase = "rename"
  BY <1>1, <1>4 DEF Done, To, Calls, Holds
<1>5. CASE work[c].op = "probe" /\ work[c].phase \in {"clear source", "clear destination"}
  BY <1>1, <1>5, ThrownProfile DEF Done
<1>6. QED
  BY <1>1, <1>2, <1>3, <1>4, <1>5

\* Only these steps change the snapshots, the process id or what is made; all others go
\* on, and never back to where nothing is made.
Goes(c) == LET r == work'[c] IN
           /\ Holds(r, work[c]) /\ Working(c)
           /\ r.at \notin {"idle", "dead", "read", "make", "mkdirat", "write"}
           /\ r.at = "open" => r.made # None
           /\ work[c].at \in {"read", "open", "make"} =>
                Quiet /\ (r.at = "threw" \/ (r.at = "look" /\ r.made # None))

Finds(c) == LET i == names[there][IF work[c].at = "read" THEN Entry ELSE work[c].name]
                b == IF work[c].at = "read" THEN Passed(c, Version(i)) ELSE Version(i) IN
            /\ work[c].at \in {"read", "look"} /\ Quiet
            /\ work[c].at = "look" => i # Missing
            /\ work'[c] = [To(c, "open") EXCEPT !.bound = b]

Enters(c) == /\ work[c].at = "open" /\ there = "bound" /\ Quiet
             /\ Start(c) \in {"make", "mkdirat", "compare", "stat"}
             /\ work'[c] = [To(c, Start(c)) EXCEPT !.handle = there]

MakesFile(c) == /\ work[c].at = "make" /\ Makes(c, MakeName(c), File("empty", c))
                /\ work'[c] = [To(c, "write") EXCEPT !.made = <<c, 0>>]

Snaps(c) == /\ \/ work[c].at = "sync" /\ work'[c] = [To(c, "close") EXCEPT !.made = Version(c)]
               \/ work[c].at = "refresh" /\ work'[c] = [To(c, "withdraw") EXCEPT !.made = Version(c)]
            /\ Quiet

LEMMA StepKinds ==
  ASSUME TypeOK, Control, NEW c \in Callers, CallStep(c)
  PROVE  \/ \E op \in Operations, pid \in Pids \cup {Missing} : Begin(c, op, pid)
         \/ Finds(c) \/ Enters(c) \/ MakesFile(c) \/ Snaps(c) \/ Die(c) \/ Goes(c)
<1> DEFINE Goal == \/ \E op \in Operations, pid \in Pids \cup {Missing} : Begin(c, op, pid)
                   \/ Finds(c) \/ Enters(c) \/ MakesFile(c) \/ Snaps(c) \/ Die(c) \/ Goes(c)
           w == work[c]
<1> SUFFICES Goal
  OBVIOUS
<1>1. /\ w \in Calls /\ Coherent(c, w) /\ work \in [Callers -> Calls]
      /\ w.phase \in {"create", "rename", "remove", "clear source", "clear destination"}
  BY TypedCall DEF Control, Calls, Phases, Clearing, TypeOK
<1>2. w.handle = "bound" /\ (HasMade(w) => w.made # None)
  BY <1>1 DEF Coherent
<1>become. ASSUME NEW r, Become(c, r) PROVE work'[c] = r
  BY <1>1, <1>become DEF Become
<1>go. ASSUME NEW r, Go(c, r) PROVE work'[c] = r /\ Quiet
  BY <1>1, <1>go DEF Become, Go, Quiet
<1>ops. /\ w.at \in {"read", "make", "mkdirat"} => w.phase = "create"
        /\ w.at = "make" => w.op \in Writers \cup {"create", "probe"}
        /\ w.at \notin {"idle", "dead"} \cup Ended => Working(c)
  BY <1>1 DEF Working, Coherent, PlacesOf, MakingPlaces, ClearingPlaces, Writers, Operations, Ended, Calls

<1>thrown. ASSUME work'[c] = Thrown(c), w.at \notin {"idle", "dead"} \cup Ended,
                  w.at \in {"read", "open", "make"} => Quiet
           PROVE  Goes(c)
  <2>1. w.phase # "create" => w.made # None
    BY <1>2 DEF HasMade
  <2>2. w.phase = "create" => Thrown(c).at = "threw"
    BY ThrownProfile
  <2>3. Thrown(c).at \in {"threw", "look"} /\ Holds(Thrown(c), w)
    BY <1>1, ThrownProfile DEF Coherent
  <2>4. QED
    BY <1>ops, <1>thrown, <2>1, <2>2, <2>3 DEF Goes, Holds
<1>done. ASSUME work'[c] = Done(c), w.at \in {"close", "readback", "unlink", "rename", "check made"}
         PROVE  Goes(c)
  <2>1. Done(c).at \in {"open", "look", "threw", "returned"} /\ Holds(Done(c), w)
    BY <1>1, DoneProfile DEF Coherent
  <2>2. Done(c).at = "open" => w.made # None
    <3>1. Coherent(c, Done(c)) /\ Done(c).made = w.made
      BY <1>done, <2>1, DoneIsCoherent DEF Holds
    <3>2. Done(c).at = "open" => w.op = "probe" /\ w.phase = "create"
      BY <1>1, DoneProfile DEF Coherent
    <3>3. w.op = "probe" /\ w.phase = "create" => Done(c).phase = "rename"
      BY DoneProfile
    <3>4. QED
      BY <3>1, <3>2, <3>3 DEF Coherent, HasMade
  <2>3. QED
    BY <1>ops, <1>done, <2>1, <2>2 DEF Goes, Holds, Ended
<1>to. ASSUME NEW place, work'[c] = To(c, place), w.at \notin {"idle", "dead"} \cup Ended,
              w.at \notin {"read", "open", "make"},
              place \notin {"idle", "dead", "read", "open", "make", "mkdirat", "write"}
       PROVE  Goes(c)
  BY <1>ops, <1>to, ToProfile DEF Goes
<1>throw. ASSUME Throw(c), w.at \notin {"idle", "dead"} \cup Ended PROVE Goes(c)
  BY <1>throw, <1>go, <1>thrown DEF Throw
<1>read. CASE Read(c)
  <2>1. CASE Throw(c)
    BY <1>read, <2>1, <1>throw DEF Read, At, Ended
  <2>2. CASE ~Throw(c)
    BY <1>read, <2>2, <1>go DEF Read, At, Finds
  <2>3. QED
    BY <2>1, <2>2
<1>look. CASE Look(c)
  <2>1. CASE Throw(c)
    BY <1>look, <2>1, <1>throw DEF Look, At, Ended
  <2>2. CASE ~Throw(c)
    <3>1. Version(names[there][w.name]) # None
      BY <1>look, <2>2 DEF Look
    <3>2. names[there][w.name] # Missing
      BY <3>1 DEF Version
    <3>3. QED
      BY <1>look, <2>2, <3>2, <1>go DEF Look, At, Finds
  <2>3. QED
    BY <2>1, <2>2
<1>open. CASE Open(c)
  <2>1. CASE Throw(c)
    BY <1>open, <2>1, <1>throw DEF Open, At, Ended
  <2>2. CASE ~Throw(c)
    <3>1. Start(c) \in {"make", "mkdirat", "compare", "stat"}
      BY <1>1 DEF Start, Calls, Operations, Writers
    <3>2. QED
      BY <1>open, <2>2, <3>1, <1>go DEF Open, At, Enters, Identified
  <2>3. QED
    BY <2>1, <2>2
<1>make. CASE Make(c)
  <2>1. CASE Throw(c)
    BY <1>make, <2>1, <1>throw DEF Make, At, Ended
  <2>2. CASE ~Throw(c)
    BY <1>make, <1>2, <2>2, <1>become DEF Make, At, MakesFile, Makes, Here, Bound, Rewrite, Renames
  <2>3. QED
    BY <2>1, <2>2
<1>write. CASE Write(c)
  BY <1>write, <1>become, <1>to DEF Write, At, Ended
<1>sync. CASE Sync(c)
  BY <1>sync, <1>go DEF Sync, At, Snaps
<1>refresh. CASE Refresh(c)
  BY <1>refresh, <1>go DEF Refresh, At, Snaps
<1>close. CASE Close(c)
  <2>1. w.at = "close"
    BY <1>close DEF Close, At
  <2>2. CASE w.op \in Writers
    BY <1>close, <2>1, <2>2, <1>go, <1>to DEF Close, Ended, Writers
  <2>3. CASE w.op = "create"
    BY <1>close, <2>1, <2>3, <1>go, <1>to DEF Close, Ended, Writers
  <2>4. CASE w.op \notin Writers \cup {"create"}
    BY <1>close, <2>1, <2>4, <1>go, <1>done DEF Close
  <2>5. QED
    BY <2>2, <2>3, <2>4
<1>readback. CASE Readback(c)
  BY <1>readback, <1>go, <1>done, <1>throw DEF Readback, At, Ended
<1>withdraw. CASE Withdraw(c)
  BY <1>withdraw, <1>go, <1>to, <1>throw DEF Withdraw, At, Ended
<1>unlinkMade. CASE UnlinkMade(c)
  BY <1>unlinkMade, <1>become, <1>throw, <1>thrown DEF UnlinkMade, Take, At, Ended
<1>compareTemporary. CASE CompareTemporary(c)
  BY <1>compareTemporary, <1>go, <1>to, <1>throw DEF CompareTemporary, At, Ended
<1>compare. CASE Compare(c)
  <2>1. CASE SameObject(c)
    BY <1>compare, <2>1, <1>go, <1>to DEF Compare, At, Ended
  <2>2. CASE ~SameObject(c)
    BY <1>compare, <2>2, <1>go, <1>to, <1>throw DEF Compare, At, Ended
  <2>3. QED
    BY <2>1, <2>2
<1>renameOver. CASE RenameOver(c)
  BY <1>renameOver, <1>go, <1>become, <1>to DEF RenameOver, Take, At, Ended
<1>unlink. CASE Unlink(c)
  BY <1>unlink, <1>become, <1>done, <1>throw DEF Unlink, Take, At, Ended
<1>stat. CASE Stat(c)
  BY <1>stat, <1>go, <1>to, <1>throw DEF Stat, At, Ended
<1>rename. CASE Rename(c)
  BY <1>rename, <1>become, <1>done, <1>throw DEF Rename, Take, At, Ended
<1>makeDirectory. CASE MakeDirectory(c)
  BY <1>makeDirectory, <1>become, <1>to, <1>throw DEF MakeDirectory, At, Ended
<1>checkMade. CASE CheckMade(c)
  BY <1>checkMade, <1>go, <1>done, <1>throw DEF CheckMade, At, Ended
<1>fails. CASE CallFails(c)
  <2> DEFINE a == AfterFault(c)
  <2>1. /\ Working(c) /\ w.at \notin {"idle", "dead", "refresh"} \cup Ended
        /\ \E failed : work'[c] = [a EXCEPT !.failed = failed]
    BY <1>1, <1>fails DEF CallFails, Working, At, Become
  <2>2. \/ a = To(c, "refresh") /\ w.at \in {"write", "sync"}
        \/ a = To(c, "withdraw") /\ w.at \in {"write", "sync", "close", "compare", "rename over"}
        \/ a = Thrown(c) /\ w.at \notin {"write", "sync", "close"}
    BY DEF AfterFault
  <2>3. a \in Calls
    <3>1. To(c, "refresh") \in Calls /\ To(c, "withdraw") \in Calls
      BY TypedCall DEF Places
    <3>2. QED
      BY <2>2, <3>1, ThrownIsCall
  <2>4. w.at \in {"read", "open", "make"} => Quiet
    BY <1>fails DEF CallFails, At, Quiet
  <2> HIDE DEF a
  <2>5. work'[c].at = a.at /\ Holds(work'[c], a)
    BY <2>1, <2>3 DEF Calls, Holds
  <2>6. CASE a = To(c, "refresh") \/ a = To(c, "withdraw")
    <3>1. a.at \in {"refresh", "withdraw"} /\ Holds(a, w)
      BY <2>6, ToProfile
    <3>2. w.at \notin {"read", "open", "make"}
      <4>1. Thrown(c).at \in {"threw", "look"}
        BY <1>1, ThrownProfile DEF Coherent
      <4>2. QED
        BY <2>2, <3>1, <4>1
    <3>3. QED
      BY <2>1, <2>5, <3>1, <3>2 DEF Goes, Holds
  <2>7. CASE a = Thrown(c)
    <3>1. w.phase # "create" => w.made # None
      BY <1>2 DEF HasMade
    <3>2. a.at = "threw" \/ (a.at = "look" /\ w.phase # "create")
      BY <1>1, <2>7, ThrownProfile DEF Coherent
    <3>3. Holds(a, w)
      BY <2>7, ThrownProfile
    <3>4. QED
      BY <2>1, <2>4, <2>5, <3>1, <3>2, <3>3 DEF Goes, Holds
  <2>8. QED
    BY <2>2, <2>6, <2>7
<1>q. QED
  BY <1>read, <1>look, <1>open, <1>make, <1>write, <1>sync, <1>close, <1>readback,
     <1>refresh, <1>withdraw, <1>unlinkMade, <1>compareTemporary, <1>compare, <1>renameOver,
     <1>unlink, <1>stat, <1>rename, <1>makeDirectory, <1>checkMade, <1>fails
  DEF CallStep


\* The fields of what a call holds after each of these steps.
LEMMA BeginProfile ==
  ASSUME TypeOK, NEW c \in Callers, NEW op \in Operations, NEW pid \in Pids \cup {Missing},
         Begin(c, op, pid)
  PROVE  LET r == work'[c] IN
         /\ work[c].at = "idle" /\ Quiet
         /\ r.at = IF op \in Writers \cup {"remove"} THEN "read" ELSE "open"
         /\ r.op = op /\ r.pid = pid /\ r.phase = "create" /\ r.made = None /\ r.failed = {}
         /\ r.owned \in {None, Version(names[there][Entry])}
         /\ r.bound \in {None, <<names[there][Stage], 0>>}
<1> DEFINE r == work'[c]
           owned == IF op = "replace" THEN Version(names[there][Entry]) ELSE None
           bound == IF op \in {"move", "rmdir"} THEN <<names[there][Stage], 0>> ELSE None
           at == IF op \in Writers \cup {"remove"} THEN "read" ELSE "open"
<1>1. Quiet /\ work[c].at = "idle"
  BY DEF Begin, Go, Quiet, At
<1>2. /\ r.at = at /\ r.op = op /\ r.pid = pid /\ r.phase = "create" /\ r.made = None
      /\ r.failed = {} /\ r.owned = owned /\ r.bound = bound
  BY DEF Begin, Go, Become, Idle, TypeOK
<1>3. QED
  BY <1>1, <1>2

LEMMA FindsProfile ==
  ASSUME TypeOK, NEW c \in Callers, Finds(c)
  PROVE  LET r == work'[c]
             i == names[there][IF work[c].at = "read" THEN Entry ELSE work[c].name] IN
         /\ r.at = "open" /\ r.op = work[c].op /\ r.pid = work[c].pid /\ r.phase = work[c].phase
         /\ r.made = work[c].made /\ r.failed = work[c].failed /\ r.owned = work[c].owned
         /\ r.bound = Version(i) \/ (r.bound = work[c].owned /\ work[c].at = "read")
         /\ work[c].at = "look" => r.bound = Version(i) /\ i # Missing
         /\ r.name = work[c].name
<1>1. work[c] \in Calls
  BY TypedCall
<1> DEFINE i == names[there][IF work[c].at = "read" THEN Entry ELSE work[c].name]
           b == IF work[c].at = "read" THEN Passed(c, Version(i)) ELSE Version(i)
<1>2. work'[c] = [To(c, "open") EXCEPT !.bound = b] /\ work[c].at \in {"read", "look"}
      /\ (work[c].at = "look" => i # Missing)
  BY DEF Finds
<1>3. b = Version(i) \/ (b = work[c].owned /\ work[c].at = "read")
  BY DEF Passed
<1>4. work[c].at = "look" => b = Version(i)
  OBVIOUS
<1> HIDE DEF b, i
<1>5. /\ work'[c].at = "open" /\ work'[c].op = work[c].op /\ work'[c].pid = work[c].pid
      /\ work'[c].phase = work[c].phase /\ work'[c].made = work[c].made
      /\ work'[c].failed = work[c].failed /\ work'[c].owned = work[c].owned
      /\ work'[c].bound = b /\ work'[c].name = work[c].name
  BY <1>1, <1>2 DEF To, Calls
<1>6. QED
  BY <1>2, <1>3, <1>4, <1>5 DEF i

LEMMA EntersProfile ==
  ASSUME TypeOK, NEW c \in Callers, Enters(c)
  PROVE  LET r == work'[c] IN
         /\ r.at = Start(c) /\ r.op = work[c].op /\ r.pid = work[c].pid /\ r.phase = work[c].phase
         /\ r.made = work[c].made /\ r.failed = work[c].failed /\ r.owned = work[c].owned
         /\ r.bound = work[c].bound /\ r.name = work[c].name
         /\ r.at \in {"make", "mkdirat", "compare", "stat"}
<1>1. work[c] \in Calls
  BY TypedCall
<1> DEFINE s == Start(c)
<1>2. work'[c] = [To(c, s) EXCEPT !.handle = there] /\ s \in {"make", "mkdirat", "compare", "stat"}
  BY DEF Enters
<1> HIDE DEF s
<1>3. /\ work'[c].at = s /\ work'[c].op = work[c].op /\ work'[c].pid = work[c].pid
      /\ work'[c].phase = work[c].phase /\ work'[c].made = work[c].made
      /\ work'[c].failed = work[c].failed /\ work'[c].owned = work[c].owned
      /\ work'[c].bound = work[c].bound /\ work'[c].name = work[c].name
  BY <1>1, <1>2 DEF To, Calls
<1>4. QED
  BY <1>2, <1>3 DEF s

LEMMA MakesFileProfile ==
  ASSUME TypeOK, NEW c \in Callers, MakesFile(c)
  PROVE  LET r == work'[c] IN
         /\ r.at = "write" /\ r.op = work[c].op /\ r.pid = work[c].pid /\ r.phase = work[c].phase
         /\ r.made = <<c, 0>> /\ r.failed = work[c].failed /\ r.owned = work[c].owned
         /\ r.bound = work[c].bound /\ r.name = work[c].name
BY TypedCall DEF MakesFile, To, Calls

LEMMA SnapsProfile ==
  ASSUME TypeOK, NEW c \in Callers, Snaps(c)
  PROVE  LET r == work'[c] IN
         /\ r.at = IF work[c].at = "sync" THEN "close" ELSE "withdraw"
         /\ work[c].at \in {"sync", "refresh"}
         /\ r.op = work[c].op /\ r.pid = work[c].pid /\ r.phase = work[c].phase
         /\ r.made = Version(c) /\ r.failed = work[c].failed /\ r.owned = work[c].owned
         /\ r.bound = work[c].bound /\ r.name = work[c].name
<1>1. CASE work[c].at = "sync"
  BY ZenonT(30), <1>1, TypedCall DEF Snaps, To, Calls
<1>2. CASE work[c].at = "refresh"
  BY ZenonT(30), <1>2, TypedCall DEF Snaps, To, Calls
<1>3. QED
  BY <1>1, <1>2 DEF Snaps

LEMMA DieProfile ==
  ASSUME TypeOK, NEW c \in Callers, Die(c)
  PROVE  LET r == work'[c] IN
         /\ r.at = "dead" /\ r.op = "create" /\ r.phase = "create" /\ r.made = None
         /\ r.owned = None /\ r.bound = None /\ ~Working(c)' /\ ~IsWriter(c)'
         /\ Quiet /\ Working(c) /\ work[c].made # None
<1>1. work'[c] = [Idle EXCEPT !.at = "dead"] /\ Quiet /\ Working(c) /\ work[c].made # None
  BY DEF Die, Go, Become, Quiet, TypeOK
<1>2. QED
  BY <1>1 DEF Idle, Working, Ended, IsWriter, Writers

\* What the steps of a call keep of what it holds.
LEMMA StepHolds ==
  ASSUME TypeOK, Control, NEW c \in Callers, CallStep(c)
  PROVE  /\ Fresh(c)' => Fresh(c) /\ Quiet
         /\ work'[c].at = "write" => MakesFile(c)
         /\ \A i : /\ i \notin {Missing, work[c].bound[1], work[c].owned[1]}
                   /\ \A d \in {"bound", "foreign"}, n \in Names : names[d][n] # i
                   => work'[c].bound[1] # i /\ work'[c].owned[1] # i
         /\ \/ \E op \in Operations, pid \in Pids \cup {Missing} : Begin(c, op, pid)
            \/ Die(c)
            \/ /\ work'[c].op = work[c].op /\ work'[c].pid = work[c].pid
               /\ MakeName(c)' = MakeName(c) \/ ~IsWriter(c)
               /\ Working(c) /\ IsWriter(c)' = IsWriter(c)
<1> DEFINE Goal ==
         /\ Fresh(c)' => Fresh(c) /\ Quiet
         /\ work'[c].at = "write" => MakesFile(c)
         /\ \A i : /\ i \notin {Missing, work[c].bound[1], work[c].owned[1]}
                   /\ \A d \in {"bound", "foreign"}, n \in Names : names[d][n] # i
                   => work'[c].bound[1] # i /\ work'[c].owned[1] # i
         /\ \/ \E op \in Operations, pid \in Pids \cup {Missing} : Begin(c, op, pid)
            \/ Die(c)
            \/ /\ work'[c].op = work[c].op /\ work'[c].pid = work[c].pid /\ Working(c)
<1>1. /\ work[c] \in Calls /\ Coherent(c, work[c]) /\ there \in {"bound", "foreign"}
      /\ work[c].at = "look" => work[c].made # None
      /\ work[c].at \in {"idle", "read", "make"} => work[c].made = None
  BY TypedCall DEF Control, Coherent, HasMade, TypeOK
<1>2. \A n \in Names : Version(names[there][n])[1] = names[there][n]
  BY <1>1, InodeAtName, VersionIsSnapshot DEF Version, None, TypeOK
<1>3. None[1] = Missing /\ Entry \in Names /\ Stage \in Names /\ work[c].name \in Names
  BY <1>1, NamesInNames DEF None, Calls
<1>4. Goal
  <2>1. ASSUME NEW op \in Operations, NEW pid \in Pids \cup {Missing}, Begin(c, op, pid) PROVE Goal
    <3>1. work'[c].at \in {"read", "open"}
      BY <2>1, BeginProfile
    <3>2. Fresh(c) /\ Quiet
      BY <1>1, <2>1, BeginProfile DEF Fresh
    <3>3. /\ work'[c].owned[1] \in {Missing, names[there][Entry]}
          /\ work'[c].bound[1] \in {Missing, names[there][Stage]}
      <4>1. /\ work'[c].owned \in {None, Version(names[there][Entry])}
            /\ work'[c].bound \in {None, <<names[there][Stage], 0>>}
        BY <2>1, BeginProfile
      <4>2. QED
        BY <1>2, <1>3, <4>1
    <3>4. QED
      BY <1>1, <1>3, <2>1, <3>1, <3>2, <3>3
  <2>2. CASE Finds(c)
    <3> DEFINE n == IF work[c].at = "read" THEN Entry ELSE work[c].name
    <3>1. /\ work'[c].at = "open" /\ work'[c].op = work[c].op /\ work'[c].pid = work[c].pid
          /\ work'[c].made = work[c].made /\ work'[c].owned = work[c].owned
          /\ work'[c].bound \in {Version(names[there][n]), work[c].owned}
      BY <2>2, FindsProfile
    <3>2. work[c].at \in {"read", "look"} /\ Quiet /\ Working(c)
      BY <2>2 DEF Finds, Working, Ended
    <3>3. n \in Names
      BY <1>3
    <3> HIDE DEF n
    <3>4. work'[c].bound[1] \in {names[there][n], work[c].owned[1]}
      BY <1>2, <3>1, <3>3
    <3>5. Fresh(c)' => Fresh(c)
      BY <1>1, <3>1, <3>2 DEF Fresh
    <3>6. QED
      BY <1>1, <3>1, <3>2, <3>3, <3>4, <3>5
  <2>3. CASE Enters(c)
    <3>1. /\ work'[c].op = work[c].op /\ work'[c].pid = work[c].pid
          /\ work'[c].made = work[c].made /\ work'[c].owned = work[c].owned
          /\ work'[c].bound = work[c].bound /\ work'[c].at # "write"
      BY <2>3, EntersProfile
    <3>2. work[c].at = "open" /\ Quiet /\ Working(c)
      BY <2>3 DEF Enters, Working, Ended
    <3>3. Fresh(c)' => Fresh(c)
      BY <3>1, <3>2 DEF Fresh
    <3>4. QED
      BY <3>1, <3>2, <3>3
  <2>4. CASE MakesFile(c)
    <3>1. /\ work'[c].op = work[c].op /\ work'[c].pid = work[c].pid /\ work'[c].at = "write"
          /\ work'[c].owned = work[c].owned /\ work'[c].bound = work[c].bound
      BY <2>4, MakesFileProfile
    <3>2. Working(c)
      BY <2>4 DEF MakesFile, Working, Ended
    <3>3. QED
      BY <2>4, <3>1, <3>2 DEF Fresh
  <2>5. CASE Snaps(c)
    <3>1. /\ work'[c].op = work[c].op /\ work'[c].pid = work[c].pid
          /\ work'[c].at \in {"close", "withdraw"} /\ work[c].at \in {"sync", "refresh"}
          /\ work'[c].owned = work[c].owned /\ work'[c].bound = work[c].bound
      BY <2>5, SnapsProfile
    <3>2. QED
      BY <3>1 DEF Fresh, Working, Ended
  <2>6. CASE Die(c)
    <3>1. work'[c].at = "dead" /\ work'[c].bound = None /\ work'[c].owned = None
      BY <2>6, DieProfile
    <3>2. QED
      BY <1>3, <2>6, <3>1 DEF Fresh
  <2>7. CASE Goes(c)
    BY <2>7 DEF Goes, Holds, Fresh
  <2>8. QED
    BY <2>1, <2>2, <2>3, <2>4, <2>5, <2>6, <2>7, StepKinds
<1>5. work'[c].op = work[c].op /\ work'[c].pid = work[c].pid =>
        /\ MakeName(c)' = MakeName(c) \/ ~IsWriter(c)
        /\ IsWriter(c)' = IsWriter(c)
  BY DEF MakeName, IsWriter
<1>6. QED
  BY <1>4, <1>5

-----------------------------------------------------------------------------
(* A step of a call keeps what the invariant says of the directory as a whole. *)

LEMMA CallKeepsNames ==
  ASSUME TypeOK, Control, DistinctPids, Directories, NEW c \in Callers, CallStep(c)
  PROVE  /\ Injective' /\ FreshOthers' /\ ForeignNames'
         /\ \A n \in Names : Bound'[n] # Missing /\ (Bound'[n] # c \/ ~Fresh(c)) =>
              \E m \in Names : Bound[m] = Bound'[n]
         /\ Quiet => Bound' = Bound
<1>1. /\ Bound \in [Names -> Ids \cup {Missing}] /\ Missing \notin Ids /\ c \in Ids
      /\ c \notin Nat /\ Entry \in Names
      /\ MakeName(c) \in Names /\ work[c].name \in Names /\ Target(c) \in Names
  BY IdsApart, NamesInNames, MakeNameInNames DEF TypeOK, Bound
<1>2. /\ \A m, n \in Names : Bound[m] = Bound[n] /\ Bound[m] # Missing => m = n
      /\ \A n \in Names : Bound[n] \notin 2..(2 + othersLeft)
  BY DEF Directories, Injective, FreshOthers
<1>3. othersLeft' = othersLeft
  BY StepHasEffect
<1> DEFINE Goal == /\ \A m, n \in Names : Bound'[m] = Bound'[n] /\ Bound'[m] # Missing => m = n
                   /\ \A n \in Names : Bound'[n] \notin 2..(2 + othersLeft)
                   /\ names'["foreign"] = names["foreign"]
                   /\ \A n \in Names : Bound'[n] # Missing /\ (Bound'[n] # c \/ ~Fresh(c)) =>
                        \E m \in Names : Bound[m] = Bound'[n]
                   /\ Quiet => Bound' = Bound
<1>4. Goal
  <2>1. CASE Quiet
    BY <1>2, <2>1 DEF Quiet, Bound
  <2>2. ASSUME NEW n \in Names, NEW new \in Inodes, Makes(c, n, new) PROVE Goal
    <3>1. Bound' = [Bound EXCEPT ![n] = c] /\ names'["foreign"] = names["foreign"]
      BY <2>2, RenamesBound DEF Makes
    <3>2. Fresh(c) /\ \A m \in Names : Bound[m] # c
      BY <2>2, WhereCallsAct DEF Makes, At, Directories, FreshCalls
    <3>3. \A m \in Names : Bound'[m] = IF m = n THEN c ELSE Bound[m]
      BY <1>1, <3>1
    <3>4. c \notin 2..(2 + othersLeft)
      BY <1>1, BoundsAssumption DEF TypeOK
    <3>5. Quiet => Bound' = Bound
      BY DEF Quiet, Bound
    <3>6. QED
      BY <1>2, <3>1, <3>2, <3>3, <3>4, <3>5
  <2>3. ASSUME NEW bytes \in {"new", "half"}, Writes(c, bytes) PROVE Goal
    BY <1>2, <2>3 DEF Writes, Bound
  <2>4. ASSUME NEW n \in Names, Removes(c, n) PROVE Goal
    <3>1. Bound' = [Bound EXCEPT ![n] = Missing] /\ names'["foreign"] = names["foreign"]
      BY <2>4, RenamesBound DEF Removes
    <3>2. \A m \in Names : Bound'[m] = IF m = n THEN Missing ELSE Bound[m]
      BY <1>1, <3>1
    <3>3. Quiet => Bound' = Bound
      BY DEF Quiet, Bound
    <3>4. Missing \notin 2..(2 + othersLeft)
      BY CallersAssumption, BoundsAssumption DEF TypeOK
    <3>5. QED
      BY <1>2, <3>1, <3>2, <3>3, <3>4
  <2>5. CASE Replaces(c)
    <3> DEFINE t == MakeName(c)
    <3>1. /\ Bound' = [Bound EXCEPT ![Entry] = Bound[t], ![t] = Missing] /\ Bound[t] # Missing
          /\ names'["foreign"] = names["foreign"]
      BY <2>5, RenamesBound DEF Replaces
    <3> HIDE DEF t
    <3>2. \A m \in Names : Bound'[m] = IF m = t THEN Missing ELSE IF m = Entry THEN Bound[t] ELSE Bound[m]
      BY <1>1, <3>1
    <3>3. Quiet => Bound' = Bound
      BY DEF Quiet, Bound
    <3>4. Missing \notin 2..(2 + othersLeft)
      BY CallersAssumption, BoundsAssumption DEF TypeOK
    <3>5. t \in Names
      BY <1>1 DEF t
    <3>6. \A k \in Names : Bound'[k] # Missing => Bound[IF k = Entry THEN t ELSE k] = Bound'[k]
      BY <3>2
    <3>7. \A k, l \in Names : Bound'[k] = Bound'[l] /\ Bound'[k] # Missing => k = l
      BY <1>2, <3>2, <3>5
    <3>8. QED
      BY <1>1, <1>2, <3>1, <3>3, <3>4, <3>5, <3>6, <3>7
  <2>6. CASE Moves(c)
    <3> DEFINE n == work[c].name
               m == Target(c)
    <3>1. /\ Bound' = [Bound EXCEPT ![m] = Bound[n], ![n] = Missing]
          /\ Bound[n] # Missing /\ Bound[m] = Missing
          /\ names'["foreign"] = names["foreign"]
      BY <2>6, RenamesBound DEF Moves
    <3>2. n \in Names /\ m \in Names /\ n # m
      BY <1>1, <3>1
    <3> HIDE DEF n, m
    <3>3. \A k \in Names : Bound'[k] = IF k = n THEN Missing ELSE IF k = m THEN Bound[n] ELSE Bound[k]
      BY <1>1, <3>1, <3>2
    <3>4. Quiet => Bound' = Bound
      BY DEF Quiet, Bound
    <3>5. Missing \notin 2..(2 + othersLeft)
      BY CallersAssumption, BoundsAssumption DEF TypeOK
    <3>6. \A k \in Names : Bound'[k] # Missing => Bound[IF k = m THEN n ELSE k] = Bound'[k]
      BY <3>3
    <3>7. \A k, l \in Names : Bound'[k] = Bound'[l] /\ Bound'[k] # Missing => k = l
      BY <1>2, <3>1, <3>2, <3>3
    <3>8. QED
      BY <1>2, <3>1, <3>2, <3>4, <3>5, <3>6, <3>7
  <2>7. QED
    BY <2>1, <2>2, <2>3, <2>4, <2>5, <2>6, StepHasEffect DEF Effect
<1>5. QED
  BY <1>3, <1>4 DEF Injective, FreshOthers, ForeignNames, Directories

LEMMA CallKeepsFresh ==
  ASSUME TypeOK, Control, DistinctPids, Directories, NEW c \in Callers, CallStep(c)
  PROVE  FreshCalls'
<1> SUFFICES ASSUME NEW e \in Callers, Fresh(e)'
             PROVE  /\ \A n \in Names : Bound'[n] # e
                    /\ \A d \in Callers : work'[d].owned[1] # e /\ work'[d].bound[1] # e
  BY DEF FreshCalls
<1>1. \A d \in Callers \ {c} : work'[d] = work[d]
  BY StepIsCoherent DEF Become, TypeOK
<1>2. Fresh(e) /\ (e = c => Quiet)
  BY <1>1, StepHolds DEF Fresh
<1>3. /\ \A n \in Names : Bound[n] # e
      /\ \A d \in Callers : work[d].owned[1] # e /\ work[d].bound[1] # e
      /\ \A n \in Names : names["foreign"][n] # e
  BY <1>2 DEF Directories, FreshCalls, ForeignNames
<1>4. \A n \in Names : Bound'[n] # e
  <2>1. CASE e = c
    BY <1>2, <1>3, <2>1, CallKeepsNames
  <2>2. CASE e # c
    BY <1>3, <2>2, IdsApart, CallKeepsNames
  <2>3. QED
    BY <2>1, <2>2
<1>5. work'[c].owned[1] # e /\ work'[c].bound[1] # e
  <2>1. \A d \in {"bound", "foreign"}, n \in Names : names[d][n] # e
    BY <1>3 DEF Bound
  <2>2. e \notin {Missing, work[c].bound[1], work[c].owned[1]}
    BY <1>3, IdsApart
  <2>3. QED
    BY <2>1, <2>2, StepHolds
<1>6. QED
  BY <1>1, <1>3, <1>4, <1>5

\* What a step of a call makes of its own file.
LEMMA OwnFile ==
  ASSUME TypeOK, Control, NEW c \in Callers, CallStep(c)
  PROVE  /\ \A i \in Ids \ {c} : inode'[i] = inode[i]
         /\ \/ inode'[c] = inode[c]
            \/ /\ work[c].at = "write" /\ inode'[c].stamp = inode[c].stamp + 1 /\ inode'[c].by = c
               /\ inode'[c].kind = inode[c].kind
            \/ /\ Fresh(c) /\ inode'[c].stamp = 0 /\ inode'[c].by = c
               /\ inode'[c].kind = IF work[c].at = "make" THEN "file" ELSE "directory"
               /\ work[c].at \in {"make", "mkdirat"}
<1>1. c \in Ids /\ inode \in [Ids -> Inodes]
  BY IdsApart DEF TypeOK, Inodes
<1> DEFINE Goal == /\ \A i \in Ids \ {c} : inode'[i] = inode[i]
                   /\ \/ inode'[c] = inode[c]
                      \/ /\ work[c].at = "write" /\ inode'[c].stamp = inode[c].stamp + 1
                         /\ inode'[c].by = c /\ inode'[c].kind = inode[c].kind
                      \/ /\ Fresh(c) /\ inode'[c].stamp = 0 /\ inode'[c].by = c
                         /\ inode'[c].kind = IF work[c].at = "make" THEN "file" ELSE "directory"
                         /\ work[c].at \in {"make", "mkdirat"}
<1>2. ASSUME NEW n \in Names, NEW new \in Inodes, Makes(c, n, new) PROVE Goal
  <2>1. inode' = [inode EXCEPT ![c] = new] /\ Fresh(c)
    BY <1>2, WhereCallsAct DEF Makes, At
  <2>2. /\ new.stamp = 0 /\ new.by = c /\ work[c].at \in {"make", "mkdirat"}
        /\ new.kind = IF work[c].at = "make" THEN "file" ELSE "directory"
    BY <1>2 DEF Makes, At, File, Directory
  <2>3. QED
    BY <1>1, <2>1, <2>2
<1>3. ASSUME NEW bytes \in {"new", "half"}, Writes(c, bytes) PROVE Goal
  BY <1>1, <1>3 DEF Writes, Put, At, Inodes
<1>4. UNCHANGED inode => Goal
  OBVIOUS
<1> HIDE DEF Goal
<1>5. Goal
  BY <1>2, <1>3, <1>4, StepHasEffect DEF Effect, Quiet, Removes, Replaces, Moves
<1>6. QED
  BY <1>5 DEF Goal

LEMMA CallKeepsStamps ==
  ASSUME TypeOK, Control, DistinctPids, Directories, NEW c \in Callers, CallStep(c)
  PROVE  Stamps'
<1>1. \A d \in Callers \ {c} : work'[d] = work[d]
  BY StepIsCoherent DEF Become, TypeOK
<1>2. othersLeft' = othersLeft /\ othersLeft \in 0..MaxOthers
  BY StepHasEffect DEF TypeOK
<1>3. \A i \in Ids : inode[i].stamp \in Nat
  BY BoundsAssumption DEF TypeOK
<1>4. /\ \A i \in Ids : inode[i].stamp <= 1 + MaxOthers - othersLeft
      /\ \A i \in Ids \ Callers : inode[i].stamp <= MaxOthers - othersLeft
      /\ \A d \in Callers : Fresh(d) \/ work[d].at = "write" =>
           inode[d].stamp <= MaxOthers - othersLeft
  BY DEF Directories, Stamps
<1>5. \A i \in Ids \ {c} : inode'[i] = inode[i]
  BY OwnFile
<1>6. inode'[c].stamp <= 1 + MaxOthers - othersLeft
  BY <1>2, <1>3, <1>4, OwnFile, BoundsAssumption, IdsApart
<1>7. Fresh(c)' => inode'[c].stamp <= MaxOthers - othersLeft
  BY <1>4, StepHolds DEF Quiet
<1>8. work'[c].at = "write" => inode'[c].stamp <= MaxOthers - othersLeft
  <2>1. work'[c].at = "write" => work[c].at = "make"
    BY StepHolds DEF MakesFile
  <2>2. work[c].at = "make" => Fresh(c)
    BY WhereCallsAct
  <2>3. QED
    BY <1>2, <1>4, <2>1, <2>2, OwnFile, BoundsAssumption
<1>9. \A d \in Callers \ {c} : Fresh(d)' = Fresh(d)
  BY <1>1 DEF Fresh
<1>10. QED
  BY <1>1, <1>2, <1>4, <1>5, <1>6, <1>7, <1>8, <1>9, IdsApart DEF Stamps


LEMMA CallKeepsPids ==
  ASSUME TypeOK, Control, DistinctPids, NEW c \in Callers, CallStep(c)
  PROVE  DistinctPids'
<1>1. \A d \in Callers \ {c} : work'[d] = work[d]
  BY StepIsCoherent DEF Become, TypeOK
<1>2. \A d \in Callers : IsWriter(d) <=> work[d].pid # Missing
  BY DEF Control, Coherent, IsWriter
<1>3. ASSUME NEW a \in Callers, NEW b \in Callers, a # b, Working(a)', Working(b)', IsWriter(a)'
      PROVE  work'[a].pid # work'[b].pid
  <2>1. CASE a # c /\ b # c
    BY <1>1, <1>3, <2>1 DEF Working, IsWriter, DistinctPids
  <2>2. CASE \E op \in Operations, pid \in Pids \cup {Missing} : Begin(c, op, pid)
    <3>1. PICK op \in Operations, pid \in Pids \cup {Missing} : Begin(c, op, pid)
      BY <2>2
    <3>2. /\ \A d \in Callers \ {c} : Working(d) => work[d].pid # pid \/ pid = Missing
          /\ pid = Missing <=> op \notin Writers
      BY <3>1 DEF Begin
    <3>3. work'[c].pid = pid /\ work'[c].op = op
      BY <3>1, BeginProfile
    <3>4. CASE a = c
      BY <1>1, <1>3, <3>2, <3>3, <3>4 DEF Working, IsWriter
    <3>5. CASE b = c
      <4>1. Working(a) /\ IsWriter(a) /\ work'[a] = work[a]
        BY <1>1, <1>3, <3>5 DEF Working, IsWriter
      <4>2. work[a].pid # Missing
        BY <1>2, <4>1
      <4>3. QED
        BY <1>3, <3>2, <3>3, <3>5, <4>1, <4>2
    <3>6. QED
      BY <2>1, <3>4, <3>5
  <2>3. CASE Die(c)
    <3>1. ~Working(c)' /\ ~IsWriter(c)'
      BY <2>3, DieProfile
    <3>2. QED
      BY <1>3, <2>1, <3>1
  <2>4. CASE /\ work'[c].op = work[c].op /\ work'[c].pid = work[c].pid
             /\ Working(c)
    <3>1. /\ Working(a) /\ Working(b) /\ IsWriter(a)
          /\ work'[a].pid = work[a].pid /\ work'[b].pid = work[b].pid
      BY <1>1, <1>3, <2>4 DEF Working, IsWriter
    <3>2. QED
      BY <1>3, <3>1 DEF DistinctPids
  <2>5. QED
    BY <2>2, <2>3, <2>4, StepHolds
<1>4. QED
  BY <1>3 DEF DistinctPids

LEMMA CallKeepsOwn ==
  ASSUME TypeOK, Control, DistinctPids, Directories, NEW c \in Callers, CallStep(c)
  PROVE  Own(c)'
<1>1. /\ Bound \in [Names -> Ids \cup {Missing}] /\ c \in Ids /\ Missing # c /\ Entry \in Names
      /\ MakeName(c) \in Names /\ work[c].name \in Names /\ Target(c) \in Names
      /\ Source(c) \in Names /\ Destination(c) \in Names
  BY IdsApart, NamesInNames, MakeNameInNames DEF TypeOK, Bound
<1>2. Own(c) /\ work[c] \in Calls /\ Coherent(c, work[c])
  BY TypedCall DEF Directories, Control
<1>3. inode'[c].by = c \/ inode'[c] = inode[c]
  BY OwnFile
<1>4. PrivateNames(c)'
  <2> DEFINE Private == {Source(c), Destination(c)}
  <2>1. Entry \notin Private /\ Release \notin Private /\ Aside \notin Private
    BY NamesApart
  <2>2. \A n \in Private : Bound[n] \in {Missing, c} /\ (Bound[n] = c => inode[c].by = c)
    BY <1>2 DEF Own, PrivateNames
  <2> SUFFICES \A n \in Private : Bound'[n] \in {Missing, c} /\ (Bound'[n] = c => inode'[c].by = c)
    BY DEF PrivateNames
  <2>3. \A n \in Private : Bound'[n] = Bound[n] =>
          Bound'[n] \in {Missing, c} /\ (Bound'[n] = c => inode'[c].by = c)
    BY <1>3, <2>2
  <2>4. CASE Quiet
    BY <2>3, <2>4 DEF Quiet, Bound
  <2>5. ASSUME NEW n \in Names, NEW new \in Inodes, Makes(c, n, new)
        PROVE  \A m \in Private : Bound'[m] \in {Missing, c} /\ (Bound'[m] = c => inode'[c].by = c)
    <3>1. Bound' = [Bound EXCEPT ![n] = c] /\ inode' = [inode EXCEPT ![c] = new] /\ new.by = c
      BY <2>5, RenamesBound DEF Makes, File, Directory
    <3>2. \A m \in Names : Bound'[m] = IF m = n THEN c ELSE Bound[m]
      BY <1>1, <3>1
    <3>3. inode'[c].by = c
      BY <1>1, <3>1 DEF TypeOK
    <3>4. QED
      BY <1>1, <2>2, <3>2, <3>3
  <2>6. ASSUME NEW bytes \in {"new", "half"}, Writes(c, bytes)
        PROVE  \A m \in Private : Bound'[m] \in {Missing, c} /\ (Bound'[m] = c => inode'[c].by = c)
    BY <2>3, <2>6 DEF Writes, Bound
  <2>7. ASSUME NEW n \in Names, Removes(c, n)
        PROVE  \A m \in Private : Bound'[m] \in {Missing, c} /\ (Bound'[m] = c => inode'[c].by = c)
    <3>1. Bound' = [Bound EXCEPT ![n] = Missing]
      BY <2>7, RenamesBound DEF Removes
    <3>2. \A m \in Private : Bound'[m] = Missing \/ Bound'[m] = Bound[m]
      BY <1>1, <3>1
    <3>3. QED
      BY <1>1, <2>3, <3>2
  <2>8. CASE Replaces(c)
    <3>1. Bound' = [Bound EXCEPT ![Entry] = Bound[MakeName(c)], ![MakeName(c)] = Missing]
      BY <2>8, RenamesBound DEF Replaces
    <3>2. \A m \in Private : Bound'[m] = Missing \/ Bound'[m] = Bound[m]
      BY <1>1, <2>1, <3>1
    <3>3. QED
      BY <1>1, <2>3, <3>2
  <2>9. CASE Moves(c)
    <3> DEFINE n == work[c].name
               t == Target(c)
    <3>1. Bound' = [Bound EXCEPT ![t] = Bound[n], ![n] = Missing]
      BY <2>9, RenamesBound DEF Moves
    <3>2. n = Source(c) \/ t \in {Aside, Release}
      BY <2>9, WhereCallsAct DEF Moves, At, Target
    <3> HIDE DEF n, t
    <3>3. \A m \in Private : \/ Bound'[m] \in {Missing, Bound[m]}
                             \/ Bound'[m] = Bound[Source(c)]
      BY <1>1, <2>1, <3>1, <3>2 DEF n, t
    <3>4. inode' = inode
      BY <2>9 DEF Moves
    <3>5. QED
      BY <1>1, <2>2, <3>3, <3>4
  <2>10. QED
    BY <2>4, <2>5, <2>6, <2>7, <2>8, <2>9, StepHasEffect DEF Effect
<1>5. OwnTemporary(c)'
  <2> SUFFICES ASSUME IsWriter(c)', Working(c)', work'[c].at \notin {"read", "open", "make"}
               PROVE  Bound'[MakeName(c)'] \notin Callers \ {c}
    BY DEF OwnTemporary
  <2>1. CASE \E op \in Operations, pid \in Pids \cup {Missing} : Begin(c, op, pid)
    BY <2>1, BeginProfile
  <2>2. CASE Die(c)
    BY <2>2, DieProfile
  <2>3. CASE /\ work'[c].op = work[c].op
             /\ MakeName(c)' = MakeName(c) \/ ~IsWriter(c)
             /\ Working(c) /\ IsWriter(c)' = IsWriter(c)
    <3> DEFINE t == MakeName(c)
    <3>1. MakeName(c)' = t /\ IsWriter(c)
      BY <2>3
    <3>2. t \in Temporaries /\ t # Entry /\ t # work[c].name /\ t # Target(c) /\ t # Release
      BY <3>1, WhereCallsAct, NamesApart
    <3>3. Bound'[t] \in {Bound[t], Missing, c}
      <4> HIDE DEF t
      <4>1. CASE Quiet
        BY <4>1 DEF Quiet, Bound
      <4>2. ASSUME NEW n \in Names, NEW new \in Inodes, Makes(c, n, new) PROVE Bound'[t] \in {Bound[t], Missing, c}
        <5>1. Bound' = [Bound EXCEPT ![n] = c]
          BY <4>2, RenamesBound DEF Makes
        <5>2. QED
          BY <1>1, <5>1 DEF t
      <4>3. ASSUME NEW bytes \in {"new", "half"}, Writes(c, bytes) PROVE Bound'[t] \in {Bound[t], Missing, c}
        BY <4>3 DEF Writes, Bound
      <4>4. ASSUME NEW n \in Names, Removes(c, n) PROVE Bound'[t] \in {Bound[t], Missing, c}
        <5>1. Bound' = [Bound EXCEPT ![n] = Missing]
          BY <4>4, RenamesBound DEF Removes
        <5>2. QED
          BY <1>1, <5>1 DEF t
      <4>5. CASE Replaces(c)
        <5>1. Bound' = [Bound EXCEPT ![Entry] = Bound[t], ![t] = Missing]
          BY <4>5, RenamesBound DEF Replaces, t
        <5>2. QED
          BY <1>1, <5>1 DEF t
      <4>6. CASE Moves(c)
        <5>1. Bound' = [Bound EXCEPT ![Target(c)] = Bound[work[c].name], ![work[c].name] = Missing]
          BY <4>6, RenamesBound DEF Moves
        <5>2. QED
          BY <1>1, <3>2, <5>1 DEF t
      <4>7. QED
        BY <4>1, <4>2, <4>3, <4>4, <4>5, <4>6, StepHasEffect DEF Effect
    <3>4. work[c].at \notin {"read", "open", "make"} \/ Bound'[t] = c
      <4>1. work[c].at \in {"read", "open", "make"} => MakesFile(c)
        <5>1. Finds(c) /\ work[c].at # "look" => work'[c].at = "open"
          BY FindsProfile
        <5>2. Enters(c) => work'[c].at \in {"make", "mkdirat", "compare", "stat"}
          BY EntersProfile
        <5>3. Enters(c) => work'[c].at = "make"
          BY <3>1, EntersProfile DEF Start, IsWriter, Writers
        <5>4. Snaps(c) => work[c].at \in {"sync", "refresh"}
          BY DEF Snaps
        <5>5. Goes(c) /\ work[c].at \in {"read", "open", "make"} => work'[c].at \in {"threw", "look"}
          BY DEF Goes
        <5>6. ~Die(c) /\ ~\E op \in Operations, pid \in Pids \cup {Missing} : Begin(c, op, pid)
          BY <2>3, BeginProfile, DieProfile DEF Working, Ended
        <5>7. work'[c].at # "look"
          <6>1. Coherent(c, work'[c])
            BY StepIsCoherent DEF Become, TypeOK
          <6>2. QED
            BY <6>1 DEF Coherent, PlacesOf, MakingPlaces, Ended, IsWriter, Writers
        <5>8. work'[c].at # "threw"
          BY DEF Working, Ended
        <5>9. QED
          BY <5>1, <5>2, <5>3, <5>4, <5>5, <5>6, <5>7, <5>8, StepKinds
      <4>2. MakesFile(c) => Bound'[t] = c
        <5>1. MakesFile(c) => Bound' = [Bound EXCEPT ![t] = c]
          BY RenamesBound DEF MakesFile, Makes
        <5>2. QED
          BY <1>1, <5>1
      <4>3. QED
        BY <4>1, <4>2
    <3>5. work[c].at \notin {"read", "open", "make"} => Bound[t] \notin Callers \ {c}
      BY <1>2, <2>3, <3>1 DEF Own, OwnTemporary
    <3>6. QED
      BY <3>1, <3>3, <3>4, <3>5, IdsApart
  <2>4. QED
    BY <2>1, <2>2, <2>3, StepHolds
<1>6. Kind(c)'
  <2>1. work'[c].made # None => work[c].made # None \/ MakesFile(c)
    <3>1. Finds(c) => work'[c].made = work[c].made
      BY FindsProfile
    <3>2. Enters(c) => work'[c].made = work[c].made
      BY EntersProfile
    <3>3. Snaps(c) => work[c].made # None
      BY <1>2 DEF Snaps, Coherent, HasMade
    <3>4. Die(c) => work'[c].made = None
      BY DieProfile
    <3>5. (\E op \in Operations, pid \in Pids \cup {Missing} : Begin(c, op, pid)) => work'[c].made = None
      BY BeginProfile
    <3>6. Goes(c) => work'[c].made = work[c].made
      BY DEF Goes, Holds
    <3>7. QED
      BY <3>1, <3>2, <3>3, <3>4, <3>5, <3>6, StepKinds
  <2>2. work[c].made # None => inode[c].kind = "file" /\ work[c].at \notin {"make", "mkdirat"}
    BY <1>2, WhereCallsAct DEF Own, Kind, Fresh
  <2>3. work'[c].made # None => inode'[c].kind = "file"
    <3>1. CASE MakesFile(c)
      BY <1>1, <3>1 DEF MakesFile, Makes, File, TypeOK
    <3>2. CASE work[c].made # None
      BY <2>2, <3>2, OwnFile
    <3>3. QED
      BY <2>1, <3>1, <3>2
  <2>4. ASSUME work'[c].op = "mkdir", NEW n \in Names, Bound'[n] = c PROVE inode'[c].kind = "directory"
    <3>1. CASE work[c].at \in {"make", "mkdirat"} /\ inode'[c] # inode[c]
      <4>1. work[c].op = "mkdir"
        BY <2>4, <3>1, StepHolds, BeginProfile, DieProfile
      <4>2. work[c].at = "mkdirat"
        BY <3>1, <4>1, WhereCallsAct DEF Writers
      <4>3. QED
        BY <3>1, <4>2, OwnFile
    <3>2. CASE Fresh(c) /\ \A m \in Names : Bound[m] # c
      <4>1. ~Quiet
        BY <2>4, <3>2, CallKeepsNames
      <4>2. \A m \in Names : ~Removes(c, m)
        BY <3>2 DEF Removes, Fresh
      <4>3. ~Replaces(c) /\ ~Moves(c) /\ \A b : ~Writes(c, b)
        BY <3>2 DEF Replaces, Moves, Writes, Fresh, At
      <4>4. PICK m \in Names, new \in Inodes : Makes(c, m, new)
        BY <4>1, <4>2, <4>3, StepHasEffect DEF Effect
      <4>5. work[c].at # "make"
        <5>1. work[c].at = "make" => work'[c].op = work[c].op
          <6>1. work[c].at = "make" => ~Die(c)
            BY <3>2, DieProfile DEF Fresh
          <6>2. work[c].at = "make" => ~\E op \in Operations, pid \in Pids \cup {Missing} : Begin(c, op, pid)
            BY BeginProfile
          <6>3. QED
            BY <6>1, <6>2, StepHolds
        <5>2. work[c].at = "make" => work[c].op \in Writers \cup {"create", "probe"}
          BY WhereCallsAct
        <5>3. QED
          BY <2>4, <5>1, <5>2 DEF Writers
      <4>6. inode'[c] = Directory(c)
        BY <1>1, <4>4, <4>5 DEF Makes, At, TypeOK
      <4>7. QED
        BY <4>6 DEF Directory
    <3>3. CASE /\ ~(work[c].at \in {"make", "mkdirat"} /\ inode'[c] # inode[c])
               /\ ~(Fresh(c) /\ \A m \in Names : Bound[m] # c)
      <4>1. ~Fresh(c)
        BY <3>3 DEF Directories, FreshCalls
      <4>2. \E m \in Names : Bound[m] = c
        BY <1>1, <2>4, <4>1, CallKeepsNames
      <4>3. work[c].op = "mkdir"
        <5>1. ~\E op \in Operations, pid \in Pids \cup {Missing} : Begin(c, op, pid)
          <6>1. work[c].at # "idle"
            BY <1>2, <4>1 DEF Coherent, Fresh
          <6>2. QED
            BY <6>1, BeginProfile
        <5>2. ~Die(c)
          BY <2>4, DieProfile
        <5>3. QED
          BY <2>4, <5>1, <5>2, StepHolds
      <4>4. inode[c].kind = "directory"
        BY <1>2, <4>2, <4>3 DEF Own, Kind
      <4>5. inode'[c].kind = inode[c].kind
        BY <3>3, <4>1, OwnFile
      <4>6. QED
        BY <4>4, <4>5
    <3>4. QED
      BY <3>1, <3>2, <3>3
  <2>5. QED
    BY <2>3, <2>4 DEF Kind
<1>7. Snapshot(c)'
  <2>1. inode[c].stamp \in Nat /\ work[c].made[2] \in Nat
    BY <1>1, <1>2, BoundsAssumption DEF TypeOK, Snapshots, Calls
  <2>2. work[c].made # None => work[c].made[2] <= inode[c].stamp
    BY <1>2 DEF Own, Snapshot
  <2>3. work[c].made # None => ~Fresh(c)
    BY DEF Fresh
  <2>4. work[c].made # None => inode[c].stamp <= inode'[c].stamp /\ inode'[c].stamp \in Nat
    BY <2>1, <2>3, OwnFile
  <2>5. work[c].made # None /\ work'[c].made = work[c].made => work'[c].made[2] <= inode'[c].stamp
    BY <2>1, <2>2, <2>4
  <2>6. Goes(c) => work'[c].made = work[c].made /\ work'[c].at # "write"
    BY DEF Goes, Holds
  <2>7. Finds(c) => work'[c].made = work[c].made /\ work'[c].at # "write"
    BY FindsProfile
  <2>8. Enters(c) => work'[c].made = work[c].made /\ work'[c].at # "write"
    BY EntersProfile
  <2>9. Die(c) => work'[c].made = None /\ work'[c].at # "write"
    BY DieProfile
  <2>10. (\E op \in Operations, pid \in Pids \cup {Missing} : Begin(c, op, pid)) =>
            work'[c].made = None /\ work'[c].at # "write"
    BY BeginProfile
  <2>11. Snaps(c) => work'[c].made[2] <= inode'[c].stamp /\ work'[c].at # "write"
    <3>1. Snaps(c) => work'[c].made = <<c, inode[c].stamp>> /\ inode' = inode /\ work'[c].at # "write"
      BY <1>1, SnapsProfile DEF Snaps, Quiet, Version
    <3>2. QED
      BY <2>1, <3>1
  <2>12. MakesFile(c) => work'[c].made[2] = 0 /\ inode'[c].stamp = 0
    <3>1. MakesFile(c) => work'[c].made = <<c, 0>> /\ inode' = [inode EXCEPT ![c] = File("empty", c)]
      BY MakesFileProfile DEF MakesFile, Makes
    <3>2. QED
      BY <1>1, <3>1 DEF File, TypeOK
  <2>13. QED
    BY <2>5, <2>6, <2>7, <2>8, <2>9, <2>10, <2>11, <2>12, StepKinds DEF Snapshot
<1>8. QED
  BY <1>4, <1>5, <1>6, <1>7 DEF Own

-----------------------------------------------------------------------------
(* The steps of a call, by where they lead and why. *)

\* To the next place of the operation.
Advances(c, place) ==
  /\ work'[c] = To(c, place)
  /\ \/ /\ At(c, "write") /\ place = "sync"
        /\ \E b \in {"new", "half"} : Writes(c, b) /\ (b = "half" => inode[c].by # c)
     \/ At(c, "mkdirat") /\ place = "check made" /\ Makes(c, Release, Directory(c))
     \/ At(c, "rename over") /\ place = "readback" /\ Replaces(c)
     \/ /\ Quiet
        /\ \/ /\ At(c, "close") /\ work[c].op \in Writers \cup {"create"}
              /\ place = IF IsWriter(c) THEN "compare temporary" ELSE "readback"
           \/ At(c, "withdraw") /\ place = "unlink made" /\ Seen(c, MakeName(c)) = work[c].made
           \/ At(c, "compare temporary") /\ place = "compare" /\ Seen(c, MakeName(c)) = work[c].made
           \/ /\ At(c, "compare") /\ SameObject(c)
              /\ place = IF IsWriter(c) THEN "rename over" ELSE "unlink"
           \/ At(c, "compare") /\ IsWriter(c) /\ place = "withdraw"
           \/ At(c, "rename over") /\ place = "withdraw"
           \/ At(c, "stat") /\ place = "rename" /\ (work[c].op = "move" => SameObject(c))

Finishes(c) ==
  /\ work'[c] = Done(c)
  /\ \/ At(c, "unlink") /\ Removes(c, work[c].name)
     \/ At(c, "rename") /\ Moves(c)
     \/ /\ Quiet
        /\ \/ At(c, "close") /\ work[c].op \notin Writers \cup {"create"}
           \/ At(c, "readback") \/ At(c, "check made")

Throws(c) ==
  /\ work'[c] = Thrown(c)
  /\ Working(c) /\ work[c].at \notin {"write", "sync", "close", "refresh", "rename over"}
  /\ \/ At(c, "unlink made") /\ Removes(c, MakeName(c))
     \/ /\ Quiet
        /\ At(c, "look") => names[there][work[c].name] = Missing
        /\ At(c, "open") => there # "bound"
        /\ work[c].at \in {"withdraw", "compare temporary"} => Seen(c, MakeName(c)) # work[c].made
        /\ At(c, "unlink made") => IsA("directory", Bound[MakeName(c)])
        /\ At(c, "compare") => ~SameObject(c) /\ ~IsWriter(c)
        /\ At(c, "unlink") => work[c].op = "rmdir" \/ ~IsA("file", Bound[work[c].name])

Faults(c) ==
  /\ Working(c) /\ ~At(c, "refresh")
  /\ work'[c] = [AfterFault(c) EXCEPT
                  !.failed = @ \cup {IF work[c].phase \in Clearing THEN "clearing"
                                     ELSE work[c].at}]
  /\ Quiet \/ Writes(c, "half")

LEMMA StepTable ==
  ASSUME TypeOK, Control, NEW c \in Callers, CallStep(c)
  PROVE  \/ \E op \in Operations, pid \in Pids \cup {Missing} : Begin(c, op, pid)
         \/ Finds(c) \/ Enters(c) \/ MakesFile(c) \/ Snaps(c) \/ Die(c)
         \/ \E place \in Places : Advances(c, place)
         \/ Finishes(c) \/ Throws(c) \/ Faults(c)
<1> DEFINE Goal == \/ \E op \in Operations, pid \in Pids \cup {Missing} : Begin(c, op, pid)
                   \/ Finds(c) \/ Enters(c) \/ MakesFile(c) \/ Snaps(c) \/ Die(c)
                   \/ \E place \in Places : Advances(c, place)
                   \/ Finishes(c) \/ Throws(c) \/ Faults(c)
           w == work[c]
<1> SUFFICES Goal
  OBVIOUS
<1>1. /\ w \in Calls /\ Coherent(c, w) /\ work \in [Callers -> Calls]
      /\ w.handle = "bound" /\ there \in {"bound", "foreign"}
  BY TypedCall DEF Control, TypeOK, Calls, Coherent
<1>2. Here(c) = Bound
  BY <1>1 DEF Here, Bound
<1>become. ASSUME NEW r, Become(c, r) PROVE work'[c] = r
  BY <1>1, <1>become DEF Become
<1>go. ASSUME NEW r, Go(c, r) PROVE work'[c] = r /\ Quiet
  BY <1>1, <1>go DEF Become, Go, Quiet
<1>throw. ASSUME Throw(c) PROVE work'[c] = Thrown(c) /\ Quiet
  BY <1>throw, <1>go DEF Throw
<1>taken. ASSUME NEW n, NEW changed, NEW r, Take(c, n, changed, r)
          PROVE  /\ Renames(changed) /\ Touch(c, n, FALSE) /\ UNCHANGED inode
                 /\ work'[c] = r
  BY <1>1, <1>taken, <1>become DEF Take, Rewrite, Renames
<1>work. w.at \notin {"idle", "dead"} \cup Ended => Working(c)
  BY DEF Working
<1>to. ASSUME NEW place \in Places, Advances(c, place) PROVE Goal
  BY <1>to
<1>look. CASE Look(c)
  <2>1. CASE Go(c, [To(c, "open") EXCEPT !.bound = Version(names[there][w.name])])
             /\ Version(names[there][w.name]) # None
    BY <2>1, <1>look, <1>go DEF Look, At, Finds, Version
  <2>2. CASE Version(names[there][w.name]) = None
    <3>1. names[there][w.name] = Missing
      <4>1. w.name \in Names
        BY <1>1 DEF Calls
      <4>2. QED
        BY <1>1, <2>2, <4>1, InodeAtName, VersionIsSnapshot DEF TypeOK
    <3>2. Throws(c)
      BY <1>look, <2>2, <3>1, <1>throw, <1>work DEF Look, At, Throws, Ended
    <3>3. QED
      BY <3>2
  <2>3. QED
    BY <1>look, <2>1, <2>2 DEF Look
<1>withdraw. CASE Withdraw(c)
  <2>1. CASE Go(c, To(c, "unlink made")) /\ Seen(c, MakeName(c)) = w.made
    <3>1. Advances(c, "unlink made")
      BY <1>withdraw, <2>1, <1>go DEF Withdraw, Advances
    <3>2. QED
      BY <3>1, <1>to DEF Places
  <2>2. CASE Throw(c) /\ Seen(c, MakeName(c)) # w.made
    BY <1>withdraw, <2>2, <1>throw, <1>work DEF Withdraw, At, Throws, Ended
  <2>3. QED
    BY <1>withdraw, <2>1, <2>2 DEF Withdraw
<1>compareTemporary. CASE CompareTemporary(c)
  <2>1. CASE Go(c, To(c, "compare")) /\ Seen(c, MakeName(c)) = w.made
    <3>1. Advances(c, "compare")
      BY <1>compareTemporary, <2>1, <1>go DEF CompareTemporary, Advances
    <3>2. QED
      BY <3>1, <1>to DEF Places
  <2>2. CASE Throw(c) /\ Seen(c, MakeName(c)) # w.made
    BY <1>compareTemporary, <2>2, <1>throw, <1>work DEF CompareTemporary, At, Throws, Ended
  <2>3. QED
    BY <1>compareTemporary, <2>1, <2>2 DEF CompareTemporary
<1>unlinkMade. CASE UnlinkMade(c)
  <2>1. CASE IsA("directory", Bound[MakeName(c)]) /\ Throw(c)
    BY <1>unlinkMade, <2>1, <1>throw, <1>work DEF UnlinkMade, At, Throws, Ended
  <2>2. CASE Take(c, MakeName(c), [Bound EXCEPT ![MakeName(c)] = Missing], Thrown(c))
    <3>1. Removes(c, MakeName(c)) /\ work'[c] = Thrown(c)
      BY <2>2, <1>taken, <1>unlinkMade DEF Removes, UnlinkMade, At, Unguarded
    <3>2. QED
      BY <1>unlinkMade, <3>1, <1>work DEF UnlinkMade, At, Throws, Ended
  <2>3. QED
    BY <1>2, <1>unlinkMade, <2>1, <2>2 DEF UnlinkMade
<1>compare. CASE Compare(c)
  <2>1. CASE SameObject(c)
    <3>1. CASE IsWriter(c)
      <4>1. Go(c, To(c, "rename over"))
        BY <1>compare, <2>1, <3>1 DEF Compare, IsWriter
      <4>2. Advances(c, "rename over")
        BY <1>compare, <2>1, <3>1, <4>1, <1>go DEF Compare, Advances
      <4>3. QED
        BY <4>2, <1>to DEF Places
    <3>2. CASE ~IsWriter(c)
      <4>1. Go(c, To(c, "unlink"))
        BY <1>compare, <2>1, <3>2 DEF Compare, IsWriter
      <4>2. Advances(c, "unlink")
        BY <1>compare, <2>1, <3>2, <4>1, <1>go DEF Compare, Advances
      <4>3. QED
        BY <4>2, <1>to DEF Places
    <3>3. QED
      BY <3>1, <3>2
  <2>2. CASE ~SameObject(c) /\ IsWriter(c)
    <3>1. Advances(c, "withdraw")
      BY <1>compare, <2>2, <1>go DEF Compare, Advances, IsWriter
    <3>2. QED
      BY <3>1, <1>to DEF Places
  <2>3. CASE ~SameObject(c) /\ ~IsWriter(c)
    BY <1>compare, <2>3, <1>throw, <1>work DEF Compare, At, Throws, Ended, IsWriter
  <2>4. QED
    BY <2>1, <2>2, <2>3
<1>renameOver. CASE RenameOver(c)
  <2>1. CASE Go(c, To(c, "withdraw"))
    <3>1. Advances(c, "withdraw")
      BY <1>renameOver, <2>1, <1>go DEF RenameOver, Advances
    <3>2. QED
      BY <3>1, <1>to DEF Places
  <2>2. CASE ~Go(c, To(c, "withdraw"))
    <3>1. /\ Bound[MakeName(c)] # Missing
          /\ Take(c, Entry, [Bound EXCEPT ![Entry] = Bound[MakeName(c)], ![MakeName(c)] = Missing],
                  To(c, "readback"))
      BY <2>2, <1>renameOver, <1>2 DEF RenameOver
    <3>2. Advances(c, "readback")
      BY <3>1, <1>taken, <1>renameOver DEF Replaces, RenameOver, Advances
    <3>3. QED
      BY <3>2, <1>to DEF Places
  <2>3. QED
    BY <2>1, <2>2
<1>unlink. CASE Unlink(c)
  <2>1. CASE Throw(c) /\ (w.op = "rmdir" \/ ~IsA("file", Bound[w.name]))
    BY <1>unlink, <2>1, <1>throw, <1>work DEF Unlink, At, Throws, Ended
  <2>2. CASE Take(c, w.name, [Bound EXCEPT ![w.name] = Missing], Done(c))
    <3>1. Removes(c, w.name) /\ work'[c] = Done(c)
      BY <2>2, <1>taken, <1>unlink DEF Removes, Unlink, At, Unguarded
    <3>2. QED
      BY <1>unlink, <3>1 DEF Unlink, Finishes
  <2>3. QED
    BY <1>2, <1>unlink, <2>1, <2>2 DEF Unlink
<1>stat. CASE Stat(c)
  <2>1. CASE Go(c, To(c, "rename")) /\ (w.op = "move" => SameObject(c))
    <3>1. Advances(c, "rename")
      BY <1>stat, <2>1, <1>go DEF Stat, Advances
    <3>2. QED
      BY <3>1, <1>to DEF Places
  <2>2. CASE Throw(c)
    BY <1>stat, <2>2, <1>throw, <1>work DEF Stat, At, Throws, Ended
  <2>3. QED
    BY <1>stat, <2>1, <2>2 DEF Stat
<1>rename. CASE Rename(c)
  <2>1. CASE Throw(c)
    BY <1>rename, <2>1, <1>throw, <1>work DEF Rename, At, Throws, Ended
  <2>2. CASE ~Throw(c)
    <3>1. /\ Bound[w.name] # Missing /\ Bound[Target(c)] = Missing
          /\ Take(c, w.name, [Bound EXCEPT ![Target(c)] = Bound[w.name], ![w.name] = Missing],
                  Done(c))
      BY <2>2, <1>rename, <1>2 DEF Rename
    <3>2. Moves(c) /\ work'[c] = Done(c)
      BY <3>1, <1>taken, <1>rename DEF Moves, Rename
    <3>3. QED
      BY <1>rename, <3>2 DEF Rename, Finishes
  <2>3. QED
    BY <2>1, <2>2
<1>makeDirectory. CASE MakeDirectory(c)
  <2>1. CASE Throw(c)
    BY <1>makeDirectory, <2>1, <1>throw, <1>work DEF MakeDirectory, At, Throws, Ended
  <2>2. CASE ~Throw(c)
    <3>1. Makes(c, Release, Directory(c)) /\ work'[c] = To(c, "check made")
      BY <1>1, <1>2, <2>2, <1>makeDirectory, <1>become DEF MakeDirectory, Makes, Rewrite, Renames
    <3>2. Advances(c, "check made")
      BY <1>makeDirectory, <3>1 DEF MakeDirectory, Advances
    <3>3. QED
      BY <3>2, <1>to DEF Places
  <2>3. QED
    BY <2>1, <2>2
<1>read. CASE Read(c)
  <2>1. CASE Throw(c)
    BY <1>read, <2>1, <1>throw, <1>work DEF Read, At, Throws, Ended
  <2>2. CASE ~Throw(c)
    BY <1>read, <2>2, <1>go DEF Read, At, Finds
  <2>3. QED
    BY <2>1, <2>2
<1>open. CASE Open(c)
  <2>1. CASE there = "bound"
    <3>1. Start(c) \in {"make", "mkdirat", "compare", "stat"}
      BY <1>1 DEF Start, Calls, Operations, Writers
    <3>2. QED
      BY <1>open, <2>1, <3>1, <1>go DEF Open, At, Enters, Identified
  <2>2. CASE there # "bound"
    BY <1>open, <2>2, <1>throw, <1>work DEF Open, At, Throws, Ended, Identified
  <2>3. QED
    BY <2>1, <2>2
<1>make. CASE Make(c)
  <2>1. CASE Throw(c)
    BY <1>make, <2>1, <1>throw, <1>work DEF Make, At, Throws, Ended
  <2>2. CASE ~Throw(c)
    BY <1>make, <1>1, <1>2, <2>2, <1>become DEF Make, At, MakesFile, Makes, Rewrite, Renames
  <2>3. QED
    BY <2>1, <2>2
<1>write. CASE Write(c)
  <2>1. PICK b \in {"new", "half"} : Put(c, b) /\ (b = "half" => inode[c].by # c)
    BY <1>write DEF Write
  <2>2. Writes(c, b) /\ work'[c] = To(c, "sync")
    BY <1>write, <2>1, <1>become DEF Write, Writes
  <2>3. Advances(c, "sync")
    BY <1>write, <2>1, <2>2 DEF Write, Advances
  <2>4. QED
    BY <2>3, <1>to DEF Places
<1>sync. CASE Sync(c)
  BY <1>sync, <1>go DEF Sync, At, Snaps
<1>refresh. CASE Refresh(c)
  BY <1>refresh, <1>go DEF Refresh, At, Snaps
<1>close. CASE Close(c)
  <2>1. CASE w.op \in Writers \cup {"create"}
    <3> DEFINE place == IF IsWriter(c) THEN "compare temporary" ELSE "readback"
    <3>1. Go(c, To(c, place))
      BY <1>close, <2>1 DEF Close, IsWriter, Writers
    <3>2. Advances(c, place)
      BY <1>close, <2>1, <3>1, <1>go DEF Close, Advances
    <3>3. QED
      BY <3>2, <1>to DEF Places
  <2>2. CASE w.op \notin Writers \cup {"create"}
    BY <1>close, <2>2, <1>go DEF Close, Finishes
  <2>3. QED
    BY <2>1, <2>2
<1>readback. CASE Readback(c)
  BY <1>readback, <1>go, <1>throw, <1>work DEF Readback, At, Throws, Finishes, Ended
<1>checkMade. CASE CheckMade(c)
  BY <1>checkMade, <1>go, <1>throw, <1>work DEF CheckMade, At, Throws, Finishes, Ended
<1>fails. CASE CallFails(c)
  <2>1. Quiet \/ Writes(c, "half")
    BY <1>fails DEF CallFails, Quiet, Writes
  <2>2. Faults(c)
    BY <1>fails, <2>1, <1>become DEF CallFails, Faults
  <2>3. QED
    BY <2>2
<1>q. QED
  BY <1>read, <1>look, <1>open, <1>make, <1>write, <1>sync, <1>close, <1>readback,
     <1>refresh, <1>withdraw, <1>unlinkMade, <1>compareTemporary, <1>compare, <1>renameOver,
     <1>unlink, <1>stat, <1>rename, <1>makeDirectory, <1>checkMade, <1>fails
  DEF CallStep


\* After a fault.
LEMMA FaultsProfile ==
  ASSUME TypeOK, Control, NEW c \in Callers, Faults(c)
  PROVE  LET r == work'[c] IN
         /\ Holds(r, work[c])
         /\ r.failed = work[c].failed \cup {IF work[c].phase \in Clearing THEN "clearing"
                                            ELSE work[c].at}
         /\ \/ /\ work[c].at \in {"write", "sync"} /\ r.phase = work[c].phase
               /\ r.at = IF IsWriter(c) THEN "withdraw" ELSE "refresh"
            \/ /\ \/ work[c].at = "close"
                  \/ work[c].at \in {"compare", "rename over"} /\ IsWriter(c)
               /\ r.phase = work[c].phase /\ r.at = "withdraw" /\ Quiet
            \/ /\ work[c].at \notin {"write", "sync", "close", "refresh", "rename over"}
               /\ ~(work[c].at = "compare" /\ IsWriter(c))
               /\ r.at = Thrown(c).at /\ r.phase = Thrown(c).phase /\ Quiet
<1> DEFINE a == AfterFault(c)
           f == a.failed \cup {IF work[c].phase \in Clearing THEN "clearing" ELSE work[c].at}
           w == work[c]
<1>1. w \in Calls /\ Thrown(c) \in Calls /\ (w.at = "rename over" => IsWriter(c))
  BY TypedCall, ThrownIsCall, WhereCallsAct
<1>2. CASE w.at \in {"write", "sync"} /\ ~IsWriter(c)
  <2>1. a = To(c, "refresh")
    BY <1>2 DEF AfterFault, IsWriter
  <2>2. work'[c] = [To(c, "refresh") EXCEPT !.failed = f] /\ f = w.failed \cup {IF w.phase \in Clearing THEN "clearing" ELSE w.at}
    BY <2>1, ToProfile DEF Faults
  <2> HIDE DEF f, a
  <2>3. QED
    BY <1>1, <1>2, <2>2 DEF To, Calls, Holds
<1>3. CASE \/ w.at \in {"write", "sync"} /\ IsWriter(c)
           \/ w.at = "close"
           \/ w.at \in {"compare", "rename over"} /\ IsWriter(c)
  <2>1. a = To(c, "withdraw")
    BY <1>3 DEF AfterFault, IsWriter
  <2>2. work'[c] = [To(c, "withdraw") EXCEPT !.failed = f] /\ f = w.failed \cup {IF w.phase \in Clearing THEN "clearing" ELSE w.at}
    BY <2>1, ToProfile DEF Faults
  <2> HIDE DEF f, a
  <2>3. /\ Holds(work'[c], w) /\ work'[c].failed = f
        /\ work'[c].at = "withdraw" /\ work'[c].phase = w.phase
    BY <1>1, <2>2 DEF To, Calls, Holds
  <2>4. w.at \in {"write", "sync"} \/ Quiet
    BY <1>3 DEF Faults, Writes, At
  <2>5. QED
    BY <1>3, <2>2, <2>3, <2>4
<1>4. CASE w.at \notin {"write", "sync", "close"} /\ ~(w.at \in {"compare", "rename over"} /\ IsWriter(c))
  <2>1. a = Thrown(c)
    BY <1>4 DEF AfterFault, IsWriter
  <2>2. work'[c] = [Thrown(c) EXCEPT !.failed = f] /\ f = w.failed \cup {IF w.phase \in Clearing THEN "clearing" ELSE w.at}
    BY <2>1, ThrownProfile DEF Faults
  <2> HIDE DEF f, a
  <2>3. /\ Holds(work'[c], Thrown(c)) /\ work'[c].failed = f
        /\ work'[c].at = Thrown(c).at /\ work'[c].phase = Thrown(c).phase
    BY <1>1, <2>2 DEF Calls, Holds
  <2>4. Quiet /\ w.at # "refresh"
    BY <1>4 DEF Faults, Writes, At
  <2>5. Holds(work'[c], w)
    BY <2>3, ThrownProfile DEF Holds
  <2>6. QED
    BY <1>1, <1>4, <2>2, <2>3, <2>4, <2>5
<1>5. QED
  BY <1>2, <1>3, <1>4

\* What a call that goes on sees, when its step changes neither names nor files.
LEMMA AdvancesKeepsSight ==
  ASSUME TypeOK, Control, NEW c \in Callers, NEW place, work'[c] = To(c, place)
  PROVE  /\ MakeName(c)' = MakeName(c) /\ IsWriter(c)' = IsWriter(c)
         /\ Quiet => SameObject(c)' = SameObject(c)
<1>1. /\ work'[c].op = work[c].op /\ work'[c].pid = work[c].pid /\ work'[c].name = work[c].name
      /\ work'[c].bound = work[c].bound /\ work'[c].handle = work[c].handle
  BY ToProfile, TypedCall DEF Holds, To, Calls
<1>2. MakeName(c)' = MakeName(c) /\ IsWriter(c)' = IsWriter(c)
  BY <1>1 DEF MakeName, IsWriter
<1>3. Quiet => SameObject(c)' = SameObject(c)
  BY <1>1 DEF Quiet, SameObject, IsA, Seen, Here, Version
<1>4. QED
  BY <1>2, <1>3

\* Where the steps that end an operation or a part of it lead.
LEMMA EndsProfile ==
  ASSUME TypeOK, Control, NEW c \in Callers, Finishes(c) \/ Throws(c)
  PROVE  /\ Holds(work'[c], work[c]) /\ work'[c].failed = work[c].failed
         /\ work'[c].at \in {"open", "look", "returned", "threw"}
<1>1. work[c].phase \in {"create", "rename", "remove", "clear source", "clear destination"}
  BY TypedCall DEF Calls, Phases, Clearing
<1>2. CASE Finishes(c)
  BY <1>1, <1>2, DoneProfile DEF Finishes
<1>3. CASE Throws(c)
  BY <1>1, <1>3, ThrownProfile DEF Throws
<1>4. QED
  BY <1>2, <1>3

-----------------------------------------------------------------------------
(* A call of which no unguarded moment was hit, through its own steps. *)

LEMMA CallKeepsUnraced ==
  ASSUME TypeOK, Control, DistinctPids, Directories, NEW c \in Callers, CallStep(c), Unraced(c)
  PROVE  Unraced(c)'
<1> DEFINE r == work'[c]
           w == work[c]
<1>1. w \in Calls /\ Coherent(c, w) /\ c \in Ids /\ Missing # c /\ inode \in [Ids -> Inodes]
  BY TypedCall, IdsApart DEF Control, TypeOK, Inodes
<1>2. /\ w.at \in {"write", "sync", "refresh"} => inode[c].by = c
      /\ w.made # None /\ inode[c].stamp = w.made[2] => inode[c].by = c
      /\ inode'[c].by = c \/ inode'[c] = inode[c]
  BY OwnFile DEF Unraced
<1>made. r.made = w.made => (r.made # None /\ inode'[c].stamp = r.made[2] => inode'[c].by = c)
  BY <1>2
<1>ends. ASSUME r.made = w.made,
                r.at \in {"idle", "dead", "read", "look", "open", "returned", "threw", "readback",
                          "close", "compare temporary", "withdraw", "make", "mkdirat", "stat",
                          "check made"}
         PROVE  Unraced(c)'
  BY <1>made, <1>ends DEF Unraced
<1>3. CASE \E op \in Operations, pid \in Pids \cup {Missing} : Begin(c, op, pid)
  <2>1. r.made = None /\ r.at \in {"read", "open"}
    BY <1>3, BeginProfile
  <2>2. QED
    BY <2>1 DEF Unraced
<1>4. CASE Finds(c)
  BY <1>4, <1>ends, FindsProfile
<1>5. CASE Enters(c)
  <2>1. r.at = Start(c) /\ r.made = w.made /\ r.op = w.op /\ r.at \in {"make", "mkdirat", "compare", "stat"}
    BY <1>5, EntersProfile
  <2>2. Start(c) = "compare" => ~IsWriter(c)
    BY DEF Start, IsWriter, Writers
  <2>3. r.at = "compare" => ~IsWriter(c)'
    BY <2>1, <2>2 DEF IsWriter
  <2>4. QED
    BY <1>made, <2>1, <2>3 DEF Unraced
<1>6. CASE MakesFile(c)
  <2>1. r.at = "write" /\ inode' = [inode EXCEPT ![c] = File("empty", c)]
    BY <1>6, MakesFileProfile DEF MakesFile, Makes
  <2>2. inode'[c].by = c
    BY <1>1, <2>1 DEF File
  <2>3. QED
    BY <2>1, <2>2 DEF Unraced
<1>7. CASE Snaps(c)
  <2>1. r.at \in {"close", "withdraw"} /\ w.at \in {"sync", "refresh"} /\ inode' = inode
    BY <1>7, SnapsProfile DEF Snaps, Quiet
  <2>2. QED
    BY <1>2, <2>1 DEF Unraced
<1>8. CASE Die(c)
  BY <1>8, DieProfile DEF Unraced
<1>9. CASE Finishes(c) \/ Throws(c)
  BY <1>9, <1>ends, EndsProfile DEF Holds
<1>10. CASE Faults(c)
  <2>1. r.made = w.made
    BY <1>10, FaultsProfile DEF Holds
  <2>2. CASE w.at \in {"write", "sync"} /\ r.at \in {"withdraw", "refresh"}
    BY <1>2, <1>made, <2>1, <2>2 DEF Unraced
  <2>3. CASE r.at = "withdraw"
    BY <2>1, <2>3, <1>ends
  <2>4. CASE r.at = Thrown(c).at
    <3>1. Thrown(c).at \in {"look", "threw"}
      BY <1>1, ThrownProfile DEF Coherent, Calls, Phases, Clearing
    <3>2. QED
      BY <2>1, <2>4, <3>1, <1>ends
  <2>5. QED
    BY <1>10, <2>2, <2>3, <2>4, FaultsProfile
<1>11. ASSUME NEW place \in Places, Advances(c, place) PROVE Unraced(c)'
  <2>1. /\ r.at = place /\ r.made = w.made /\ r.op = w.op
        /\ MakeName(c)' = MakeName(c) /\ IsWriter(c)' = IsWriter(c)
        /\ Quiet => SameObject(c)' = SameObject(c)
    <3>1. work'[c] = To(c, place)
      BY <1>11 DEF Advances
    <3>2. r.at = place /\ r.made = w.made /\ r.op = w.op
      BY <3>1, ToProfile DEF Holds
    <3>3. QED
      BY <3>1, <3>2, AdvancesKeepsSight
  <2>2. CASE place \in {"readback", "check made", "compare temporary", "withdraw"}
    BY <1>ends, <2>1, <2>2
  <2>3. CASE place = "sync"
    <3>1. w.at = "write"
      BY <1>11, <2>3 DEF Advances, At
    <3>2. QED
      BY <1>2, <1>made, <2>1, <2>3, <3>1 DEF Unraced
  <2>4. CASE place = "unlink made" \/ (place = "compare" /\ w.at = "compare temporary")
    <3>1. /\ Quiet /\ Seen(c, MakeName(c)) = w.made
          /\ w.at \in {"withdraw", "compare temporary"}
      BY <1>11, <2>4 DEF Advances, At
    <3>2. w.made # None /\ w.made[1] = c /\ w.handle = "bound"
      BY <1>1, <3>1 DEF Coherent, HasMade
    <3>3. Bound[MakeName(c)] \in Ids \cup {Missing}
      BY MakeNameInNames DEF Bound, TypeOK
    <3>4. Bound[MakeName(c)] = c /\ w.made[2] = inode[c].stamp
      <4> DEFINE i == Bound[MakeName(c)]
      <4>1. Version(i) = w.made
        BY <3>1, <3>2 DEF Seen, Here, Bound
      <4> HIDE DEF i
      <4>2. i # Missing
        BY <3>2, <4>1 DEF Version
      <4>3. w.made = <<i, inode[i].stamp>>
        BY <4>1, <4>2 DEF Version
      <4>4. QED
        BY <3>2, <4>3 DEF i
    <3>5. Bound' = Bound /\ inode' = inode
      BY <3>1 DEF Quiet, Bound
    <3>6. QED
      BY <1>2, <1>made, <2>1, <2>4, <3>2, <3>4, <3>5 DEF Unraced
  <2>5. CASE place \in {"rename over", "unlink"}
    <3>1. /\ Quiet /\ SameObject(c) /\ w.at = "compare"
          /\ place = "rename over" => IsWriter(c)
      BY <1>11, <2>5 DEF Advances, At
    <3>2. Bound' = Bound /\ inode' = inode
      BY <3>1 DEF Quiet, Bound
    <3>3. IsWriter(c) => Bound[MakeName(c)] = c /\ inode[c].by = c
      BY <3>1 DEF Unraced
    <3>4. QED
      BY <1>made, <2>1, <2>5, <3>1, <3>2, <3>3 DEF Unraced
  <2>6. CASE place = "rename"
    <3>1. Quiet /\ w.at = "stat" /\ (w.op = "move" => SameObject(c))
      BY <1>11, <2>6 DEF Advances, At
    <3>2. QED
      BY <1>made, <2>1, <2>6, <3>1 DEF Unraced
  <2>7. QED
    BY <1>11, <2>2, <2>3, <2>4, <2>5, <2>6 DEF Advances, At
<1>12. QED
  BY <1>3, <1>4, <1>5, <1>6, <1>7, <1>8, <1>9, <1>10, <1>11, StepTable

-----------------------------------------------------------------------------
(* A call whose file nobody else changed, through its own steps. *)

LEMMA WherePhases ==
  ASSUME TypeOK, Control, NEW c \in Callers
  PROVE  /\ work[c].phase \in {"create", "rename", "remove", "clear source", "clear destination"}
         /\ work[c].op # "probe" => work[c].phase = "create"
         /\ work[c].op = "probe" => work[c].name \in {Source(c), Destination(c)} /\ ~IsWriter(c)
         /\ work[c].op = "probe" /\ work[c].phase = "create" =>
              work[c].at \in MakingPlaces \cup {"refresh"} /\ work[c].name = Source(c)
         /\ work[c].phase = "rename" =>
              work[c].at \in {"open", "stat", "rename"} /\ work[c].name = Source(c)
         /\ work[c].phase = "remove" =>
              work[c].at \in ClearingPlaces \cup {"returned"} /\ work[c].name = Destination(c)
         /\ work[c].phase = "clear source" =>
              work[c].at \in ClearingPlaces /\ work[c].name = Source(c)
         /\ work[c].phase = "clear destination" =>
              work[c].at \in ClearingPlaces \cup {"threw"} /\ work[c].name = Destination(c)
         /\ work[c].phase # "create" => work[c].made # None /\ ~Fresh(c)
<1> DEFINE p == work[c].phase
           at == work[c].at
           op == work[c].op
<1>1. work[c] \in Calls /\ Coherent(c, work[c])
  BY TypedCall DEF Control
<1>2. /\ p \in {"create", "rename", "remove", "clear source", "clear destination"}
      /\ op # "probe" => p = "create"
      /\ op = "probe" => ~IsWriter(c)
      /\ p # "create" => work[c].made # None /\ ~Fresh(c)
  BY <1>1 DEF Calls, Phases, Clearing, Coherent, HasMade, Fresh, IsWriter, Writers
<1>3. at \in PlacesOf(op, p) /\ work[c].name = NameOf(c, op, p)
  BY <1>1 DEF Coherent
<1>4. op = "probe" => work[c].name \in {Source(c), Destination(c)}
  BY <1>2, <1>3 DEF NameOf
<1>5. /\ op = "probe" /\ p = "create" => at \in MakingPlaces \cup {"refresh"} /\ work[c].name = Source(c)
      /\ p = "rename" => at \in {"open", "stat", "rename"} /\ work[c].name = Source(c)
      /\ p = "remove" => at \in ClearingPlaces \cup {"returned"} /\ work[c].name = Destination(c)
      /\ p = "clear source" => at \in ClearingPlaces /\ work[c].name = Source(c)
      /\ p = "clear destination" => at \in ClearingPlaces \cup {"threw"} /\ work[c].name = Destination(c)
  BY <1>2, <1>3 DEF PlacesOf, NameOf, Writers
<1>6. QED
  BY <1>2, <1>4, <1>5

\* The names that its file can have.
LEMMA CallKeepsHomes ==
  ASSUME TypeOK, Control, DistinctPids, Directories, NEW c \in Callers, CallStep(c),
         AtHome(c), work'[c].at # "dead"
  PROVE  \A n \in Names : Bound'[n] = c => n \in Homes(c)'
<1>1. /\ Bound \in [Names -> Ids \cup {Missing}] /\ c \in Ids /\ Missing # c /\ Entry \in Names
      /\ MakeName(c) \in Names /\ work[c].name \in Names /\ Target(c) \in Names
      /\ work[c] \in Calls
  BY IdsApart, NamesInNames, MakeNameInNames, TypedCall DEF TypeOK, Bound
<1>2. \A n \in Names : Bound[n] = c => n \in Homes(c)
  BY DEF AtHome
<1>3. CASE \E op \in Operations, pid \in Pids \cup {Missing} : Begin(c, op, pid)
  <2>1. Quiet /\ work[c].at = "idle"
    BY <1>3, BeginProfile
  <2>2. Fresh(c)
    BY <2>1 DEF Control, Coherent, Fresh
  <2>3. \A n \in Names : Bound[n] # c
    BY <2>2 DEF Directories, FreshCalls
  <2>4. QED
    BY <2>1, <2>3 DEF Quiet, Bound
<1>4. CASE /\ work'[c].op = work[c].op
           /\ MakeName(c)' = MakeName(c) \/ ~IsWriter(c)
           /\ IsWriter(c)' = IsWriter(c)
  <2>1. Homes(c)' = Homes(c)
    BY <1>4 DEF Homes
  <2>2. \A n \in Names : Bound'[n] = c => n \in Homes(c)
    <3>1. CASE Quiet
      BY <1>2, <3>1 DEF Quiet, Bound
    <3>2. ASSUME NEW n \in Names, NEW new \in Inodes, Makes(c, n, new)
          PROVE  \A m \in Names : Bound'[m] = c => m \in Homes(c)
      <4>1. Bound' = [Bound EXCEPT ![n] = c]
        BY <3>2, RenamesBound DEF Makes
      <4>2. n \in Homes(c)
        <5>1. CASE At(c, "make") /\ n = MakeName(c)
          <6>1. work[c].op \in Writers \cup {"create", "probe"}
            BY <5>1, WhereCallsAct DEF At
          <6>2. ~IsWriter(c) => n = work[c].name
            BY <5>1, WhereCallsAct
          <6>3. work[c].op = "create" => work[c].name = Entry
            BY DEF Control, Coherent, NameOf
          <6>4. work[c].op = "probe" => work[c].name \in {Source(c), Destination(c)}
            BY WherePhases
          <6>5. QED
            BY <5>1, <6>1, <6>2, <6>3, <6>4 DEF Homes, IsWriter, Writers
        <5>2. CASE At(c, "mkdirat") /\ n = Release
          BY <5>2, WhereCallsAct DEF At, Homes, IsWriter, Writers
        <5>3. QED
          BY <3>2, <5>1, <5>2 DEF Makes
      <4>3. QED
        BY <1>1, <1>2, <4>1, <4>2
    <3>3. ASSUME NEW bytes \in {"new", "half"}, Writes(c, bytes)
          PROVE  \A m \in Names : Bound'[m] = c => m \in Homes(c)
      BY <1>2, <3>3 DEF Writes, Bound
    <3>4. ASSUME NEW n \in Names, Removes(c, n)
          PROVE  \A m \in Names : Bound'[m] = c => m \in Homes(c)
      <4>1. Bound' = [Bound EXCEPT ![n] = Missing]
        BY <3>4, RenamesBound DEF Removes
      <4>2. QED
        BY <1>1, <1>2, <4>1
    <3>5. CASE Replaces(c)
      <4>1. Bound' = [Bound EXCEPT ![Entry] = Bound[MakeName(c)], ![MakeName(c)] = Missing]
        BY <3>5, RenamesBound DEF Replaces
      <4>2. Entry \in Homes(c)
        BY <3>5, WhereCallsAct DEF Replaces, At, Homes, IsWriter, Writers
      <4>3. QED
        BY <1>1, <1>2, <4>1, <4>2
    <3>6. CASE Moves(c)
      <4> DEFINE n == work[c].name
                 t == Target(c)
      <4>1. Bound' = [Bound EXCEPT ![t] = Bound[n], ![n] = Missing]
        BY <3>6, RenamesBound DEF Moves
      <4>2. work[c].op = "probe" \/ work[c].op \in {"detach", "move"}
        BY <3>6, WhereCallsAct DEF Moves, At
      <4>3. work[c].op \in {"detach", "move"} => Homes(c) = {}
        BY DEF Homes, IsWriter, Writers
      <4>4. work[c].op = "probe" => t \in Homes(c)
        BY DEF Homes, IsWriter, Writers, Target
      <4>5. Bound[n] = c => t \in Homes(c)
        BY <1>1, <1>2, <4>2, <4>3, <4>4
      <4> HIDE DEF n, t
      <4>6. QED
        BY <1>1, <1>2, <4>1, <4>5 DEF n, t
    <3>7. QED
      BY <3>1, <3>2, <3>3, <3>4, <3>5, <3>6, StepHasEffect DEF Effect
  <2>3. QED
    BY <2>1, <2>2
<1>5. QED
  BY <1>3, <1>4, StepHolds, DieProfile


\* The names of a call while it works; a probe clears at the name that it looks at.
LEMMA KeepsNames ==
  ASSUME TypeOK, Control, NEW c \in Callers, work'[c].op = work[c].op,
         work'[c].pid = work[c].pid, work'[c].name = work[c].name
  PROVE  MakeName(c)' = MakeName(c) /\ IsWriter(c)' = IsWriter(c)
BY DEF MakeName, IsWriter

\* The name that its file has.
LEMMA CallKeepsHome ==
  ASSUME TypeOK, Control, DistinctPids, Directories, NEW c \in Callers, CallStep(c),
         AtHome(c), work'[c].at # "dead"
  PROVE  AtHome(c)'
<1> DEFINE r == work'[c]
           w == work[c]
           Place == /\ Making(c)' => Bound'[MakeName(c)'] = c
                    /\ r.at = "readback" => Bound'[Entry] = c
                    /\ r.phase = "rename" => Bound'[Source(c)] = c
                    /\ r.phase = "remove" /\ r.at # "returned" => Bound'[Destination(c)] = c
<1>1. /\ Bound \in [Names -> Ids \cup {Missing}] /\ c \in Ids /\ Missing # c /\ Entry \in Names
      /\ MakeName(c) \in Names /\ w.name \in Names /\ Target(c) \in Names
      /\ Source(c) \in Names /\ Destination(c) \in Names
  BY IdsApart, NamesInNames, MakeNameInNames DEF TypeOK, Bound
<1>2. /\ Making(c) => Bound[MakeName(c)] = c
      /\ w.at = "readback" => Bound[Entry] = c
      /\ w.phase = "rename" => Bound[Source(c)] = c
      /\ w.phase = "remove" /\ w.at # "returned" => Bound[Destination(c)] = c
  BY DEF AtHome
<1>3. /\ w.phase \in {"create", "rename", "remove", "clear source", "clear destination"}
      /\ w.op # "probe" => w.phase = "create"
      /\ IsWriter(c) => w.phase = "create"
      /\ w.at \in {"make", "write", "sync", "refresh", "close", "withdraw", "unlink made"} =>
           w.phase = "create"
      /\ w.at \in {"compare temporary", "rename over"} => IsWriter(c)
      /\ w.at = "mkdirat" => w.phase = "create"
  BY WherePhases, WhereCallsAct DEF IsWriter, Writers, Fresh
<1>4. Quiet => Bound' = Bound
  BY DEF Quiet, Bound
<1>5. Place
  <2>1. CASE \E op \in Operations, pid \in Pids \cup {Missing} : Begin(c, op, pid)
    <3>1. r.at \in {"read", "open"} /\ r.phase = "create"
      BY <2>1, BeginProfile
    <3>2. QED
      BY <3>1 DEF Making
  <2>2. CASE Finds(c)
    <3>1. r.at = "open" /\ r.phase = w.phase /\ w.at \in {"read", "look"} /\ Bound' = Bound
      BY <1>4, <2>2, FindsProfile DEF Finds
    <3>2. QED
      BY <1>2, <3>1 DEF Making
  <2>3. CASE Enters(c)
    <3>1. /\ r.at = Start(c) /\ r.at \in {"make", "compare", "stat", "mkdirat"} /\ r.op = w.op
          /\ r.phase = w.phase /\ w.at = "open" /\ Bound' = Bound
      BY <1>4, <2>3, EntersProfile DEF Enters
    <3>2. r.at = "compare" => ~IsWriter(c)'
      BY <3>1 DEF Start, IsWriter, Writers
    <3>3. QED
      BY <1>2, <3>1, <3>2 DEF Making
  <2>4. CASE MakesFile(c)
    <3>1. /\ r.at = "write" /\ r.phase = w.phase /\ w.at = "make"
          /\ MakeName(c)' = MakeName(c)
      BY <2>4, MakesFileProfile, KeepsNames DEF MakesFile
    <3>2. Bound' = [Bound EXCEPT ![MakeName(c)] = c]
      BY <2>4, RenamesBound DEF MakesFile, Makes
    <3>3. QED
      BY <1>1, <1>3, <3>1, <3>2
  <2>5. CASE Snaps(c)
    <3>1. /\ r.at \in {"close", "withdraw"} /\ r.phase = w.phase /\ w.at \in {"sync", "refresh"}
          /\ MakeName(c)' = MakeName(c) /\ Bound' = Bound
      BY <1>4, <2>5, SnapsProfile, KeepsNames DEF Snaps
    <3>2. QED
      BY <1>2, <1>3, <3>1 DEF Making
  <2>6. CASE Finishes(c)
    <3>1. r.at \in {"open", "look", "returned", "threw"}
      BY <2>6, EndsProfile
    <3>2. ASSUME r.phase = "rename" PROVE Bound'[Source(c)] = c
      <4>1. w.op = "probe" /\ w.phase = "create"
        BY <1>3, <2>6, <3>2, DoneProfile DEF Finishes
      <4>2. w.at = "close" /\ Quiet
        BY <2>6, <4>1, WherePhases DEF Finishes, At, MakingPlaces
      <4>3. MakeName(c) = Source(c)
        BY <4>1, WherePhases, WhereCallsAct
      <4>4. QED
        BY <1>2, <1>4, <4>2, <4>3 DEF Making
    <3>3. ASSUME r.phase = "remove", r.at # "returned" PROVE Bound'[Destination(c)] = c
      <4>1. w.op = "probe" /\ w.phase = "rename"
        BY <1>3, <2>6, <3>3, DoneProfile DEF Finishes
      <4>2. Moves(c) /\ w.name = Source(c)
        BY <2>6, <4>1, WherePhases DEF Finishes, At
      <4>3. Target(c) = Destination(c) /\ Source(c) # Destination(c)
        BY <4>1, NamesApart DEF Target
      <4>4. Bound' = [Bound EXCEPT ![Destination(c)] = Bound[Source(c)], ![Source(c)] = Missing]
        BY <4>2, <4>3, RenamesBound DEF Moves
      <4>5. QED
        BY <1>1, <1>2, <4>1, <4>3, <4>4
    <3>4. QED
      BY <3>1, <3>2, <3>3 DEF Making
  <2>7. CASE Throws(c)
    <3>1. r.at \in {"look", "threw"} /\ r.phase \notin {"rename", "remove"}
      BY <1>3, <2>7, ThrownProfile DEF Throws
    <3>2. QED
      BY <3>1 DEF Making
  <2>8. CASE Faults(c)
    <3>1. CASE r.at = Thrown(c).at /\ r.phase = Thrown(c).phase
      <4>1. r.at \in {"look", "threw"} /\ r.phase \notin {"rename", "remove"}
        BY <1>3, <3>1, ThrownProfile
      <4>2. QED
        BY <4>1 DEF Making
    <3>2. CASE /\ r.phase = w.phase /\ r.at \in {"withdraw", "refresh"}
               /\ Making(c) /\ w.phase = "create"
      <4>1. Bound' = Bound
        BY <1>4, <2>8 DEF Faults, Writes, Bound
      <4>2. MakeName(c)' = MakeName(c)
        <5>1. CallStep(c) /\ ~Die(c) /\ ~(\E op \in Operations, pid \in Pids \cup {Missing} : Begin(c, op, pid))
          BY <2>8, <3>2, DieProfile, BeginProfile
        <5>2. MakeName(c)' = MakeName(c) \/ ~IsWriter(c)
          BY <5>1, StepHolds
        <5>3. r.name = NameOf(c, r.op, r.phase) /\ w.name = NameOf(c, w.op, w.phase) /\ Holds(r, w)
          <6>1. Coherent(c, r) /\ Coherent(c, w)
            BY StepIsCoherent DEF Become, TypeOK, Control
          <6>2. QED
            BY <2>8, <6>1, FaultsProfile DEF Coherent
        <5>4. QED
          BY <3>2, <5>2, <5>3, KeepsNames DEF Holds
      <4>3. QED
        BY <1>2, <3>2, <4>1, <4>2
    <3>3. QED
      BY <1>3, <2>8, <3>1, <3>2, FaultsProfile DEF Making
  <2>9. ASSUME NEW place \in Places, Advances(c, place) PROVE Place
    <3>1. r = To(c, place)
      BY <2>9 DEF Advances
    <3>2. /\ r.at = place /\ r.phase = w.phase /\ r.op = w.op
          /\ MakeName(c)' = MakeName(c) /\ IsWriter(c)' = IsWriter(c)
      BY <3>1, ToProfile, AdvancesKeepsSight DEF Holds
    <3>3. CASE At(c, "write") /\ place = "sync"
      <4>1. Bound' = Bound
        BY <2>9, <3>3 DEF Advances, At, Writes, Bound, Quiet
      <4>2. QED
        BY <1>2, <1>3, <3>2, <3>3, <4>1 DEF Making, At
    <3>4. CASE At(c, "mkdirat") /\ place = "check made"
      BY <1>3, <3>2, <3>4 DEF Making, At
    <3>5. CASE At(c, "rename over") /\ place = "readback"
      <4>1. Replaces(c) /\ IsWriter(c) /\ w.phase = "create"
        BY <1>3, <2>9, <3>5 DEF Advances, At
      <4>2. Bound' = [Bound EXCEPT ![Entry] = Bound[MakeName(c)], ![MakeName(c)] = Missing]
        BY <4>1, RenamesBound DEF Replaces
      <4>3. MakeName(c) # Entry
        BY <4>1, WhereCallsAct, NamesApart
      <4>4. Bound'[Entry] = c
        BY <1>1, <1>2, <3>5, <4>2, <4>3 DEF Making, At
      <4>5. QED
        BY <3>2, <3>5, <4>1, <4>4 DEF Making
    <3>6. CASE Quiet /\ At(c, "close") /\ w.op \in Writers \cup {"create"}
               /\ place = IF IsWriter(c) THEN "compare temporary" ELSE "readback"
      <4>1. ~IsWriter(c) => MakeName(c) = Entry
        <5>1. w.name = NameOf(c, w.op, w.phase)
          BY DEF Control, Coherent
        <5>2. ~IsWriter(c) => w.op = "create"
          BY <3>6 DEF IsWriter
        <5>3. w.op = "create" => w.name = Entry
          BY <5>1 DEF NameOf
        <5>4. QED
          BY <5>2, <5>3, WhereCallsAct
      <4>2. QED
        BY <1>2, <1>3, <1>4, <3>2, <3>6, <4>1 DEF Making, At
    <3>7. CASE Quiet /\ \/ At(c, "withdraw") /\ place = "unlink made"
                        \/ At(c, "compare temporary") /\ place = "compare"
                        \/ At(c, "compare") /\ IsWriter(c) /\ place \in {"rename over", "withdraw"}
                        \/ At(c, "rename over") /\ place = "withdraw"
      BY <1>2, <1>3, <1>4, <3>2, <3>7 DEF Making, At
    <3>8. CASE Quiet /\ \/ At(c, "compare") /\ place = "unlink"
                        \/ At(c, "stat") /\ place = "rename"
      BY <1>2, <1>3, <1>4, <3>2, <3>8 DEF Making, At
    <3>9. QED
      BY <2>9, <3>3, <3>4, <3>5, <3>6, <3>7, <3>8 DEF Advances
  <2>10. QED
    BY <2>1, <2>2, <2>3, <2>4, <2>5, <2>6, <2>7, <2>8, <2>9, StepTable, DieProfile
<1>6. QED
  BY <1>5, CallKeepsHomes DEF AtHome


\* Its contents.
LEMMA CallKeepsIntact ==
  ASSUME TypeOK, Control, DistinctPids, Directories, NEW c \in Callers, CallStep(c),
         Intact(c), work'[c].at # "dead"
  PROVE  Intact(c)'
<1> DEFINE r == work'[c]
           w == work[c]
           Full(x, writer) == \/ x.at \in {"sync", "close", "compare temporary", "rename over", "readback"}
                              \/ x.at = "compare" /\ writer
           Snapped(x, writer) ==
             \/ x.at \in {"close", "compare temporary", "rename over"}
             \/ x.at = "compare" /\ writer
             \/ x.at = "withdraw" /\ (writer => x.failed \cap {"write", "sync"} = {})
           Goal == /\ r.made # None => inode'[c].by = c
                   /\ Full(r, IsWriter(c)') => inode'[c].bytes = "new"
                   /\ Snapped(r, IsWriter(c)') => r.made = Version(c)'
<1>1. /\ w \in Calls /\ c \in Ids /\ Missing # c /\ inode \in [Ids -> Inodes]
      /\ w.at \in {"compare temporary", "rename over"} => IsWriter(c)
      /\ w.at \in {"write", "sync", "refresh"} => w.made # None
      /\ w.at \in {"write", "sync", "refresh", "close"} => w.phase = "create"
  BY ZenonT(30), TypedCall, IdsApart, WhereCallsAct DEF TypeOK, Inodes, Control, Coherent, HasMade
<1>2. /\ w.made # None => inode[c].by = c
      /\ Full(w, IsWriter(c)) => inode[c].bytes = "new"
      /\ Snapped(w, IsWriter(c)) => w.made = Version(c)
  BY DEF Intact
<1> SUFFICES Goal
  BY DEF Intact
<1>3. inode'[c].by = c \/ inode'[c] = inode[c]
  BY OwnFile
<1>4. Quiet => inode' = inode /\ Version(c)' = Version(c)
  BY DEF Quiet, Version
<1>ends. ASSUME r.made = w.made,
                r.at \in {"look", "open", "returned", "threw", "make", "mkdirat", "stat",
                          "check made", "unlink", "rename", "unlink made", "refresh"}
         PROVE  Goal
  BY <1>2, <1>3, <1>ends
<1>5. CASE \E op \in Operations, pid \in Pids \cup {Missing} : Begin(c, op, pid)
  <2>1. r.made = None /\ r.at \in {"read", "open"}
    BY <1>5, BeginProfile
  <2>2. QED
    BY <2>1
<1>6. CASE Finds(c)
  BY <1>6, <1>ends, FindsProfile
<1>7. CASE Enters(c)
  <2>1. r.at = Start(c) /\ r.made = w.made /\ r.op = w.op /\ r.at \in {"make", "mkdirat", "compare", "stat"}
    BY <1>7, EntersProfile
  <2>2. r.at = "compare" => ~IsWriter(c)'
    BY <2>1 DEF Start, IsWriter, Writers
  <2>3. QED
    BY <1>2, <1>3, <2>1, <2>2
<1>8. CASE MakesFile(c)
  <2>1. r.at = "write" /\ inode' = [inode EXCEPT ![c] = File("empty", c)]
    BY <1>8, MakesFileProfile DEF MakesFile, Makes
  <2>2. inode'[c].by = c
    BY <1>1, <2>1 DEF File
  <2>3. QED
    BY <2>1, <2>2
<1>9. CASE Snaps(c)
  <2>1. /\ r.at = IF w.at = "sync" THEN "close" ELSE "withdraw"
        /\ w.at \in {"sync", "refresh"} /\ Quiet /\ r.made = Version(c)
    BY <1>9, SnapsProfile DEF Snaps
  <2>2. QED
    BY <1>1, <1>2, <1>4, <2>1
<1>10. CASE Finishes(c) \/ Throws(c)
  BY <1>10, <1>ends, EndsProfile DEF Holds
<1>11. CASE Faults(c)
  <2>1. /\ r.made = w.made /\ IsWriter(c)' = IsWriter(c)
        /\ r.failed = w.failed \cup {IF w.phase \in Clearing THEN "clearing" ELSE w.at}
    BY <1>11, FaultsProfile DEF Holds, IsWriter
  <2>2. CASE w.at \in {"write", "sync"} /\ r.at = IF IsWriter(c) THEN "withdraw" ELSE "refresh"
    <3>1. r.failed \cap {"write", "sync"} # {}
      BY <1>1, <2>1, <2>2 DEF Clearing
    <3>2. QED
      BY <1>2, <1>3, <2>1, <2>2, <3>1
  <2>3. CASE /\ w.at = "close" \/ (w.at \in {"compare", "rename over"} /\ IsWriter(c))
             /\ r.at = "withdraw" /\ Quiet
    BY <1>2, <1>4, <2>1, <2>3
  <2>4. CASE r.at = Thrown(c).at
    <3>1. Thrown(c).at \in {"look", "threw"}
      BY ThrownProfile, WherePhases
    <3>2. QED
      BY <2>1, <2>4, <3>1, <1>ends
  <2>5. QED
    BY <1>11, <2>2, <2>3, <2>4, FaultsProfile
<1>12. ASSUME NEW place \in Places, Advances(c, place) PROVE Goal
  <2>1. r = To(c, place)
    BY <1>12 DEF Advances
  <2>2. /\ r.at = place /\ r.made = w.made /\ r.failed = w.failed
        /\ IsWriter(c)' = IsWriter(c)
    BY <2>1, ToProfile, AdvancesKeepsSight DEF Holds
  <2>3. CASE At(c, "write") /\ place = "sync"
    <3>1. PICK b \in {"new", "half"} : Writes(c, b) /\ (b = "half" => inode[c].by # c)
      BY <1>12, <2>3 DEF Advances, At
    <3>2. b = "new"
      BY <1>1, <1>2, <2>3, <3>1 DEF At
    <3>3. inode'[c].bytes = "new"
      BY <1>1, <3>1, <3>2 DEF Writes, Put, Inodes
    <3>4. QED
      BY <1>2, <1>3, <2>2, <2>3, <3>3
  <2>4. CASE place \in {"check made", "unlink", "rename", "unlink made"}
    BY <2>2, <2>4, <1>ends
  <2>5. CASE At(c, "rename over") /\ place = "readback"
    <3>1. inode' = inode
      BY <1>12, <2>5 DEF Advances, At, Replaces
    <3>2. QED
      BY <1>2, <2>2, <2>5, <3>1 DEF At
  <2>6. CASE Quiet /\ \/ At(c, "close") /\ place = IF IsWriter(c) THEN "compare temporary" ELSE "readback"
                      \/ At(c, "compare temporary") /\ place = "compare"
                      \/ At(c, "compare") /\ IsWriter(c) /\ place \in {"rename over", "withdraw"}
                      \/ At(c, "rename over") /\ place = "withdraw"
    BY <1>1, <1>2, <1>4, <2>2, <2>6 DEF At
  <2>7. QED
    BY <1>12, <2>3, <2>4, <2>5, <2>6 DEF Advances
<1>13. QED
  BY <1>5, <1>6, <1>7, <1>8, <1>9, <1>10, <1>11, <1>12, StepTable, DieProfile


\* A probe that clears up finds what is left of it.
LEMMA CallKeepsCleared ==
  ASSUME TypeOK, Control, DistinctPids, Directories, NEW c \in Callers, CallStep(c),
         Cleared(c), work'[c].at # "dead"
  PROVE  Cleared(c)'
<1> DEFINE r == work'[c]
           w == work[c]
           Held == {"open", "compare", "unlink"}
           Found == /\ r.phase = "clear source" /\ r.at \in Held =>
                         Bound'[Source(c)] = c /\ r.bound = Version(c)'
                    /\ r.phase = "clear destination" /\ "clearing" \notin r.failed =>
                         /\ Bound'[Source(c)] # c
                         /\ r.at \in Held => Bound'[Destination(c)] = c /\ r.bound = Version(c)'
           There == r.op = "probe" /\ Working(c)' /\ (r.made # None \/ r.at = "make") => there = "bound"
           Goal == There /\ Found
<1>1. /\ w \in Calls /\ Missing # c /\ Source(c) \in Names /\ Destination(c) \in Names
      /\ Bound \in [Names -> Ids \cup {Missing}] /\ there' = there
      /\ Source(c) # Destination(c) /\ w.handle = "bound"
  BY TypedCall, IdsApart, NamesInNames, NamesApart, StepHasEffect DEF TypeOK, Bound, Control, Coherent
<1>2. /\ w.op = "probe" /\ Working(c) /\ (w.made # None \/ w.at = "make") => there = "bound"
      /\ w.phase = "clear source" /\ w.at \in Held =>
           Bound[Source(c)] = c /\ w.bound = Version(c)
      /\ w.phase = "clear destination" /\ "clearing" \notin w.failed =>
           /\ Bound[Source(c)] # c
           /\ w.at \in Held => Bound[Destination(c)] = c /\ w.bound = Version(c)
  BY DEF Cleared
<1>3. Quiet => Bound' = Bound /\ Version(c)' = Version(c)
  BY DEF Quiet, Bound, Version
<1>4. /\ w.phase \in Clearing => /\ w.op = "probe" /\ w.made # None /\ inode[c].kind = "file"
                                 /\ w.at \in ClearingPlaces \cup {"threw"}
                                 /\ w.at \in ClearingPlaces => Working(c)
      /\ w.phase = "clear source" => w.name = Source(c) /\ w.at \in ClearingPlaces
      /\ w.phase = "clear destination" => w.name = Destination(c)
      /\ w.phase \in {"create", "rename", "remove", "clear source", "clear destination"}
      /\ w.op # "probe" => w.phase = "create"
      /\ w.at \in {"make", "write", "sync", "refresh", "close", "withdraw", "unlink made"} =>
           w.phase = "create"
  <2>1. w.made # None => inode[c].kind = "file"
    BY DEF Directories, Own, Kind
  <2>2. QED
    BY <2>1, WherePhases, WhereCallsAct DEF Clearing, ClearingPlaces, Working, Ended
<1>5. \A n \in {Source(c), Destination(c)} : Bound[n] \in {Missing, c}
  BY DEF Directories, Own, PrivateNames
<1>6. w.phase \in Clearing /\ w.at \in ClearingPlaces => there = "bound"
  BY <1>2, <1>4
<1>there. r.op = w.op /\ r.made = w.made /\ Working(c) /\ r.at # "make" => There
  BY <1>2
<1>clear. ASSUME r.phase \notin Clearing PROVE Found
  BY <1>clear DEF Clearing
<1> SUFFICES Goal
  BY <1>1 DEF Cleared
<1>7. CASE \E op \in Operations, pid \in Pids \cup {Missing} : Begin(c, op, pid)
  <2>1. r.made = None /\ r.at \in {"read", "open"} /\ r.phase = "create"
    BY <1>7, BeginProfile
  <2>2. QED
    BY <2>1
<1>8. CASE Finds(c)
  <2>1. /\ r.at = "open" /\ r.op = w.op /\ r.made = w.made /\ r.phase = w.phase
        /\ r.failed = w.failed /\ w.at \in {"read", "look"} /\ Quiet /\ Working(c)
    BY <1>8, FindsProfile DEF Finds, Working, Ended
  <2>2. There
    BY <2>1, <1>there
  <2>3. ASSUME w.phase \in Clearing PROVE Bound[w.name] = c /\ r.bound = Version(c)
    <3>1. w.at = "look" /\ there = "bound" /\ w.name \in {Source(c), Destination(c)}
      BY <1>4, <1>6, <2>1, <2>3 DEF ClearingPlaces, Clearing
    <3>2. r.bound = Version(names[there][w.name]) /\ names[there][w.name] # Missing
      BY <1>8, <3>1, FindsProfile
    <3>3. Bound[w.name] = c
      BY <1>5, <3>1, <3>2 DEF Bound
    <3>4. QED
      BY <3>1, <3>2, <3>3 DEF Bound
  <2>4. Found
    BY <1>2, <1>3, <1>4, <2>1, <2>3 DEF Clearing
  <2>5. QED
    BY <2>2, <2>4
<1>9. CASE Enters(c)
  <2>1. /\ r.at \in {"make", "mkdirat", "compare", "stat"} /\ r.phase = w.phase
        /\ r.failed = w.failed /\ r.bound = w.bound /\ w.at = "open" /\ Quiet /\ there = "bound"
    BY <1>9, EntersProfile DEF Enters
  <2>2. QED
    BY <1>2, <1>3, <2>1
<1>10. CASE MakesFile(c)
  <2>1. r.phase = w.phase /\ w.at = "make" /\ Working(c) /\ r.op = w.op
    BY <1>10, MakesFileProfile DEF MakesFile, Working, Ended
  <2>2. QED
    BY <1>2, <1>4, <2>1
<1>11. CASE Snaps(c)
  <2>1. /\ r.phase = w.phase /\ w.at \in {"sync", "refresh"} /\ Working(c) /\ r.op = w.op
        /\ w.made # None
    BY <1>11, SnapsProfile DEF Snaps, Working, Ended, Control, Coherent, HasMade
  <2>2. QED
    BY <1>2, <1>4, <2>1
<1>12. CASE Finishes(c)
  <2>1. There
    <3>1. Working(c)
      BY <1>12 DEF Finishes, At, Working, Ended
    <3>2. QED
      BY <1>12, <3>1, <1>there, EndsProfile DEF Holds
  <2>2. r.phase # "clear source" /\ (r.phase = "clear destination" => w.phase \in Clearing)
    BY <1>4, <1>12, DoneProfile DEF Finishes, Clearing
  <2>3. ASSUME w.phase \in Clearing
        PROVE  /\ Bound' = [Bound EXCEPT ![w.name] = Missing]
               /\ r.at \in {"look", "threw"} /\ r.failed = w.failed
    <3>1. Removes(c, w.name)
      BY <1>4, <1>12, <2>3 DEF Finishes, At, ClearingPlaces
    <3>2. QED
      BY <1>4, <1>12, <2>3, <3>1, RenamesBound, DoneProfile DEF Removes, Finishes, Clearing
  <2>4. Found
    BY <1>1, <1>2, <1>4, <2>2, <2>3 DEF Clearing
  <2>5. QED
    BY <2>1, <2>4
<1>13. CASE Throws(c)
  <2>1. There
    BY <1>13, <1>there, EndsProfile DEF Throws, Holds
  <2>2. r.at \in {"look", "threw"} /\ r.failed = w.failed
        /\ (r.phase = "clear destination" => w.phase \in Clearing)
    BY <1>4, <1>13, ThrownProfile DEF Throws, Clearing
  <2>3. ASSUME w.phase \in Clearing PROVE Quiet
    BY <1>4, <1>13, <2>3 DEF Throws, At, ClearingPlaces, Clearing
  <2>4. ASSUME w.phase = "clear source" PROVE Bound[Source(c)] # c
    <3> SUFFICES ASSUME Bound[Source(c)] = c PROVE FALSE
      OBVIOUS
    <3>1. w.at \in ClearingPlaces /\ there = "bound" /\ w.name = Source(c) /\ w.op = "probe"
      BY <1>4, <1>6, <2>4 DEF Clearing
    <3>2. w.at \in {"look", "open"} => FALSE
      BY <1>1, <1>13, <3>1 DEF Throws, At, Bound
    <3>3. w.at \in {"compare", "unlink"} => Bound[w.name] = c /\ w.bound = Version(c)
      BY <1>2, <2>4, <3>1
    <3>4. w.at \in {"compare", "unlink"} => SameObject(c) /\ IsA("file", Bound[w.name])
      BY <1>1, <1>4, <2>4, <3>1, <3>3 DEF SameObject, IsA, Seen, Here, Bound, Clearing
    <3>5. QED
      BY <1>13, <3>1, <3>2, <3>4 DEF Throws, At, ClearingPlaces
  <2>5. Found
    BY <1>2, <1>3, <2>2, <2>3, <2>4 DEF Clearing
  <2>6. QED
    BY <2>1, <2>5
<1>14. CASE Faults(c)
  <2>1. There
    <3>1. r.at # "make"
      BY <1>14, ThrownProfile, WherePhases, FaultsProfile
    <3>2. QED
      BY <1>14, <3>1, <1>there, FaultsProfile DEF Faults, Holds
  <2>2. Found
    <3>1. r.at \in {"look", "threw", "withdraw", "refresh"}
      BY <1>14, ThrownProfile, WherePhases, FaultsProfile
    <3>2. r.phase = "clear destination" => w.phase \in Clearing
      BY <1>4, <1>14, ThrownProfile, FaultsProfile DEF Clearing
    <3>3. w.phase \in Clearing => "clearing" \in r.failed
      BY <1>14, FaultsProfile
    <3>4. QED
      BY <3>1, <3>2, <3>3
  <2>3. QED
    BY <2>1, <2>2
<1>15. ASSUME NEW place \in Places, Advances(c, place) PROVE Goal
  <2>1. r = To(c, place)
    BY <1>15 DEF Advances
  <2>2. /\ r.at = place /\ r.made = w.made /\ r.failed = w.failed /\ r.op = w.op
        /\ r.bound = w.bound /\ r.phase = w.phase
    BY <2>1, ToProfile DEF Holds
  <2>3. There
    <3>1. Working(c) /\ place # "make"
      BY <1>15 DEF Advances, At, Working, Ended
    <3>2. QED
      BY <2>2, <3>1, <1>there
  <2>4. Found
    <3>1. w.phase \in Clearing => w.at = "compare" /\ Quiet
      BY <1>4, <1>15 DEF Advances, At, ClearingPlaces
    <3>2. QED
      BY <1>2, <1>3, <2>2, <3>1 DEF Clearing
  <2>5. QED
    BY <2>3, <2>4
<1>16. QED
  BY <1>7, <1>8, <1>9, <1>10, <1>11, <1>12, <1>13, <1>14, <1>15, StepTable, DieProfile


LEMMA WhereOperations ==
  ASSUME TypeOK, Control, NEW c \in Callers
  PROVE  /\ work[c].at = "readback" => work[c].op \in Writers \cup {"create"}
         /\ work[c].at = "check made" => work[c].op = "mkdir"
         /\ work[c].at = "unlink" \/ (work[c].at = "compare" /\ ~IsWriter(c)) =>
              \/ work[c].op \in {"remove", "rmdir"}
              \/ work[c].op = "probe" /\ work[c].phase \in {"remove", "clear source", "clear destination"}
         /\ work[c].at \in {"stat", "rename"} =>
              work[c].op \in {"detach", "move"} \/ (work[c].op = "probe" /\ work[c].phase = "rename")
         /\ work[c].at = "look" => work[c].phase \in {"remove", "clear source", "clear destination"}
<1> DEFINE p == work[c].phase
           at == work[c].at
           op == work[c].op
<1>1. /\ work[c] \in Calls /\ at \in PlacesOf(op, p) /\ op \in Operations
      /\ p \in {"create", "rename", "remove", "clear source", "clear destination"}
      /\ op # "probe" => p = "create"
  BY TypedCall, WherePhases DEF Control, Coherent, Calls
<1>2. /\ at = "readback" => op \in Writers \cup {"create"}
      /\ at = "check made" => op = "mkdir"
      /\ at \in {"stat", "rename"} => op \in {"detach", "move"} \/ (op = "probe" /\ p = "rename")
  BY <1>1 DEF PlacesOf, MakingPlaces, ClearingPlaces, Ended, Writers, Operations
<1>3. /\ at = "unlink" \/ (at = "compare" /\ op \notin Writers) =>
           \/ op \in {"remove", "rmdir"}
           \/ op = "probe" /\ p \in {"remove", "clear source", "clear destination"}
      /\ at = "look" => p \in {"remove", "clear source", "clear destination"}
  BY <1>1 DEF PlacesOf, MakingPlaces, ClearingPlaces, Ended, Writers, Operations
<1>4. QED
  BY <1>2, <1>3 DEF IsWriter

\* What is left when it answers.
LEMMA CallKeepsAnswered ==
  ASSUME TypeOK, Control, DistinctPids, Directories, NEW c \in Callers, CallStep(c),
         Untouched(c), work'[c].at # "dead"
  PROVE  Answered(c)'
<1> DEFINE r == work'[c]
           w == work[c]
<1> SUFFICES ASSUME r.at \in Ended,
                    r.failed \cap {"withdraw", "unlink made", "clearing"} = {},
                    IsWriter(c)' => r.failed \cap {"write", "sync", "compare temporary"} = {},
                    NEW n \in Names, Bound'[n] = c
             PROVE  /\ n \notin Temporaries \cup {Source(c), Destination(c)}
                    /\ inode'[c].kind = "file" => inode'[c].bytes = "new"
  BY DEF Answered
<1> DEFINE Goal == /\ n \notin Temporaries \cup {Source(c), Destination(c)}
                   /\ inode'[c].kind = "file" => inode'[c].bytes = "new"
<1> SUFFICES Goal
  OBVIOUS
<1>1. /\ Bound \in [Names -> Ids \cup {Missing}] /\ c \in Ids /\ Missing # c
      /\ MakeName(c) \in Names /\ w.name \in Names /\ Entry \in Names /\ Release \in Names
      /\ Source(c) \in Names /\ Destination(c) \in Names
      /\ w.handle = "bound" /\ Here(c) = Bound
  BY ZenonT(30), IdsApart, NamesInNames, MakeNameInNames DEF TypeOK, Bound, Control, Coherent, Here
<1>2. AtHome(c) /\ Intact(c) /\ Cleared(c)
  BY DEF Untouched
<1>3. /\ \A m \in Names : Bound[m] = c => m \in Homes(c)
      /\ \A k, m \in Names : Bound[k] = c /\ Bound[m] = c => k = m
  <2>1. \A m \in Names : Bound[m] = c => m \in Homes(c)
    BY <1>2 DEF AtHome
  <2>2. \A k, m \in Names : Bound[k] = Bound[m] /\ Bound[k] # Missing => k = m
    BY DEF Directories, Injective
  <2>3. QED
    BY <1>1, <2>1, <2>2
<1>4. w.made # None => inode[c].kind = "file"
  BY DEF Directories, Own, Kind
<1>5. Quiet => Bound' = Bound /\ inode' = inode
  BY DEF Quiet, Bound
<1>nowhere. (\A m \in Names : Bound'[m] # c) => Goal
  OBVIOUS
<1> HIDE DEF Goal
<1>fresh. ASSUME Fresh(c), Quiet PROVE Goal
  BY <1>5, <1>fresh, <1>nowhere DEF Directories, FreshCalls
<1>homeless. ASSUME w.op \in {"remove", "detach", "move", "rmdir"}, ~Fresh(c) PROVE Goal
  <2>1. Homes(c) = {}
    BY <1>homeless DEF Homes, IsWriter, Writers
  <2>2. \A m \in Names : Bound[m] # c
    BY <1>3, <2>1
  <2>3. QED
    BY <1>1, <1>homeless, <2>2, <1>nowhere, CallKeepsNames
<1>entry. ASSUME w.at = "readback", Quiet PROVE Goal
  <2>1. Bound[Entry] = c /\ inode[c].bytes = "new"
    BY <1>2, <1>entry DEF AtHome, Intact
  <2>2. n = Entry
    BY <1>1, <1>3, <1>5, <1>entry, <2>1
  <2>3. QED
    BY <1>5, <1>entry, <2>1, <2>2, NamesApart DEF Goal
<1>directory. ASSUME w.at = "check made", Quiet PROVE Goal
  <2>1. w.op = "mkdir"
    BY <1>directory, WhereOperations
  <2>2. Homes(c) = {Release}
    BY <2>1 DEF Homes, IsWriter, Writers
  <2>3. Bound[n] = c /\ n = Release
    BY <1>3, <1>5, <1>directory, <2>2
  <2>4. inode'[c].kind = "directory"
    BY <1>5, <1>directory, <2>1, <2>3 DEF Directories, Own, Kind
  <2>5. QED
    BY <2>3, <2>4, NamesApart DEF Goal
<1>removed. ASSUME NEW m \in Names, Bound[m] = c, Bound' = [Bound EXCEPT ![m] = Missing]
            PROVE  Goal
  <2>1. \A k \in Names : Bound'[k] = c => FALSE
    BY <1>1, <1>3, <1>removed
  <2>2. QED
    BY <2>1, <1>nowhere
<1>6. CASE Finishes(c)
  <2>1. r.failed = w.failed
    BY <1>6, EndsProfile
  <2>2. CASE At(c, "unlink") /\ Removes(c, w.name)
    <3>1. Bound' = [Bound EXCEPT ![w.name] = Missing]
      BY <2>2, RenamesBound DEF Removes
    <3>2. CASE w.op \in {"remove", "rmdir"}
      BY <2>2, <3>2, <1>homeless DEF At, Fresh
    <3>3. CASE w.op = "probe" /\ w.phase \in {"remove", "clear source", "clear destination"}
      <4>1. w.phase # "clear source"
        BY <1>6, <3>3, DoneProfile DEF Finishes, Ended
      <4>2. w.name = Destination(c)
        BY <3>3, <4>1, WherePhases
      <4>3. Bound[Destination(c)] = c
        BY <1>2, <2>1, <2>2, <3>3, <4>1 DEF AtHome, Cleared, At
      <4>4. QED
        BY <1>1, <3>1, <4>2, <4>3, <1>removed
    <3>4. QED
      BY <2>2, <3>2, <3>3, WhereOperations DEF At
  <2>3. CASE At(c, "rename") /\ Moves(c)
    <3>1. ~(w.op = "probe" /\ w.phase = "rename")
      BY <1>6, DoneProfile DEF Finishes, Ended
    <3>2. QED
      BY <2>3, <3>1, <1>homeless, WhereOperations DEF At, Fresh
  <2>4. CASE Quiet /\ At(c, "close") /\ w.op \notin Writers \cup {"create"}
    <3>1. w.op = "probe" /\ w.phase = "create"
      BY <2>4, WhereCallsAct DEF At
    <3>2. QED
      BY <1>6, <3>1, DoneProfile DEF Finishes, Ended
  <2>5. CASE Quiet /\ (At(c, "readback") \/ At(c, "check made"))
    BY <2>5, <1>entry, <1>directory DEF At
  <2>6. QED
    BY <1>6, <2>2, <2>3, <2>4, <2>5 DEF Finishes
<1>7. ASSUME Quiet, r.at = Thrown(c).at, w.at \in {"read", "make", "mkdirat", "readback", "check made"}
      PROVE  Goal
  <2>1. w.at \in {"read", "make", "mkdirat"} => Fresh(c)
    BY WhereCallsAct DEF Fresh, Control, Coherent
  <2>2. QED
    BY <1>7, <2>1, <1>fresh, <1>entry, <1>directory
<1>8. r.at = Thrown(c).at => w.op # "probe" \/ w.phase \in {"create", "clear destination"}
  BY ThrownProfile, WherePhases DEF Ended
<1>9. ASSUME Quiet, w.phase = "create",
             w.at \in {"open", "unlink", "stat", "rename"} \/ (w.at = "compare" /\ ~IsWriter(c))
      PROVE  Goal
  <2>1. w.at = "open" => Fresh(c)
    BY <1>9 DEF Fresh, Control, Coherent
  <2>2. w.at # "open" => w.op \in {"remove", "detach", "move", "rmdir"} /\ ~Fresh(c)
    BY <1>9, WhereOperations DEF Fresh
  <2>3. QED
    BY <1>9, <2>1, <2>2, <1>fresh, <1>homeless
<1>10. CASE Throws(c)
  <2>1. /\ r.failed = w.failed /\ IsWriter(c)' = IsWriter(c) /\ r.at = Thrown(c).at
        /\ w.phase \in {"create", "clear destination"} /\ Working(c)
    <3>1. r.failed = w.failed /\ r.op = w.op
      BY <1>10, EndsProfile DEF Holds
    <3>2. r.at = Thrown(c).at /\ Working(c)
      BY <1>10 DEF Throws
    <3>3. QED
      BY <1>8, <3>1, <3>2, WherePhases DEF IsWriter
  <2>2. CASE At(c, "unlink made") /\ Removes(c, MakeName(c))
    <3>1. Bound' = [Bound EXCEPT ![MakeName(c)] = Missing]
      BY <2>2, RenamesBound DEF Removes
    <3>2. Bound[MakeName(c)] = c
      BY <1>2, <2>2 DEF AtHome, Making, At
    <3>3. QED
      BY <1>1, <3>1, <3>2, <1>removed
  <2>3. CASE Quiet /\ w.phase = "create" /\ ~(At(c, "unlink made") /\ Removes(c, MakeName(c)))
    <3>1. w.at \notin {"withdraw", "compare temporary"}
      <4> SUFFICES ASSUME w.at \in {"withdraw", "compare temporary"} PROVE FALSE
        OBVIOUS
      <4>1. Seen(c, MakeName(c)) # w.made
        BY <1>10 DEF Throws, At
      <4>2. Bound[MakeName(c)] = c
        BY <1>2 DEF AtHome, Making
      <4>3. w.made = Version(c)
        BY <1>2, <2>1 DEF Intact
      <4>4. QED
        BY <1>1, <4>1, <4>2, <4>3 DEF Seen
    <3>2. w.at # "unlink made"
      <4> SUFFICES ASSUME w.at = "unlink made" PROVE FALSE
        OBVIOUS
      <4>1. Bound[MakeName(c)] = c /\ w.made # None
        BY <1>2 DEF AtHome, Making, Control, Coherent, HasMade
      <4>2. QED
        BY <1>4, <1>10, <2>3, <4>1 DEF Throws, At, IsA
    <3>3. w.at # "look"
      BY <2>3, WhereOperations
    <3>4. w.at = "compare" => ~IsWriter(c)
      BY <1>10 DEF Throws, At
    <3>5. w.at \in {"read", "make", "mkdirat", "readback", "check made", "open", "unlink", "stat",
                    "rename", "compare"}
      BY <1>10, <3>1, <3>2, <3>3, TypedCall DEF Throws, Working, Calls, Places
    <3>6. QED
      BY <2>1, <2>3, <3>4, <3>5, <1>7, <1>9
  <2>4. CASE Quiet /\ w.phase = "clear destination"
    <3>1. /\ w.at \in {"look", "open", "compare", "unlink"} /\ w.op = "probe" /\ there = "bound"
          /\ w.name = Destination(c) /\ inode[c].kind = "file"
      <4>1. w.at \in ClearingPlaces \cup {"threw"} /\ w.op = "probe" /\ w.made # None
            /\ w.name = Destination(c)
        BY <2>4, WherePhases
      <4>2. QED
        BY <1>2, <1>4, <2>1, <4>1 DEF ClearingPlaces, Working, Ended, Cleared
    <3>2. /\ Bound[Source(c)] # c
          /\ w.at \in {"open", "compare", "unlink"} => Bound[Destination(c)] = c /\ w.bound = Version(c)
      BY <1>2, <2>1, <2>4 DEF Cleared
    <3>3. w.at # "open"
      BY <1>10, <3>1 DEF Throws, At, Removes, Unguarded
    <3>4. w.at \in {"compare", "unlink"} => SameObject(c) /\ IsA("file", Bound[w.name])
      BY <1>1, <3>1, <3>2 DEF SameObject, IsA, Seen
    <3>5. w.at = "look" /\ names[there][w.name] = Missing
      BY <1>10, <3>1, <3>3, <3>4 DEF Throws, At, Removes, Unguarded
    <3>6. Homes(c) = {Source(c), Destination(c)}
      BY <3>1 DEF Homes, IsWriter, Writers
    <3>7. \A m \in Names : Bound[m] # c
      BY <1>1, <1>3, <3>1, <3>2, <3>5, <3>6 DEF Bound
    <3>8. QED
      BY <1>5, <2>4, <3>7, <1>nowhere
  <2>5. QED
    BY <1>10, <2>1, <2>2, <2>3, <2>4 DEF Throws
<1>11. CASE Faults(c)
  <2>1. /\ r.failed = w.failed \cup {IF w.phase \in Clearing THEN "clearing" ELSE w.at}
        /\ IsWriter(c)' = IsWriter(c) /\ Working(c)
        /\ w.at \notin {"write", "sync", "close", "refresh", "rename over"}
        /\ ~(w.at = "compare" /\ IsWriter(c))
        /\ r.at = Thrown(c).at /\ Quiet
    BY <1>11, FaultsProfile DEF Faults, Holds, IsWriter, Ended
  <2>2. w.phase = "create"
    <3>1. w.phase \in {"create", "clear destination"}
      BY <1>8, <2>1, WherePhases
    <3>2. QED
      BY <2>1, <3>1 DEF Clearing
  <2>3. w.at \notin {"withdraw", "unlink made"}
    BY <2>1, <2>2 DEF Clearing
  <2>4. w.at # "compare temporary"
    <3>1. w.at = "compare temporary" => IsWriter(c)
      BY WhereCallsAct
    <3>2. QED
      BY <2>1, <2>2, <3>1 DEF Clearing
  <2>5. w.at # "look"
    BY <2>2, WhereOperations
  <2>6. w.at \in {"read", "make", "mkdirat", "readback", "check made", "open", "unlink", "stat",
                  "rename", "compare"}
    BY <2>1, <2>3, <2>4, <2>5, TypedCall DEF Working, Calls, Places
  <2>7. QED
    BY <2>1, <2>2, <2>6, <1>7, <1>9
<1>12. ASSUME NEW place \in Places, Advances(c, place) PROVE FALSE
  <2>1. work'[c] = To(c, place)
    BY <1>12 DEF Advances
  <2>2. work'[c].at = place
    <3>1. To(c, place).at = place
      BY ToProfile
    <3>2. QED
      BY <2>1, <3>1
  <2>3. place \notin Ended
    BY <1>12 DEF Advances, Ended
  <2>4. QED
    BY <2>2, <2>3
<1>13. QED
  BY <1>6, <1>10, <1>11, <1>12, StepTable, BeginProfile, FindsProfile, EntersProfile,
     MakesFileProfile, SnapsProfile, DieProfile DEF Ended


LEMMA CallKeepsUntouched ==
  ASSUME TypeOK, Control, DistinctPids, Directories, NEW c \in Callers, CallStep(c),
         c \notin touched /\ work[c].at # "dead" => Untouched(c)
  PROVE  c \notin touched' /\ work'[c].at # "dead" => Untouched(c)'
<1> SUFFICES ASSUME c \notin touched', work'[c].at # "dead" PROVE Untouched(c)'
  OBVIOUS
<1>1. c \notin touched
  BY StepHasEffect DEF Effect, Quiet, Makes, Writes, Removes, Replaces, Moves, Touch
<1>2. work[c].at # "dead"
  BY StepTable DEF Begin, Finds, Enters, MakesFile, Snaps, Die, Advances, Finishes, Throws, Faults,
     Working, At
<1>3. Untouched(c)
  BY <1>1, <1>2
<1>4. AtHome(c)' /\ Intact(c)' /\ Cleared(c)' /\ Answered(c)'
  BY <1>3, CallKeepsHome, CallKeepsIntact, CallKeepsCleared, CallKeepsAnswered DEF Untouched
<1>5. QED
  BY <1>4 DEF Untouched

-----------------------------------------------------------------------------
(* A step of others keeps what the invariant says of the directory as a whole. *)

LEMMA OthersKeepDirectory ==
  ASSUME TypeOK, Directories, Others
  PROVE  Injective' /\ FreshOthers' /\ FreshCalls' /\ ForeignNames' /\ Stamps'
<1> DEFINE new == 2 + othersLeft
           Goal ==
             /\ \A m, n \in Names : Bound'[m] = Bound'[n] /\ Bound'[m] # Missing => m = n
             /\ \A n \in Names : Bound'[n] \in {Missing, new} \/ \E m \in Names : Bound'[n] = Bound[m]
             /\ names'["foreign"] = names["foreign"]
             /\ \A i \in Ids : inode'[i].stamp \in 0..(inode[i].stamp + 1)
             /\ inode'[new].stamp = 0 \/ inode'[new] = inode[new] \/ \E n \in Names : Bound[n] = new
<1>1. /\ work' = work /\ new \in Ids \ Callers /\ new \in Nat
      /\ othersLeft \in 1..MaxOthers /\ othersLeft' = othersLeft - 1
  BY OthersHaveEffect
<1>2. /\ Bound \in [Names -> Ids \cup {Missing}] /\ inode \in [Ids -> Inodes]
      /\ Shared \subseteq Names /\ Missing # new
      /\ names \in [{"bound", "foreign"} -> [Names -> Ids \cup {Missing}]]
      /\ \A i \in Ids : inode[i].stamp \in Nat
  BY <1>1, IdsApart, BoundsAssumption DEF TypeOK, Inodes, Bound, Names
<1>3. /\ \A m, n \in Names : Bound[m] = Bound[n] /\ Bound[m] # Missing => m = n
      /\ \A n \in Names : Bound[n] \notin 2..new
      /\ \A n \in Names : Bound[n] # new
  BY <1>1 DEF Directories, Injective, FreshOthers
<1> HIDE DEF new
<1>4. ASSUME NEW n \in Shared, NEW f \in Inodes, OthersFile(f), OthersPut(n, new, f) PROVE Goal
  <2>1. Bound' = [Bound EXCEPT ![n] = new] /\ names'["foreign"] = names["foreign"]
    BY <1>2, <1>4 DEF OthersPut, Bound
  <2>2. \A m \in Names : Bound'[m] = IF m = n THEN new ELSE Bound[m]
    BY <1>2, <2>1
  <2>3. \A i \in Ids : inode'[i] = IF i = new THEN f ELSE inode[i]
    BY <1>1, <1>2, <1>4 DEF OthersPut
  <2>4. f.stamp = 0
    BY <1>4 DEF OthersFile
  <2>5. \A i \in Ids : inode'[i].stamp \in 0..(inode[i].stamp + 1)
    BY <1>2, <2>3, <2>4
  <2>6. \A m, k \in Names : Bound'[m] = Bound'[k] /\ Bound'[m] # Missing => m = k
    BY <1>3, <2>2
  <2>7. QED
    BY <1>1, <2>1, <2>2, <2>3, <2>4, <2>5, <2>6
<1>5. ASSUME NEW n \in Shared, OthersWrite(n) PROVE Goal
  <2>1. Bound' = Bound /\ Bound[n] \in Ids /\ names' = names
    BY <1>2, <1>5 DEF OthersWrite, Bound, IsA
  <2>2. /\ \A j \in Ids : j # Bound[n] => inode'[j] = inode[j]
        /\ inode'[Bound[n]].stamp = inode[Bound[n]].stamp + 1
    BY <1>2, <1>5, <2>1 DEF OthersWrite, Bound, Inodes
  <2>3. \A i \in Ids : inode'[i].stamp \in 0..(inode[i].stamp + 1)
    BY <1>2, <2>1, <2>2
  <2>4. inode'[new] = inode[new]
    BY <1>1, <1>2, <1>3, <2>2
  <2>5. QED
    BY <1>3, <2>1, <2>3, <2>4
<1>6. ASSUME NEW n \in Shared, OthersRemove(n) PROVE Goal
  <2>1. Bound' = [Bound EXCEPT ![n] = Missing] /\ inode' = inode
        /\ names'["foreign"] = names["foreign"]
    BY <1>2, <1>6 DEF OthersRemove, Bound
  <2>2. \A m \in Names : Bound'[m] = IF m = n THEN Missing ELSE Bound[m]
    BY <1>2, <2>1
  <2>3. \A m, k \in Names : Bound'[m] = Bound'[k] /\ Bound'[m] # Missing => m = k
    BY <1>3, <2>2
  <2>4. QED
    BY <1>2, <2>1, <2>2, <2>3
<1>7. ASSUME OthersSwap PROVE Goal
  <2>1. Bound' = Bound /\ inode' = inode /\ names' = names
    BY <1>7 DEF OthersSwap, Bound
  <2>2. QED
    BY <1>2, <1>3, <2>1
<1>8. Goal
  BY <1>4, <1>5, <1>6, <1>7, OthersHaveEffect DEF new
<1> HIDE DEF Goal
<1>9. Injective' /\ ForeignNames'
  BY <1>8 DEF Goal, Injective, ForeignNames, Directories
<1>10. FreshOthers'
  <2>1. othersLeft \in Nat /\ othersLeft' = othersLeft - 1 /\ othersLeft \in 1..MaxOthers
    BY <1>1, BoundsAssumption
  <2>2. Missing \notin 2..(2 + othersLeft')
    BY <2>1, CallersAssumption
  <2>3. new \notin 2..(2 + othersLeft')
    BY <2>1 DEF new
  <2>4. \A n \in Names : Bound[n] \notin 2..(2 + othersLeft')
    BY <1>3, <2>1 DEF new
  <2>5. QED
    BY <1>8, <2>2, <2>3, <2>4 DEF Goal, FreshOthers
<1>11. FreshCalls'
  <2>1. \A c \in Callers : Fresh(c)' = Fresh(c)
    BY <1>1 DEF Fresh
  <2>2. \A c \in Callers : (\A n \in Names : Bound[n] # c) => \A n \in Names : Bound'[n] # c
    BY <1>1, <1>8, IdsApart DEF Goal
  <2>3. QED
    BY <1>1, <2>1, <2>2 DEF Directories, FreshCalls
<1>12. Stamps'
  <2>1. /\ \A i \in Ids : inode[i].stamp <= 1 + MaxOthers - othersLeft
        /\ \A i \in Ids \ Callers : inode[i].stamp <= MaxOthers - othersLeft
        /\ \A c \in Callers : Fresh(c) \/ work[c].at = "write" =>
             inode[c].stamp <= MaxOthers - othersLeft
    BY DEF Directories, Stamps
  <2>2. \A i \in Ids : inode'[i].stamp \in Nat /\ inode'[i].stamp <= inode[i].stamp + 1
    BY <1>2, <1>8 DEF Goal
  <2>3. \A c \in Callers : Fresh(c)' = Fresh(c)
    BY <1>1 DEF Fresh
  <2>4. othersLeft' = othersLeft - 1 /\ othersLeft \in Nat /\ MaxOthers \in Nat
    BY <1>1, BoundsAssumption
  <2>5. /\ \A i \in Ids : inode'[i].stamp <= 1 + MaxOthers - othersLeft'
        /\ \A i \in Ids \ Callers : inode'[i].stamp <= MaxOthers - othersLeft'
        /\ \A c \in Callers : Fresh(c) \/ work[c].at = "write" =>
             inode'[c].stamp <= MaxOthers - othersLeft'
    BY <1>2, <2>1, <2>2, <2>4, IdsApart
  <2>6. QED
    BY <1>1, <2>3, <2>5 DEF Stamps
<1>13. QED
  BY <1>9, <1>10, <1>11, <1>12


-----------------------------------------------------------------------------
(* The invariant. *)

LEMMA InitInv == Init => Inv
<1> SUFFICES ASSUME Init PROVE Inv
  OBVIOUS
<1>1. PICK e \in {0, Missing} :
        names = [d \in {"bound", "foreign"} |->
                   [n \in Names |-> CASE d = "foreign" /\ n = Entry -> 2
                                      [] d = "bound" /\ n = Entry   -> e
                                      [] d = "bound" /\ n = Stage   -> 1
                                      [] OTHER                      -> Missing]]
  BY DEF Init
<1>2. /\ inode = [i \in Ids |-> IF i = 1 THEN Directory(Missing) ELSE File("old", Missing)]
      /\ work = [c \in Callers |-> Idle] /\ there = "bound"
      /\ raced = {} /\ touched = {} /\ othersLeft = MaxOthers /\ faultsLeft = MaxFaults
  BY DEF Init
<1>3. /\ {0, 1, 2} \subseteq Ids /\ Missing \notin Ids /\ 0 # 1 /\ 2 # 1
      /\ Missing # 0 /\ Missing # 1 /\ Missing # 2 /\ {0, 1, 2} \cap Callers = {}
      /\ Entry \in Names /\ Stage \in Names /\ Entry # Stage
  BY IdsApart, NamesInNames, NamesApart
<1>4. /\ \A n \in Names : Bound[n] = IF n = Entry THEN e ELSE IF n = Stage THEN 1 ELSE Missing
      /\ \A n \in Names : names["foreign"][n] = IF n = Entry THEN 2 ELSE Missing
  BY <1>1, <1>3 DEF Bound
<1>5. names \in [{"bound", "foreign"} -> [Names -> Ids \cup {Missing}]]
  <2>1. \A d \in {"bound", "foreign"}, n \in Names : names[d][n] \in Ids \cup {Missing}
    BY <1>3, <1>4 DEF Bound
  <2>2. \A d \in {"bound", "foreign"} : names[d] \in [Names -> Ids \cup {Missing}]
    BY <1>1, <2>1
  <2>3. QED
    BY <1>1, <2>2
<1>6. /\ Idle.at = "idle" /\ Idle.op = "create" /\ Idle.pid = Missing /\ Idle.handle = "bound"
      /\ Idle.name = Entry /\ Idle.phase = "create" /\ Idle.owned = None /\ Idle.bound = None
      /\ Idle.made = None /\ Idle.failed = {} /\ Idle \in Calls
  BY <1>3, NoneIsSnapshot DEF Idle, Calls, Places, Operations, Phases
<1>7. \A i \in Ids : inode[i].stamp = 0 /\ inode[i] \in Inodes
  BY <1>2, BoundsAssumption DEF Directory, File, Inodes
<1>8. TypeOK
  <2>1. work \in [Callers -> Calls] /\ inode \in [Ids -> Inodes]
    BY <1>2, <1>6, <1>7
  <2>2. QED
    BY <1>2, <1>5, <2>1, BoundsAssumption DEF TypeOK, Calls, Inodes
<1>9. \A c \in Callers : /\ work[c] = Idle /\ ~Working(c) /\ ~IsWriter(c) /\ Fresh(c)
  BY <1>2, <1>6 DEF Working, IsWriter, Writers, Fresh
<1>10. Control
  <2>1. "idle" \in PlacesOf("create", "create")
    BY DEF PlacesOf, Writers
  <2>2. \A c \in Callers : NameOf(c, "create", "create") = Entry
    BY DEF NameOf
  <2>3. QED
    BY <1>6, <1>9, <2>1, <2>2 DEF Control, Coherent, HasMade, Writers
<1>11. Injective /\ FreshOthers /\ FreshCalls /\ ForeignNames /\ Stamps
  <2>1. Injective
    BY <1>3, <1>4 DEF Injective
  <2>2. FreshOthers
    <3>1. \A n \in Names : Bound[n] \in {0, 1, Missing}
      BY <1>4
    <3>2. 0 \notin 2..(2 + MaxOthers) /\ 1 \notin 2..(2 + MaxOthers) /\ Missing \notin 2..(2 + MaxOthers)
      BY BoundsAssumption, CallersAssumption
    <3>3. QED
      BY <1>2, <3>1, <3>2 DEF FreshOthers
  <2>3. FreshCalls
    BY <1>3, <1>4, <1>6, <1>9, IdsApart DEF FreshCalls, None
  <2>4. ForeignNames
    BY <1>3, <1>4, IdsApart DEF ForeignNames
  <2>5. Stamps
    BY <1>2, <1>7, IdsApart, BoundsAssumption DEF Stamps
  <2>6. QED
    BY <2>1, <2>2, <2>3, <2>4, <2>5
<1>12. ASSUME NEW c \in Callers PROVE Own(c) /\ Unraced(c) /\ Untouched(c)
  <2>1. /\ work[c].at = "idle" /\ work[c].op = "create" /\ work[c].made = None
        /\ work[c].phase = "create" /\ ~IsWriter(c) /\ ~Working(c)
    BY <1>6, <1>9
  <2>2. \A n \in Names : Bound[n] # c
    BY <1>3, <1>4, IdsApart
  <2>3. Source(c) \in Names /\ Destination(c) \in Names
        /\ Bound[Source(c)] = Missing /\ Bound[Destination(c)] = Missing
    BY <1>4, NamesInNames, NamesApart
  <2>4. Own(c)
    BY <2>1, <2>2, <2>3 DEF Own, PrivateNames, OwnTemporary, Kind, Snapshot
  <2>5. Unraced(c)
    BY <2>1 DEF Unraced
  <2>6. AtHome(c)
    BY <2>1, <2>2 DEF AtHome, Making
  <2>7. Intact(c) /\ Cleared(c) /\ Answered(c)
    BY <2>1, <2>2 DEF Intact, Cleared, Answered, Ended
  <2>8. QED
    BY <2>4, <2>5, <2>6, <2>7 DEF Untouched
<1>13. DistinctPids
  BY <1>9 DEF DistinctPids
<1>14. QED
  BY <1>8, <1>10, <1>11, <1>12, <1>13 DEF Inv, Directories, UnracedCalls, UntouchedCalls

LEMMA CallKeepsInv ==
  ASSUME Inv, NEW c \in Callers, CallStep(c)
  PROVE  Inv'
<1>1. /\ TypeOK /\ Control /\ DistinctPids /\ Directories /\ Stamps
      /\ \A d \in Callers : /\ Own(d)
                            /\ d \notin raced => Unraced(d)
                            /\ d \notin touched /\ work[d].at # "dead" => Untouched(d)
  BY DEF Inv, Directories, UnracedCalls, UntouchedCalls
<1>2. TypeOK'
  BY <1>1, CallKeepsTypes
<1>3. Control'
  <2>1. PICK r \in Calls : Become(c, r) /\ Coherent(c, r)
    BY <1>1, StepIsCoherent
  <2>2. work'[c] = r /\ \A d \in Callers \ {c} : work'[d] = work[d]
    BY <1>1, <2>1 DEF Become, TypeOK
  <2>3. ASSUME NEW d \in Callers PROVE Coherent(d, work'[d])
    BY <1>1, <2>1, <2>2 DEF Control
  <2>4. QED
    BY <2>3 DEF Control
<1>4. DistinctPids'
  BY <1>1, CallKeepsPids
<1>5. Injective' /\ FreshOthers' /\ ForeignNames' /\ FreshCalls' /\ Stamps'
  BY <1>1, CallKeepsNames, CallKeepsFresh, CallKeepsStamps
<1>6. ASSUME NEW d \in Callers
      PROVE  /\ Own(d)'
             /\ d \notin raced' => Unraced(d)'
             /\ d \notin touched' /\ work'[d].at # "dead" => Untouched(d)'
  <2>1. CASE d = c
    <3>1. d \notin raced' => d \notin raced
      BY <1>1, <2>1, StepHasEffect DEF Effect, Quiet, Makes, Writes, Put, Removes, Replaces, Moves, Touch
    <3>2. Unraced(c) => Unraced(c)'
      BY <1>1, CallKeepsUnraced
    <3>3. c \notin touched' /\ work'[c].at # "dead" => Untouched(c)'
      BY <1>1, CallKeepsUntouched
    <3>4. Own(c)'
      BY <1>1, CallKeepsOwn
    <3>5. QED
      BY <1>1, <2>1, <3>1, <3>2, <3>3, <3>4
  <2>2. CASE d # c
    <3>1. Bystander(d)
      BY <1>1, <2>2, CallersAreBystanders
    <3>2. QED
      BY <1>1, <1>2, <3>1, BystanderKeepsOwn, BystanderKeepsUnraced, BystanderKeepsUntouched
  <2>3. QED
    BY <2>1, <2>2
<1>7. QED
  BY <1>2, <1>3, <1>4, <1>5, <1>6 DEF Inv, Directories, UnracedCalls, UntouchedCalls

LEMMA OthersKeepInv ==
  ASSUME Inv, Others
  PROVE  Inv'
<1>1. /\ TypeOK /\ Control /\ DistinctPids /\ Directories /\ Stamps
      /\ \A d \in Callers : /\ Own(d)
                            /\ d \notin raced => Unraced(d)
                            /\ d \notin touched /\ work[d].at # "dead" => Untouched(d)
  BY DEF Inv, Directories, UnracedCalls, UntouchedCalls
<1>2. TypeOK' /\ work' = work
  BY <1>1, OthersKeepTypes, OthersHaveEffect
<1>3. Control' /\ DistinctPids'
  BY <1>1, <1>2 DEF Control, DistinctPids, Working, IsWriter
<1>4. Injective' /\ FreshOthers' /\ FreshCalls' /\ ForeignNames' /\ Stamps'
  BY <1>1, OthersKeepDirectory
<1>5. ASSUME NEW d \in Callers
      PROVE  /\ Own(d)'
             /\ d \notin raced' => Unraced(d)'
             /\ d \notin touched' /\ work'[d].at # "dead" => Untouched(d)'
  <2>1. Bystander(d)
    BY <1>1, OthersLeaveBystanders
  <2>2. QED
    BY <1>1, <1>2, <2>1, BystanderKeepsOwn, BystanderKeepsUnraced, BystanderKeepsUntouched
<1>6. QED
  BY <1>2, <1>3, <1>4, <1>5 DEF Inv, Directories, UnracedCalls, UntouchedCalls

LEMMA StutterKeepsInv ==
  ASSUME Inv, UNCHANGED vars
  PROVE  Inv'
<1>1. /\ names' = names /\ inode' = inode /\ there' = there /\ work' = work /\ raced' = raced
      /\ touched' = touched /\ othersLeft' = othersLeft /\ faultsLeft' = faultsLeft
  BY DEF vars
<1>2. TypeOK' /\ Control' /\ DistinctPids'
  BY <1>1 DEF Inv, TypeOK, Control, DistinctPids, Working, IsWriter
<1>3. ASSUME NEW d \in Callers
      PROVE  /\ Own(d)' = Own(d) /\ Unraced(d)' = Unraced(d) /\ Untouched(d)' = Untouched(d)
  <2>1. /\ Version(d)' = Version(d) /\ IsWriter(d)' = IsWriter(d) /\ Working(d)' = Working(d)
        /\ MakeName(d)' = MakeName(d) /\ Bound' = Bound
    BY <1>1 DEF Version, IsWriter, Working, MakeName, Bound
  <2>2. Own(d)' = Own(d)
    BY <1>1, <2>1 DEF Own, PrivateNames, OwnTemporary, Kind, Snapshot
  <2>3. SameObject(d)' = SameObject(d)
    BY <1>1 DEF SameObject, IsA, Seen, Here, Version
  <2>4. Unraced(d)' = Unraced(d)
    BY <1>1, <2>1, <2>3 DEF Unraced
  <2>5. Homes(d)' = Homes(d) /\ Making(d)' = Making(d)
    BY <1>1, <2>1 DEF Homes, Making
  <2>6. AtHome(d)' = AtHome(d) /\ Intact(d)' = Intact(d)
    BY <1>1, <2>1, <2>5 DEF AtHome, Intact
  <2>7. Cleared(d)' = Cleared(d) /\ Answered(d)' = Answered(d)
    BY <1>1, <2>1 DEF Cleared, Answered
  <2>8. QED
    BY <2>2, <2>4, <2>6, <2>7 DEF Untouched
<1>4. Injective' /\ FreshOthers' /\ FreshCalls' /\ ForeignNames' /\ Stamps'
  BY <1>1 DEF Inv, Directories, Injective, FreshOthers, FreshCalls, ForeignNames, Stamps, Fresh, Bound
<1>5. Directories' /\ UnracedCalls' /\ UntouchedCalls'
  BY <1>1, <1>3, <1>4 DEF Inv, Directories, UnracedCalls, UntouchedCalls
<1>6. QED
  BY <1>2, <1>5 DEF Inv

LEMMA NextKeepsInv == Inv /\ [Next]_vars => Inv'
<1>1. ASSUME Inv, NEW c \in Callers, CallStep(c) PROVE Inv'
  BY <1>1, CallKeepsInv
<1>2. Next => (\E c \in Callers : CallStep(c)) \/ Others
  BY DEF Next, CallStep
<1>3. QED
  BY <1>1, <1>2, OthersKeepInv, StutterKeepsInv


-----------------------------------------------------------------------------
(* What a step of a call takes away. *)

LEMMA SameObjectIsTold ==
  ASSUME TypeOK, Control, NEW c \in Callers, SameObject(c), work[c].at # "read",
         work[c].at # "threw"
  PROVE  LET i == Bound[work[c].name] IN
         Told(c) = IF IsA("directory", i) THEN <<i, 0>> ELSE Version(i)
<1> DEFINE i == Bound[work[c].name]
           w == work[c]
<1>1. /\ w \in Calls /\ Coherent(c, w) /\ Here(c) = Bound
  BY TypedCall DEF Control, Coherent, Here, Bound
<1>2. /\ w.op = "replace" => w.bound = w.owned
      /\ w.op \in {"move", "rmdir"} => w.bound[2] = 0
      /\ w.bound = <<w.bound[1], w.bound[2]>>
  BY <1>1 DEF Coherent, Calls, Snapshots
<1>3. Told(c) = w.bound
  BY <1>2 DEF Told
<1>4. CASE w.op \in {"move", "rmdir"}
  <2>1. IsA("directory", i) /\ i = w.bound[1]
    BY <1>1, <1>4 DEF SameObject
  <2>2. QED
    BY <1>2, <1>3, <1>4, <2>1
<1>5. CASE w.op \notin {"move", "rmdir"}
  <2>1. IsA("file", i) /\ Version(i) = w.bound
    BY <1>1, <1>5 DEF SameObject, Seen
  <2>2. ~IsA("directory", i)
    BY <2>1 DEF IsA
  <2>3. QED
    BY <1>3, <2>1, <2>2
<1>6. QED
  BY <1>4, <1>5

LEMMA CallTakesWhatItWasTold ==
  ASSUME Inv, NEW c \in Callers, CallStep(c)
  PROVE  /\ names'["foreign"] = names["foreign"]
         /\ \A n \in Taken : LET i == names["bound"][n] IN
              \/ inode[i].by = c
              \/ c \in raced
              \/ Told(c) = IF IsA("directory", i) THEN <<i, 0>> ELSE Version(i)
              \/ work[c].op = "detach" /\ names'["bound"][Aside] = i
<1> DEFINE May(n) == \/ inode[Bound[n]].by = c
                     \/ c \in raced
                     \/ Told(c) = IF IsA("directory", Bound[n]) THEN <<Bound[n], 0>>
                                  ELSE Version(Bound[n])
                     \/ work[c].op = "detach" /\ Bound'[Aside] = Bound[n]
           Goal == /\ names'["foreign"] = names["foreign"]
                   /\ \A n \in Names : Bound[n] \notin {Missing, Bound'[n]} => May(n)
<1>1. /\ TypeOK /\ Control /\ (c \notin raced => Unraced(c)) /\ PrivateNames(c)
      /\ Bound \in [Names -> Ids \cup {Missing}]
      /\ MakeName(c) \in Names /\ work[c].name \in Names /\ Target(c) \in Names /\ Entry \in Names
  BY MakeNameInNames, NamesInNames DEF Inv, UnracedCalls, Directories, Own, TypeOK, Bound
<1> SUFFICES Goal
  BY DEF Taken, Bound
<1> HIDE DEF May
<1>2. ASSUME c \notin raced, SameObject(c), work[c].at \in {"unlink", "rename", "rename over"}
      PROVE  May(work[c].name)
  BY <1>1, <1>2, SameObjectIsTold DEF May
<1>3. CASE Quiet
  BY <1>3 DEF Quiet, Bound
<1>4. ASSUME NEW n \in Names, NEW new \in Inodes, Makes(c, n, new) PROVE Goal
  <2>1. Bound' = [Bound EXCEPT ![n] = c] /\ names'["foreign"] = names["foreign"] /\ Bound[n] = Missing
    BY <1>1, <1>4, RenamesBound DEF Makes
  <2>2. QED
    BY <1>1, <2>1
<1>5. ASSUME NEW bytes \in {"new", "half"}, Writes(c, bytes) PROVE Goal
  BY <1>5 DEF Writes, Bound
<1>6. ASSUME NEW n \in Names, Removes(c, n) PROVE Goal
  <2>1. Bound' = [Bound EXCEPT ![n] = Missing] /\ names'["foreign"] = names["foreign"]
    BY <1>1, <1>6, RenamesBound DEF Removes
  <2>2. CASE work[c].at = "unlink made"
    <3>1. n = MakeName(c)
      BY <1>6, <2>2 DEF Removes, Unguarded
    <3>2. May(n)
      BY <1>1, <2>2, <3>1 DEF May, Unraced
    <3>3. QED
      BY <1>1, <2>1, <3>2
  <2>3. CASE work[c].at = "unlink"
    <3>1. n = work[c].name
      BY <1>6, <2>3 DEF Removes, Unguarded
    <3>2. May(n)
      BY <1>1, <1>2, <2>3, <3>1 DEF May, Unraced
    <3>3. QED
      BY <1>1, <2>1, <3>2
  <2>4. QED
    BY <1>6, <2>2, <2>3 DEF Removes
<1>7. CASE Replaces(c)
  <2>1. /\ Bound' = [Bound EXCEPT ![Entry] = Bound[MakeName(c)], ![MakeName(c)] = Missing]
        /\ names'["foreign"] = names["foreign"]
    BY <1>1, <1>7, RenamesBound DEF Replaces
  <2>2. work[c].at = "rename over" /\ IsWriter(c) /\ work[c].name = Entry
    BY <1>1, <1>7, WhereCallsAct DEF Replaces, At
  <2>3. May(MakeName(c))
    BY <1>1, <2>2 DEF May, Unraced
  <2>4. May(Entry)
    BY <1>1, <1>2, <2>2 DEF May, Unraced
  <2>5. \A n \in Names : Bound[n] # Bound'[n] => n \in {Entry, MakeName(c)}
    BY <1>1, <2>1
  <2>6. QED
    BY <2>1, <2>3, <2>4, <2>5
<1>8. CASE Moves(c)
  <2> DEFINE m == work[c].name
             t == Target(c)
  <2>1. /\ Bound' = [Bound EXCEPT ![t] = Bound[m], ![m] = Missing]
        /\ names'["foreign"] = names["foreign"] /\ Bound[t] = Missing /\ Bound[m] # Missing
        /\ work[c].at = "rename"
    BY <1>1, <1>8, RenamesBound DEF Moves, At
  <2>2. CASE work[c].op = "detach"
    <3>1. t = Aside /\ m # t
      BY <2>1, <2>2 DEF Target
    <3>2. Bound'[Aside] = Bound[m]
      BY <1>1, <2>1, <3>1
    <3>3. May(m)
      BY <2>2, <3>2 DEF May
    <3>4. QED
      BY <1>1, <2>1, <3>3
  <2>3. CASE work[c].op = "move"
    <3>1. May(m)
      BY <1>1, <1>2, <2>1, <2>3 DEF May, Unraced
    <3>2. QED
      BY <1>1, <2>1, <3>1
  <2>4. CASE work[c].op = "probe"
    <3>1. m = Source(c)
      BY <1>1, <2>1, <2>4, WhereCallsAct
    <3>2. May(m)
      BY <1>1, <2>1, <3>1 DEF May, PrivateNames
    <3>3. QED
      BY <1>1, <2>1, <3>2
  <2>5. QED
    BY <1>1, <2>1, <2>2, <2>3, <2>4, WhereCallsAct
<1>9. QED
  BY <1>1, <1>3, <1>4, <1>5, <1>6, <1>7, <1>8, StepHasEffect DEF Effect

LEMMA StepTakesWhatItWasTold ==
  ASSUME Inv, [Next]_vars
  PROVE  \A c \in Callers : work'[c] # work[c] =>
           /\ names'["foreign"] = names["foreign"]
           /\ \A n \in Taken : LET i == names["bound"][n] IN
                \/ inode[i].by = c
                \/ c \in raced
                \/ Told(c) = IF IsA("directory", i) THEN <<i, 0>> ELSE Version(i)
                \/ work[c].op = "detach" /\ names'["bound"][Aside] = i
<1> SUFFICES ASSUME NEW c \in Callers, work'[c] # work[c]
             PROVE  /\ names'["foreign"] = names["foreign"]
                    /\ \A n \in Taken : LET i == names["bound"][n] IN
                         \/ inode[i].by = c
                         \/ c \in raced
                         \/ Told(c) = IF IsA("directory", i) THEN <<i, 0>> ELSE Version(i)
                         \/ work[c].op = "detach" /\ names'["bound"][Aside] = i
  OBVIOUS
<1>1. TypeOK /\ Control
  BY DEF Inv
<1>2. ~Others /\ ~UNCHANGED vars
  BY <1>1, OthersHaveEffect DEF vars
<1>3. \A d \in Callers : CallStep(d) => c = d
  BY <1>1, StepIsCoherent DEF Become, TypeOK
<1>4. CallStep(c)
  BY <1>2, <1>3 DEF Next, CallStep
<1>5. QED
  BY <1>4, CallTakesWhatItWasTold

LEMMA AnsweredLeavesNothing == Inv => NoResidue
<1> SUFFICES ASSUME Inv, NEW c \in Callers, work[c].at \in Ended, c \notin touched,
                    work[c].failed \cap {"withdraw", "unlink made", "clearing"} = {},
                    work[c].op \in Writers =>
                      work[c].failed \cap {"write", "sync", "compare temporary"} = {},
                    NEW n \in Names, names["bound"][n] = c
             PROVE  /\ n \notin Temporaries \cup {Source(c), Destination(c)}
                    /\ inode[c].kind = "file" => inode[c].bytes = "new"
  BY DEF NoResidue
<1>1. Answered(c)
  BY DEF Inv, UntouchedCalls, Untouched, Ended
<1>2. QED
  BY <1>1 DEF Answered, IsWriter, Bound

-----------------------------------------------------------------------------
\* The invariant holds whatever the calls, the others and the faults do.
THEOREM Invariance == Spec => []Inv
<1>1. Init => Inv
  BY InitInv
<1>2. Inv /\ [Next]_vars => Inv'
  BY NextKeepsInv
<1>3. QED
  BY <1>1, <1>2, PTL DEF Spec

\* Every variable has its type: among others, a stamp never exceeds the number of
\* changes by others and one write.
THEOREM TypeCorrect == Spec => []TypeOK
<1>1. Inv => TypeOK
  BY DEF Inv
<1>2. QED
  BY <1>1, Invariance, PTL

\* What a call made and did not finish is gone when it answers, for any number of calls
\* that share the directory, any changes of others and any faults
\* (agent_governance_fs.c 130-143, 189-258; native-filesystem.ts 105-111).
THEOREM NothingIsLeft == Spec => []NoResidue
  BY AnsweredLeavesNothing, Invariance, PTL

\* A call takes nothing away from others that it was not told of, unless a change fell
\* between its last comparison and the system call that acts on it
\* (agent_governance_fs.c 130-268, mutation.ts 10-25).
THEOREM OnlyWhatItWasTold == Spec => OnlyBoundIsTaken
<1> DEFINE A == \A c \in Callers : work'[c] # work[c] =>
                  /\ names'["foreign"] = names["foreign"]
                  /\ \A n \in Taken : LET i == names["bound"][n] IN
                       \/ inode[i].by = c
                       \/ c \in raced
                       \/ Told(c) = IF IsA("directory", i) THEN <<i, 0>> ELSE Version(i)
                       \/ work[c].op = "detach" /\ names'["bound"][Aside] = i
<1>1. Inv /\ [Next]_vars => [A]_vars
  BY StepTakesWhatItWasTold
<1>2. Spec => [][A]_vars
  BY <1>1, Invariance, PTL DEF Spec
<1>3. QED
  BY <1>2 DEF OnlyBoundIsTaken

=============================================================================
