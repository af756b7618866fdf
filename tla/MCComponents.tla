---------------------------- MODULE MCComponents ----------------------------
(***************************************************************************)
(* The components that share no state with another: the provider bridge,   *)
(* the managed block, the resolution of resume candidates, the work items  *)
(* and the native file operations.  A behaviour is one of one of them; the *)
(* others rest.                                                            *)
(***************************************************************************)
EXTENDS ProviderBridge, NativeCallers, SequencesExt

CONSTANTS c1, c2, p1, p2,
          Versions, NoBlock, Characters, MaxText, MaxEdits, MaxRoots,
          Stores, MaxNamed, MaxChanges,
          LabelNames, MaxIds

VARIABLES part,
          before, block, after, installed, base, untouched, editsLeft, rootsLeft,
          store, candidates, next, opened, seen, matches, outcome, steady, changesLeft,
          at, catalog, inventory, plan, ids, drift,
          names, inode, there, work, raced, touched, othersLeft, faultsLeft

\* Every operation of the bindings, an input that is refused early, one whose
\* ids are too long for the envelope, a claimed approval and a semantic denial.
Envelope(effect, semantic, requires, approved) ==
  [ids |-> "valid", effect |-> effect, semantic |-> semantic,
   requiresApproval |-> requires, approved |-> approved]
BridgeRequests ==
  [via : {"hook"}, input : {"short id"},
   operation : {"read", "external_write", "approval_write", "unbound"}]
  \cup [via : {"hook"}, input : {"malformed", "long id"}, operation : {"workspace_write"}]
  \cup [via : {"caller"}, envelope : {Envelope("workspace_write", "allow", TRUE, TRUE),
                                      Envelope("read", "deny", FALSE, FALSE)}]

\* Catalogs that vary in their projections, in their markers, and in the
\* dimensions and values they declare.
Classifications == {<<"type", "a">>, <<"type", "b">>, <<"size", "c">>}
Catalog(cardinality, values, projections, markers) ==
  [cardinality |-> cardinality, values |-> values, projections |-> projections,
   markers |-> markers]
RawProjections == [classification : Classifications, name : LabelNames,
                   aliases : {{}} \cup {{n} : n \in LabelNames}]
RawMarkers == [classification : Classifications, marker : {"[A]", "[B]"}]
SomeLabels == << [classification |-> <<"type", "a">>, name |-> "l1", aliases |-> {}],
                 [classification |-> <<"size", "c">>, name |-> "l2", aliases |-> {}] >>
RawCatalogs ==
  {Catalog([type |-> "one", size |-> "many"], Classifications, ps, <<>>) :
     ps \in SeqOf(RawProjections, 2)}
  \cup {Catalog(k, vs, SomeLabels, ms) : k \in [{"type", "size"} -> {"one", "at_most_one", "many"}],
                                         vs \in SUBSET Classifications, ms \in SeqOf(RawMarkers, 2)}
  \cup {Catalog(k, vs, <<>>, <<>>) : k \in [{"type", "size"} -> {"one", "at_most_one", "many"}]
                                              \cup {[type |-> "one"]},
                                      vs \in SUBSET Classifications}

Entry == INSTANCE ManagedBlock
Resolution == INSTANCE ResumeResolution
Items == INSTANCE WorkItems
Native == INSTANCE NativeFilesystem

\* The inputs are those the models are written for; a work item may have a
\* classification of each of the two dimensions.
ASSUME ComponentsAssumption ==
  /\ {MaxEdits, MaxRoots, MaxNamed, MaxChanges, MaxIds} \subseteq Nat /\ MaxIds >= 2
  /\ {"cr", "lf"} \subseteq Characters /\ {"l1", "l2"} \subseteq LabelNames
  /\ NoBlock \notin Versions \cup Entry!Blocks

Parts == {"bridge", "entry", "resolution", "items", "native"}

\* The calls and the process ids are interchangeable.
Symmetry == Permutations({c1, c2}) \cup Permutations({p1, p2})

PartsInit ==
        /\ part \in Parts
        /\ Init
        /\ Items!Init
        /\ IF part = "entry" THEN Entry!Init
           ELSE /\ before = <<>> /\ block = NoBlock /\ after = <<>> /\ installed = NoBlock
                /\ base = <<>> /\ untouched = TRUE /\ editsLeft = 0 /\ rootsLeft = 0
        /\ IF part = "resolution" THEN Resolution!Init
           ELSE /\ store = [s \in Stores |-> [fault |-> "none", empty |-> TRUE,
                                              newest |-> Resolution!NoCheckpoint]]
                /\ candidates = <<>> /\ next = 1 /\ opened = FALSE /\ seen = {}
                /\ matches = <<>> /\ outcome = Resolution!Running
                /\ steady = Stores /\ changesLeft = 0
        /\ IF part = "native" THEN Native!Init
           ELSE /\ names = <<>> /\ inode = <<>> /\ there = "bound"
                /\ work = [c \in Callers |-> Native!Idle]
                /\ raced = {} /\ touched = {} /\ othersLeft = 0 /\ faultsLeft = 0

entryVars == <<before, block, after, installed, base, untouched, editsLeft, rootsLeft>>
resolutionVars == <<store, candidates, next, opened, seen, matches, outcome, steady, changesLeft>>
itemsVars == <<at, catalog, inventory, plan, ids, drift>>
nativeVars == <<names, inode, there, work, raced, touched, othersLeft, faultsLeft>>

allVars == <<part, vars, entryVars, resolutionVars, itemsVars, nativeVars>>

BridgeNext == /\ part = "bridge" /\ Next
              /\ UNCHANGED <<part, entryVars, resolutionVars, itemsVars, nativeVars>>
EntryNext == /\ part = "entry" /\ Entry!Next
             /\ UNCHANGED <<part, vars, resolutionVars, itemsVars, nativeVars>>
ResolutionNext == /\ part = "resolution" /\ Resolution!Next
                  /\ UNCHANGED <<part, vars, entryVars, itemsVars, nativeVars>>
ItemsNext == /\ part = "items" /\ Items!Next
             /\ UNCHANGED <<part, vars, entryVars, resolutionVars, nativeVars>>
NativeNext == /\ part = "native" /\ Native!Next
              /\ UNCHANGED <<part, vars, entryVars, resolutionVars, itemsVars>>

PartsNext == BridgeNext \/ EntryNext \/ ResolutionNext \/ ItemsNext \/ NativeNext

PartsSpec == PartsInit /\ [][PartsNext]_allVars
-----------------------------------------------------------------------------
\* The component that takes steps keeps its variables in their types.
PartsTypeOK == CASE part = "bridge"     -> TypeOK
                 [] part = "entry"      -> Entry!TypeOK
                 [] part = "resolution" -> Resolution!TypeOK
                 [] part = "items"      -> Items!TypeOK
                 [] part = "native"     -> Native!TypeOK

\* The properties of the components, stated and explained in their modules; those
\* of the bridge have their own names.

\* Uninstalling gives the entry file back byte for byte (managed-block.ts 97-120).
RoundTrip == Entry!RoundTrip

\* The user's text around the block is kept (managed-block.ts 97-128).
UserTextSurvives == Entry!UserTextSurvives

\* The outcome fits the stores named, and a task with an unresolved effect is not
\* overlooked (resume-resolve.ts 51-92).
PendingIsReported == Resolution!PendingIsReported

\* An accepted catalog can be satisfied and does not contradict itself
\* (work-items.ts 147-436).
CatalogIsSound == Items!CatalogIsSound

\* A label plan speaks of everything once, respects other owners and converges
\* (work-items.ts 319-360).
PlanReconciles == Items!PlanReconciles

\* A call takes nothing away from others that it was not told of
\* (agent_governance_fs.c 130-268).
OnlyBoundIsTaken == Native!OnlyBoundIsTaken

\* What a call made and did not finish is gone when it answers
\* (agent_governance_fs.c 130-143, 189-258).
NoResidue == Native!NoResidue
=============================================================================
