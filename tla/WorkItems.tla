----------------------------- MODULE WorkItems -----------------------------
(***************************************************************************)
(* work-items.ts: the catalog of classifications and of their projections  *)
(* to GitHub labels and title markers; the plan that reconciles the labels *)
(* of a repository with the catalog, which the caller carries out; and the *)
(* check of a work item's classification, its labels and its title.        *)
(* Colour and description of a label are one value, its look.              *)
(***************************************************************************)
EXTENDS Naturals, Sequences, SequencesExt

CONSTANTS Classifications, \* pairs <<dimension, value>>
          RawCatalogs,  \* what the two catalog files may hold
          LabelNames,   \* names of labels
          MaxIds        \* bound: classifications of one work item

VARIABLES at,           \* how far the caller has come
          catalog,      \* the accepted catalog
          inventory,    \* the labels of the repository
          plan,         \* the plan for them
          ids,          \* the classification of a work item
          drift         \* drift found between its labels and its title

vars == <<at, catalog, inventory, plan, ids, drift>>

Cardinalities == {"one", "at_most_one", "many"}
Looks == {"canonical", "changed"}
Labels == [name : LabelNames, look : Looks, managed : BOOLEAN]
Actions == {"CREATE", "CONFLICT", "UPDATE", "NOOP", "CANDIDATE", "UNMANAGED"}
None == <<"none", "none">>
Places == {"start", "rejected", "loaded", "inventoried", "planned", "applied", "classified"}

\* A catalog: the cardinality of each dimension, the values, the projections and
\* the title markers in the order of the file.
dimension(c) == c[1]
Empty == [cardinality |-> <<>>, values |-> {}, projections |-> <<>>, markers |-> <<>>]

Projections == Range(catalog.projections)
Markers == Range(catalog.markers)

Init == /\ at = "start" /\ catalog = Empty
        /\ inventory = {} /\ plan = {} /\ ids = <<>> /\ drift = {}

TypeOK == /\ at \in Places
          /\ catalog.values \subseteq Classifications
          /\ \A p \in Projections : p.classification \in catalog.values
          /\ \A m \in Markers : m.classification \in catalog.values
          /\ inventory \subseteq Labels
          /\ \A a, b \in inventory : a.name = b.name => a = b
          /\ plan \subseteq [action : Actions, classification : Classifications \cup {None}, name : LabelNames]
          /\ ids \in SeqOf(Classifications, MaxIds)
          /\ drift \subseteq {dimension(c) : c \in Classifications}
-----------------------------------------------------------------------------
(* parseClassificationsText, parseProjectionsText *)

\* Mutant: a dimension may be left without values.
valuesKnown(raw) == \A c \in raw.values : dimension(c) \in DOMAIN raw.cardinality

parseClassifications(raw) == {dimension(c) : c \in raw.values} = DOMAIN raw.cardinality

\* The label names a projection occupies.
occupied(p) == {p.name} \cup p.aliases

\* Mutant: only the names are compared with each other.
namesDiffer(ps) == \A i, j \in 1..Len(ps) : i < j => ps[i].name # ps[j].name

namesFree(ps) == \A j \in 1..Len(ps) :
                   /\ ps[j].name \notin ps[j].aliases
                   /\ \A i \in 1..j - 1 : occupied(ps[i]) \cap occupied(ps[j]) = {}

parseProjections(raw) ==
  LET ps == raw.projections
  IN  /\ \A i \in 1..Len(ps) : ps[i].classification \in raw.values
      /\ \A i, j \in 1..Len(ps) : i < j => ps[i].classification # ps[j].classification
      /\ namesFree(ps)

\* Mutant: a marker may stand for a value that the catalog does not have.
markersDistinct(raw) ==
  \A i, j \in 1..Len(raw.markers) : i < j => raw.markers[i].marker # raw.markers[j].marker

\* Mutant: one marker may stand for two classifications.
markersKnown(raw) == \A i \in 1..Len(raw.markers) : raw.markers[i].classification \in raw.values

parseTitleMarkers(raw) ==
  LET ms == raw.markers
  IN  /\ \A i \in 1..Len(ms) : ms[i].classification \in raw.values
      /\ \A i, j \in 1..Len(ms) : i < j => ms[i].marker # ms[j].marker

-----------------------------------------------------------------------------
(* validateWorkItemClassification *)

\* Where in s the classifications of a dimension stand.
of(d, s) == {i \in 1..Len(s) : dimension(s[i]) = d}

violations(s) ==
  {d \in DOMAIN catalog.cardinality :
     \/ (\E i, j \in of(d, s) : i # j) /\ catalog.cardinality[d] \in {"one", "at_most_one"}
     \/ of(d, s) = {} /\ catalog.cardinality[d] \in {"one", "many"}}

(* buildLabelProjectionPlan *)

entry(action, c, name) == [action |-> action, classification |-> c, name |-> name]

\* Mutant: a label that looks wrong is updated, whoever owns it.
projectionActionEager(existing) ==
  IF existing = {} THEN "CREATE"
  ELSE IF \E l \in existing : l.look # "canonical" THEN "UPDATE"
  ELSE IF \E l \in existing : ~l.managed THEN "CONFLICT"
  ELSE "NOOP"

\* Mutant: a label of another owner counts as missing.
projectionActionOwned(existing) ==
  IF {l \in existing : l.managed} = {} THEN "CREATE"
  ELSE IF \E l \in existing : l.look # "canonical" THEN "UPDATE"
  ELSE "NOOP"

\* existing: the label of the projection's name, if there is one.
projectionAction(existing) ==
  IF existing = {} THEN "CREATE"
  ELSE IF \E l \in existing : ~l.managed THEN "CONFLICT"
  ELSE IF \E l \in existing : l.look # "canonical" THEN "UPDATE"
  ELSE "NOOP"

consumed == {l \in inventory : \E p \in Projections : l.name = p.name}

projectionEntries ==
  {entry(projectionAction({l \in inventory : l.name = p.name}), p.classification, p.name) :
     p \in Projections}

aliased(l) == {p \in Projections : l.name \in p.aliases}

\* Mutant: a label that is consumed stays in the rest of the plan.
restOfAll == inventory

rest == inventory \ consumed

restEntries == UNION {IF aliased(l) = {} THEN {entry("UNMANAGED", None, l.name)}
                      ELSE {entry("CANDIDATE", p.classification, l.name) : p \in aliased(l)} :
                        l \in rest}

buildLabelProjectionPlan == projectionEntries \cup restEntries

(* classifyLabels, deriveTitleMarkers, classifyTitleMarkers, detectProjectionDrift *)

classifyLabels(names) == {p.classification : p \in {q \in Projections : occupied(q) \cap names # {}}}
deriveTitleMarkers(cs) == {m.marker : m \in {n \in Markers : n.classification \in cs}}
classifyTitleMarkers(title) == {m.classification : m \in {n \in Markers : n.marker \in title}}

collect(d, cs) == {c \in cs : dimension(c) = d}

\* A dimension that one of the two sides does not speak of has no drift.
detectProjectionDrift(a, b) == {d \in DOMAIN catalog.cardinality :
                                  /\ collect(d, a) # {} /\ collect(d, b) # {}
                                  /\ collect(d, a) # collect(d, b)}
-----------------------------------------------------------------------------
Load == /\ at = "start"
        /\ \E raw \in RawCatalogs :
             IF parseClassifications(raw) /\ parseProjections(raw) /\ parseTitleMarkers(raw)
             THEN catalog' = raw /\ at' = "loaded"
             ELSE catalog' = catalog /\ at' = "rejected"
        /\ UNCHANGED <<inventory, plan, ids, drift>>

\* The caller reads the labels: GitHub has one label of a name.
ReadInventory == /\ at = "loaded"
                 /\ \E names \in SUBSET LabelNames :
                      \E l \in [names -> [look : Looks, managed : BOOLEAN]] :
                        inventory' = {[name |-> n, look |-> l[n].look, managed |-> l[n].managed] :
                                        n \in names}
                 /\ at' = "inventoried"
                 /\ UNCHANGED <<catalog, plan, ids, drift>>

Plan == /\ at = "inventoried"
        /\ plan' = buildLabelProjectionPlan
        /\ at' = "planned"
        /\ UNCHANGED <<catalog, inventory, ids, drift>>

\* The caller carries out the plan; GitHub refuses a second label of a name.
Apply == /\ at = "planned"
         /\ LET planned(a) == {e.name : e \in {f \in plan : f.action = a}}
                made == (planned("CREATE") \ {l.name : l \in inventory}) \cup planned("UPDATE")
            IN  inventory' = {l \in inventory : l.name \notin made}
                               \cup {[name |-> n, look |-> "canonical", managed |-> TRUE] : n \in made}
         /\ at' = "applied"
         /\ UNCHANGED <<catalog, plan, ids, drift>>

\* A work item is classified, projected to labels and title, and read back.
Classify == /\ at = "loaded"
            /\ \E s \in SeqOf(catalog.values, MaxIds) :
                 /\ ids' = s
                 /\ LET cs == Range(s)
                        names == {p.name : p \in {q \in Projections : q.classification \in cs}}
                    IN  drift' = detectProjectionDrift(classifyLabels(names),
                                   classifyTitleMarkers(deriveTitleMarkers(cs)))
            /\ at' = "classified"
            /\ UNCHANGED <<catalog, inventory, plan>>

Next == Load \/ ReadInventory \/ Plan \/ Apply \/ Classify

Spec == Init /\ [][Next]_vars
-----------------------------------------------------------------------------
\* The plan speaks of every projection and of every label exactly once.
Complete ==
  /\ \A p \in Projections : \E e \in plan : e.classification = p.classification /\ e.name = p.name
  /\ {e.name : e \in plan} = {l.name : l \in inventory} \cup {p.name : p \in Projections}
  /\ \A e, f \in plan : e.name = f.name => e = f

\* A plan reconciles the labels with the catalog: it speaks of everything once,
\* carrying it out takes no label from an owner outside the catalog, and the next
\* plan for the labels it leaves has nothing to create or update
\* (work-items.ts 319-360).
PlanReconciles ==
  [][/\ Plan => Complete'
     /\ Apply => /\ {l \in inventory : ~l.managed} = {l \in inventory' : ~l.managed}
                 /\ \A e \in buildLabelProjectionPlan' : e.action \notin {"CREATE", "UPDATE"}]_vars

\* What is accepted as a catalog makes sense: some work item meets the cardinality
\* of every dimension, and the labels and the title of an item that does so do not
\* contradict each other in a dimension of at most one value
\* (work-items.ts 147-264, 296-317, 362-395, 411-436).
CatalogIsSound ==
  /\ at = "loaded" => \E s \in SeqOf(catalog.values, MaxIds) : violations(s) = {}
  /\ at = "classified" /\ violations(ids) = {} =>
       \A d \in drift : catalog.cardinality[d] = "many"
=============================================================================
