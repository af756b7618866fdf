-------------------------- MODULE ResumeResolution --------------------------
(***************************************************************************)
(* resume-resolve.ts: which of the checkpoint stores that a caller names   *)
(* holds the task to resume.  The stores are opened and read one after     *)
(* the other while agents go on appending to them; a directory may be      *)
(* named more than once.                                                   *)
(***************************************************************************)
EXTENDS Naturals, Sequences, SequencesExt

CONSTANTS Stores,       \* checkpoint directories, by device and inode
          MaxNamed,     \* bound: candidates the caller names
          MaxChanges    \* bound: changes of the stores meanwhile

VARIABLES store,        \* what each store holds
          candidates,   \* the directories in the order they are named
          next,         \* the candidate under inspection
          opened,       \* whether it has been opened
          seen,         \* the stores met so far
          matches,      \* the candidates that match, in order
          outcome,
          steady,       \* observation: stores that have not changed since the start
          changesLeft

vars == <<store, candidates, next, opened, seen, matches, outcome, steady, changesLeft>>

\* The newest checkpoint: its task status, whether an external effect is
\* PREPARED or UNKNOWN, and whether its bindings agree with the context.
Checkpoints == [finished : BOOLEAN, unresolved : BOOLEAN, bound : BOOLEAN]
Faults == {"unsafe directory", "corrupted history"}
Holding == [fault : Faults \cup {"none"}, empty : BOOLEAN, newest : Checkpoints]
NoCheckpoint == [finished |-> FALSE, unresolved |-> FALSE, bound |-> FALSE]
Contents == {h \in Holding : /\ (h.fault # "none" => h.empty)
                             /\ (h.empty => h.newest = NoCheckpoint)}

Running == [outcome |-> "running", candidates |-> <<>>]
Outcome(o, c) == [outcome |-> o, candidates |-> c]

Init == /\ store \in [Stores -> Contents]
        /\ candidates \in SeqOf(Stores, MaxNamed)
        /\ next = 1 /\ opened = FALSE
        /\ seen = {} /\ matches = <<>>
        /\ outcome = Running
        /\ steady = Stores
        /\ changesLeft = MaxChanges

TypeOK == /\ store \in [Stores -> Contents]
          /\ candidates \in SeqOf(Stores, MaxNamed)
          /\ next \in 1..Len(candidates) + 1
          /\ opened \in BOOLEAN
          /\ seen \subseteq Stores
          /\ Range(matches) \subseteq seen
          /\ outcome \in [outcome : {"running", "RESUME", "NO_MATCH", "AMBIGUOUS", "INVALID"},
                          candidates : SeqOf(Stores, MaxNamed)]
          /\ steady \subseteq Stores
          /\ changesLeft \in 0..MaxChanges
-----------------------------------------------------------------------------
Here == candidates[next]

\* Mutant: a finished task is left out although one of its effects is unresolved.
matchesUnfinished(h) == ~h.empty /\ ~h.newest.finished /\ h.newest.bound

\* A task is left out when it is finished and its effects are resolved, or when
\* bindingMatches tells it from the caller's context.
Matches(h) == /\ ~h.empty
              /\ ~h.newest.finished \/ h.newest.unresolved
              /\ h.newest.bound

Inspecting == outcome = Running /\ next <= Len(candidates)

Invalid == /\ outcome' = Outcome("INVALID", <<Here>>)
           /\ UNCHANGED <<next, opened, seen, matches>>

\* Mutant: a directory named twice is read twice.
SeenNever == FALSE

Seen == Here \in seen

\* ResumeCheckpointStore.open and captureIdentity.
Open == /\ Inspecting /\ ~opened
        /\ IF store[Here].fault = "unsafe directory" THEN Invalid
           ELSE /\ seen' = seen \cup {Here}
                /\ IF Seen THEN next' = next + 1 /\ opened' = FALSE
                   ELSE UNCHANGED next /\ opened' = TRUE
                /\ UNCHANGED <<matches, outcome>>
        /\ UNCHANGED <<store, candidates, steady, changesLeft>>

\* store.read(), and the candidate's place among the matches.
Read == /\ Inspecting /\ opened
        /\ IF store[Here].fault # "none" THEN Invalid
           ELSE /\ matches' = IF Matches(store[Here]) THEN Append(matches, Here) ELSE matches
                /\ next' = next + 1 /\ opened' = FALSE
                /\ UNCHANGED <<seen, outcome>>
        /\ UNCHANGED <<store, candidates, steady, changesLeft>>

Conclude == /\ outcome = Running /\ next > Len(candidates)
            /\ outcome' = CASE Len(matches) = 0 -> Outcome("NO_MATCH", <<>>)
                            [] Len(matches) = 1 -> Outcome("RESUME", matches)
                            [] OTHER            -> Outcome("AMBIGUOUS", matches)
            /\ UNCHANGED <<store, candidates, next, opened, seen, matches, steady, changesLeft>>

\* An agent appends a checkpoint (a history never gets empty again), or a directory
\* or its history is damaged.
StoreChanges == /\ outcome = Running
                /\ changesLeft > 0 /\ changesLeft' = changesLeft - 1
                /\ \E s \in Stores, h \in Contents :
                     /\ h # store[s] /\ (store[s].fault = "none" => ~h.empty \/ h.fault # "none")
                     /\ store' = [store EXCEPT ![s] = h]
                     /\ steady' = steady \ {s}
                /\ UNCHANGED <<candidates, next, opened, seen, matches, outcome>>

Next == Open \/ Read \/ Conclude \/ StoreChanges

Spec == Init /\ [][Next]_vars
-----------------------------------------------------------------------------
\* What several stores that nobody changes meanwhile answer for, whatever the order
\* of the candidates and however often one is named: one pending task is resumed,
\* several are ambiguous and are each listed once, and any defect is an INVALID.
AnswersFor(named) ==
  LET pending == {s \in named : Matches(store[s])}
  IN  IF \E s \in named : store[s].fault # "none"
      THEN outcome.outcome = "INVALID" /\ store[outcome.candidates[1]].fault # "none"
      ELSE /\ outcome.outcome = IF pending = {} THEN "NO_MATCH"
                                ELSE IF \E s \in pending : pending = {s} THEN "RESUME"
                                ELSE "AMBIGUOUS"
           /\ Range(outcome.candidates) = pending
           /\ IsInjective(outcome.candidates)

\* The outcome is a function of the stores named, and a task with an effect of
\* unknown result is not overlooked: as long as its own store is left alone it is
\* the one resumed or among the ambiguous, or the caller learns of a defect,
\* whatever happens to the other stores (resume-resolve.ts 51-92).
PendingIsReported ==
  outcome # Running =>
    /\ steady = Stores => AnswersFor(Range(candidates))
    /\ \A s \in steady \cap Range(candidates) :
         store[s].newest.unresolved /\ store[s].newest.bound =>
           outcome.outcome = "INVALID" \/ s \in Range(outcome.candidates)
=============================================================================
