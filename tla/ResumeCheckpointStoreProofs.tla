--------------------- MODULE ResumeCheckpointStoreProofs ---------------------
(* Theorems about ResumeCheckpointStore and their proofs. *)
EXTENDS ResumeCheckpointStore, FiniteSetTheorems, SequenceTheorems, TLAPS

\* The latest generation.
Published == Cardinality(DOMAIN files)

\* What generation g says of an operation.
SaidIn(f, g, o) == IF g = 0 THEN "none" ELSE f[g].checkpoint.state.effects[o]
Said(g, o) == SaidIn(files, g, o)

Bound(p) == Len(call[p].known)

\* p has published a claim to execute o and is on the way to the effect.
Pending(p, o) ==
  /\ call[p].claims /\ call[p].op = o
  /\ call[p].step \in {"sync", "confirm", "execute", "running"}

Claimed == {"UNKNOWN", "COMMITTED"}

-----------------------------------------------------------------------------
(* The inductive invariant. *)

\* A call is bound to a part of the history that is there.
KnownIsPrefix ==
  \A p \in Agents : /\ Bound(p) <= Published
                    /\ \A i \in 1..Bound(p) :
                         call[p].known[i] = files[i].checkpoint

CallsAreFormed ==
  \A p \in Agents :
    /\ call[p].claims => /\ call[p].op \in Ops
                         /\ call[p].step \in {"rename", "sync", "confirm",
                                              "execute", "running"}
    /\ call[p].step \in {"execute", "running"} => call[p].claims
    /\ call[p].step \in {"readback", "record"} =>
         call[p].op \in Ops /\ Bound(p) > 0
    /\ call[p].step \in {"rename", "record"} => call[p].draft \in Checkpoints

\* What is staged continues the history that its writer has read.
DraftsAreValid ==
  \A p \in Agents : call[p].step = "rename" =>
    /\ Bound(p) < MaxGenerations
    /\ validateTransition(call[p].known, call[p].draft)
    /\ call[p].draft.event \in Events =>
         \A i \in 1..Bound(p) : call[p].known[i].event # call[p].draft.event
    /\ call[p].claims =>
         /\ EffectsOf(call[p].known)[call[p].op] = "PREPARED"
         /\ call[p].draft.state.effects[call[p].op] = "UNKNOWN"

\* A call that may still publish that an effect has not happened is right.
DenialsAreTrue ==
  \A p \in Agents, o \in Ops :
    /\ call[p].step \in {"rename", "record"}
    /\ Bound(p) = Published
    /\ call[p].draft.state.effects[o] = "NOT_APPLIED"
    /\ EffectsOf(call[p].known)[o] # "NOT_APPLIED"
    => applied[o] = 0 /\ ~Outstanding(o)

\* An effect is called committed, on disk or in a draft, only when it happened.
CommitsAreTrue ==
  \A o \in Ops :
    /\ \A g \in 1..Published : Said(g, o) = "COMMITTED" => applied[o] > 0
    /\ \A p \in Agents :
         /\ call[p].step \in {"rename", "record"}
         /\ call[p].draft.state.effects[o] = "COMMITTED"
         => applied[o] > 0

\* From a claim on, the history calls the operation claimed while it is pending.
ClaimsStand ==
  \A p \in Agents, o \in Ops : Pending(p, o) =>
    /\ Bound(p) > 0
    /\ \A g \in Bound(p)..Published : Said(g, o) \in Claimed

ClaimsExclude ==
  \A p, q \in Agents, o \in Ops : Pending(p, o) /\ Pending(q, o) => p = q

ClaimsAreUndispatched ==
  \A p \in Agents, o \in Ops :
    Pending(p, o) /\ call[p].step # "running" => inflight[o] = 0 /\ applied[o] = 0

ConfirmedIsDurable ==
  \A p \in Agents : call[p].step \in {"confirm", "execute", "running"} =>
    1..Bound(p) \subseteq durable

StartedIsClaimed ==
  \A o \in Ops : inflight[o] + applied[o] > 0 =>
    \A n \in 0..Published : durable \subseteq 1..n => Said(n, o) \in Claimed

StartedOnce == \A o \in Ops : inflight[o] + applied[o] <= 1

IInv ==
  /\ TypeOK /\ Readable
  /\ KnownIsPrefix /\ CallsAreFormed /\ DraftsAreValid
  /\ DenialsAreTrue /\ CommitsAreTrue
  /\ ClaimsStand /\ ClaimsExclude /\ ClaimsAreUndispatched
  /\ ConfirmedIsDurable /\ StartedIsClaimed /\ StartedOnce

-----------------------------------------------------------------------------
(* Histories. *)

LEMMA HistoryFacts ==
  ASSUME TypeOK, Readable
  PROVE  /\ Published \in Nat
         /\ Published <= MaxGenerations
         /\ DOMAIN files = 1..Published
         /\ History \in Seq(Checkpoints)
         /\ Len(History) = Published
         /\ \A g \in 1..Published : History[g] = files[g].checkpoint
<1>1. /\ IsFiniteSet(1..MaxGenerations)
      /\ Cardinality(1..MaxGenerations) = MaxGenerations
  BY StoreAssumption, FS_Interval
<1>2. Published \in Nat /\ Published <= MaxGenerations
  BY <1>1, FS_Subset, FS_CardinalityType DEF TypeOK, Published
<1>3. DOMAIN files = 1..Published
  BY DEF Readable, Published
<1>4. History = [g \in 1..Published |-> files[g].checkpoint]
  BY <1>3 DEF History
<1>5. \A g \in 1..Published : files[g].checkpoint \in Checkpoints
  BY <1>3 DEF TypeOK
<1>6. QED
  BY <1>2, <1>3, <1>4, <1>5

\* What a part of the history says is what its last generation says.
LEMMA EffectsAreSaid ==
  ASSUME TypeOK, Readable, NEW h \in Seq(Checkpoints), NEW o \in Ops,
         Len(h) <= Published, \A i \in 1..Len(h) : h[i] = files[i].checkpoint
  PROVE  EffectsOf(h)[o] = Said(Len(h), o)
<1>1. Len(h) \in Nat /\ (h = <<>> <=> Len(h) = 0)
  BY EmptySeq, LenProperties
<1>2. CASE h = <<>>
  BY <1>1, <1>2 DEF EffectsOf, Said, SaidIn
<1>3. CASE h # <<>>
  BY <1>1, <1>3 DEF EffectsOf, Said, SaidIn, Latest
<1>4. QED
  BY <1>2, <1>3

LEMMA HistorySays ==
  ASSUME TypeOK, Readable, NEW o \in Ops
  PROVE  EffectsOf(History)[o] = Said(Published, o)
BY HistoryFacts, EffectsAreSaid

LEMMA PrefixSays ==
  ASSUME TypeOK, Readable, NEW o \in Ops, NEW n \in 0..Published
  PROVE  EffectsOf(Prefix(History, n))[o] = Said(n, o)
<1>1. /\ Prefix(History, n) \in Seq(Checkpoints)
      /\ Len(Prefix(History, n)) = n
      /\ \A i \in 1..n : Prefix(History, n)[i] = files[i].checkpoint
  <2> DEFINE h == [i \in 1..n |-> History[i]]
  <2>1. Published \in Nat
        /\ \A i \in 1..Published : /\ History[i] = files[i].checkpoint
                                    /\ History[i] \in Checkpoints
    BY HistoryFacts, ElementOfSeq
  <2>2. n \in Nat /\ \A i \in 1..n : i \in 1..Published
    BY <2>1
  <2>3. h \in Seq(Checkpoints) /\ Len(h) = n
    BY <2>1, <2>2
  <2>4. QED
    BY <2>1, <2>2, <2>3 DEF Prefix
<1>2. Published \in Nat
  BY HistoryFacts
<1>3. QED
  BY <1>1, <1>2, EffectsAreSaid

\* A call that is bound to as many generations as there are has read them all.
LEMMA KnownIsHistory ==
  ASSUME IInv, NEW p \in Agents, Bound(p) = Published
  PROVE  call[p].known = History
<1>1. /\ History \in Seq(Checkpoints)
      /\ Len(History) = Published
      /\ \A g \in 1..Published : History[g] = files[g].checkpoint
  BY HistoryFacts DEF IInv
<1>2. call[p].known \in Seq(Checkpoints)
  BY DEF IInv, TypeOK, Calls
<1>3. \A i \in 1..Bound(p) : call[p].known[i] = files[i].checkpoint
  BY DEF IInv, KnownIsPrefix
<1>4. QED
  BY <1>1, <1>2, <1>3, SeqEqual DEF Bound

LEMMA KnownSays ==
  ASSUME IInv, NEW p \in Agents, NEW o \in Ops
  PROVE  EffectsOf(call[p].known)[o] = Said(Bound(p), o)
<1>1. call[p].known \in Seq(Checkpoints)
  BY DEF IInv, TypeOK, Calls
<1>2. QED
  BY <1>1, EffectsAreSaid DEF IInv, KnownIsPrefix, Bound

LEMMA BoundType ==
  ASSUME IInv, NEW p \in Agents
  PROVE  Bound(p) \in Nat /\ Bound(p) <= Published /\ Published \in Nat
<1>1. call[p].known \in Seq(Checkpoints)
  BY DEF IInv, TypeOK, Calls
<1>2. QED
  BY <1>1, HistoryFacts, LenProperties DEF IInv, KnownIsPrefix, Bound

-----------------------------------------------------------------------------
(* What the actions do to the disk. *)

\* An action that leaves the files alone leaves what they say alone.
LEMMA SameFiles ==
  ASSUME files' = files
  PROVE  /\ Published' = Published
         /\ History' = History
         /\ \A g, o : SaidIn(files', g, o) = SaidIn(files, g, o)
         /\ \A h, cp : validateTransition(h, cp)' = validateTransition(h, cp)
BY DEF Published, History, Said, SaidIn, validateTransition, EffectsOf, Latest

LEMMA RenameFacts ==
  ASSUME IInv, NEW p \in Agents, Rename(p)
  PROVE  /\ Bound(p) = Published /\ call[p].known = History
         /\ Published < MaxGenerations
         /\ DOMAIN files' = 1..(Published + 1)
         /\ Published' = Published + 1
         /\ files'[Published + 1] = [previous |-> History,
                                    checkpoint |-> call[p].draft]
         /\ \A g \in 1..Published : files'[g] = files[g]
<1>1. /\ Bound(p) \in Nat /\ Published \in Nat /\ Bound(p) <= Published
      /\ DOMAIN files = 1..Published
  BY BoundType, HistoryFacts DEF IInv
<1>2. Bound(p) = Published
  BY <1>1 DEF Rename, Bound
<1>3. call[p].known = History
  BY <1>2, KnownIsHistory
<1>4. Published < MaxGenerations
  BY <1>2 DEF IInv, DraftsAreValid, Rename, At
<1>5. files' = [i \in DOMAIN files \cup {Published + 1} |->
                 IF i = Published + 1
                   THEN [previous |-> History, checkpoint |-> call[p].draft]
                   ELSE files[i]]
  BY <1>2, <1>3 DEF Rename, Bound
<1>6. DOMAIN files' = 1..(Published + 1)
  BY <1>1, <1>5
<1>7. files'[Published + 1] = [previous |-> History, checkpoint |-> call[p].draft]
  BY <1>1, <1>5
<1>8. \A g \in 1..Published : files'[g] = files[g]
  BY <1>1, <1>5
<1>9. Published' = Published + 1
  BY <1>1, <1>6, FS_Interval DEF Published
<1>10. QED
  BY <1>2, <1>3, <1>4, <1>6, <1>7, <1>8, <1>9

LEMMA RenameSays ==
  ASSUME IInv, NEW p \in Agents, Rename(p), NEW o, NEW g, g = Published + 1
  PROVE  SaidIn(files', g, o) = call[p].draft.state.effects[o]
<1>1. g # 0
  BY BoundType
<1>2. files'[g] = [previous |-> History, checkpoint |-> call[p].draft]
  BY RenameFacts
<1>3. QED
  BY <1>1, <1>2 DEF SaidIn

LEMMA RenameKeeps ==
  ASSUME IInv, NEW p \in Agents, Rename(p), NEW o, NEW g \in 0..Published
  PROVE  SaidIn(files', g, o) = Said(g, o)
<1>1. g = 0 \/ g \in 1..Published
  BY BoundType
<1>2. QED
  BY <1>1, RenameFacts DEF Said, SaidIn

\* A power failure leaves a part of the history that holds all that is durable.
LEMMA PowerLossFacts ==
  ASSUME IInv, PowerLoss
  PROVE  /\ Published' \in 0..Published
         /\ durable \subseteq 1..Published'
         /\ durable' = 1..Published'
         /\ DOMAIN files' = 1..Published'
         /\ \A g \in 1..Published' : files'[g] = files[g]
         /\ call' = [p \in Agents |-> Idle]
         /\ \A o, g : g \in 0..Published' => SaidIn(files', g, o) = Said(g, o)
<1>1. Published \in Nat /\ Len(History) = Published
  BY HistoryFacts DEF IInv
<1>2. PICK n \in 0..Published :
        /\ durable \subseteq 1..n
        /\ files' = [g \in 1..n |-> files[g]]
        /\ durable' = 1..n
        /\ call' = [p \in Agents |-> Idle]
  BY <1>1 DEF PowerLoss
<1>3. n \in Nat
  BY <1>1
<1>4. Published' = n
  BY <1>2, <1>3, FS_Interval DEF Published
<1>5. QED
  BY <1>1, <1>2, <1>3, <1>4 DEF Said, SaidIn

-----------------------------------------------------------------------------
(* What publish decides. *)

LEMMA PublishFacts ==
  ASSUME IInv, NEW p \in Agents, NEW expected, NEW cp \in Checkpoints,
         NEW byReadback \in BOOLEAN, NEW o \in Ops \cup {Nothing},
         NEW claims \in BOOLEAN,
         publish(p, expected, cp, byReadback, o, claims)
  PROVE  \E step \in {"sync", "rename"}, draft \in Checkpoints \cup {Nothing} :
           /\ call' = [call EXCEPT ![p] =
                        [step |-> step, known |-> History, draft |-> draft,
                         op |-> o, claims |-> claims]]
           /\ step = "rename" =>
                /\ draft = cp
                /\ Published < MaxGenerations
                /\ matches(History, expected)
                /\ validateTransition(History, cp)
                /\ byReadback \/ ~NewOutcome(cp)
                /\ ~Repeated(cp.event)
           /\ step = "sync" =>
                /\ Published > 0
                /\ cp.event \in Events \/ Latest(History).state = cp.state
<1>1. Published \in Nat /\ Len(History) = Published
  BY HistoryFacts DEF IInv
<1>2. CASE /\ RepeatsLatest(expected, cp) \/ AddsNothing(expected, cp)
           /\ Confirming(p, o, claims)
  <2>1. /\ Published > 0
        /\ cp.event \in Events \/ Latest(History).state = cp.state
    BY <1>1, <1>2 DEF RepeatsLatest, AddsNothing
  <2>2. QED
    BY <1>2, <2>1 DEF Confirming, Bind, Enter
<1>3. CASE /\ Publishable(expected, cp, byReadback)
           /\ Staging(p, cp, o, claims)
  BY <1>1, <1>3 DEF Publishable, Staging, Bind, Enter
<1>4. QED
  BY <1>2, <1>3 DEF publish

LEMMA WithEffectFacts ==
  ASSUME NEW h \in Seq(Checkpoints), Len(h) > 0, NEW p \in Agents, NEW o \in Ops,
         NEW trigger \in Triggers, NEW effect \in EffectStates
  PROVE  /\ WithEffect(p, h, o, trigger, effect) \in Checkpoints
         /\ WithEffect(p, h, o, trigger, effect).event = p
         /\ WithEffect(p, h, o, trigger, effect).state.effects[o] = effect
         /\ \A q \in Ops \ {o} :
              WithEffect(p, h, o, trigger, effect).state.effects[q] =
                Latest(h).state.effects[q]
<1>1. Len(h) \in 1..Len(h)
  BY LenProperties
<1>2. Latest(h) \in Checkpoints
  BY <1>1, ElementOfSeq DEF Latest
<1>3. Latest(h).state \in States /\ Latest(h).state.effects \in [Ops -> EffectStates]
  BY <1>2 DEF Checkpoints, States
<1>4. [Latest(h).state EXCEPT !.effects[o] = effect] \in States
  BY <1>3 DEF States
<1>5. QED
  BY <1>3, <1>4 DEF WithEffect, Checkpoints, States

-----------------------------------------------------------------------------
(* A call begins, or begins to record: what is common to the four of them. *)

Begins(p, c) ==
  /\ call' = [call EXCEPT ![p] = c]
  /\ c.known = History
  /\ c.step \in {"sync", "rename", "readback"}
  /\ c.claims => /\ c.op \in Ops /\ c.step = "rename"
                 /\ Said(Published, c.op) = "PREPARED"
                 /\ c.draft.state.effects[c.op] = "UNKNOWN"
  /\ c.step = "readback" => c.op \in Ops /\ Published > 0
  /\ c.step = "rename" =>
       /\ c.draft \in Checkpoints
       /\ Published < MaxGenerations
       /\ validateTransition(History, c.draft)
       /\ ~Repeated(c.draft.event)
       /\ \A o \in Ops : /\ c.draft.state.effects[o] = "NOT_APPLIED"
                         /\ Said(Published, o) # "NOT_APPLIED"
                         => applied[o] = 0 /\ ~Outstanding(o)
       /\ \A o \in Ops : c.draft.state.effects[o] = "COMMITTED" => applied[o] > 0
  /\ UNCHANGED <<files, durable, inflight, applied, acked>>

LEMMA CallFormed ==
  ASSUME TypeOK, Readable, NEW step \in {"sync", "rename", "readback"},
         NEW draft \in Checkpoints \cup {Nothing}, NEW o \in Ops \cup {Nothing},
         NEW claims \in BOOLEAN
  PROVE  [step |-> step, known |-> History, draft |-> draft, op |-> o,
          claims |-> claims] \in Calls
BY HistoryFacts DEF Calls, Steps

LEMMA BeginsByConfirming ==
  ASSUME IInv, NEW p \in Agents, Confirming(p, Nothing, FALSE),
         UNCHANGED <<files, durable, inflight, applied, acked>>
  PROVE  \E c \in Calls : Begins(p, c)
<1> DEFINE c == [step |-> "sync", known |-> History, draft |-> Nothing,
                 op |-> Nothing, claims |-> FALSE]
<1>1. c \in Calls
  BY CallFormed DEF IInv
<1>2. Begins(p, c)
  BY DEF Confirming, Bind, Enter, Begins
<1>3. QED
  BY <1>1, <1>2

LEMMA BeginsByPublish ==
  ASSUME IInv, NEW p \in Agents, NEW expected, NEW cp \in Checkpoints,
         NEW byReadback \in BOOLEAN, NEW o \in Ops \cup {Nothing},
         NEW claims \in BOOLEAN,
         publish(p, expected, cp, byReadback, o, claims),
         UNCHANGED <<files, durable, inflight, applied, acked>>,
         claims => /\ o \in Ops /\ cp.event \notin Events
                   /\ Said(Published, o) = "PREPARED"
                   /\ cp.state.effects[o] = "UNKNOWN",
         byReadback => (matches(History, expected) =>
           \A q \in Ops : /\ cp.state.effects[q] = "NOT_APPLIED"
                         /\ Said(Published, q) # "NOT_APPLIED"
                         => applied[q] = 0 /\ ~Outstanding(q)),
         byReadback => \A q \in Ops :
           cp.state.effects[q] = "COMMITTED" => applied[q] > 0
  PROVE  \E c \in Calls : Begins(p, c)
<1>1. PICK step \in {"sync", "rename"}, draft \in Checkpoints \cup {Nothing} :
           /\ call' = [call EXCEPT ![p] =
                        [step |-> step, known |-> History, draft |-> draft,
                         op |-> o, claims |-> claims]]
           /\ step = "rename" =>
                /\ draft = cp
                /\ Published < MaxGenerations
                /\ matches(History, expected)
                /\ validateTransition(History, cp)
                /\ byReadback \/ ~NewOutcome(cp)
                /\ ~Repeated(cp.event)
           /\ step = "sync" =>
                /\ Published > 0
                /\ cp.event \in Events \/ Latest(History).state = cp.state
  BY PublishFacts
<1> DEFINE c == [step |-> step, known |-> History, draft |-> draft,
                 op |-> o, claims |-> claims]
<1>2. c \in Calls
  BY CallFormed DEF IInv
<1>3. \A q \in Ops : EffectsOf(History)[q] = Said(Published, q)
  BY HistorySays DEF IInv
<1>4. ASSUME step = "sync", claims PROVE FALSE
  <2>1. Latest(History).state.effects[o] = "UNKNOWN"
    BY <1>1, <1>4
  <2>2. History # <<>>
    <3>1. Len(History) = Published /\ Published > 0 /\ Published \in Nat
      BY <1>1, <1>4, HistoryFacts DEF IInv
    <3>2. Len(<<>>) = 0
      BY EmptySeq
    <3>3. QED
      BY <3>1, <3>2
  <2>3. EffectsOf(History)[o] = "UNKNOWN"
    BY <2>1, <2>2 DEF EffectsOf
  <2>4. QED
    BY <1>3, <1>4, <2>3
<1>5. ASSUME step = "rename", NEW q \in Ops,
             cp.state.effects[q] = "NOT_APPLIED", Said(Published, q) # "NOT_APPLIED"
      PROVE  applied[q] = 0 /\ ~Outstanding(q)
  <2>1. CASE byReadback
    BY <1>1, <1>5, <2>1
  <2>2. CASE ~byReadback
    BY <1>1, <1>3, <1>5, <2>2 DEF NewOutcome
  <2>3. QED
    BY <2>1, <2>2
<1>6. ASSUME step = "rename", NEW q \in Ops, cp.state.effects[q] = "COMMITTED"
      PROVE  applied[q] > 0
  <2>1. CASE byReadback
    BY <1>6, <2>1
  <2>2. CASE ~byReadback
    <3>1. Said(Published, q) = "COMMITTED"
      BY <1>1, <1>3, <1>6, <2>2 DEF NewOutcome
    <3>2. Published \in 1..Published
      BY <3>1, HistoryFacts DEF IInv, Said, SaidIn
    <3>3. QED
      BY <3>1, <3>2 DEF IInv, CommitsAreTrue
  <2>3. QED
    BY <2>1, <2>2
<1>7. Begins(p, c)
  <2>1. call' = [call EXCEPT ![p] = c]
    BY <1>1
  <2>2. c.step = "rename" =>
       /\ c.draft \in Checkpoints
       /\ Published < MaxGenerations
       /\ validateTransition(History, c.draft)
       /\ ~Repeated(c.draft.event)
       /\ \A q \in Ops : /\ c.draft.state.effects[q] = "NOT_APPLIED"
                         /\ Said(Published, q) # "NOT_APPLIED"
                         => applied[q] = 0 /\ ~Outstanding(q)
       /\ \A q \in Ops : c.draft.state.effects[q] = "COMMITTED" => applied[q] > 0
    BY <1>1, <1>5, <1>6
  <2>3. c.claims => /\ c.op \in Ops /\ c.step = "rename"
                    /\ Said(Published, c.op) = "PREPARED"
                    /\ c.draft.state.effects[c.op] = "UNKNOWN"
    BY <1>1, <1>4
  <2>4. QED
    BY <2>1, <2>2, <2>3 DEF Begins
<1>8. QED
  BY <1>2, <1>7

LEMMA AllBegin ==
  ASSUME IInv, NEW p \in Agents,
         \/ materialize(p)
         \/ \E o \in Ops : executeEffect(p, o) \/ recoverEffect(p, o)
         \/ Record(p)
  PROVE  \E c \in Calls : Begins(p, c)
<1>1. p \notin Events
  BY StoreAssumption
<1>2. /\ History \in Seq(Checkpoints) /\ Len(History) = Published /\ Published \in Nat
      /\ \A o \in Ops : EffectsOf(History)[o] = Said(Published, o)
  BY HistoryFacts, HistorySays DEF IInv
<1>3. ASSUME NEW o \in Ops, EffectsOf(History)[o] # "none"
      PROVE  Published > 0
  BY <1>2, <1>3 DEF Said, SaidIn
<1>4. CASE materialize(p)
  <2>1. PICK n \in 0..Len(History), cp \in Checkpoints :
          publish(p, Prefix(History, n), cp, FALSE, Nothing, FALSE)
    BY <1>4 DEF materialize
  <2>2. UNCHANGED <<files, durable, inflight, applied, acked>>
    BY <1>4 DEF materialize, disk, world
  <2>3. QED
    BY <2>1, <2>2, BeginsByPublish
<1>5. ASSUME NEW o \in Ops, executeEffect(p, o)
      PROVE  \E c \in Calls : Begins(p, c)
  <2>1. UNCHANGED <<files, durable, inflight, applied, acked>>
    BY <1>5 DEF executeEffect, disk, world
  <2>2. CASE Confirming(p, Nothing, FALSE)
    BY <2>1, <2>2, BeginsByConfirming
  <2>3. CASE /\ EffectsOf(History)[o] = "PREPARED"
             /\ publish(p, History, Claim(p, o), FALSE, o, TRUE)
    <3>1. Said(Published, o) = "PREPARED" /\ Published > 0
      BY <1>2, <1>3, <2>3
    <3>2. /\ Claim(p, o) \in Checkpoints
          /\ Claim(p, o).event = p
          /\ Claim(p, o).state.effects[o] = "UNKNOWN"
      BY <1>2, <3>1, WithEffectFacts DEF Claim, Triggers, EffectStates
    <3>3. QED
      BY <1>1, <2>1, <2>3, <3>1, <3>2, BeginsByPublish
  <2>4. QED
    BY <1>5, <2>2, <2>3 DEF executeEffect
<1>6. ASSUME NEW o \in Ops, recoverEffect(p, o)
      PROVE  \E c \in Calls : Begins(p, c)
  <2>1. UNCHANGED <<files, durable, inflight, applied, acked>>
    BY <1>6 DEF recoverEffect, disk, world
  <2>2. CASE Confirming(p, Nothing, FALSE)
    BY <2>1, <2>2, BeginsByConfirming
  <2>3. CASE /\ EffectsOf(History)[o] \in {"PREPARED", "UNKNOWN"}
             /\ Bind(p, "readback", Nothing, o, FALSE)
    <3> DEFINE c == [step |-> "readback", known |-> History, draft |-> Nothing,
                     op |-> o, claims |-> FALSE]
    <3>1. Published > 0
      BY <1>3, <2>3
    <3>2. c \in Calls
      BY CallFormed DEF IInv
    <3>3. call' = [call EXCEPT ![p] = c]
      BY <2>3 DEF Bind, Enter
    <3>4. Begins(p, c)
      BY <2>1, <3>1, <3>3 DEF Begins
    <3>5. QED
      BY <3>2, <3>4
  <2>4. QED
    BY <1>6, <2>2, <2>3 DEF recoverEffect
<1>7. CASE Record(p)
  <2>1. /\ call[p].step = "record"
        /\ publish(p, call[p].known, call[p].draft, TRUE, Nothing, FALSE)
        /\ UNCHANGED <<files, durable, inflight, applied, acked>>
    BY <1>7 DEF Record, At, disk, world
  <2>2. call[p].draft \in Checkpoints
    BY <2>1 DEF IInv, CallsAreFormed
  <2>3. ASSUME matches(History, call[p].known), NEW q \in Ops,
               call[p].draft.state.effects[q] = "NOT_APPLIED",
               Said(Published, q) # "NOT_APPLIED"
        PROVE  applied[q] = 0 /\ ~Outstanding(q)
    <3>1. call[p].known = History
      BY <2>3 DEF matches
    <3>2. Bound(p) = Published
      BY <1>2, <3>1 DEF Bound
    <3>3. EffectsOf(call[p].known)[q] # "NOT_APPLIED"
      BY <1>2, <2>3, <3>1
    <3>4. QED
      BY <2>1, <2>3, <3>2, <3>3 DEF IInv, DenialsAreTrue
  <2>4. \A q \in Ops :
          call[p].draft.state.effects[q] = "COMMITTED" => applied[q] > 0
    BY <2>1 DEF IInv, CommitsAreTrue
  <2>5. QED
    BY <2>1, <2>2, <2>3, <2>4, BeginsByPublish
<1>8. QED
  BY <1>4, <1>5, <1>6, <1>7

\* Every step, with the beginnings of calls as one.
Moves ==
  \/ UNCHANGED vars
  \/ \E p \in Agents, c \in Calls : Begins(p, c)
  \/ \E p \in Agents : \/ flush(p) \/ Rename(p) \/ Sync(p) \/ Confirm(p)
                       \/ Dispatch(p) \/ CallbackReturns(p) \/ Readback(p)
                       \/ Fail(p)
  \/ \E o \in Ops : Happen(o) \/ Drop(o)
  \/ PowerLoss

LEMMA StepsAreMoves ==
  ASSUME IInv, [Next]_vars
  PROVE  Moves
<1>1. CASE UNCHANGED vars
  BY <1>1 DEF Moves
<1>2. ASSUME NEW p \in Agents, Step(p) PROVE Moves
  <2>1. CASE \/ materialize(p)
             \/ \E o \in Ops : executeEffect(p, o) \/ recoverEffect(p, o)
             \/ Record(p)
    BY <2>1, AllBegin DEF Moves
  <2>2. CASE \/ flush(p) \/ Rename(p) \/ Sync(p) \/ Confirm(p) \/ Dispatch(p)
             \/ CallbackReturns(p) \/ Readback(p) \/ Fail(p)
    BY <2>2 DEF Moves
  <2>3. QED
    BY <1>2, <2>1, <2>2 DEF Step
<1>3. CASE (\E o \in Ops : Happen(o) \/ Drop(o)) \/ PowerLoss
  BY <1>3 DEF Moves
<1>4. QED
  BY <1>1, <1>2, <1>3 DEF Next

-----------------------------------------------------------------------------
(* Each part of the invariant is preserved. *)

LEMMA ReadbackType ==
  ASSUME IInv, NEW p \in Agents, Readback(p)
  PROVE  \E answer \in Answers(call[p].op), draft \in Checkpoints :
           /\ draft = WithEffect(p, call[p].known, call[p].op, "effect_readback",
                                 StatusOf(answer))
           /\ draft.state.effects[call[p].op] = StatusOf(answer)
           /\ \A o \in Ops \ {call[p].op} :
                draft.state.effects[o] = EffectsOf(call[p].known)[o]
           /\ call' = [call EXCEPT ![p] =
                [call[p] EXCEPT !.step = "record", !.draft = draft]]
<1>1. /\ call[p].op \in Ops /\ Bound(p) > 0
      /\ call[p].known \in Seq(Checkpoints)
  BY DEF IInv, CallsAreFormed, Readback, At, TypeOK, Calls
<1>2. PICK answer \in Answers(call[p].op) :
        call' = [call EXCEPT ![p] = [call[p] EXCEPT !.step = "record",
          !.draft = WithEffect(p, call[p].known, call[p].op, "effect_readback",
                               StatusOf(answer))]]
  BY DEF Readback, Enter
<1>3. StatusOf(answer) \in EffectStates
  BY <1>2 DEF Answers, StatusOf, EffectStates
<1> DEFINE draft == WithEffect(p, call[p].known, call[p].op, "effect_readback",
                               StatusOf(answer))
<1>4. /\ draft \in Checkpoints
      /\ draft.state.effects[call[p].op] = StatusOf(answer)
      /\ \A o \in Ops \ {call[p].op} :
           draft.state.effects[o] = Latest(call[p].known).state.effects[o]
  <2>1. "effect_readback" \in Triggers
    BY DEF Triggers
  <2>2. QED
    BY <1>1, <1>3, <2>1, WithEffectFacts DEF Bound
<1>5. call[p].known # <<>>
  BY <1>1, EmptySeq DEF Bound
<1>6. QED
  BY <1>2, <1>4, <1>5 DEF EffectsOf

LEMMA CallType ==
  ASSUME IInv, Moves
  PROVE  call' \in [Agents -> Calls]
<1>1. call \in [Agents -> Calls]
  BY DEF IInv, TypeOK
<1>2. Idle \in Calls
  BY EmptySeq DEF Idle, Calls, Steps
<1>3. CASE UNCHANGED call
  BY <1>1, <1>3
<1>4. CASE \E p \in Agents, c \in Calls : Begins(p, c)
  BY <1>1, <1>4 DEF Begins
<1>5. ASSUME NEW p \in Agents, Rename(p) PROVE call' \in [Agents -> Calls]
  <2>1. call[p].draft \in Checkpoints /\ call[p] \in Calls
    BY <1>1, <1>5 DEF IInv, CallsAreFormed, Rename, At
  <2>2. Append(call[p].known, call[p].draft) \in Seq(Checkpoints)
    BY <2>1 DEF Calls
  <2>3. [call[p] EXCEPT !.step = "sync",
                        !.known = Append(call[p].known, call[p].draft),
                        !.draft = Nothing] \in Calls
    BY <2>1, <2>2 DEF Calls, Steps
  <2>4. QED
    BY <1>1, <1>5, <2>3 DEF Rename, Enter
<1>6. ASSUME NEW p \in Agents,
             Sync(p) \/ Confirm(p) \/ Dispatch(p) \/ CallbackReturns(p) \/ Fail(p)
      PROVE  call' \in [Agents -> Calls]
  <2>1. call[p] \in Calls
    BY <1>1
  <2>2. ASSUME NEW step \in Steps PROVE [call[p] EXCEPT !.step = step] \in Calls
    BY <2>1 DEF Calls
  <2>3. ASSUME NEW step \in Steps, Go(p, step) PROVE call' \in [Agents -> Calls]
    BY <1>1, <2>2, <2>3 DEF Go
  <2>4. {"confirm", "execute", "running"} \subseteq Steps
    BY DEF Steps
  <2>5. CASE Sync(p)
    BY <2>3, <2>4, <2>5 DEF Sync
  <2>6. CASE Confirm(p)
    BY <1>1, <1>2, <2>3, <2>4, <2>6 DEF Confirm, Enter
  <2>7. CASE Dispatch(p)
    BY <2>3, <2>4, <2>7 DEF Dispatch
  <2>8. CASE CallbackReturns(p)
    <3>1. [call[p] EXCEPT !.step = "readback", !.claims = FALSE] \in Calls
      BY <2>1 DEF Calls, Steps
    <3>2. QED
      BY <1>1, <2>8, <3>1 DEF CallbackReturns, Enter
  <2>9. CASE Fail(p)
    BY <1>1, <1>2, <2>9 DEF Fail, Enter
  <2>10. QED
    BY <1>6, <2>5, <2>6, <2>7, <2>8, <2>9
<1>7. ASSUME NEW p \in Agents, Readback(p) PROVE call' \in [Agents -> Calls]
  <2>1. PICK draft \in Checkpoints :
          call' = [call EXCEPT ![p] =
                    [call[p] EXCEPT !.step = "record", !.draft = draft]]
    BY <1>7, ReadbackType
  <2>2. [call[p] EXCEPT !.step = "record", !.draft = draft] \in Calls
    BY <1>1 DEF Calls, Steps
  <2>3. QED
    BY <1>1, <2>1, <2>2
<1>8. CASE PowerLoss
  BY <1>2, <1>8 DEF PowerLoss
<1>9. QED
  BY <1>3, <1>4, <1>5, <1>6, <1>7, <1>8
     DEF Moves, vars, flush, Happen, Drop

LEMMA TypeStep ==
  ASSUME IInv, Moves
  PROVE  TypeOK'
<1>1. call' \in [Agents -> Calls]
  BY CallType
<1>2. /\ DOMAIN files = 1..Published /\ Published \in Nat
      /\ Published <= MaxGenerations /\ MaxGenerations \in Nat
      /\ History \in Seq(Checkpoints)
  BY HistoryFacts, StoreAssumption DEF IInv
<1>3. /\ DOMAIN files' \subseteq 1..MaxGenerations
      /\ \A g \in DOMAIN files' :
           files'[g] \in [previous : Seq(Checkpoints), checkpoint : Checkpoints]
      /\ durable' \subseteq DOMAIN files'
  <2>1. CASE UNCHANGED files
    BY <2>1 DEF IInv, TypeOK, Moves, vars, Begins, flush, Rename, Sync, Confirm,
         Dispatch, CallbackReturns, Readback, Fail, Happen, Drop, PowerLoss, disk
  <2>2. ASSUME NEW p \in Agents, Rename(p)
        PROVE  /\ DOMAIN files' \subseteq 1..MaxGenerations
               /\ \A g \in DOMAIN files' :
                    files'[g] \in [previous : Seq(Checkpoints),
                                   checkpoint : Checkpoints]
               /\ durable' \subseteq DOMAIN files'
    <3>1. call[p].draft \in Checkpoints
      BY <2>2 DEF IInv, CallsAreFormed, Rename, At
    <3>2. /\ DOMAIN files' = 1..(Published + 1) /\ Published < MaxGenerations
          /\ files'[Published + 1] = [previous |-> History,
                                     checkpoint |-> call[p].draft]
          /\ \A g \in 1..Published : files'[g] = files[g]
      BY <2>2, RenameFacts
    <3>3. ASSUME NEW g \in DOMAIN files'
          PROVE  files'[g] \in [previous : Seq(Checkpoints),
                                checkpoint : Checkpoints]
      <4>1. CASE g = Published + 1
        BY <1>2, <3>1, <3>2, <4>1
      <4>2. CASE g \in 1..Published
        BY <1>2, <3>2, <4>2 DEF IInv, TypeOK
      <4>3. QED
        BY <1>2, <3>2, <4>1, <4>2
    <3>4. DOMAIN files' \subseteq 1..MaxGenerations
      BY <1>2, <3>2
    <3>5. durable' \subseteq DOMAIN files'
      <4>1. durable' = durable /\ durable \subseteq DOMAIN files
        BY <2>2 DEF IInv, TypeOK, Rename
      <4>2. QED
        BY <1>2, <3>2, <4>1
    <3>6. QED
      BY <3>3, <3>4, <3>5
  <2>3. CASE PowerLoss
    <3>1. /\ Published' \in 0..Published
          /\ durable' = 1..Published'
          /\ DOMAIN files' = 1..Published'
          /\ \A g \in 1..Published' : files'[g] = files[g]
      BY <2>3, PowerLossFacts
    <3>2. \A g \in 1..Published' : g \in DOMAIN files
      BY <1>2, <3>1
    <3>3. DOMAIN files' \subseteq 1..MaxGenerations
      BY <1>2, <3>1
    <3>4. QED
      BY <3>1, <3>2, <3>3 DEF IInv, TypeOK
  <2>4. QED
    BY <2>1, <2>2, <2>3 DEF Moves, vars, Begins, flush, Sync, Confirm,
         Dispatch, CallbackReturns, Readback, Fail, Happen, Drop, disk
<1>4. inflight' \in [Ops -> Nat] /\ applied' \in [Ops -> Nat]
  <2>1. inflight \in [Ops -> Nat] /\ applied \in [Ops -> Nat]
    BY DEF IInv, TypeOK
  <2>2. CASE UNCHANGED world
    BY <2>1, <2>2 DEF world
  <2>3. ASSUME NEW p \in Agents, Dispatch(p)
        PROVE  inflight' \in [Ops -> Nat] /\ applied' \in [Ops -> Nat]
    <3>1. call[p].op \in Ops
      BY <2>3 DEF Dispatch, At, IInv, CallsAreFormed
    <3>2. QED
      BY <2>1, <2>3, <3>1 DEF Dispatch
  <2>4. ASSUME NEW o \in Ops, Happen(o) \/ Drop(o)
        PROVE  inflight' \in [Ops -> Nat] /\ applied' \in [Ops -> Nat]
    <3>1. inflight[o] - 1 \in Nat /\ applied[o] + 1 \in Nat
      BY <2>1, <2>4 DEF Happen, Drop
    <3>2. QED
      BY <2>1, <2>4, <3>1 DEF Happen, Drop
  <2>5. QED
    BY <2>2, <2>3, <2>4 DEF Moves, vars, Begins, flush, Rename, Sync, Confirm,
         CallbackReturns, Readback, Fail, PowerLoss, world
<1>5. acked' \in Seq(Checkpoints)
  <2>1. acked \in Seq(Checkpoints) /\ \A p \in Agents : call[p].known \in Seq(Checkpoints)
    BY DEF IInv, TypeOK, Calls
  <2>2. UNCHANGED acked \/ \E p \in Agents : acked' = call[p].known
    BY DEF Moves, vars, Begins, flush, Rename, Sync, Confirm,
         Dispatch, CallbackReturns, Readback, Fail, Happen, Drop, PowerLoss
  <2>3. QED
    BY <2>1, <2>2
<1>6. QED
  BY <1>1, <1>3, <1>4, <1>5 DEF TypeOK

LEMMA ReadableStep ==
  ASSUME IInv, Moves
  PROVE  Readable'
<1>1. /\ DOMAIN files = 1..Published /\ Published \in Nat
      /\ Len(History) = Published /\ History \in Seq(Checkpoints)
      /\ \A g \in 1..Published : History[g] = files[g].checkpoint
  BY HistoryFacts DEF IInv
<1>2. CASE UNCHANGED files
  BY <1>2 DEF IInv, Readable, validateTransition, EffectsOf, Latest
<1>3. ASSUME NEW p \in Agents, Rename(p) PROVE Readable'
  <2>1. /\ DOMAIN files' = 1..(Published + 1) /\ Published' = Published + 1
        /\ files'[Published + 1] = [previous |-> History,
                                   checkpoint |-> call[p].draft]
        /\ \A g \in 1..Published : files'[g] = files[g]
        /\ Bound(p) = Published /\ call[p].known = History
    BY <1>3, RenameFacts
  <2>2. /\ validateTransition(History, call[p].draft)
        /\ call[p].draft.event \in Events =>
             \A i \in 1..Published : History[i].event # call[p].draft.event
    BY <1>3, <2>1 DEF IInv, DraftsAreValid, Rename, At
  <2>3. History = [i \in 1..Published |-> files[i].checkpoint]
    BY <1>1 DEF History
  <2>4. DOMAIN files' = 1..Cardinality(DOMAIN files')
    BY <2>1 DEF Published
  <2>5. ASSUME NEW g \in 1..Published
        PROVE  /\ files'[g].previous = [i \in 1..(g - 1) |-> files'[i].checkpoint]
               /\ validateTransition(files'[g].previous, files'[g].checkpoint)
               /\ \A i \in 1..(g - 1) :
                    files'[g].checkpoint.event \in Events =>
                      files'[g].checkpoint.event # files'[i].checkpoint.event
    <3>1. \A i \in 1..(g - 1) : i \in 1..Published
      BY <1>1
    <3>2. \A i \in 1..(g - 1) : files'[i] = files[i]
      BY <2>1, <3>1
    <3>3. [i \in 1..(g - 1) |-> files'[i].checkpoint] =
            [i \in 1..(g - 1) |-> files[i].checkpoint]
      BY <3>2
    <3>4. g \in DOMAIN files /\ files'[g] = files[g]
      BY <1>1, <2>1
    <3>5. QED
      BY <3>2, <3>3, <3>4 DEF IInv, Readable
  <2>6. \A i \in 1..Published :
          files'[Published + 1].checkpoint.event \in Events =>
            files'[Published + 1].checkpoint.event # files'[i].checkpoint.event
    BY <1>1, <2>1, <2>2
  <2>7. files'[Published + 1].previous = [i \in 1..Published |-> files'[i].checkpoint]
    BY <2>1, <2>3
  <2>8. validateTransition(files'[Published + 1].previous,
                           files'[Published + 1].checkpoint)
    BY <2>1, <2>2
  <2>9. ASSUME NEW g \in DOMAIN files'
        PROVE  /\ files'[g].previous = [i \in 1..(g - 1) |-> files'[i].checkpoint]
               /\ validateTransition(files'[g].previous, files'[g].checkpoint)
               /\ \A i \in 1..(g - 1) :
                    files'[g].checkpoint.event \in Events =>
                      files'[g].checkpoint.event # files'[i].checkpoint.event
    <3>1. CASE g \in 1..Published
      BY <2>5, <3>1
    <3>2. CASE g = Published + 1
      <4>1. g - 1 = Published
        BY <1>1, <3>2
      <4>2. QED
        BY <2>6, <2>7, <2>8, <3>2, <4>1
    <3>3. QED
      BY <1>1, <2>1, <3>1, <3>2
  <2>10. QED
    BY <2>4, <2>9 DEF Readable, validateTransition, EffectsOf, Latest
<1>4. CASE PowerLoss
  <2>1. /\ Published' \in 0..Published
        /\ DOMAIN files' = 1..Published'
        /\ \A g \in 1..Published' : files'[g] = files[g]
    BY <1>4, PowerLossFacts
  <2>2. DOMAIN files' = 1..Cardinality(DOMAIN files')
    BY <2>1 DEF Published
  <2>3. ASSUME NEW g \in DOMAIN files'
        PROVE  /\ files'[g].previous = [i \in 1..(g - 1) |-> files'[i].checkpoint]
               /\ validateTransition(files'[g].previous, files'[g].checkpoint)
               /\ \A i \in 1..(g - 1) :
                    files'[g].checkpoint.event \in Events =>
                      files'[g].checkpoint.event # files'[i].checkpoint.event
    <3>1. g \in 1..Published' /\ \A i \in 1..(g - 1) : i \in 1..Published'
      BY <1>1, <2>1
    <3>2. \A i \in 1..(g - 1) : files'[i] = files[i]
      BY <2>1, <3>1
    <3>3. [i \in 1..(g - 1) |-> files'[i].checkpoint] =
            [i \in 1..(g - 1) |-> files[i].checkpoint]
      BY <3>2
    <3>4. g \in DOMAIN files /\ files'[g] = files[g]
      BY <1>1, <2>1, <3>1
    <3>5. QED
      BY <3>2, <3>3, <3>4 DEF IInv, Readable
  <2>4. QED
    BY <2>2, <2>3 DEF Readable, validateTransition, EffectsOf, Latest
<1>5. QED
  BY <1>2, <1>3, <1>4 DEF Moves, vars, Begins, flush, Sync, Confirm,
       Dispatch, CallbackReturns, Readback, Fail, Happen, Drop, disk

-----------------------------------------------------------------------------
(* How a step changes the calls. *)

Others(p) == \A q \in Agents \ {p} : call'[q] = call[q]

Becomes(p, step, claims) ==
  /\ call'[p].step = step
  /\ call'[p].known = call[p].known
  /\ call'[p].op = call[p].op
  /\ call'[p].claims = claims

LEMMA After ==
  ASSUME IInv, NEW p \in Agents
  PROVE  /\ Sync(p) => Others(p) /\ Becomes(p, "confirm", call[p].claims)
         /\ Confirm(p) => /\ Others(p)
                          /\ \/ call[p].claims /\ Becomes(p, "execute", TRUE)
                             \/ call'[p] = Idle
         /\ Dispatch(p) => Others(p) /\ Becomes(p, "running", call[p].claims)
         /\ CallbackReturns(p) => Others(p) /\ Becomes(p, "readback", FALSE)
         /\ Fail(p) => Others(p) /\ call'[p] = Idle
         /\ Rename(p) => /\ Others(p)
                         /\ call'[p].step = "sync"
                         /\ call'[p].known = Append(History, call[p].draft)
                         /\ call'[p].op = call[p].op
                         /\ call'[p].claims = call[p].claims
<1>1. call \in [Agents -> Calls] /\ call[p] \in Calls
  BY DEF IInv, TypeOK
<1>2. ASSUME NEW step, Go(p, step)
      PROVE  Others(p) /\ Becomes(p, step, call[p].claims)
  BY <1>1, <1>2 DEF Go, Others, Becomes, Calls
<1>3. ASSUME NEW c, Enter(p, c) PROVE Others(p) /\ call'[p] = c
  BY <1>1, <1>3 DEF Enter, Others
<1>4. Sync(p) => Others(p) /\ Becomes(p, "confirm", call[p].claims)
  BY <1>2 DEF Sync
<1>5. Dispatch(p) => Others(p) /\ Becomes(p, "running", call[p].claims)
  BY <1>2 DEF Dispatch
<1>6. Fail(p) => Others(p) /\ call'[p] = Idle
  BY <1>3 DEF Fail
<1>7. ASSUME Confirm(p)
      PROVE  /\ Others(p)
             /\ \/ call[p].claims /\ Becomes(p, "execute", TRUE)
                \/ call'[p] = Idle
  <2>1. CASE call[p].claims /\ Go(p, "execute")
    <3>1. call[p].claims = TRUE
      BY <1>1, <2>1 DEF Calls
    <3>2. QED
      BY <1>2, <2>1, <3>1
  <2>2. CASE Enter(p, Idle)
    BY <1>3, <2>2
  <2>3. QED
    BY <1>7, <2>1, <2>2 DEF Confirm
<1>8. ASSUME CallbackReturns(p)
      PROVE  Others(p) /\ Becomes(p, "readback", FALSE)
  <2>1. /\ Others(p)
        /\ call'[p] = [call[p] EXCEPT !.step = "readback", !.claims = FALSE]
    BY <1>3, <1>8 DEF CallbackReturns
  <2>2. QED
    BY <1>1, <2>1 DEF Becomes, Calls
<1>9. ASSUME Rename(p)
      PROVE  /\ Others(p)
             /\ call'[p].step = "sync"
             /\ call'[p].known = Append(History, call[p].draft)
             /\ call'[p].op = call[p].op
             /\ call'[p].claims = call[p].claims
  <2>1. /\ Others(p)
        /\ call'[p] = [call[p] EXCEPT !.step = "sync",
                         !.known = Append(call[p].known, call[p].draft),
                         !.draft = Nothing]
    BY <1>3, <1>9 DEF Rename
  <2>2. call[p].known = History
    BY <1>9, RenameFacts
  <2>3. QED
    BY <1>1, <2>1, <2>2 DEF Calls
<1>10. QED
  BY <1>4, <1>5, <1>6, <1>7, <1>8, <1>9

LEMMA AfterReadback ==
  ASSUME IInv, NEW p \in Agents, Readback(p)
  PROVE  /\ Others(p) /\ Becomes(p, "record", call[p].claims)
         /\ call[p].op \in Ops
         /\ call'[p].draft \in Checkpoints
         /\ \A o \in Ops \ {call[p].op} :
              call'[p].draft.state.effects[o] = Said(Bound(p), o)
         /\ call'[p].draft.state.effects[call[p].op] = "NOT_APPLIED" =>
              applied[call[p].op] = 0 /\ ~Outstanding(call[p].op)
         /\ call'[p].draft.state.effects[call[p].op] = "COMMITTED" =>
              applied[call[p].op] > 0
<1>1. call \in [Agents -> Calls] /\ call[p] \in Calls
  BY DEF IInv, TypeOK
<1>2. PICK answer \in Answers(call[p].op), draft \in Checkpoints :
           /\ draft.state.effects[call[p].op] = StatusOf(answer)
           /\ \A o \in Ops \ {call[p].op} :
                draft.state.effects[o] = EffectsOf(call[p].known)[o]
           /\ call' = [call EXCEPT ![p] =
                [call[p] EXCEPT !.step = "record", !.draft = draft]]
  BY ReadbackType
<1>3. /\ Others(p)
      /\ call'[p] = [call[p] EXCEPT !.step = "record", !.draft = draft]
  BY <1>1, <1>2 DEF Others
<1>4. Becomes(p, "record", call[p].claims) /\ call'[p].draft = draft
  BY <1>1, <1>3 DEF Becomes, Calls
<1>5. call[p].op \in Ops
  BY DEF IInv, CallsAreFormed, Readback, At
<1>6. \A o \in Ops : EffectsOf(call[p].known)[o] = Said(Bound(p), o)
  BY KnownSays
<1>7. /\ StatusOf(answer) = "NOT_APPLIED" =>
           applied[call[p].op] = 0 /\ ~Outstanding(call[p].op)
      /\ StatusOf(answer) = "COMMITTED" => applied[call[p].op] > 0
  BY DEF StatusOf, Answers
<1>8. QED
  BY <1>2, <1>3, <1>4, <1>5, <1>6, <1>7

\* How the call of one agent looks after a step.
LEMMA CallAfter ==
  ASSUME IInv, Moves, NEW q \in Agents
  PROVE  \/ call'[q] = Idle
         \/ call'[q] = call[q] /\ ~PowerLoss
         \/ \E c \in Calls : Begins(q, c) /\ call'[q] = c
         \/ Rename(q) \/ Sync(q) \/ (Confirm(q) /\ call[q].claims)
         \/ Dispatch(q) \/ CallbackReturns(q) \/ Readback(q)
<1>1. call \in [Agents -> Calls]
  BY DEF IInv, TypeOK
<1>2. CASE PowerLoss
  BY <1>2, PowerLossFacts
<1>3. CASE ~PowerLoss /\ UNCHANGED call
  BY <1>3
<1>4. ASSUME ~PowerLoss, NEW p \in Agents, NEW c \in Calls, Begins(p, c)
      PROVE  call'[q] = call[q] \/ (Begins(q, c) /\ call'[q] = c)
  BY <1>1, <1>4 DEF Begins
<1>5. ASSUME ~PowerLoss, NEW p \in Agents,
             \/ Rename(p) \/ Sync(p) \/ Confirm(p) \/ Dispatch(p)
             \/ CallbackReturns(p) \/ Readback(p) \/ Fail(p)
      PROVE  \/ call'[q] = Idle
             \/ call'[q] = call[q]
             \/ Rename(q) \/ Sync(q) \/ (Confirm(q) /\ call[q].claims)
             \/ Dispatch(q) \/ CallbackReturns(q) \/ Readback(q)
  <2>1. CASE p = q
    BY <1>5, <2>1, After
  <2>2. CASE p # q
    BY <1>5, <2>2, After, AfterReadback DEF Others
  <2>3. QED
    BY <2>1, <2>2
<1>6. CASE ~PowerLoss
  <2>1. CASE UNCHANGED vars \/ (\E o \in Ops : Happen(o) \/ Drop(o))
             \/ \E p \in Agents : flush(p)
    BY <1>3, <1>6, <2>1 DEF vars, Happen, Drop, flush
  <2>2. QED
    BY <1>4, <1>5, <1>6, <2>1 DEF Moves
<1>7. QED
  BY <1>2, <1>6

LEMMA PublishedStep ==
  ASSUME IInv, Moves
  PROVE  /\ Published' \in Nat
         /\ ~PowerLoss => /\ Published <= Published'
                          /\ \A i \in 1..Published : files'[i] = files[i]
<1>1. Published \in Nat
  BY HistoryFacts DEF IInv
<1>2. CASE files' = files
  BY <1>1, <1>2, SameFiles
<1>3. ASSUME NEW p \in Agents, Rename(p)
      PROVE  /\ Published' \in Nat
             /\ Published <= Published'
             /\ \A i \in 1..Published : files'[i] = files[i]
  <2>1. Published' = Published + 1 /\ \A g \in 1..Published : files'[g] = files[g]
    BY <1>3, RenameFacts
  <2>2. QED
    BY <1>1, <2>1
<1>4. CASE PowerLoss
  <2>1. Published' \in 0..Published
    BY <1>4, PowerLossFacts
  <2>2. QED
    BY <1>1, <1>4, <2>1
<1>5. QED
  BY <1>2, <1>3, <1>4 DEF Moves, vars, Begins, flush, Sync, Confirm, Dispatch,
       CallbackReturns, Readback, Fail, Happen, Drop, disk

LEMMA KnownStep ==
  ASSUME IInv, Moves
  PROVE  KnownIsPrefix'
<1>1. /\ DOMAIN files = 1..Published /\ Published \in Nat
      /\ Len(History) = Published /\ History \in Seq(Checkpoints)
      /\ \A g \in 1..Published : History[g] = files[g].checkpoint
  BY HistoryFacts DEF IInv
<1>3. Published' \in Nat
  BY PublishedStep
<1> SUFFICES ASSUME NEW q \in Agents
             PROVE  /\ Len(call'[q].known) <= Published'
                    /\ \A i \in 1..Len(call'[q].known) :
                         call'[q].known[i] = files'[i].checkpoint
  BY DEF KnownIsPrefix, Bound
<1>4. /\ Bound(q) \in Nat /\ Bound(q) <= Published
      /\ \A i \in 1..Bound(q) : call[q].known[i] = files[i].checkpoint
  BY BoundType DEF IInv, KnownIsPrefix
<1>5. ~PowerLoss => /\ Published <= Published'
                    /\ \A i \in 1..Published : files'[i] = files[i]
  BY PublishedStep
<1>6. CASE call'[q] = Idle
  BY <1>3, <1>6, EmptySeq DEF Idle
<1>7. CASE call'[q].known = call[q].known /\ ~PowerLoss
  BY <1>1, <1>3, <1>4, <1>5, <1>7 DEF Bound
<1>8. ASSUME NEW c \in Calls, Begins(q, c), call'[q] = c
      PROVE  /\ Len(call'[q].known) <= Published'
             /\ \A i \in 1..Len(call'[q].known) :
                  call'[q].known[i] = files'[i].checkpoint
  <2>1. call'[q].known = History /\ files' = files
    BY <1>8 DEF Begins
  <2>2. QED
    BY <1>1, <2>1, SameFiles
<1>9. CASE Rename(q)
  <2>1. /\ Published' = Published + 1
        /\ files'[Published + 1] = [previous |-> History,
                                   checkpoint |-> call[q].draft]
        /\ \A g \in 1..Published : files'[g] = files[g]
    BY <1>9, RenameFacts
  <2>2. call'[q].known = Append(History, call[q].draft)
    BY <1>9, After
  <2>3. call[q].draft \in Checkpoints
    BY <1>9 DEF IInv, CallsAreFormed, Rename, At
  <2>4. /\ Len(call'[q].known) = Published + 1
        /\ call'[q].known[Published + 1] = call[q].draft
        /\ \A i \in 1..Published : call'[q].known[i] = History[i]
    BY <1>1, <2>2, <2>3
  <2>5. \A i \in 1..(Published + 1) : i \in 1..Published \/ i = Published + 1
    BY <1>1
  <2>6. QED
    BY <1>1, <2>1, <2>4, <2>5
<1>10. ASSUME \/ Sync(q) \/ (Confirm(q) /\ call[q].claims)
              \/ Dispatch(q) \/ CallbackReturns(q) \/ Readback(q)
       PROVE  call'[q] = Idle \/ (call'[q].known = call[q].known /\ files' = files)
  BY <1>10, After, AfterReadback
     DEF Becomes, Sync, Confirm, Dispatch, CallbackReturns, Readback, disk
<1>11. ASSUME call'[q].known = call[q].known, files' = files
       PROVE  /\ Len(call'[q].known) <= Published'
              /\ \A i \in 1..Len(call'[q].known) :
                   call'[q].known[i] = files'[i].checkpoint
  BY <1>1, <1>4, <1>11, SameFiles DEF Bound
<1>12. QED
  BY <1>6, <1>7, <1>8, <1>9, <1>10, <1>11, CallAfter

LEMMA FormedStep ==
  ASSUME IInv, Moves
  PROVE  CallsAreFormed'
<1> SUFFICES ASSUME NEW q \in Agents
      PROVE  /\ call'[q].claims => /\ call'[q].op \in Ops
                                   /\ call'[q].step \in {"rename", "sync", "confirm",
                                                         "execute", "running"}
             /\ call'[q].step \in {"execute", "running"} => call'[q].claims
             /\ call'[q].step \in {"readback", "record"} =>
                  call'[q].op \in Ops /\ Len(call'[q].known) > 0
             /\ call'[q].step \in {"rename", "record"} =>
                  call'[q].draft \in Checkpoints
  BY DEF CallsAreFormed, Bound
<1>1. /\ call[q].claims => /\ call[q].op \in Ops
                           /\ call[q].step \in {"rename", "sync", "confirm",
                                                "execute", "running"}
      /\ call[q].step \in {"execute", "running"} => call[q].claims
      /\ call[q].step \in {"readback", "record"} =>
           call[q].op \in Ops /\ Len(call[q].known) > 0
      /\ call[q].step \in {"rename", "record"} => call[q].draft \in Checkpoints
  BY DEF IInv, CallsAreFormed, Bound
<1>2. Len(History) = Published
  BY HistoryFacts DEF IInv
<1>3. CASE call'[q] = Idle
  BY <1>3 DEF Idle
<1>4. CASE call'[q] = call[q]
  BY <1>1, <1>4
<1>5. ASSUME NEW c \in Calls, Begins(q, c), call'[q] = c
      PROVE  /\ call'[q].claims => /\ call'[q].op \in Ops
                                   /\ call'[q].step \in {"rename", "sync", "confirm",
                                                         "execute", "running"}
             /\ call'[q].step \in {"execute", "running"} => call'[q].claims
             /\ call'[q].step \in {"readback", "record"} =>
                  call'[q].op \in Ops /\ Len(call'[q].known) > 0
             /\ call'[q].step \in {"rename", "record"} =>
                  call'[q].draft \in Checkpoints
  BY <1>2, <1>5 DEF Begins
<1>6. CASE Rename(q) \/ Sync(q)
  BY <1>1, <1>6, After DEF Becomes, Rename, Sync, At
<1>7. CASE (Confirm(q) /\ call[q].claims) \/ Dispatch(q)
  <2>1. CASE Confirm(q) /\ call[q].claims
    <3>1. Becomes(q, "execute", TRUE) \/ call'[q] = Idle
      BY <2>1, After
    <3>2. QED
      BY <1>1, <1>3, <2>1, <3>1 DEF Becomes
  <2>2. CASE Dispatch(q)
    <3>1. Becomes(q, "running", call[q].claims) /\ call[q].step = "execute"
      BY <2>2, After DEF Dispatch, At
    <3>2. QED
      BY <1>1, <3>1 DEF Becomes
  <2>3. QED
    BY <1>7, <2>1, <2>2
<1>8. CASE CallbackReturns(q)
  <2>1. Pending(q, call[q].op) /\ call[q].op \in Ops
    BY <1>1, <1>8 DEF CallbackReturns, At, Pending
  <2>2. Bound(q) > 0
    BY <2>1 DEF IInv, ClaimsStand
  <2>3. QED
    BY <1>8, <2>1, <2>2, After DEF Becomes, Bound
<1>9. CASE Readback(q)
  BY <1>1, <1>9, AfterReadback DEF Becomes, Readback, At
<1>10. QED
  BY <1>3, <1>4, <1>5, <1>6, <1>7, <1>8, <1>9, CallAfter

LEMMA DraftsStep ==
  ASSUME IInv, Moves
  PROVE  DraftsAreValid'
<1>1. /\ Published \in Nat /\ Len(History) = Published
      /\ DOMAIN files = 1..Published
      /\ \A g \in 1..Published : History[g] = files[g].checkpoint
      /\ \A o \in Ops : EffectsOf(History)[o] = Said(Published, o)
  BY HistoryFacts, HistorySays DEF IInv
<1> DEFINE Valid(c) ==
      /\ Len(c.known) < MaxGenerations
      /\ validateTransition(c.known, c.draft)
      /\ c.draft.event \in Events =>
           \A i \in 1..Len(c.known) : c.known[i].event # c.draft.event
      /\ c.claims => /\ EffectsOf(c.known)[c.op] = "PREPARED"
                     /\ c.draft.state.effects[c.op] = "UNKNOWN"
<1> SUFFICES ASSUME NEW q \in Agents, call'[q].step = "rename"
             PROVE  Valid(call'[q])
  BY DEF DraftsAreValid, Bound, validateTransition, EffectsOf, Latest
<1>2. CASE call'[q] = Idle
  BY <1>2 DEF Idle
<1>3. CASE call'[q] = call[q]
  BY <1>3 DEF IInv, DraftsAreValid, Bound
<1>4. ASSUME NEW c \in Calls, Begins(q, c), call'[q] = c
      PROVE  Valid(call'[q])
  <2>1. c.step = "rename" /\ c.known = History
    BY <1>4 DEF Begins
  <2>2. c.draft.event \in Events =>
          \A i \in 1..Published : files[i].checkpoint.event # c.draft.event
    BY <1>1, <1>4, <2>1 DEF Begins, Repeated
  <2>3. QED
    BY <1>1, <1>4, <2>1, <2>2 DEF Begins
<1>5. ASSUME \/ Rename(q) \/ Sync(q) \/ (Confirm(q) /\ call[q].claims)
             \/ Dispatch(q) \/ CallbackReturns(q) \/ Readback(q)
      PROVE  FALSE
  <2>1. call'[q].step \in {"sync", "confirm", "execute", "running", "readback",
                          "record", "idle"}
    <3>1. Rename(q) => call'[q].step = "sync"
      BY After
    <3>2. Sync(q) => call'[q].step = "confirm"
      BY After DEF Becomes
    <3>3. ASSUME Confirm(q) PROVE call'[q].step \in {"execute", "idle"}
      <4>1. call'[q] = Idle \/ Becomes(q, "execute", TRUE)
        BY <3>3, After
      <4>2. QED
        BY <4>1 DEF Becomes, Idle
    <3>4. Dispatch(q) => call'[q].step = "running"
      BY After DEF Becomes
    <3>5. CallbackReturns(q) => call'[q].step = "readback"
      BY After DEF Becomes
    <3>6. Readback(q) => call'[q].step = "record"
      BY AfterReadback DEF Becomes
    <3>7. QED
      BY <1>5, <3>1, <3>2, <3>3, <3>4, <3>5, <3>6
  <2>2. QED
    BY <2>1
<1>6. QED
  BY <1>2, <1>3, <1>4, <1>5, CallAfter

\* How a step changes what an operation has done to the world.
LEMMA WorldStep ==
  ASSUME IInv, Moves, NEW o \in Ops
  PROVE  \/ inflight'[o] = inflight[o] /\ applied'[o] = applied[o]
         \/ /\ inflight[o] > 0 /\ inflight'[o] = inflight[o] - 1
            /\ applied'[o] \in {applied[o], applied[o] + 1}
         \/ \E p \in Agents : /\ Dispatch(p) /\ Pending(p, o)
                              /\ inflight'[o] = inflight[o] + 1
                              /\ applied'[o] = applied[o]
<1>1. inflight \in [Ops -> Nat] /\ applied \in [Ops -> Nat]
  BY DEF IInv, TypeOK
<1>2. CASE UNCHANGED <<inflight, applied>>
  BY <1>2
<1>3. ASSUME NEW p \in Agents, Dispatch(p)
      PROVE  \/ inflight'[o] = inflight[o] /\ applied'[o] = applied[o]
             \/ /\ Pending(p, o) /\ inflight'[o] = inflight[o] + 1
                /\ applied'[o] = applied[o]
  <2>1. /\ call[p].step = "execute" /\ call[p].claims
        /\ inflight' = [inflight EXCEPT ![call[p].op] = @ + 1]
        /\ applied' = applied
    BY <1>3 DEF Dispatch, At, IInv, CallsAreFormed
  <2>2. CASE call[p].op = o
    BY <1>1, <2>1, <2>2 DEF Pending
  <2>3. CASE call[p].op # o
    BY <1>1, <2>1, <2>3
  <2>4. QED
    BY <2>2, <2>3
<1>4. ASSUME NEW r \in Ops, Happen(r) \/ Drop(r)
      PROVE  \/ inflight'[o] = inflight[o] /\ applied'[o] = applied[o]
             \/ /\ inflight[o] > 0 /\ inflight'[o] = inflight[o] - 1
                /\ applied'[o] \in {applied[o], applied[o] + 1}
  BY <1>1, <1>4 DEF Happen, Drop
<1>5. QED
  BY <1>2, <1>3, <1>4 DEF Moves, vars, Begins, flush, Rename, Sync, Confirm,
       CallbackReturns, Readback, Fail, PowerLoss, world

\* A claim is pending because it was, or because it has just been published.
LEMMA PendingStep ==
  ASSUME IInv, Moves, NEW q \in Agents, NEW o, Pending(q, o)'
  PROVE  \/ /\ Pending(q, o) /\ ~PowerLoss /\ Bound(q)' = Bound(q)
            /\ call[q].step = "running" => call'[q].step = "running"
            /\ Dispatch(q) => call'[q].step = "running"
         \/ /\ Rename(q) /\ call[q].claims /\ call[q].op = o
            /\ call'[q].step = "sync"
<1>1. /\ call'[q].claims /\ call'[q].op = o
      /\ call'[q].step \in {"sync", "confirm", "execute", "running"}
  BY DEF Pending
<1>2. CASE call'[q] = Idle
  BY <1>1, <1>2 DEF Idle
<1>3. CASE call'[q] = call[q] /\ ~PowerLoss
  <2>1. Pending(q, o) /\ Bound(q)' = Bound(q)
    BY <1>1, <1>3 DEF Pending, Bound
  <2>2. Dispatch(q) => call'[q].step = "running"
    BY After DEF Becomes
  <2>3. QED
    BY <1>3, <2>1, <2>2
<1>4. ASSUME NEW c \in Calls, Begins(q, c), call'[q] = c PROVE FALSE
  BY <1>1, <1>4 DEF Begins
<1>5. CASE Rename(q)
  BY <1>1, <1>5, After
<1>6. ASSUME Sync(q) \/ (Confirm(q) /\ call[q].claims) \/ Dispatch(q),
             call'[q] # Idle
      PROVE  /\ Pending(q, o) /\ ~PowerLoss /\ Bound(q)' = Bound(q)
             /\ call[q].step # "running"
             /\ Dispatch(q) => call'[q].step = "running"
  <2>1. call[q].step \in {"sync", "confirm", "execute"}
    BY <1>6 DEF Sync, Confirm, Dispatch, At
  <2>2. ~PowerLoss
    BY <1>6, PowerLossFacts
  <2>3. CASE Sync(q)
    <3>1. Becomes(q, "confirm", call[q].claims)
      BY <2>3, After
    <3>2. ~Dispatch(q)
      BY <2>3 DEF Sync, Dispatch, At
    <3>3. QED
      BY <1>1, <2>1, <2>2, <3>1, <3>2 DEF Becomes, Pending, Bound
  <2>4. CASE Confirm(q) /\ call[q].claims
    <3>1. Becomes(q, "execute", TRUE)
      BY <1>6, <2>4, After
    <3>2. ~Dispatch(q)
      BY <2>4 DEF Confirm, Dispatch, At
    <3>3. QED
      BY <1>1, <2>1, <2>2, <2>4, <3>1, <3>2 DEF Becomes, Pending, Bound
  <2>5. CASE Dispatch(q)
    <3>1. Becomes(q, "running", call[q].claims)
      BY <2>5, After
    <3>2. QED
      BY <1>1, <2>1, <2>2, <3>1 DEF Becomes, Pending, Bound
  <2>6. QED
    BY <1>6, <2>3, <2>4, <2>5
<1>7. ASSUME CallbackReturns(q) \/ Readback(q) PROVE FALSE
  BY <1>1, <1>7, After, AfterReadback DEF Becomes
<1>8. QED
  BY <1>2, <1>3, <1>4, <1>5, <1>6, <1>7, CallAfter

LEMMA StillNotOutstanding ==
  ASSUME IInv, Moves, NEW o \in Ops, ~Outstanding(o), Published' = Published
  PROVE  applied'[o] = applied[o] /\ ~Outstanding(o)'
<1>1. inflight[o] = 0 /\ \A p \in Agents : ~Pending(p, o)
  BY DEF Outstanding, Pending, IInv, TypeOK
<1>2. inflight'[o] = 0 /\ applied'[o] = applied[o]
  BY <1>1, WorldStep
<1>3. ASSUME NEW p \in Agents PROVE ~Pending(p, o)'
  <2>1. ~Rename(p)
    <3>1. Published \in Nat
      BY HistoryFacts DEF IInv
    <3>2. Rename(p) => Published' = Published + 1
      BY RenameFacts
    <3>3. QED
      BY <3>1, <3>2
  <2>2. QED
    BY <1>1, <2>1, PendingStep
<1>4. QED
  BY <1>2, <1>3 DEF Outstanding, Pending

\* What continues a history in which an operation is claimed calls it claimed.
LEMMA ClaimContinues ==
  ASSUME IInv, NEW p \in Agents, Rename(p), NEW o \in Ops,
         Said(Published, o) \in Claimed, Outstanding(o) \/ applied[o] > 0
  PROVE  call[p].draft.state.effects[o] \in Claimed
<1>1. /\ Bound(p) = Published /\ call[p].known = History
      /\ call[p].step = "rename"
  BY RenameFacts DEF Rename, At
<1>2. EffectsOf(History)[o] = Said(Published, o)
  BY HistorySays DEF IInv
<1>3. validateTransition(History, call[p].draft)
  BY <1>1 DEF IInv, DraftsAreValid
<1>4. AllowedEffect(Said(Published, o), call[p].draft.state.effects[o],
                    call[p].draft.trigger)
  BY <1>2, <1>3 DEF validateTransition
<1>5. CASE call[p].draft.state.effects[o] = "NOT_APPLIED"
  <2>1. EffectsOf(call[p].known)[o] # "NOT_APPLIED"
    BY <1>1, <1>2 DEF Claimed
  <2>2. applied[o] = 0 /\ ~Outstanding(o)
    BY <1>1, <1>5, <2>1 DEF IInv, DenialsAreTrue
  <2>3. QED
    BY <2>2
<1>6. QED
  BY <1>4, <1>5 DEF AllowedEffect, Claimed

LEMMA DenialsStep ==
  ASSUME IInv, Moves
  PROVE  DenialsAreTrue'
<1> SUFFICES ASSUME NEW q \in Agents, NEW o \in Ops,
                    call'[q].step \in {"rename", "record"},
                    Bound(q)' = Published',
                    call'[q].draft.state.effects[o] = "NOT_APPLIED",
                    EffectsOf(call'[q].known)[o] # "NOT_APPLIED"
             PROVE  applied'[o] = 0 /\ ~Outstanding(o)'
  BY DEF DenialsAreTrue, EffectsOf, Latest
<1>1. /\ Published \in Nat /\ Published' \in Nat /\ Bound(q) <= Published
      /\ Bound(q) \in Nat
      /\ ~PowerLoss => Published <= Published'
  BY BoundType, PublishedStep
<1>2. /\ applied[o] = 0 /\ ~Outstanding(o)
      /\ Published' = Published
  <2>1. CASE call'[q] = Idle
    BY <2>1 DEF Idle
  <2>2. CASE call'[q] = call[q] /\ ~PowerLoss
    <3>1. Bound(q) = Published'
      BY <2>2 DEF Bound
    <3>2. Published' = Published
      BY <1>1, <2>2, <3>1
    <3>3. QED
      BY <2>2, <3>1, <3>2 DEF IInv, DenialsAreTrue
  <2>3. ASSUME NEW c \in Calls, Begins(q, c), call'[q] = c
        PROVE  /\ applied[o] = 0 /\ ~Outstanding(o)
               /\ Published' = Published
    <3>1. Published' = Published
      BY <2>3, SameFiles DEF Begins
    <3>2. c.step = "rename" /\ c.known = History
      BY <2>3 DEF Begins
    <3>3. Said(Published, o) # "NOT_APPLIED"
      BY <2>3, <3>2, HistorySays DEF IInv
    <3>4. QED
      BY <2>3, <3>1, <3>2, <3>3 DEF Begins
  <2>4. ASSUME Readback(q)
        PROVE  /\ applied[o] = 0 /\ ~Outstanding(o)
               /\ Published' = Published
    <3>1. Published' = Published
      BY <2>4, SameFiles DEF Readback, disk
    <3>2. call'[q].known = call[q].known
      BY <2>4, AfterReadback DEF Becomes
    <3>3. Said(Bound(q), o) # "NOT_APPLIED"
      BY <3>2, KnownSays
    <3>4. o = call[q].op
      BY <2>4, <3>3, AfterReadback
    <3>5. QED
      BY <2>4, <3>1, <3>4, AfterReadback
  <2>5. ASSUME \/ Rename(q) \/ Sync(q) \/ (Confirm(q) /\ call[q].claims)
               \/ Dispatch(q) \/ CallbackReturns(q)
        PROVE  call'[q] = Idle
    BY <2>5, After DEF Becomes
  <2>6. QED
    BY <2>1, <2>2, <2>3, <2>4, <2>5, CallAfter
<1>3. QED
  BY <1>2, StillNotOutstanding

\* What the history says after a step was said before or has just been added.
LEMMA SaidStep ==
  ASSUME IInv, Moves, NEW o \in Ops, NEW g \in 0..Published'
  PROVE  \/ g \in 0..Published /\ SaidIn(files', g, o) = Said(g, o)
         \/ \E p \in Agents : /\ Rename(p) /\ g = Published + 1
                              /\ Published' = Published + 1
                              /\ SaidIn(files', g, o) =
                                   call[p].draft.state.effects[o]
<1>1. Published \in Nat
  BY HistoryFacts DEF IInv
<1>2. CASE files' = files
  BY <1>2, SameFiles DEF Said
<1>3. ASSUME NEW p \in Agents, Rename(p)
      PROVE  \/ g \in 0..Published /\ SaidIn(files', g, o) = Said(g, o)
             \/ /\ g = Published + 1 /\ Published' = Published + 1
                /\ SaidIn(files', g, o) = call[p].draft.state.effects[o]
  <2>1. Published' = Published + 1
    BY <1>3, RenameFacts
  <2>2. CASE g \in 0..Published
    BY <1>3, <2>2, RenameKeeps
  <2>3. CASE g = Published + 1
    BY <1>3, <2>1, <2>3, RenameSays
  <2>4. QED
    BY <1>1, <2>1, <2>2, <2>3
<1>4. CASE PowerLoss
  <2>1. Published' \in 0..Published
    BY <1>4, PowerLossFacts
  <2>2. g \in 0..Published
    BY <1>1, <2>1
  <2>3. SaidIn(files', g, o) = Said(g, o)
    BY <1>4, PowerLossFacts
  <2>4. QED
    BY <2>2, <2>3
<1>5. QED
  BY <1>2, <1>3, <1>4 DEF Moves, vars, Begins, flush, Sync, Confirm, Dispatch,
       CallbackReturns, Readback, Fail, Happen, Drop, disk

LEMMA CommitsStep ==
  ASSUME IInv, Moves
  PROVE  CommitsAreTrue'
<1> SUFFICES ASSUME NEW o \in Ops
             PROVE  /\ \A g \in 1..Published' :
                         Said(g, o)' = "COMMITTED" => applied'[o] > 0
                    /\ \A q \in Agents :
                         /\ call'[q].step \in {"rename", "record"}
                         /\ call'[q].draft.state.effects[o] = "COMMITTED"
                         => applied'[o] > 0
  BY DEF CommitsAreTrue
<1>1. applied[o] > 0 => applied'[o] > 0
  BY WorldStep DEF IInv, TypeOK
<1>2. Published \in Nat
  BY HistoryFacts DEF IInv
<1>3. ASSUME NEW g \in 1..Published', Said(g, o)' = "COMMITTED"
      PROVE  applied[o] > 0
  <2>1. SaidIn(files', g, o) = "COMMITTED"
    BY <1>3 DEF Said, SaidIn
  <2>2. Published' \in Nat
    BY PublishedStep
  <2>3. CASE g \in 0..Published /\ SaidIn(files', g, o) = Said(g, o)
    BY <1>3, <2>1, <2>2, <2>3 DEF IInv, CommitsAreTrue
  <2>4. ASSUME NEW p \in Agents, Rename(p),
               SaidIn(files', g, o) = call[p].draft.state.effects[o]
        PROVE  applied[o] > 0
    BY <2>1, <2>4 DEF Rename, At, IInv, CommitsAreTrue
  <2>5. QED
    BY <2>2, <2>3, <2>4, SaidStep
<1>4. ASSUME NEW q \in Agents,
             call'[q].step \in {"rename", "record"},
             call'[q].draft.state.effects[o] = "COMMITTED"
      PROVE  applied[o] > 0
  <2>1. CASE call'[q] = Idle
    BY <1>4, <2>1 DEF Idle
  <2>2. CASE call'[q] = call[q]
    BY <1>4, <2>2 DEF IInv, CommitsAreTrue
  <2>3. ASSUME NEW c \in Calls, Begins(q, c), call'[q] = c
        PROVE  applied[o] > 0
    BY <1>4, <2>3 DEF Begins
  <2>4. CASE Readback(q)
    <3>1. CASE o = call[q].op
      BY <1>4, <2>4, <3>1, AfterReadback
    <3>2. CASE o # call[q].op
      <4>1. Said(Bound(q), o) = "COMMITTED"
        BY <1>4, <2>4, <3>2, AfterReadback
      <4>2. Bound(q) \in 1..Published
        BY <1>2, <4>1, BoundType DEF Said, SaidIn
      <4>3. QED
        BY <4>1, <4>2 DEF IInv, CommitsAreTrue
    <3>3. QED
      BY <3>1, <3>2
  <2>5. ASSUME \/ Rename(q) \/ Sync(q) \/ (Confirm(q) /\ call[q].claims)
               \/ Dispatch(q) \/ CallbackReturns(q)
        PROVE  call'[q] = Idle
    BY <1>4, <2>5, After DEF Becomes
  <2>6. QED
    BY <2>1, <2>2, <2>3, <2>4, <2>5, CallAfter
<1>5. QED
  BY <1>1, <1>3, <1>4

LEMMA PendingIsOutstanding ==
  ASSUME NEW p \in Agents, NEW o, Pending(p, o)
  PROVE  Outstanding(o)
BY DEF Pending, Outstanding

\* A claim that is being published finds the operation prepared, at rest.
LEMMA FreshClaim ==
  ASSUME IInv, NEW p \in Agents, Rename(p), call[p].claims
  PROVE  /\ call[p].op \in Ops
         /\ call[p].draft.state.effects[call[p].op] = "UNKNOWN"
         /\ inflight[call[p].op] = 0 /\ applied[call[p].op] = 0
         /\ \A q \in Agents : ~Pending(q, call[p].op)
<1>1. /\ call[p].op \in Ops /\ call[p].step = "rename"
      /\ call[p].draft.state.effects[call[p].op] = "UNKNOWN"
      /\ EffectsOf(call[p].known)[call[p].op] = "PREPARED"
  BY DEF IInv, CallsAreFormed, DraftsAreValid, Rename, At
<1>2. Said(Published, call[p].op) = "PREPARED"
  BY <1>1, RenameFacts, HistorySays DEF IInv
<1>3. Published \in Nat /\ DOMAIN files = 1..Published
  BY HistoryFacts DEF IInv
<1>4. inflight[call[p].op] \in Nat /\ applied[call[p].op] \in Nat
  BY <1>1 DEF IInv, TypeOK
<1>5. ~(inflight[call[p].op] + applied[call[p].op] > 0)
  <2>1. durable \subseteq 1..Published /\ Published \in 0..Published
    BY <1>3 DEF IInv, TypeOK
  <2>2. "PREPARED" \notin Claimed
    BY DEF Claimed
  <2>3. QED
    BY <1>1, <1>2, <2>1, <2>2 DEF IInv, StartedIsClaimed
<1>6. ASSUME NEW q \in Agents, Pending(q, call[p].op) PROVE FALSE
  <2>1. Published \in Bound(q)..Published
    BY BoundType
  <2>2. Said(Published, call[p].op) \in Claimed
    BY <1>1, <1>6, <2>1 DEF IInv, ClaimsStand
  <2>3. QED
    BY <1>2, <2>2 DEF Claimed
<1>7. QED
  BY <1>1, <1>4, <1>5, <1>6

LEMMA RenameBound ==
  ASSUME IInv, NEW p \in Agents, Rename(p)
  PROVE  Bound(p)' = Published + 1
<1>1. /\ call'[p].known = Append(History, call[p].draft)
      /\ call[p].draft \in Checkpoints
  BY After DEF IInv, CallsAreFormed, Rename, At
<1>2. History \in Seq(Checkpoints) /\ Len(History) = Published
  BY HistoryFacts DEF IInv
<1>3. QED
  BY <1>1, <1>2 DEF Bound

LEMMA ClaimsStep ==
  ASSUME IInv, Moves
  PROVE  ClaimsStand'
<1> SUFFICES ASSUME NEW q \in Agents, NEW o \in Ops, Pending(q, o)'
             PROVE  /\ Bound(q)' > 0
                    /\ \A g \in (Bound(q)')..(Published') :
                         SaidIn(files', g, o) \in Claimed
  BY DEF ClaimsStand, Said, SaidIn
<1>1. /\ Published \in Nat /\ Bound(q) \in Nat /\ Bound(q) <= Published
      /\ Published' \in Nat
  BY BoundType, PublishedStep
<1>2. CASE Pending(q, o) /\ Bound(q)' = Bound(q)
  <2>1. /\ Bound(q) > 0
        /\ \A g \in Bound(q)..Published : Said(g, o) \in Claimed
    BY <1>2 DEF IInv, ClaimsStand
  <2>2. ASSUME NEW g \in Bound(q)..(Published')
        PROVE  SaidIn(files', g, o) \in Claimed
    <3>1. g \in 0..Published' /\ g \in Nat /\ g >= Bound(q)
      BY <1>1
    <3>2. CASE g \in 0..Published /\ SaidIn(files', g, o) = Said(g, o)
      BY <1>1, <2>1, <3>1, <3>2
    <3>3. ASSUME NEW p \in Agents, Rename(p),
                 SaidIn(files', g, o) = call[p].draft.state.effects[o]
          PROVE  SaidIn(files', g, o) \in Claimed
      <4>1. Said(Published, o) \in Claimed
        BY <1>1, <2>1
      <4>2. Outstanding(o)
        BY <1>2, PendingIsOutstanding
      <4>3. QED
        BY <3>3, <4>1, <4>2, ClaimContinues
    <3>4. QED
      BY <3>1, <3>2, <3>3, SaidStep
  <2>3. QED
    BY <1>2, <2>1, <2>2
<1>3. CASE Rename(q) /\ call[q].claims /\ call[q].op = o
  <2>1. Bound(q)' = Published + 1 /\ Published' = Published + 1
    BY <1>3, RenameBound, RenameFacts
  <2>2. ASSUME NEW g, g = Published + 1
        PROVE  SaidIn(files', g, o) \in Claimed
    BY <1>3, <2>2, RenameSays, FreshClaim DEF Claimed
  <2>3. ASSUME NEW g \in (Bound(q)')..(Published') PROVE g = Published + 1
    BY <1>1, <2>1
  <2>4. QED
    BY <1>1, <2>1, <2>2, <2>3
<1>4. QED
  BY <1>2, <1>3, PendingStep

LEMMA ExcludeStep ==
  ASSUME IInv, Moves
  PROVE  ClaimsExclude'
<1> SUFFICES ASSUME NEW p \in Agents, NEW q \in Agents, NEW o \in Ops,
                    Pending(p, o)', Pending(q, o)', p # q
             PROVE  FALSE
  BY DEF ClaimsExclude
<1>1. ASSUME NEW r \in Agents, NEW s \in Agents, r # s,
             Rename(r), Rename(s)
      PROVE  FALSE
  <2>1. call'[s] = call[s]
    BY <1>1, After DEF Others
  <2>2. call[s].step = "rename" /\ call'[s].step = "sync"
    BY <1>1, After DEF Rename, At
  <2>3. QED
    BY <2>1, <2>2
<1>2. CASE Pending(p, o) /\ Pending(q, o)
  BY <1>2 DEF IInv, ClaimsExclude
<1>3. CASE Rename(p) /\ call[p].claims /\ call[p].op = o /\ Pending(q, o)
  BY <1>3, FreshClaim
<1>4. CASE Rename(q) /\ call[q].claims /\ call[q].op = o /\ Pending(p, o)
  BY <1>4, FreshClaim
<1>5. QED
  BY <1>1, <1>2, <1>3, <1>4, PendingStep

LEMMA UndispatchedStep ==
  ASSUME IInv, Moves
  PROVE  ClaimsAreUndispatched'
<1> SUFFICES ASSUME NEW q \in Agents, NEW o \in Ops,
                    Pending(q, o)', call'[q].step # "running"
             PROVE  inflight'[o] = 0 /\ applied'[o] = 0
  BY DEF ClaimsAreUndispatched
<1>1. inflight[o] = 0 /\ applied[o] = 0
  <2>1. CASE Pending(q, o) /\ call[q].step # "running"
    BY <2>1 DEF IInv, ClaimsAreUndispatched
  <2>2. CASE Rename(q) /\ call[q].claims /\ call[q].op = o
    BY <2>2, FreshClaim
  <2>3. QED
    BY <2>1, <2>2, PendingStep
<1>2. ASSUME NEW p \in Agents, Dispatch(p), Pending(p, o) PROVE FALSE
  <2>1. CASE Pending(q, o)
    <3>1. p = q
      BY <1>2, <2>1 DEF IInv, ClaimsExclude
    <3>2. call'[q].step = "running"
      BY <1>2, <3>1, After DEF Becomes
    <3>3. QED
      BY <3>2
  <2>2. CASE Rename(q) /\ call[q].claims /\ call[q].op = o
    BY <1>2, <2>2, FreshClaim
  <2>3. QED
    BY <2>1, <2>2, PendingStep
<1>3. QED
  BY <1>1, <1>2, WorldStep

LEMMA ConfirmedStep ==
  ASSUME IInv, Moves
  PROVE  ConfirmedIsDurable'
<1> SUFFICES ASSUME NEW q \in Agents,
                    call'[q].step \in {"confirm", "execute", "running"}
             PROVE  1..(Bound(q)') \subseteq durable'
  BY DEF ConfirmedIsDurable
<1>1. /\ Published \in Nat /\ Bound(q) \in Nat /\ Bound(q) <= Published
      /\ DOMAIN files = 1..Published
  BY BoundType, HistoryFacts DEF IInv
<1>2. ~PowerLoss => durable \subseteq durable'
  BY DEF IInv, TypeOK, Moves, vars, Begins, flush, Rename, Sync, Confirm,
       Dispatch, CallbackReturns, Readback, Fail, Happen, Drop, disk
<1>3. CASE call'[q] = Idle
  BY <1>3 DEF Idle
<1>4. CASE call'[q] = call[q] /\ ~PowerLoss
  BY <1>2, <1>4 DEF IInv, ConfirmedIsDurable, Bound
<1>5. ASSUME NEW c \in Calls, Begins(q, c), call'[q] = c PROVE FALSE
  BY <1>5 DEF Begins
<1>6. CASE Sync(q)
  <2>1. Bound(q)' = Bound(q) /\ durable' = DOMAIN files
    BY <1>6, After DEF Becomes, Bound, Sync
  <2>2. QED
    BY <1>1, <2>1
<1>7. CASE (Confirm(q) /\ call[q].claims) \/ Dispatch(q)
  <2>1. call'[q] = Idle \/ Bound(q)' = Bound(q)
    BY <1>7, After DEF Becomes, Bound
  <2>2. call[q].step \in {"confirm", "execute"} /\ durable' = durable
    BY <1>7 DEF Confirm, Dispatch, At, disk
  <2>3. QED
    BY <1>3, <2>1, <2>2 DEF IInv, ConfirmedIsDurable
<1>8. ASSUME Rename(q) \/ CallbackReturns(q) \/ Readback(q) PROVE FALSE
  BY <1>8, After, AfterReadback DEF Becomes
<1>9. QED
  BY <1>3, <1>4, <1>5, <1>6, <1>7, <1>8, CallAfter

LEMMA DurableGrows ==
  ASSUME IInv, Moves
  PROVE  durable \subseteq durable'
<1>1. CASE PowerLoss
  BY <1>1, PowerLossFacts
<1>2. CASE ~PowerLoss
  BY <1>2 DEF IInv, TypeOK, Moves, vars, Begins, flush, Rename, Sync, Confirm,
       Dispatch, CallbackReturns, Readback, Fail, Happen, Drop, disk
<1>3. QED
  BY <1>1, <1>2

LEMMA StartedStep ==
  ASSUME IInv, Moves
  PROVE  StartedIsClaimed'
<1> SUFFICES ASSUME NEW o \in Ops, inflight'[o] + applied'[o] > 0,
                    NEW n \in 0..Published', durable' \subseteq 1..n
             PROVE  SaidIn(files', n, o) \in Claimed
  BY DEF StartedIsClaimed, Said, SaidIn
<1>1. /\ Published \in Nat /\ Published' \in Nat /\ n \in Nat
      /\ DOMAIN files = 1..Published
      /\ inflight[o] \in Nat /\ applied[o] \in Nat
  BY HistoryFacts, PublishedStep DEF IInv, TypeOK
<1>2. durable \subseteq 1..n /\ durable \subseteq 1..Published
  BY <1>1, DurableGrows DEF IInv, TypeOK
<1>3. CASE inflight[o] + applied[o] > 0
  <2>1. \A m \in 0..Published : durable \subseteq 1..m => Said(m, o) \in Claimed
    BY <1>3 DEF IInv, StartedIsClaimed
  <2>2. CASE n \in 0..Published /\ SaidIn(files', n, o) = Said(n, o)
    BY <1>2, <2>1, <2>2
  <2>3. ASSUME NEW p \in Agents, Rename(p),
               SaidIn(files', n, o) = call[p].draft.state.effects[o]
        PROVE  SaidIn(files', n, o) \in Claimed
    <3>1. Said(Published, o) \in Claimed
      BY <1>1, <1>2, <2>1
    <3>2. Outstanding(o) \/ applied[o] > 0
      BY <1>1, <1>3 DEF Outstanding
    <3>3. QED
      BY <2>3, <3>1, <3>2, ClaimContinues
  <2>4. QED
    BY <2>2, <2>3, SaidStep
<1>4. CASE ~(inflight[o] + applied[o] > 0)
  <2>1. PICK p \in Agents : Dispatch(p) /\ Pending(p, o)
    BY <1>1, <1>4, WorldStep
  <2>2. files' = files /\ Published' = Published
    BY <2>1, SameFiles DEF Dispatch, disk
  <2>3. 1..Bound(p) \subseteq durable
    BY <2>1 DEF IInv, ConfirmedIsDurable, Dispatch, At
  <2>4. /\ Bound(p) > 0 /\ Bound(p) \in Nat
        /\ \A g \in Bound(p)..Published : Said(g, o) \in Claimed
    BY <2>1, BoundType DEF IInv, ClaimsStand
  <2>5. n \in Bound(p)..Published
    <3>1. Bound(p) \in 1..n
      BY <1>2, <2>3, <2>4
    <3>2. QED
      BY <1>1, <2>2, <2>4, <3>1
  <2>6. QED
    BY <2>2, <2>4, <2>5 DEF Said
<1>5. QED
  BY <1>3, <1>4

LEMMA OnceStep ==
  ASSUME IInv, Moves
  PROVE  StartedOnce'
<1> SUFFICES ASSUME NEW o \in Ops PROVE inflight'[o] + applied'[o] <= 1
  BY DEF StartedOnce
<1>1. /\ inflight[o] \in Nat /\ applied[o] \in Nat
      /\ inflight[o] + applied[o] <= 1
  BY DEF IInv, TypeOK, StartedOnce
<1>2. ASSUME NEW p \in Agents, Dispatch(p), Pending(p, o)
      PROVE  inflight[o] = 0 /\ applied[o] = 0
  BY <1>2 DEF IInv, ClaimsAreUndispatched, Dispatch, At
<1>3. QED
  BY <1>1, <1>2, WorldStep

-----------------------------------------------------------------------------
LEMMA IInvInit ==
  ASSUME Init
  PROVE  IInv
<1>1. /\ files = <<>> /\ DOMAIN files = {} /\ durable = {}
      /\ \A p \in Agents : call[p] = Idle
      /\ \A o \in Ops : inflight[o] = 0 /\ applied[o] = 0
  BY DEF Init
<1>2. Published = 0
  BY <1>1, FS_EmptySet DEF Published
<1>3. Idle \in Calls /\ Len(Idle.known) = 0 /\ Idle.step = "idle" /\ ~Idle.claims
  BY EmptySeq DEF Idle, Calls, Steps
<1>4. TypeOK
  BY <1>1, <1>3, EmptySeq DEF TypeOK, Init
<1>5. Readable
  <2>1. 1..0 = {}
    OBVIOUS
  <2>2. QED
    BY <1>1, <1>2, <2>1 DEF Readable, Published
<1>6. KnownIsPrefix
  BY <1>1, <1>2, <1>3 DEF KnownIsPrefix, Bound
<1>7. CallsAreFormed /\ DraftsAreValid /\ DenialsAreTrue
  BY <1>1, <1>3 DEF CallsAreFormed, DraftsAreValid, DenialsAreTrue
<1>8. CommitsAreTrue
  BY <1>1, <1>2, <1>3 DEF CommitsAreTrue
<1>9. ClaimsStand /\ ClaimsExclude /\ ClaimsAreUndispatched /\ ConfirmedIsDurable
  BY <1>1, <1>3
     DEF ClaimsStand, ClaimsExclude, ClaimsAreUndispatched, ConfirmedIsDurable, Pending
<1>10. StartedIsClaimed /\ StartedOnce
  BY <1>1 DEF StartedIsClaimed, StartedOnce
<1>11. QED
  BY <1>4, <1>5, <1>6, <1>7, <1>8, <1>9, <1>10 DEF IInv

LEMMA IInvStep ==
  ASSUME IInv, [Next]_vars
  PROVE  IInv'
<1>1. Moves
  BY StepsAreMoves
<1>2. QED
  BY <1>1, TypeStep, ReadableStep, KnownStep, FormedStep, DraftsStep, DenialsStep,
     CommitsStep, ClaimsStep, ExcludeStep, UndispatchedStep, ConfirmedStep,
     StartedStep, OnceStep DEF IInv

LEMMA IInvAlways == Spec => []IInv
BY IInvInit, IInvStep, PTL DEF Spec

\* The state stays within its types.
THEOREM TypeCorrect == Spec => []TypeOK
<1>1. IInv => TypeOK
  BY DEF IInv
<1>2. QED
  BY <1>1, IInvAlways, PTL

\* Racing writers, failures and power losses leave a history that can be read:
\* publish checks before the rename, and the rename decides.
THEOREM HistoryStaysIntact == Spec => []HistoryIntact
<1>1. IInv => HistoryIntact
  BY DEF IInv, HistoryIntact
<1>2. QED
  BY <1>1, IInvAlways, PTL

\* However executeEffect and recoverEffect interleave, fail and are repeated, no
\* effect happens twice.
THEOREM EffectsHappenOnce == Spec => []AppliedOnce
<1>1. IInv => AppliedOnce
  BY DEF IInv, StartedOnce, AppliedOnce, TypeOK
<1>2. QED
  BY <1>1, IInvAlways, PTL

\* A claim is beyond the reach of a power failure before its execution begins.
THEOREM DispatchesAreDurable == Spec => []DispatchIsDurable
<1>1. ASSUME IInv PROVE DispatchIsDurable
  <2> SUFFICES ASSUME NEW o \in Ops,
                      \/ inflight[o] + applied[o] > 0
                      \/ \E p \in Agents : At(p, "execute") /\ call[p].op = o,
                      NEW n \in 0..Len(History), durable \subseteq 1..n
               PROVE  EffectsOf(Prefix(History, n))[o] \in {"UNKNOWN", "COMMITTED"}
    BY DEF DispatchIsDurable
  <2>1. Published \in Nat /\ n \in 0..Published /\ n \in Nat
    BY <1>1, HistoryFacts DEF IInv
  <2>2. EffectsOf(Prefix(History, n))[o] = Said(n, o)
    BY <1>1, <2>1, PrefixSays DEF IInv
  <2>3. CASE inflight[o] + applied[o] > 0
    BY <1>1, <2>1, <2>2, <2>3 DEF IInv, StartedIsClaimed, Claimed
  <2>4. ASSUME NEW p \in Agents, At(p, "execute"), call[p].op = o
        PROVE  Said(n, o) \in Claimed
    <3>1. Pending(p, o) /\ 1..Bound(p) \subseteq durable
      BY <1>1, <2>4 DEF IInv, CallsAreFormed, ConfirmedIsDurable, Pending, At
    <3>2. /\ Bound(p) > 0 /\ Bound(p) \in Nat
          /\ \A g \in Bound(p)..Published : Said(g, o) \in Claimed
      BY <1>1, <3>1, BoundType DEF IInv, ClaimsStand
    <3>3. Bound(p) \in 1..n
      BY <3>1, <3>2
    <3>4. n \in Bound(p)..Published
      BY <2>1, <3>2, <3>3
    <3>5. QED
      BY <3>2, <3>4
  <2>5. QED
    BY <2>2, <2>3, <2>4 DEF Claimed
<1>2. QED
  BY <1>1, IInvAlways, PTL

\* A durable generation is never changed or lost: renames do not replace, and a
\* power failure takes only what was not synced.
THEOREM DurableGenerationsAreFinal == Spec => DurableIsFinal
<1>1. ASSUME IInv, [Next]_vars
      PROVE  [\A g \in durable : g \in DOMAIN files' /\ files'[g] = files[g]]_vars
  <2> SUFFICES ASSUME NEW g \in durable
               PROVE  g \in DOMAIN files' /\ files'[g] = files[g]
    OBVIOUS
  <2>1. Moves
    BY <1>1, StepsAreMoves
  <2>2. /\ DOMAIN files = 1..Published /\ g \in 1..Published
        /\ Published \in Nat
    BY <1>1, HistoryFacts DEF IInv, TypeOK
  <2>3. CASE PowerLoss
    BY <1>1, <2>3, PowerLossFacts
  <2>4. CASE ~PowerLoss
    <3>1. IInv'
      BY <1>1, IInvStep
    <3>2. DOMAIN files' = 1..Published'
      BY <3>1 DEF IInv, Readable, Published
    <3>3. Published <= Published' /\ Published' \in Nat /\ files'[g] = files[g]
      BY <1>1, <2>1, <2>2, <2>4, PublishedStep
    <3>4. QED
      BY <2>2, <3>2, <3>3
  <2>5. QED
    BY <2>3, <2>4
<1>2. QED
  BY <1>1, IInvAlways, PTL DEF Spec, DurableIsFinal

\* What confirm or publish has returned is on disk for good.
THEOREM AcknowledgementsAreDurable == Spec => []AcknowledgedIsDurable
<1> DEFINE Good == /\ Len(acked) <= Published
                   /\ 1..Len(acked) \subseteq durable
                   /\ \A i \in 1..Len(acked) : acked[i] = files[i].checkpoint
<1>1. Init => Good
  <2> SUFFICES ASSUME Init PROVE Good
    OBVIOUS
  <2>1. acked = <<>> /\ Len(acked) = 0 /\ Published = 0
    BY EmptySeq, FS_EmptySet DEF Init, Published
  <2>2. QED
    BY <2>1
<1>2. ASSUME IInv, Good, [Next]_vars PROVE Good'
  <2>1. Moves
    BY <1>2, StepsAreMoves
  <2>2. /\ Published \in Nat /\ Published' \in Nat /\ DOMAIN files = 1..Published
        /\ Len(acked) \in Nat
    BY <1>2, <2>1, HistoryFacts, PublishedStep DEF IInv, TypeOK
  <2>3. durable \subseteq durable'
    BY <1>2, <2>1, DurableGrows
  <2>4. \A g \in durable : g \in 1..Published' /\ files'[g] = files[g]
    <3>1. CASE PowerLoss
      BY <1>2, <3>1, PowerLossFacts
    <3>2. CASE ~PowerLoss
      <4>1. /\ Published <= Published'
            /\ \A i \in 1..Published : files'[i] = files[i]
        BY <1>2, <2>1, <3>2, PublishedStep
      <4>2. durable \subseteq 1..Published
        BY <1>2, <2>2 DEF IInv, TypeOK
      <4>3. QED
        BY <2>2, <4>1, <4>2
    <3>3. QED
      BY <3>1, <3>2
  <2>5. CASE acked' = acked
    <3>1. \A i \in 1..Len(acked) : /\ i \in durable' /\ i \in 1..Published'
                                  /\ acked[i] = files'[i].checkpoint
      BY <1>2, <2>3, <2>4
    <3>2. Len(acked) <= Published'
      BY <2>2, <3>1
    <3>3. QED
      BY <2>5, <3>1, <3>2
  <2>6. ASSUME NEW p \in Agents, Confirm(p) PROVE Good'
    <3>1. /\ acked' = call[p].known /\ files' = files /\ durable' = durable
          /\ call[p].step = "confirm"
      BY <2>6 DEF Confirm, At, disk
    <3>2. /\ Bound(p) <= Published
          /\ \A i \in 1..Bound(p) : call[p].known[i] = files[i].checkpoint
          /\ 1..Bound(p) \subseteq durable
      BY <1>2, <3>1 DEF IInv, KnownIsPrefix, ConfirmedIsDurable
    <3>3. Published' = Published
      BY <3>1, SameFiles
    <3>4. QED
      BY <3>1, <3>2, <3>3 DEF Bound
  <2>7. QED
    BY <2>1, <2>5, <2>6 DEF Moves, vars, Begins, flush, Rename, Sync, Dispatch,
         CallbackReturns, Readback, Fail, Happen, Drop, PowerLoss
<1>3. ASSUME IInv, Good PROVE AcknowledgedIsDurable
  <2>1. /\ Published \in Nat /\ \A g \in 1..Published : History[g] = files[g].checkpoint
        /\ acked \in Seq(Checkpoints)
    BY <1>3, HistoryFacts DEF IInv, TypeOK
  <2>2. /\ acked = [i \in 1..Len(acked) |-> acked[i]]
        /\ Len(acked) \in Nat
    BY <2>1, LenProperties
  <2>3. \A i \in 1..Len(acked) : acked[i] = History[i]
    BY <1>3, <2>1, <2>2
  <2>4. QED
    BY <1>3, <2>2, <2>3 DEF AcknowledgedIsDurable, Prefix
<1> HIDE DEF Good
<1>4. QED
  BY <1>1, <1>2, <1>3, IInvAlways, PTL DEF Spec

-----------------------------------------------------------------------------
(* The store implements the abstract ledger. *)

LEMMA RecordedType ==
  ASSUME TypeOK, Readable
  PROVE  EffectsOf(History) \in [Ops -> EffectStates]
<1>1. /\ History \in Seq(Checkpoints) /\ Len(History) = Published
      /\ Published \in Nat
  BY HistoryFacts
<1>2. CASE History = <<>>
  BY <1>2 DEF EffectsOf, EffectStates
<1>3. CASE History # <<>>
  <2>1. Len(History) \in 1..Len(History)
    BY <1>1, <1>3, EmptySeq
  <2>2. Latest(History) \in Checkpoints
    BY <1>1, <2>1, ElementOfSeq DEF Latest
  <2>3. QED
    BY <1>3, <2>2 DEF EffectsOf, Checkpoints, States
<1>4. QED
  BY <1>2, <1>3

\* What is recorded of an operation agrees with what happened.
LEMMA RecordIsTruthful ==
  ASSUME IInv, NEW o \in Ops
  PROVE  /\ EffectsOf(History)[o] = "COMMITTED" => applied[o] = 1
         /\ applied[o] > 0 => EffectsOf(History)[o] \in Claimed
         /\ inflight[o] > 0 => EffectsOf(History)[o] = "UNKNOWN" /\ applied[o] = 0
<1>1. /\ Published \in Nat /\ DOMAIN files = 1..Published
      /\ EffectsOf(History)[o] = Said(Published, o)
      /\ inflight[o] \in Nat /\ applied[o] \in Nat
      /\ inflight[o] + applied[o] <= 1
  BY HistoryFacts, HistorySays DEF IInv, TypeOK, StartedOnce
<1>2. ASSUME Said(Published, o) = "COMMITTED" PROVE applied[o] > 0
  <2>1. Published \in 1..Published
    BY <1>1, <1>2 DEF Said, SaidIn
  <2>2. QED
    BY <1>2, <2>1 DEF IInv, CommitsAreTrue
<1>3. ASSUME inflight[o] + applied[o] > 0 PROVE Said(Published, o) \in Claimed
  <2>1. durable \subseteq 1..Published /\ Published \in 0..Published
    BY <1>1 DEF IInv, TypeOK
  <2>2. QED
    BY <1>3, <2>1 DEF IInv, StartedIsClaimed
<1>4. QED
  BY <1>1, <1>2, <1>3 DEF Claimed

\* Every step of the store is one of the ledger: an execution takes effect, or
\* the record changes in a truthful way.
LEMMA LedgerStep ==
  ASSUME IInv, Moves, IInv'
  PROVE  [Ledger!Next]_<<EffectsOf(History), applied>>
<1>1. /\ EffectsOf(History)' \in [Ops -> EffectStates]
      /\ applied \in [Ops -> Nat] /\ inflight \in [Ops -> Nat]
  <2>1. (TypeOK /\ Readable => EffectsOf(History) \in [Ops -> EffectStates])'
    BY RecordedType, PTL
  <2>2. QED
    BY <2>1 DEF IInv, TypeOK
<1>2. ASSUME NEW o \in Ops, Happen(o)
      PROVE  Ledger!Happen(o) /\ UNCHANGED EffectsOf(History)
  <2>1. EffectsOf(History)[o] = "UNKNOWN" /\ applied[o] = 0
    BY <1>2, RecordIsTruthful DEF Happen
  <2>2. applied' = [applied EXCEPT ![o] = 1]
    BY <1>1, <1>2, <2>1 DEF Happen
  <2>3. UNCHANGED EffectsOf(History)
    BY <1>2 DEF Happen, disk, History
  <2>4. QED
    BY <2>1, <2>2, <2>3 DEF Ledger!Happen
<1>3. ASSUME applied' = applied PROVE Ledger!Record
  <2> SUFFICES ASSUME NEW o \in Ops
               PROVE  /\ Ledger!Truthful(EffectsOf(History)'[o], applied[o])
                      /\ EffectsOf(History)[o] = "COMMITTED" =>
                           EffectsOf(History)'[o] \in {"COMMITTED", "UNKNOWN"}
    BY <1>1, <1>3 DEF Ledger!Record, Ledger!Outcomes, EffectStates
  <2>1. /\ EffectsOf(History)[o] = "COMMITTED" => applied[o] = 1
        /\ applied[o] \in Nat
    BY <1>1, RecordIsTruthful
  <2>2. /\ EffectsOf(History)'[o] = "COMMITTED" => applied'[o] = 1
        /\ applied'[o] > 0 => EffectsOf(History)'[o] \in Claimed
    <3>1. (IInv /\ o \in Ops =>
            /\ EffectsOf(History)[o] = "COMMITTED" => applied[o] = 1
            /\ applied[o] > 0 => EffectsOf(History)[o] \in Claimed)'
      BY RecordIsTruthful, PTL
    <3>2. QED
      BY <3>1 DEF Claimed
  <2>3. Ledger!Truthful(EffectsOf(History)'[o], applied[o])
    BY <1>3, <2>1, <2>2 DEF Ledger!Truthful, Claimed
  <2>4. QED
    BY <1>3, <2>1, <2>2, <2>3 DEF Claimed
<1>4. applied' = applied \/ \E o \in Ops : Happen(o)
  BY DEF Moves, vars, Begins, flush, Rename, Sync, Confirm, Dispatch,
     CallbackReturns, Readback, Fail, Drop, PowerLoss, world
<1>5. QED
  BY <1>2, <1>3, <1>4 DEF Ledger!Next

\* The store implements the ledger of effects: its record and the world never
\* disagree, and an effect happens at most once and only when it is claimed.
THEOREM StoreImplementsLedger == Spec => ImplementsEffectLedger
<1>1. Init => Ledger!Init
  BY DEF Init, Ledger!Init, EffectsOf, History
<1>2. ASSUME IInv, [Next]_vars
      PROVE  [Ledger!Next]_<<EffectsOf(History), applied>>
  <2>1. Moves /\ IInv'
    BY <1>2, StepsAreMoves, IInvStep
  <2>2. QED
    BY <1>2, <2>1, LedgerStep
<1>3. QED
  BY <1>1, <1>2, IInvAlways, PTL DEF Spec, ImplementsEffectLedger, Ledger!Spec
=============================================================================
