------------------------ MODULE ResumeCheckpointStore ------------------------
(***************************************************************************)
(* The append-only store of resume checkpoints (src/resume-checkpoint.ts,   *)
(* src/resume-checkpoint-schema.ts) and the external effects it guards.     *)
(*                                                                         *)
(* Each generation is one file, 1.json, 2.json, ..., that is written under  *)
(* another name, renamed without replacing, and then made durable by a sync *)
(* of the directory.  Writers take no lock: each states the checkpoint it   *)
(* has seen, and loses when another one has published that generation.      *)
(* An external effect is claimed by a published checkpoint before it is     *)
(* executed, and its outcome is recorded after a readback of the world.     *)
(*                                                                         *)
(* The fingerprint of a checkpoint covers that of its predecessor, so it    *)
(* stands for the whole history up to it: an identity is a history here.    *)
(***************************************************************************)
EXTENDS Naturals, FiniteSets, Sequences

CONSTANTS
  Agents,          \* callers of the store, each with one call at a time
  Ops,             \* operation ids of external effects
  Events,          \* event ids that callers give to what they materialize
  Payloads,        \* everything in a state but the effects
  Nothing,         \* no operation, no draft
  MaxGenerations   \* bound: generations published

Triggers == {"task", "effect_prepared", "effect_executed", "effect_readback"}
EffectStates == {"none", "PREPARED", "UNKNOWN", "COMMITTED", "NOT_APPLIED"}
States == [payload : Payloads, effects : [Ops -> EffectStates]]

\* The event of a claim or a readback is a fresh UUID; the agent's name and
\* the generation stand for it.
Checkpoints == [event : Events \cup Agents, trigger : Triggers, state : States]

VARIABLES
  \* on disk
  files,      \* the published generations: the checkpoint and its previous history
  durable,    \* the generations that a power failure cannot take back
  \* the agents
  call,       \* the call each agent is in
  \* the world
  inflight,   \* executions of each operation that have not come to an end
  applied,    \* how often the effect of each operation has happened
  \* observation only
  acked       \* the last history that was confirmed to a caller

disk == <<files, durable>>
world == <<inflight, applied>>
vars == <<files, durable, call, inflight, applied, acked>>

ASSUME StoreAssumption ==
  /\ Agents \cap Events = {}
  /\ Nothing \notin Ops \cup Checkpoints
  /\ MaxGenerations \in Nat

Idle == [step |-> "idle", known |-> <<>>, draft |-> Nothing, op |-> Nothing,
         claims |-> FALSE]

Steps == {"idle", "rename", "sync", "confirm", "execute", "running", "readback",
          "record"}
Calls == [step   : Steps,
          known  : Seq(Checkpoints),         \* the identity the call is bound to
          draft  : Checkpoints \cup {Nothing},
          op     : Ops \cup {Nothing},
          claims : BOOLEAN]                  \* the call will execute op

-----------------------------------------------------------------------------
Prefix(h, n) == [i \in 1..n |-> h[i]]
Latest(h) == h[Len(h)]

\* What a checkpoint of history h says of each operation.
EffectsOf(h) ==
  IF h = <<>> THEN [o \in Ops |-> "none"] ELSE Latest(h).state.effects

\* Mutant: an unknown outcome may be prepared again.
AllowedEffectAgain(old, new, trigger) ==
  \/ old = new
  \/ old \in {"PREPARED", "UNKNOWN"} /\ trigger = "effect_readback"
     /\ new \in {"UNKNOWN", "COMMITTED", "NOT_APPLIED"}
  \/ old = "PREPARED" /\ trigger = "effect_executed" /\ new = "UNKNOWN"
  \/ trigger = "effect_prepared" /\ new = "PREPARED"

\* The changes of an effect that a checkpoint of this trigger may make.
AllowedEffect(old, new, trigger) ==
  \/ old = new
  \/ old \in {"PREPARED", "UNKNOWN"} /\ trigger = "effect_readback"
     /\ new \in {"UNKNOWN", "COMMITTED", "NOT_APPLIED"}
  \/ old = "PREPARED" /\ trigger = "effect_executed" /\ new = "UNKNOWN"
  \/ old \in {"none", "NOT_APPLIED"} /\ trigger = "effect_prepared"
     /\ new = "PREPARED"

validateTransition(h, cp) ==
  \A o \in Ops :
    AllowedEffect(EffectsOf(h)[o], cp.state.effects[o], cp.trigger)

\* history() accepts the files: one gapless chain of valid transitions in which
\* no event is repeated.
Readable ==
  /\ DOMAIN files = 1..Cardinality(DOMAIN files)
  /\ \A g \in DOMAIN files :
       /\ files[g].previous = [i \in 1..(g - 1) |-> files[i].checkpoint]
       /\ validateTransition(files[g].previous, files[g].checkpoint)
       /\ \A i \in 1..(g - 1) :
            files[g].checkpoint.event \in Events =>
              files[g].checkpoint.event # files[i].checkpoint.event

History == [g \in DOMAIN files |-> files[g].checkpoint]

\* Mutant: only the generation is compared with what is there, loosely.
matchesAny(actual, expected) == Len(actual) >= Len(expected)

matches(actual, expected) == actual = expected

\* read(expected) succeeds.
Reads(expected) == Readable /\ matches(History, expected)

-----------------------------------------------------------------------------
Init ==
  /\ files = <<>>
  /\ durable = {}
  /\ call = [p \in Agents |-> Idle]
  /\ inflight = [o \in Ops |-> 0]
  /\ applied = [o \in Ops |-> 0]
  /\ acked = <<>>

At(p, step) == call[p].step = step
Enter(p, c) == call' = [call EXCEPT ![p] = c]
Go(p, step) == call' = [call EXCEPT ![p].step = step]

-----------------------------------------------------------------------------
(* publish: decide on a request against the history as it is read now. *)

\* Mutant: events are not looked up.
RepeatedNever(event) == FALSE

Repeated(event) ==
  /\ event \in Events
  /\ \E g \in DOMAIN files : files[g].checkpoint.event = event

\* The latest checkpoint is this very request, published before.
RepeatsLatest(expected, cp) ==
  /\ Len(History) > 0
  /\ cp.event \in Events
  /\ Latest(History) = cp
  /\ matches(Prefix(History, Len(History) - 1), expected)

AddsNothing(expected, cp) ==
  /\ ~Repeated(cp.event)
  /\ matches(History, expected)
  /\ Len(History) > 0
  /\ Latest(History).state = cp.state

\* An outcome that the latest checkpoint does not have.
NewOutcome(cp) ==
  \E o \in Ops : /\ cp.state.effects[o] \in {"COMMITTED", "NOT_APPLIED"}
                 /\ cp.state.effects[o] # EffectsOf(History)[o]

Publishable(expected, cp, byReadback) ==
  /\ ~Repeated(cp.event)
  /\ matches(History, expected)
  /\ ~AddsNothing(expected, cp)
  /\ validateTransition(History, cp)
  /\ byReadback \/ ~NewOutcome(cp)

\* A call that is bound to the history as it is now.
Bind(p, step, draft, o, claims) ==
  Enter(p, [step |-> step, known |-> History, draft |-> draft, op |-> o,
            claims |-> claims])

\* Mutant: what is there already is not synced again.
ConfirmingUnsynced(p, o, claims) == Bind(p, "confirm", Nothing, o, claims)

\* confirm(current): sync, then read it back.
Confirming(p, o, claims) == Bind(p, "sync", Nothing, o, claims)

\* The complete checkpoint is staged under another name.
Staging(p, cp, o, claims) ==
  /\ Len(History) < MaxGenerations
  /\ Bind(p, "rename", cp, o, claims)

publish(p, expected, cp, byReadback, o, claims) ==
  /\ Readable
  /\ \/ /\ RepeatsLatest(expected, cp) \/ AddsNothing(expected, cp)
        /\ Confirming(p, o, claims)
     \/ /\ Publishable(expected, cp, byReadback)
        /\ Staging(p, cp, o, claims)

-----------------------------------------------------------------------------
(* The calls. A rejected call changes nothing or ends with Fail. *)

\* A caller may state any identity it has read before.
materialize(p) ==
  /\ At(p, "idle")
  /\ \E n \in 0..Len(History), cp \in Checkpoints :
       /\ cp.event \in Events
       /\ publish(p, Prefix(History, n), cp, FALSE, Nothing, FALSE)
  /\ UNCHANGED <<disk, world, acked>>

flush(p) ==
  /\ At(p, "idle")
  /\ durable' = DOMAIN files
  /\ UNCHANGED <<files, call, world, acked>>

WithEffect(p, h, o, trigger, effect) ==
  [event |-> p, trigger |-> trigger,
   state |-> [Latest(h).state EXCEPT !.effects[o] = effect]]

\* The checkpoint that claims an operation: its event is new each time.
Claim(p, o) == WithEffect(p, History, o, "effect_executed", "UNKNOWN")

\* Mutant: an operation of unknown outcome is executed again.
executeEffectAgain(p, o) ==
  /\ At(p, "idle")
  /\ Readable
  /\ \/ EffectsOf(History)[o] = "COMMITTED" /\ Confirming(p, Nothing, FALSE)
     \/ /\ EffectsOf(History)[o] \in {"PREPARED", "UNKNOWN"}
        /\ publish(p, History, Claim(p, o), FALSE, o, TRUE)
  /\ UNCHANGED <<disk, world, acked>>

\* The first read of the store is the one that publish repeats with the identity
\* it returned.
executeEffect(p, o) ==
  /\ At(p, "idle")
  /\ Readable
  /\ \/ EffectsOf(History)[o] = "COMMITTED" /\ Confirming(p, Nothing, FALSE)
     \/ /\ EffectsOf(History)[o] = "PREPARED"
        /\ publish(p, History, Claim(p, o), FALSE, o, TRUE)
  /\ UNCHANGED <<disk, world, acked>>

\* Mutant: the rename replaces a generation that is there.
RenameReplacing(p) ==
  LET c == call[p]
      g == Len(c.known) + 1
  IN  /\ At(p, "rename")
      /\ files' = [i \in DOMAIN files \cup {g} |->
                    IF i = g THEN [previous |-> c.known, checkpoint |-> c.draft]
                             ELSE files[i]]
      /\ Enter(p, [c EXCEPT !.step = "sync", !.known = Append(c.known, c.draft),
                            !.draft = Nothing])
      /\ UNCHANGED <<durable, world, acked>>

Rename(p) ==
  LET c == call[p]
      g == Len(c.known) + 1
  IN  /\ At(p, "rename")
      /\ g \notin DOMAIN files
      /\ files' = [i \in DOMAIN files \cup {g} |->
                    IF i = g THEN [previous |-> c.known, checkpoint |-> c.draft]
                             ELSE files[i]]
      /\ Enter(p, [c EXCEPT !.step = "sync", !.known = Append(c.known, c.draft),
                            !.draft = Nothing])
      /\ UNCHANGED <<durable, world, acked>>

\* Mutant: the directory is not synced.
SyncSkipped(p) ==
  /\ At(p, "sync")
  /\ Go(p, "confirm")
  /\ UNCHANGED <<disk, world, acked>>

Sync(p) ==
  /\ At(p, "sync")
  /\ durable' = DOMAIN files
  /\ Go(p, "confirm")
  /\ UNCHANGED <<files, world, acked>>

\* The call reads its checkpoint back, and returns or goes on to the effect.
Confirm(p) ==
  /\ At(p, "confirm")
  /\ Reads(call[p].known)
  /\ acked' = call[p].known
  /\ IF call[p].claims THEN Go(p, "execute") ELSE Enter(p, Idle)
  /\ UNCHANGED <<disk, world>>

Dispatch(p) ==
  /\ At(p, "execute")
  /\ inflight' = [inflight EXCEPT ![call[p].op] = @ + 1]
  /\ Go(p, "running")
  /\ UNCHANGED <<disk, applied, acked>>

\* The callback returns; recoverEffect reads the claim again.
CallbackReturns(p) ==
  /\ At(p, "running")
  /\ Reads(call[p].known)
  /\ Enter(p, [call[p] EXCEPT !.step = "readback", !.claims = FALSE])
  /\ UNCHANGED <<disk, world, acked>>

recoverEffect(p, o) ==
  /\ At(p, "idle")
  /\ Readable
  /\ \/ /\ EffectsOf(History)[o] \in {"COMMITTED", "NOT_APPLIED"}
        /\ Confirming(p, Nothing, FALSE)
     \/ /\ EffectsOf(History)[o] \in {"PREPARED", "UNKNOWN"}
        /\ Bind(p, "readback", Nothing, o, FALSE)
  /\ UNCHANGED <<disk, world, acked>>

\* The authority must know of executions that are pending: claimed and not begun.
Outstanding(o) ==
  \/ inflight[o] > 0
  \/ \E p \in Agents : /\ call[p].claims /\ call[p].op = o
                       /\ call[p].step \in {"sync", "confirm", "execute", "running"}

\* What the external authority may answer about an operation.
Answers(o) ==
  {"UNKNOWN"}
    \cup (IF applied[o] > 0 THEN {"APPLIED"} ELSE {})
    \cup (IF applied[o] = 0 /\ ~Outstanding(o) THEN {"NOT_APPLIED"} ELSE {})

StatusOf(answer) == IF answer = "APPLIED" THEN "COMMITTED" ELSE answer

Readback(p) ==
  LET c == call[p]
  IN  /\ At(p, "readback")
      /\ \E answer \in Answers(c.op) :
           Enter(p, [c EXCEPT !.step = "record",
             !.draft = WithEffect(p, c.known, c.op, "effect_readback",
                                  StatusOf(answer))])
      /\ UNCHANGED <<disk, world, acked>>

Record(p) ==
  /\ At(p, "record")
  /\ publish(p, call[p].known, call[p].draft, TRUE, Nothing, FALSE)
  /\ UNCHANGED <<disk, world, acked>>

\* A check rejects, an operation or a callback throws, or the process dies.
Fail(p) ==
  /\ ~At(p, "idle")
  /\ Enter(p, Idle)
  /\ UNCHANGED <<disk, world, acked>>

-----------------------------------------------------------------------------
(* The world, and the machine. *)

Happen(o) ==
  /\ inflight[o] > 0
  /\ inflight' = [inflight EXCEPT ![o] = @ - 1]
  /\ applied' = [applied EXCEPT ![o] = @ + 1]
  /\ UNCHANGED <<disk, call, acked>>

Drop(o) ==
  /\ inflight[o] > 0
  /\ inflight' = [inflight EXCEPT ![o] = @ - 1]
  /\ UNCHANGED <<disk, call, applied, acked>>

\* The latest renames that were not synced may be lost, and every process dies.
PowerLoss ==
  \E n \in 0..Len(History) :
    /\ durable \subseteq 1..n
    /\ files' = [g \in 1..n |-> files[g]]
    /\ durable' = 1..n
    /\ call' = [p \in Agents |-> Idle]
    /\ UNCHANGED <<world, acked>>

Step(p) ==
  \/ materialize(p) \/ flush(p)
  \/ \E o \in Ops : executeEffect(p, o) \/ recoverEffect(p, o)
  \/ Rename(p) \/ Sync(p) \/ Confirm(p)
  \/ Dispatch(p) \/ CallbackReturns(p) \/ Readback(p) \/ Record(p)
  \/ Fail(p)

Next ==
  \/ \E p \in Agents : Step(p)
  \/ \E o \in Ops : Happen(o) \/ Drop(o)
  \/ PowerLoss

Spec == Init /\ [][Next]_vars

-----------------------------------------------------------------------------
TypeOK ==
  /\ DOMAIN files \subseteq 1..MaxGenerations
  /\ \A g \in DOMAIN files :
       files[g] \in [previous : Seq(Checkpoints), checkpoint : Checkpoints]
  /\ durable \subseteq DOMAIN files
  /\ call \in [Agents -> Calls]
  /\ inflight \in [Ops -> Nat]
  /\ applied \in [Ops -> Nat]
  /\ acked \in Seq(Checkpoints)

\* Whatever writers race, fail or lose power, the published files can be read:
\* one chain without a gap, a repeated event or an invalid transition.  A store
\* that history() rejects would be rejected for ever.
HistoryIntact == Readable

\* An effect happens at most once, whoever executes, recovers, retries or dies.
AppliedOnce == \A o \in Ops : applied[o] <= 1

\* Before an execution begins its claim is where no power failure can take it
\* from: no surviving history lets the operation be executed again.
DispatchIsDurable ==
  \A o \in Ops :
    (\/ inflight[o] + applied[o] > 0
     \/ \E p \in Agents : At(p, "execute") /\ call[p].op = o) =>
      \A n \in 0..Len(History) :
        durable \subseteq 1..n =>
          EffectsOf(Prefix(History, n))[o] \in {"UNKNOWN", "COMMITTED"}

\* What was confirmed to a caller is on disk for good.
AcknowledgedIsDurable ==
  /\ 1..Len(acked) \subseteq durable
  /\ acked = Prefix(History, Len(acked))

\* No step changes or removes a durable generation.
DurableIsFinal ==
  [][\A g \in durable : g \in DOMAIN files' /\ files'[g] = files[g]]_vars

\* The store is a truthful record of effects that happen at most once, and only
\* while it calls their outcome unknown.
Ledger == INSTANCE EffectLedger WITH recorded <- EffectsOf(History),
                                     happened <- applied
ImplementsEffectLedger == Ledger!Spec
=============================================================================
