--------------------------- MODULE ProviderBridge ---------------------------
(***************************************************************************)
(* The bridge to the policy engine: codex-hook.mjs answers the request of  *)
(* a tool call, provider.mjs evaluates an action envelope.  A hook is a    *)
(* process of its own; an embedding caller passes an envelope and may      *)
(* claim an approval.  Every file is read once, each at its own time,      *)
(* while somebody may replace it, and is used only with a known digest:    *)
(* the three files the code pins, and the runtime files that the pinned    *)
(* manifest lists.  A file's content stands for its digest.                *)
(***************************************************************************)
EXTENDS Naturals, Sequences

CONSTANTS Calls,        \* evaluations, one process or caller each
          Requests,     \* the requests they may bring
          MaxAlter      \* bound: replacements of files

VARIABLES call,         \* each evaluation: where it stands and what it has read
          file,         \* the content of each file
          log, synced,  \* the evidence log, and how many of its lines are on disk
          altersLeft

vars == <<call, file, log, synced, altersLeft>>

Runtime == {"manifest", "installed", "receipt", "modules"}
Files == Runtime \cup {"bindings", "policy", "log"}
Contents == {"pinned", "other", "unusable"}
Decisions == {"allow", "deny", "require_approval", "error"}

Effects == {"read", "workspace_write", "external_write"}
Envelopes == [ids : {"valid", "too long"}, effect : Effects, semantic : {"allow", "deny"},
              requiresApproval : BOOLEAN, approved : BOOLEAN]

Bound(effect, approval) == [ids |-> "valid", effect |-> effect, semantic |-> "allow",
                            requiresApproval |-> approval, approved |-> FALSE]
Unbound == [Bound("read", FALSE) EXCEPT !.semantic = "deny"]

\* A hook names an operation; "long" ids are those of 248 and more characters.
Operations == {"read", "workspace_write", "external_write", "approval_write", "unbound"}
HookRequests == [via : {"hook"}, input : {"malformed", "short id", "long id"},
                 operation : Operations]
CallerRequests == [via : {"caller"}, envelope : Envelopes]

ASSUME BridgeAssumption ==
  Requests \subseteq HookRequests \cup CallerRequests /\ MaxAlter \in Nat

\* action-bindings.json; a replaced file may bind any operation.
operations(content, o) ==
  CASE o = "read"            -> Bound("read", FALSE)
    [] o = "workspace_write" -> Bound("workspace_write", FALSE)
    [] o = "external_write"  -> Bound("external_write", FALSE)
    [] o = "approval_write"  -> Bound("workspace_write", content = "pinned")
    [] OTHER                 -> IF content = "pinned" THEN Unbound ELSE Bound("read", FALSE)

\* policy.json under the pinned engine, the rules in the order of their
\* priority; another engine or another policy may answer anything.
evaluatePolicy(engine, policy, e) ==
  IF engine # "pinned" \/ policy # "pinned"       THEN {"allow", "deny"}
  ELSE IF e.effect = "external_write"             THEN {"deny"}
  ELSE IF e.requiresApproval /\ ~e.approved       THEN {"require_approval"}
  ELSE                                                 {"allow"}

Places == {"idle", "bindings", "evaluate", "approval", "manifest", "installed", "receipt",
           "modules", "policy", "decide", "append", "sync", "reply", "answered", "dead"}

Idle == [at |-> "idle", hook |-> FALSE, operation |-> "unbound", asked |-> Unbound,
         envelope |-> Unbound, manifest |-> "unusable", engine |-> "unusable",
         policy |-> "unusable", decision |-> "error", ids |-> FALSE, answer |-> "none"]

Init == /\ call = [c \in Calls |-> Idle]
        /\ file = [f \in Files |-> "pinned"]
        /\ log = <<>>
        /\ synced = 0
        /\ altersLeft = MaxAlter

TypeOK == /\ call \in [Calls -> [at : Places, hook : BOOLEAN, operation : Operations,
                                 asked : Envelopes, envelope : Envelopes,
                                 manifest : Contents, engine : Contents, policy : Contents,
                                 decision : Decisions, ids : BOOLEAN,
                                 answer : Decisions \cup {"none"}]]
          /\ file \in [Files -> Contents]
          /\ log \in Seq([call : Calls, decision : Decisions, ids : BOOLEAN])
          /\ synced \in 0..Len(log)
          /\ altersLeft \in 0..MaxAlter
-----------------------------------------------------------------------------
At(c, place) == call[c].at = place

Step(c, r) == /\ call' = [call EXCEPT ![c] = r]
              /\ UNCHANGED <<file, log, synced, altersLeft>>

Go(c, place) == [call[c] EXCEPT !.at = place]

\* A hook denies, without an evidence line.
Denied(c) == [Go(c, "answered") EXCEPT !.answer = "deny"]

\* evaluateEnvelope returns: a hook goes on to its evidence, a caller has its answer.
Evaluated(c, decision, ids) ==
  [Go(c, IF call[c].hook THEN "append" ELSE "answered")
     EXCEPT !.decision = decision, !.ids = ids,
            !.answer = IF call[c].hook THEN "none" ELSE decision]

ProviderError(c) == Evaluated(c, "error", TRUE)

\* readHookInput, and the checks of actionEnvelopeFromHook before the first file.
HookStarts(c, r) ==
  /\ At(c, "idle") /\ r.via = "hook"
  /\ Step(c, IF r.input = "malformed" THEN [Denied(c) EXCEPT !.hook = TRUE]
             ELSE [Go(c, "bindings") EXCEPT
                     !.hook = TRUE, !.operation = r.operation,
                     !.asked = [operations("pinned", r.operation) EXCEPT
                                  !.ids = IF r.input = "long id" THEN "too long" ELSE "valid"]])

CallerStarts(c, r) ==
  /\ At(c, "idle") /\ r.via = "caller"
  /\ Step(c, [Go(c, "evaluate") EXCEPT !.asked = r.envelope, !.envelope = r.envelope])

\* Mutant: the bindings are used as they are found.
BindingsOfFile(c) == file["bindings"] # "unusable"

BindingsPinned(c) == file["bindings"] = "pinned"

\* actionEnvelopeFromHook: the ids get a prefix, the approval is never valid.
ReadBindings(c) ==
  /\ At(c, "bindings")
  /\ LET e == operations(file["bindings"], call[c].operation)
     IN  Step(c, IF BindingsPinned(c) /\ e # Unbound
                 THEN [Go(c, "evaluate") EXCEPT !.envelope = [e EXCEPT !.ids = call[c].asked.ids]]
                 ELSE Denied(c))

\* validateEnvelope, and the decisions that need no provider.
Evaluate(c) ==
  /\ At(c, "evaluate")
  /\ LET e == call[c].envelope
     IN  Step(c, IF e.ids # "valid"           THEN Evaluated(c, "error", FALSE)
                 ELSE IF e.semantic = "deny"  THEN Evaluated(c, "deny", TRUE)
                 ELSE IF e.approved           THEN Go(c, "approval")
                 ELSE                              Go(c, "manifest"))

\* Mutant: an approval that no verifier confirmed stays valid.
Effective(c, verdict) == call[c].envelope

\* The envelope the engine sees: a claimed approval counts when it is confirmed.
EffectiveEnvelope(c, verdict) == [call[c].envelope EXCEPT !.approved = (verdict = "confirmed")]

VerifyApproval(c, verdict) ==
  /\ At(c, "approval")
  /\ Step(c, IF verdict = "throws" THEN ProviderError(c)
             ELSE [Go(c, "manifest") EXCEPT
                     !.envelope = EffectiveEnvelope(c, verdict),
                     !.asked.approved = (verdict = "confirmed")])
-----------------------------------------------------------------------------
(* loadVerifiedPolicyEngine, readHandleBoundFile *)

\* Mutant: the manifest is not compared with its pinned digest.
manifestUsable(content) == content # "unusable"

manifestVerified(content) == content = "pinned"

ReadManifest(c) ==
  /\ At(c, "manifest")
  /\ Step(c, IF manifestVerified(file["manifest"])
             THEN [Go(c, "installed") EXCEPT !.manifest = file["manifest"]]
             ELSE ProviderError(c))

\* A runtime file must be the one that the manifest it was read with lists.
Listed(c, f) == file[f] = call[c].manifest

ReadInstalled(c) == /\ At(c, "installed")
                    /\ Step(c, IF Listed(c, "installed") THEN Go(c, "receipt") ELSE ProviderError(c))

ReadReceipt(c) == /\ At(c, "receipt")
                  /\ Step(c, IF Listed(c, "receipt") THEN Go(c, "modules") ELSE ProviderError(c))

ReadModules(c) == /\ At(c, "modules")
                  /\ Step(c, IF Listed(c, "modules")
                             THEN [Go(c, "policy") EXCEPT !.engine = file["modules"]]
                             ELSE ProviderError(c))

ReadPolicy(c) == /\ At(c, "policy")
                 /\ Step(c, IF file["policy"] = "pinned"
                            THEN [Go(c, "decide") EXCEPT !.policy = file["policy"]]
                            ELSE ProviderError(c))

Decide(c) == /\ At(c, "decide")
             /\ \E d \in evaluatePolicy(call[c].engine, call[c].policy, call[c].envelope) :
                  Step(c, Evaluated(c, d, TRUE))

\* The modules do not load, the engine throws or a read fails.
EngineFails(c) == /\ call[c].at \in {"manifest", "installed", "receipt", "modules", "policy", "decide"}
                  /\ Step(c, ProviderError(c))
-----------------------------------------------------------------------------
(* appendEvidence and the answer of the hook *)

Line(c) == [call |-> c, decision |-> call[c].decision, ids |-> call[c].ids]

AppendLine(c) == /\ At(c, "append")
                 /\ file["log"] = "pinned"
                 /\ log' = Append(log, Line(c))
                 /\ call' = [call EXCEPT ![c].at = "sync"]
                 /\ UNCHANGED <<file, synced, altersLeft>>

SyncLog(c) == /\ At(c, "sync")
              /\ synced' = Len(log)
              /\ call' = [call EXCEPT ![c].at = "reply"]
              /\ UNCHANGED <<file, log, altersLeft>>

\* Mutant: the decision stands although its evidence could not be written.
LogFailsOpen(c) == /\ call[c].at \in {"append", "sync"}
                   /\ Step(c, Go(c, "reply"))

\* The log is no private file, or the write or the sync fails.
LogFails(c) == /\ call[c].at \in {"append", "sync"}
               /\ Step(c, Denied(c))

Reply(c) == /\ At(c, "reply")
            /\ Step(c, [Go(c, "answered") EXCEPT
                          !.answer = IF call[c].decision = "allow" THEN "allow" ELSE "deny"])
-----------------------------------------------------------------------------
Die(c) == /\ call[c].at \notin {"idle", "answered", "dead"}
          /\ Step(c, Go(c, "dead"))

\* The machine stops: the log keeps what was synced, and perhaps more.
PowerLoss == /\ \E n \in synced..Len(log) : log' = SubSeq(log, 1, n) /\ synced' = n
             /\ call' = [c \in Calls |-> IF call[c].at \in {"idle", "answered"} THEN call[c]
                                         ELSE [call[c] EXCEPT !.at = "dead"]]
             /\ UNCHANGED <<file, altersLeft>>

\* Somebody replaces one file, or installs another runtime.
Alter == /\ altersLeft > 0
         /\ altersLeft' = altersLeft - 1
         /\ \E S \in {{f} : f \in Files} \cup {Runtime}, x \in Contents :
              file' = [f \in Files |-> IF f \in S THEN x ELSE file[f]]
         /\ UNCHANGED <<call, log, synced>>

Next == \/ \E c \in Calls :
             \/ \E r \in Requests : HookStarts(c, r) \/ CallerStarts(c, r)
             \/ ReadBindings(c) \/ Evaluate(c)
             \/ \E v \in {"confirmed", "refused", "throws"} : VerifyApproval(c, v)
             \/ ReadManifest(c) \/ ReadInstalled(c) \/ ReadReceipt(c) \/ ReadModules(c)
             \/ ReadPolicy(c) \/ Decide(c) \/ EngineFails(c)
             \/ AppendLine(c) \/ SyncLog(c) \/ LogFails(c) \/ Reply(c) \/ Die(c)
        \/ PowerLoss \/ Alter

Spec == Init /\ [][Next]_vars
-----------------------------------------------------------------------------
\* An action is allowed only if the pinned bindings (or the caller) authorize
\* it, the pinned policy permits its effect and a needed approval was
\* confirmed, whatever files were replaced between two reads of the evaluation
\* (provider.mjs 151-249, 258-329; codex-hook.mjs 55-135).
AllowIsAuthorized ==
  \A c \in Calls : call[c].answer = "allow" =>
    LET e == call[c].asked
    IN  /\ e.semantic = "allow"
        /\ e.effect \in {"read", "workspace_write"}
        /\ e.requiresApproval => e.approved

\* A hook that allowed left a line with its decision and its ids in the
\* evidence log, and no power loss takes it away (codex-hook.mjs 137-193).
AllowHasEvidence ==
  \A c \in Calls : call[c].hook /\ call[c].answer = "allow" =>
    \E i \in 1..Len(log) : log[i] = [call |-> c, decision |-> "allow", ids |-> TRUE]
=============================================================================
