------------------------ MODULE ProviderBridgeProofs ------------------------
(***************************************************************************)
(* Proofs about the provider bridge, for any number of evaluations and of  *)
(* replaced files, and for any requests of the two kinds.                  *)
(*                                                                         *)
(* The argument: what an evaluation has read, and found to be pinned, is   *)
(* what it decides with, whatever the files are by then (Settled); and the *)
(* line of a hook that may allow is among those on disk (Evident).         *)
(***************************************************************************)
EXTENDS ProviderBridge, TLAPS

Records == [at : Places, hook : BOOLEAN, operation : Operations,
            asked : Envelopes, envelope : Envelopes,
            manifest : Contents, engine : Contents, policy : Contents,
            decision : Decisions, ids : BOOLEAN, answer : Decisions \cup {"none"}]
Lines == [call : Calls, decision : Decisions, ids : BOOLEAN]

Before == {"idle", "bindings", "evaluate", "approval", "manifest", "installed", "receipt",
           "modules", "policy", "decide"}
Verified == {"manifest", "installed", "receipt", "modules", "policy", "decide"}

Permitted(e) == /\ e.semantic = "allow"
                /\ e.effect \in {"read", "workspace_write"}
                /\ e.requiresApproval => e.approved

\* What an evaluation holds at each place.
Settled(k) ==
  /\ k.at = "idle" => k.hook = FALSE
  /\ k.at \in Before => k.decision = "error" /\ k.answer = "none"
  /\ k.at = "bindings" => k.asked = [operations("pinned", k.operation) EXCEPT !.ids = k.asked.ids]
  /\ k.at \in {"evaluate", "approval"} \cup Verified => k.envelope = k.asked
  /\ k.at \in {"approval"} \cup Verified => k.asked.semantic = "allow"
  /\ k.at \in Verified \ {"manifest"} => k.manifest = "pinned"
  /\ k.at \in {"policy", "decide"} => k.engine = "pinned"
  /\ k.at = "decide" => k.policy = "pinned"
  /\ k.decision = "allow" => k.ids = TRUE /\ Permitted(k.asked)
  /\ k.answer = "allow" => k.at = "answered" /\ k.decision = "allow"

InLog(line, n) == \E i \in 1..n : log[i] = line

\* The line of an evaluation that goes on to allow.
Evident(c) == /\ call[c].at = "sync" => InLog(Line(c), Len(log))
              /\ call[c].at = "reply" => InLog(Line(c), synced)
              /\ call[c].hook = TRUE /\ call[c].answer = "allow" => InLog(Line(c), synced)

IInv == /\ TypeOK
        /\ \A c \in Calls : Settled(call[c]) /\ Evident(c)

\* The steps that read, decide and answer, and leave the log alone.
Reads(c) == \/ \E r \in Requests : HookStarts(c, r) \/ CallerStarts(c, r)
            \/ ReadBindings(c) \/ Evaluate(c)
            \/ \E v \in {"confirmed", "refused", "throws"} : VerifyApproval(c, v)
            \/ ReadManifest(c) \/ ReadInstalled(c) \/ ReadReceipt(c) \/ ReadModules(c)
            \/ ReadPolicy(c) \/ Decide(c) \/ EngineFails(c)
            \/ LogFails(c) \/ Reply(c) \/ Die(c)

LEMMA Bindings ==
  \A o, x : operations(x, o) \in Envelopes /\ operations(x, o).semantic \in {"allow", "deny"}
BY DEF operations, Bound, Unbound, Envelopes, Effects

\* What an evaluation may go on with.
Fits(c, k) == /\ k \in Records /\ Settled(k)
              /\ k.at \notin {"sync", "reply"}
              /\ k.hook = TRUE /\ k.answer = "allow" =>
                   call[c].at = "reply" /\ k.decision = call[c].decision /\ k.ids = call[c].ids

LEMMA HereFits ==
  ASSUME IInv, NEW c \in Calls
  PROVE  call[c] \in Records /\ Settled(call[c])
BY DEF IInv, TypeOK, Records

\* evaluateEnvelope returns a decision.
LEMMA EvaluatedFits ==
  ASSUME IInv, NEW c \in Calls, call[c].at \in Before, call[c].at # "idle",
         NEW d \in Decisions, NEW ids \in BOOLEAN,
         d = "allow" => ids = TRUE /\ Permitted(call[c].asked)
  PROVE  Fits(c, Evaluated(c, d, ids))
<1> USE HereFits DEF Records, Places, Decisions, Settled, Before, Verified
<1>1. ASSUME NEW k, k = Evaluated(c, d, ids) PROVE Fits(c, k)
  <2>1. CASE call[c].hook = TRUE
    <3>1. k = [call[c] EXCEPT !.at = "append", !.decision = d, !.ids = ids, !.answer = "none"]
      BY <1>1, <2>1 DEF Evaluated, Go
    <3>2. /\ k \in Records /\ k.decision = d /\ k.ids = ids /\ k.asked = call[c].asked
          /\ k.at = "append" /\ k.answer = "none"
      BY ZenonT(30), <3>1
    <3> QED
      BY <3>2 DEF Fits
  <2>2. CASE call[c].hook = FALSE
    <3>1. k = [call[c] EXCEPT !.at = "answered", !.decision = d, !.ids = ids, !.answer = d]
      BY <1>1, <2>2 DEF Evaluated, Go
    <3>2. /\ k \in Records /\ k.decision = d /\ k.ids = ids /\ k.asked = call[c].asked
          /\ k.hook = FALSE /\ k.at = "answered" /\ k.answer = d
      BY ZenonT(30), <2>2, <3>1
    <3> QED
      BY <3>2 DEF Fits
  <2> QED
    BY <2>1, <2>2
<1> QED
  BY <1>1

\* readHookInput, or an envelope that is handed over.
LEMMA StartsFit ==
  ASSUME IInv, NEW c \in Calls, NEW r \in Requests,
         HookStarts(c, r) \/ CallerStarts(c, r)
  PROVE  \E k : Step(c, k) /\ Fits(c, k)
<1> USE HereFits DEF Records, Places, Decisions, Settled, Before, Verified
<1>1. CASE CallerStarts(c, r)
  <2>1. r.envelope \in Envelopes
    BY BridgeAssumption, <1>1 DEF CallerStarts, HookRequests, CallerRequests
  <2>2. PICK k : /\ k = [call[c] EXCEPT !.at = "evaluate", !.asked = r.envelope, !.envelope = r.envelope]
                 /\ Step(c, k)
    BY <1>1 DEF CallerStarts, Go
  <2>3. Fits(c, k)
    BY ZenonT(30), <1>1, <2>1, <2>2 DEF Fits, CallerStarts, At
  <2> QED
    BY <2>2, <2>3
<1>2. CASE HookStarts(c, r) /\ r.input = "malformed"
  <2>1. PICK k : /\ k = [call[c] EXCEPT !.at = "answered", !.answer = "deny", !.hook = TRUE]
                 /\ Step(c, k)
    BY <1>2 DEF HookStarts, Denied, Go
  <2>2. Fits(c, k)
    <3>1. /\ k \in Records /\ k.at = "answered" /\ k.answer = "deny"
          /\ k.decision = call[c].decision /\ k.asked = call[c].asked /\ k.ids = call[c].ids
      BY ZenonT(30), <2>1
    <3>2. call[c].at = "idle"
      BY <1>2 DEF HookStarts, At
    <3> QED
      BY <3>1, <3>2 DEF Fits
  <2> QED
    BY <2>1, <2>2
<1>3. CASE HookStarts(c, r) /\ r.input # "malformed"
  <2>1. r.operation \in Operations
    <3>1. r \in HookRequests
      BY BridgeAssumption, <1>3 DEF HookStarts, HookRequests, CallerRequests
    <3> QED
      BY <3>1 DEF HookRequests, Operations
  <2>2. PICK e : e = [operations("pinned", r.operation) EXCEPT
                        !.ids = IF r.input = "long id" THEN "too long" ELSE "valid"]
    OBVIOUS
  <2>3. e \in Envelopes
    <3>1. PICK x \in {"valid", "too long"} : e = [operations("pinned", r.operation) EXCEPT !.ids = x]
      BY <2>2
    <3>2. operations("pinned", r.operation) \in Envelopes
      BY Bindings
    <3> QED
      BY <3>1, <3>2 DEF Envelopes
  <2>4. PICK k : /\ k = [call[c] EXCEPT !.at = "bindings", !.hook = TRUE,
                                        !.operation = r.operation, !.asked = e]
                 /\ Step(c, k)
    BY <1>3, <2>2 DEF HookStarts, Go
  <2>5. e = [operations("pinned", r.operation) EXCEPT !.ids = e.ids]
    <3>1. PICK x : x = operations("pinned", r.operation)
      OBVIOUS
    <3>2. x \in Envelopes
      BY <3>1, Bindings
    <3>3. PICK y : e = [x EXCEPT !.ids = y]
      BY <2>2, <3>1
    <3>4. e.ids = y
      BY <3>2, <3>3 DEF Envelopes
    <3> QED
      BY <3>1, <3>3, <3>4
  <2>6. /\ k \in Records /\ k.at = "bindings" /\ k.hook = TRUE /\ k.asked = e
        /\ k.operation = r.operation /\ k.decision = call[c].decision
        /\ k.answer = call[c].answer /\ k.ids = call[c].ids
    BY ZenonT(30), <2>1, <2>3, <2>4
  <2>7. call[c].decision = "error" /\ call[c].answer = "none"
    BY <1>3 DEF HookStarts, At
  <2>8. Settled(k)
    BY <2>5, <2>6, <2>7
  <2>9. Fits(c, k)
    BY <2>6, <2>7, <2>8 DEF Fits
  <2> QED
    BY <2>4, <2>9
<1> QED
  BY <1>1, <1>2, <1>3

\* A hook denies.
LEMMA DeniedFits ==
  ASSUME IInv, NEW c \in Calls, call[c].at \in {"bindings", "append", "sync"}
  PROVE  Fits(c, Denied(c))
<1> USE HereFits DEF Records, Places, Decisions, Settled, Before, Verified
<1>1. ASSUME NEW k, k = [call[c] EXCEPT !.at = "answered", !.answer = "deny"] PROVE Fits(c, k)
  <2>1. /\ k \in Records /\ k.at = "answered" /\ k.answer = "deny"
        /\ k.decision = call[c].decision /\ k.asked = call[c].asked /\ k.ids = call[c].ids
    BY ZenonT(30), <1>1
  <2> QED
    BY <2>1 DEF Fits
<1> QED
  BY <1>1 DEF Denied, Go

LEMMA ErrorFits ==
  ASSUME IInv, NEW c \in Calls, call[c].at \in Before, call[c].at # "idle"
  PROVE  Fits(c, ProviderError(c))
BY EvaluatedFits DEF ProviderError, Decisions

\* An evaluation goes on to the next place.
LEMMA GoFits ==
  ASSUME IInv, NEW c \in Calls, NEW from, NEW to, call[c].at = from,
         \/ from = "evaluate" /\ to \in {"approval", "manifest"} /\ call[c].envelope.semantic = "allow"
         \/ from = "installed" /\ to = "receipt"
         \/ from = "receipt" /\ to = "modules"
         \/ to = "dead" /\ from \notin {"idle", "answered", "dead"}
  PROVE  Fits(c, Go(c, to))
<1>1. ASSUME NEW k, k = [call[c] EXCEPT !.at = to] PROVE Fits(c, k)
  <2>1. /\ k \in Records /\ k.at = to
        /\ k.hook = call[c].hook /\ k.asked = call[c].asked /\ k.envelope = call[c].envelope
        /\ k.manifest = call[c].manifest /\ k.engine = call[c].engine /\ k.policy = call[c].policy
        /\ k.decision = call[c].decision /\ k.ids = call[c].ids /\ k.answer = call[c].answer
    BY <1>1, HereFits DEF Records, Places
  <2>0. Settled(call[c]) /\ call[c].at = from
    BY HereFits
  <2>2. CASE from = "evaluate" /\ to \in {"approval", "manifest"} /\ call[c].envelope.semantic = "allow"
    BY <2>0, <2>1, <2>2 DEF Fits, Settled, Before, Verified
  <2>3. CASE \/ from = "installed" /\ to = "receipt"
             \/ from = "receipt" /\ to = "modules"
    BY <2>0, <2>1, <2>3 DEF Fits, Settled, Before, Verified
  <2>4. CASE to = "dead" /\ from \notin {"idle", "answered", "dead"}
    BY <2>0, <2>1, <2>4 DEF Fits, Settled, Before, Verified
  <2> QED
    BY <2>2, <2>3, <2>4, Zenon
<1> QED
  BY <1>1 DEF Go

LEMMA ReadBindingsFits ==
  ASSUME IInv, NEW c \in Calls, ReadBindings(c)
  PROVE  \E k : Step(c, k) /\ Fits(c, k)
<1> DEFINE e == operations("pinned", call[c].operation)
<1>0. call[c].at = "bindings"
  BY DEF ReadBindings, At
<1>1. CASE file["bindings"] = "pinned" /\ e # Unbound
  <2>1. call[c].asked = [e EXCEPT !.ids = call[c].asked.ids] /\ call[c].asked \in Envelopes
    BY <1>0, HereFits DEF Settled, Records
  <2>2. PICK k : k = [call[c] EXCEPT !.at = "evaluate", !.envelope = call[c].asked] /\ Step(c, k)
    BY <1>1, <2>1 DEF ReadBindings, BindingsPinned, Go
  <2>3. /\ k \in Records /\ k.at = "evaluate" /\ k.envelope = call[c].asked /\ k.asked = call[c].asked
        /\ k.decision = call[c].decision /\ k.ids = call[c].ids /\ k.answer = call[c].answer
    BY <2>1, <2>2, HereFits DEF Records, Places
  <2>4. Fits(c, k)
    BY <1>0, <2>3, HereFits DEF Fits, Settled, Before, Verified
  <2> QED
    BY <2>2, <2>4
<1>2. CASE ~(file["bindings"] = "pinned" /\ e # Unbound)
  <2>1. Step(c, Denied(c))
    BY <1>2 DEF ReadBindings, BindingsPinned
  <2> QED
    BY <1>0, <2>1, DeniedFits
<1> QED
  BY <1>1, <1>2

LEMMA EvaluateFits ==
  ASSUME IInv, NEW c \in Calls, Evaluate(c)
  PROVE  \E k : Step(c, k) /\ Fits(c, k)
<1> DEFINE e == call[c].envelope
<1>1. call[c].at = "evaluate" /\ e \in Envelopes
  BY HereFits DEF Evaluate, At, Records
<1>2. Fits(c, Evaluated(c, "error", FALSE)) /\ Fits(c, Evaluated(c, "deny", TRUE))
  BY <1>1, EvaluatedFits DEF Before, Decisions
<1>3. e.semantic # "deny" => Fits(c, Go(c, "approval")) /\ Fits(c, Go(c, "manifest"))
  BY <1>1, GoFits DEF Envelopes
<1>4. CASE e.ids # "valid"
  BY <1>2, <1>4 DEF Evaluate
<1>5. CASE e.ids = "valid" /\ e.semantic = "deny"
  BY <1>2, <1>5 DEF Evaluate
<1>6. CASE e.ids = "valid" /\ e.semantic # "deny" /\ e.approved
  BY <1>3, <1>6 DEF Evaluate
<1>7. CASE e.ids = "valid" /\ e.semantic # "deny" /\ ~e.approved
  BY <1>3, <1>7 DEF Evaluate
<1> QED
  BY <1>4, <1>5, <1>6, <1>7

LEMMA VerifyApprovalFits ==
  ASSUME IInv, NEW c \in Calls, NEW v \in {"confirmed", "refused", "throws"}, VerifyApproval(c, v)
  PROVE  \E k : Step(c, k) /\ Fits(c, k)
<1>1. call[c].at = "approval" /\ call[c].envelope = call[c].asked /\ call[c].asked \in Envelopes
      /\ call[c].asked.semantic = "allow" /\ call[c].decision = "error"
  BY HereFits DEF VerifyApproval, At, Settled, Before, Records
<1>2. CASE v = "throws"
  BY <1>1, <1>2, ErrorFits DEF VerifyApproval, Before
<1>3. CASE v # "throws"
  <2>1. PICK x : x = [call[c].asked EXCEPT !.approved = (v = "confirmed")]
    OBVIOUS
  <2>2. x \in Envelopes /\ x.semantic = "allow"
    BY <1>1, <2>1 DEF Envelopes
  <2>3. PICK k : k = [call[c] EXCEPT !.at = "manifest", !.envelope = x, !.asked = x] /\ Step(c, k)
    BY <1>1, <1>3, <2>1 DEF VerifyApproval, EffectiveEnvelope, Go
  <2>4. /\ k \in Records /\ k.at = "manifest" /\ k.envelope = x /\ k.asked = x
        /\ k.decision = "error" /\ k.answer = call[c].answer
    BY <1>1, <2>2, <2>3, HereFits DEF Records, Places
  <2>5. Fits(c, k)
    BY <1>1, <2>2, <2>4, HereFits DEF Fits, Settled, Before, Verified
  <2> QED
    BY <2>3, <2>5
<1> QED
  BY <1>2, <1>3

\* A file that was found to be the pinned one.
LEMMA RuntimeFits ==
  ASSUME IInv, NEW c \in Calls,
         ReadManifest(c) \/ ReadInstalled(c) \/ ReadReceipt(c) \/ ReadModules(c) \/ ReadPolicy(c)
  PROVE  \E k : Step(c, k) /\ Fits(c, k)
<1>1. call[c].at \in Verified \ {"decide"}
  BY DEF ReadManifest, ReadInstalled, ReadReceipt, ReadModules, ReadPolicy, At, Verified
<1>0. /\ call[c].envelope = call[c].asked /\ call[c].asked.semantic = "allow"
      /\ call[c].decision = "error" /\ call[c].answer = "none"
      /\ call[c].at \in {"modules", "policy"} => call[c].manifest = "pinned"
      /\ call[c].at = "policy" => call[c].engine = "pinned"
  BY <1>1, HereFits DEF Settled, Before, Verified
<1>2. CASE Step(c, ProviderError(c))
  BY <1>1, <1>2, ErrorFits DEF Before, Verified
<1>3. CASE ReadManifest(c) /\ file["manifest"] = "pinned"
  <2>1. PICK k : k = [call[c] EXCEPT !.at = "installed", !.manifest = "pinned"] /\ Step(c, k)
    BY <1>3 DEF ReadManifest, manifestVerified, Go
  <2>2. /\ k \in Records /\ k.at = "installed" /\ k.envelope = call[c].envelope /\ k.asked = call[c].asked
        /\ k.manifest = "pinned" /\ k.decision = call[c].decision /\ k.answer = call[c].answer
    BY <2>1, HereFits DEF Records, Places, Contents
  <2>4. Fits(c, k)
    BY <1>0, <2>2 DEF Fits, Settled, Before, Verified
  <2> QED
    BY <2>1, <2>4
<1>4. CASE \/ ReadInstalled(c) /\ Listed(c, "installed")
           \/ ReadReceipt(c) /\ Listed(c, "receipt")
  BY <1>4, GoFits DEF ReadInstalled, ReadReceipt, At
<1>5. CASE ReadModules(c) /\ Listed(c, "modules")
  <2>1. call[c].at = "modules" /\ file["modules"] = "pinned"
    BY <1>0, <1>5 DEF ReadModules, Listed, At
  <2>2. PICK k : k = [call[c] EXCEPT !.at = "policy", !.engine = "pinned"] /\ Step(c, k)
    BY <1>5, <2>1 DEF ReadModules, Go
  <2>3. /\ k \in Records /\ k.at = "policy" /\ k.envelope = call[c].envelope /\ k.asked = call[c].asked
        /\ k.manifest = call[c].manifest /\ k.engine = "pinned"
        /\ k.decision = call[c].decision /\ k.answer = call[c].answer
    BY <2>2, HereFits DEF Records, Places, Contents
  <2>4. Fits(c, k)
    BY <1>0, <2>1, <2>3 DEF Fits, Settled, Before, Verified
  <2> QED
    BY <2>2, <2>4
<1>6. CASE ReadPolicy(c) /\ file["policy"] = "pinned"
  <2>0. call[c].at = "policy"
    BY <1>6 DEF ReadPolicy, At
  <2>1. PICK k : k = [call[c] EXCEPT !.at = "decide", !.policy = "pinned"] /\ Step(c, k)
    BY <1>6 DEF ReadPolicy, Go
  <2>2. /\ k \in Records /\ k.at = "decide" /\ k.envelope = call[c].envelope /\ k.asked = call[c].asked
        /\ k.manifest = call[c].manifest /\ k.engine = call[c].engine /\ k.policy = "pinned"
        /\ k.decision = call[c].decision /\ k.answer = call[c].answer
    BY <2>1, HereFits DEF Records, Places, Contents
  <2>4. Fits(c, k)
    BY <1>0, <2>0, <2>2 DEF Fits, Settled, Before, Verified
  <2> QED
    BY <2>1, <2>4
<1> QED
  BY <1>2, <1>3, <1>4, <1>5, <1>6
     DEF ReadManifest, ReadInstalled, ReadReceipt, ReadModules, ReadPolicy, manifestVerified

LEMMA DecideFits ==
  ASSUME IInv, NEW c \in Calls, Decide(c)
  PROVE  \E k : Step(c, k) /\ Fits(c, k)
<1>1. /\ call[c].at = "decide" /\ call[c].engine = "pinned" /\ call[c].policy = "pinned"
      /\ call[c].envelope = call[c].asked /\ call[c].asked \in Envelopes /\ call[c].asked.semantic = "allow"
  BY HereFits DEF Decide, At, Settled, Verified, Records
<1>2. PICK d \in evaluatePolicy("pinned", "pinned", call[c].asked) : Step(c, Evaluated(c, d, TRUE))
  BY <1>1 DEF Decide
<1>3. d \in Decisions
  BY <1>2 DEF evaluatePolicy, Decisions
<1>4. d = "allow" => Permitted(call[c].asked)
  BY <1>1, <1>2 DEF evaluatePolicy, Permitted, Envelopes, Effects
<1>5. Fits(c, Evaluated(c, d, TRUE))
  BY <1>1, <1>3, <1>4, EvaluatedFits DEF Before
<1> QED
  BY <1>2, <1>5

LEMMA ReplyFits ==
  ASSUME IInv, NEW c \in Calls, Reply(c)
  PROVE  \E k : Step(c, k) /\ Fits(c, k)
<1>1. PICK x \in {"allow", "deny"} :
        /\ x = "allow" => call[c].decision = "allow"
        /\ Step(c, [Go(c, "answered") EXCEPT !.answer = x])
  BY DEF Reply
<1>2. PICK k : k = [call[c] EXCEPT !.at = "answered", !.answer = x] /\ Step(c, k)
  BY <1>1 DEF Go
<1>3. /\ k \in Records /\ k.at = "answered" /\ k.answer = x /\ k.asked = call[c].asked
      /\ k.decision = call[c].decision /\ k.ids = call[c].ids
  BY <1>2, HereFits DEF Records, Places, Decisions
<1>4. Fits(c, k)
  BY ZenonT(30), <1>1, <1>3, HereFits DEF Fits, Settled, Before, Verified, Reply, At
<1> QED
  BY <1>2, <1>4

LEMMA ReadsFit ==
  ASSUME IInv, NEW c \in Calls, Reads(c)
  PROVE  \E k : Step(c, k) /\ Fits(c, k)
<1>1. EngineFails(c) => \E k : Step(c, k) /\ Fits(c, k)
  BY ErrorFits DEF EngineFails, Before
<1>2. LogFails(c) => \E k : Step(c, k) /\ Fits(c, k)
  BY DeniedFits DEF LogFails
<1>3. Die(c) => \E k : Step(c, k) /\ Fits(c, k)
  BY GoFits DEF Die
<1> QED
  BY <1>1, <1>2, <1>3, StartsFit, ReadBindingsFits, EvaluateFits, VerifyApprovalFits, RuntimeFits,
     DecideFits, ReplyFits DEF Reads

-----------------------------------------------------------------------------
(* The invariant *)

LEMMA InitIInv ==
  Init => IInv
<1> SUFFICES ASSUME Init PROVE IInv
  OBVIOUS
<1>1. Unbound \in Envelopes
  BY DEF Unbound, Bound, Envelopes, Effects
<1>2. Idle \in Records /\ Idle.at = "idle" /\ Idle.hook = FALSE /\ Idle.decision = "error"
      /\ Idle.answer = "none"
  BY <1>1 DEF Idle, Records, Places, Contents, Decisions, Operations
<1>3. \A c \in Calls : call[c] = Idle
  BY DEF Init
<1>4. TypeOK
  BY BridgeAssumption, <1>2 DEF Init, TypeOK, Records, Contents
<1> QED
  BY <1>2, <1>3, <1>4 DEF IInv, Settled, Evident, Verified

\* A step that reads, decides or answers.
LEMMA ReadsIInv ==
  ASSUME IInv, NEW c \in Calls, Reads(c)
  PROVE  IInv'
<1>1. PICK k : Step(c, k) /\ Fits(c, k)
  BY ReadsFit
<1>2. /\ call' = [call EXCEPT ![c] = k] /\ k \in Records
      /\ UNCHANGED <<file, log, synced, altersLeft>>
  BY <1>1 DEF Step, Fits
<1>3. TypeOK'
  BY <1>2 DEF IInv, TypeOK, Records
<1>4. call'[c] = k /\ \A b \in Calls \ {c} : call'[b] = call[b]
  BY <1>2 DEF IInv, TypeOK
<1>5. ASSUME NEW b \in Calls PROVE Settled(call[b])'
  BY <1>1, <1>4 DEF IInv, Settled, Fits
<1>6. ASSUME NEW b \in Calls PROVE Evident(b)'
  <2>1. CASE b = c
    BY <1>1, <1>2, <1>4, <2>1 DEF Fits, IInv, Evident, InLog, Line
  <2>2. CASE b # c
    BY <1>2, <1>4, <2>2 DEF IInv, Evident, InLog, Line
  <2> QED
    BY <2>1, <2>2
<1> QED
  BY <1>3, <1>5, <1>6 DEF IInv

\* The two steps of appendEvidence.
LEMMA EvidenceIInv ==
  ASSUME IInv, NEW c \in Calls, AppendLine(c) \/ SyncLog(c)
  PROVE  IInv'
<1>1. /\ log \in Seq(Lines) /\ synced \in 0..Len(log) /\ Line(c) \in Lines
      /\ call[c] \in Records
  BY DEF IInv, TypeOK, Lines, Records, Line
<1>2. /\ \/ call' = [call EXCEPT ![c].at = "sync"] /\ call[c].at = "append"
         \/ call' = [call EXCEPT ![c].at = "reply"] /\ call[c].at = "sync"
      /\ UNCHANGED <<file, altersLeft>>
  BY DEF AppendLine, SyncLog, At
<1>3. /\ log' \in Seq(Lines) /\ synced' \in 0..Len(log') /\ synced' >= synced
      /\ Len(log') >= Len(log)
      /\ \A i \in 1..Len(log) : log'[i] = log[i]
  BY <1>1 DEF AppendLine, SyncLog
<1>4. TypeOK'
  <2>1. call' \in [Calls -> Records]
    <3>1. \A x \in {"sync", "reply"} : [call[c] EXCEPT !.at = x] \in Records
      BY <1>1 DEF Records, Places
    <3>2. call \in [Calls -> Records]
      BY DEF IInv, TypeOK, Records
    <3>3. PICK x \in {"sync", "reply"} : call' = [call EXCEPT ![c].at = x]
      BY <1>2
    <3>4. call' = [call EXCEPT ![c] = [call[c] EXCEPT !.at = x]]
      BY <3>2, <3>3
    <3> QED
      BY <3>1, <3>2, <3>4
  <2> QED
    BY <1>2, <1>3, <2>1 DEF IInv, TypeOK, Lines, Records
<1>5. /\ call'[c].at \in {"sync", "reply"}
      /\ call'[c].answer = call[c].answer /\ call'[c].decision = call[c].decision
      /\ call'[c].ids = call[c].ids /\ call'[c].asked = call[c].asked
      /\ call[c].at \in {"append", "sync"}
  BY <1>1, <1>2 DEF IInv, TypeOK, Records
<1>6. \A b \in Calls \ {c} : call'[b] = call[b]
  BY <1>2 DEF IInv, TypeOK
<1>7. ASSUME NEW b \in Calls PROVE Settled(call[b])'
  <2>1. CASE b = c
    <3>1. Settled(call[c])
      BY HereFits
    <3>2. PICK k : k = call'[c]
      OBVIOUS
    <3>3. Settled(k)
      BY <1>5, <3>1, <3>2 DEF Settled, Before, Verified
    <3> QED
      BY <2>1, <3>2, <3>3 DEF Settled
  <2>2. CASE b # c
    BY <1>6, <2>2 DEF IInv
  <2> QED
    BY <2>1, <2>2
<1>8. ASSUME NEW line, NEW n \in Nat, n <= Len(log), InLog(line, n) PROVE InLog(line, n)'
  BY <1>1, <1>3, <1>8 DEF InLog
<1>9. ASSUME NEW b \in Calls \ {c} PROVE Evident(b)'
  <2>1. ASSUME NEW line, InLog(line, Len(log)) PROVE InLog(line, Len(log))'
    BY <1>1, <1>3, <2>1 DEF InLog
  <2>2. ASSUME NEW line, InLog(line, synced) PROVE InLog(line, synced)'
    BY <1>1, <1>3, <2>2 DEF InLog
  <2>3. Evident(b) /\ Line(b)' = Line(b) /\ call'[b] = call[b]
    BY <1>6 DEF IInv, Line
  <2> QED
    BY <2>1, <2>2, <2>3 DEF Evident
<1>10. Evident(c)'
  <2>1. Line(c)' = Line(c) /\ call'[c].answer # "allow"
    <3>1. call[c].answer = "allow" => call[c].at = "answered"
      <4>1. Settled(call[c])
        BY HereFits
      <4> QED
        BY <4>1 DEF Settled
    <3>2. Line(c)' = Line(c)
      BY <1>5 DEF Line
    <3> QED
      BY <1>5, <3>1, <3>2
  <2>2. CASE AppendLine(c)
    <3>1. Len(log') \in 1..Len(log') /\ log'[Len(log')] = Line(c) /\ call'[c].at = "sync"
      BY <1>1, <2>2 DEF AppendLine, IInv, TypeOK, Records
    <3> QED
      BY <2>1, <3>1 DEF Evident, InLog
  <2>3. CASE SyncLog(c)
    <3>1. InLog(Line(c), Len(log)) /\ synced' = Len(log) /\ log' = log /\ call'[c].at = "reply"
      BY <1>1, <2>3 DEF SyncLog, At, IInv, Evident, TypeOK, Records
    <3> QED
      BY <2>1, <3>1 DEF Evident, InLog
  <2> QED
    BY <2>2, <2>3
<1> QED
  BY <1>4, <1>7, <1>9, <1>10 DEF IInv

LEMMA PowerLossIInv ==
  ASSUME IInv, PowerLoss
  PROVE  IInv'
<1>1. /\ log \in Seq(Lines) /\ synced \in 0..Len(log)
  BY DEF IInv, TypeOK, Lines
<1>2. PICK n \in synced..Len(log) : log' = SubSeq(log, 1, n) /\ synced' = n
  BY DEF PowerLoss
<1>3. /\ log' \in Seq(Lines) /\ Len(log') = n /\ synced' \in 0..Len(log') /\ synced <= n
      /\ \A i \in 1..n : log'[i] = log[i]
  BY <1>1, <1>2
<1>4. ASSUME NEW c \in Calls
      PROVE  /\ call'[c] \in Records
             /\ \/ call'[c] = call[c] /\ call[c].at \in {"idle", "answered"}
                \/ /\ call'[c].at = "dead" /\ call'[c].answer # "allow"
                   /\ call'[c].decision = call[c].decision
                   /\ call'[c].ids = call[c].ids /\ call'[c].asked = call[c].asked
  BY ZenonT(30), HereFits DEF PowerLoss, Records, Places, Settled
<1>5. TypeOK'
  <2>1. call' \in [Calls -> Records]
    BY <1>4 DEF PowerLoss
  <2> QED
    BY <1>3, <2>1 DEF PowerLoss, IInv, TypeOK, Lines, Records
<1>6. ASSUME NEW c \in Calls PROVE Settled(call[c])'
  <2>1. Settled(call[c])
    BY DEF IInv
  <2> QED
    BY <1>4, <2>1 DEF Settled, Before, Verified
<1>7. ASSUME NEW c \in Calls PROVE Evident(c)'
  <2>1. ASSUME NEW line, InLog(line, synced) PROVE InLog(line, synced)'
    BY <1>1, <1>2, <1>3, <2>1 DEF InLog
  <2>2. Evident(c)
    BY DEF IInv
  <2> QED
    BY <1>4, <2>1, <2>2 DEF Evident, Line
<1> QED
  BY <1>5, <1>6, <1>7 DEF IInv

LEMMA NextIInv ==
  IInv /\ [Next]_vars => IInv'
<1> SUFFICES ASSUME IInv, [Next]_vars PROVE IInv'
  OBVIOUS
<1>1. ASSUME NEW c \in Calls, Reads(c) PROVE IInv'
  BY <1>1, ReadsIInv
<1>2. ASSUME NEW c \in Calls, AppendLine(c) \/ SyncLog(c) PROVE IInv'
  BY <1>2, EvidenceIInv
<1>3. CASE PowerLoss
  BY <1>3, PowerLossIInv
<1>4. CASE Alter
  <2>1. UNCHANGED <<call, log, synced>>
    BY <1>4 DEF Alter
  <2>2. file' \in [Files -> Contents] /\ altersLeft' \in 0..MaxAlter
    BY BridgeAssumption, <1>4 DEF Alter, IInv, TypeOK
  <2>3. TypeOK'
    BY <2>1, <2>2 DEF IInv, TypeOK
  <2>4. ASSUME NEW c \in Calls PROVE Settled(call[c])' /\ Evident(c)'
    BY <2>1 DEF IInv, Settled, Evident, InLog, Line
  <2> QED
    BY <2>3, <2>4 DEF IInv
<1>5. CASE UNCHANGED vars
  <2>1. TypeOK'
    BY <1>5 DEF vars, IInv, TypeOK
  <2>2. ASSUME NEW c \in Calls PROVE Settled(call[c])' /\ Evident(c)'
    BY <1>5 DEF vars, IInv, Settled, Evident, InLog, Line
  <2> QED
    BY <2>1, <2>2 DEF IInv
<1> QED
  BY <1>1, <1>2, <1>3, <1>4, <1>5 DEF Next, Reads

LEMMA AlwaysIInv ==
  Spec => []IInv
BY InitIInv, NextIInv, PTL DEF Spec

(***************************************************************************)
(* Evaluations, files and evidence always have their types.                *)
(***************************************************************************)
THEOREM TypeCorrect ==
  Spec => []TypeOK
<1>1. IInv => TypeOK
  BY DEF IInv
<1> QED
  BY <1>1, AlwaysIInv, PTL

(***************************************************************************)
(* Whatever files are replaced between the reads of however many           *)
(* evaluations, an action is allowed only if the pinned bindings or the    *)
(* caller authorize it and the pinned policy permits it (provider.mjs      *)
(* 151-249, 258-329; codex-hook.mjs 55-135).                               *)
(***************************************************************************)
THEOREM AllowsAreAuthorized ==
  Spec => []AllowIsAuthorized
<1>1. IInv => AllowIsAuthorized
  BY DEF IInv, Settled, Permitted, AllowIsAuthorized
<1> QED
  BY <1>1, AlwaysIInv, PTL

(***************************************************************************)
(* A hook that allowed has its line in the evidence log, through power     *)
(* losses and among the lines of other hooks (codex-hook.mjs 137-193).      *)
(***************************************************************************)
THEOREM AllowsHaveEvidence ==
  Spec => []AllowHasEvidence
<1>1. ASSUME IInv PROVE AllowHasEvidence
  <2> SUFFICES ASSUME NEW c \in Calls, call[c].hook, call[c].answer = "allow"
               PROVE  \E i \in 1..Len(log) : log[i] = [call |-> c, decision |-> "allow", ids |-> TRUE]
    BY DEF AllowHasEvidence
  <2>1. call[c].hook = TRUE /\ call[c].decision = "allow" /\ call[c].ids = TRUE
    BY <1>1 DEF IInv, TypeOK, Settled
  <2>2. InLog(Line(c), synced)
    BY <1>1, <2>1 DEF IInv, Evident
  <2>3. synced \in 0..Len(log) /\ Len(log) \in Nat
    BY <1>1 DEF IInv, TypeOK
  <2> QED
    <3>1. PICK i \in 1..synced : log[i] = Line(c)
      BY <2>2 DEF InLog
    <3>2. Line(c) = [call |-> c, decision |-> "allow", ids |-> TRUE]
      BY <2>1 DEF Line
    <3> QED
      BY <2>3, <3>1, <3>2
<1> QED
  BY <1>1, AlwaysIInv, PTL
=============================================================================
