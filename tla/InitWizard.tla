----------------------------- MODULE InitWizard -----------------------------
(***************************************************************************)
(* agent-governance init: read-only stages that inspect, ask and plan, the *)
(* preparation of tools, the user's approval, and then one transaction and *)
(* one verification per target.  What the user approves was read before    *)
(* the question, and other programs change targets meanwhile.  A target is *)
(* the number of its (root, entry) key in the order of compareTargets.     *)
(***************************************************************************)
EXTENDS ToolPreparation, Sequences, FiniteSets, SequencesExt

CONSTANTS Targets,      \* a set of numbers
          Supported     \* targets of the harnesses the wizard offers

ASSUME TargetsAssumption == /\ Targets \subseteq Nat /\ IsFiniteSet(Targets)
                           /\ Supported \subseteq Targets

VARIABLES mode,         \* input: "init", "init without tools" or "tools"
          state,        \* the machine: install state of each target
          pc,           \* what runInit or runInitTools awaits
          order,        \* resolved: the selected targets, sorted
          next,         \* index of the target the loop is at
          shown,        \* prepared: status and plan of each target
          tools,        \* toolPreparationResults: "none" or a status
          completed,    \* targets installed and verified
          answer,       \* what the process has answered
          approved,     \* observation: the user said yes
          changed       \* observation: what this process changed for good

wizardVars == <<mode, state, pc, order, next, shown, tools, completed, answer,
                approved, changed>>
vars == <<signalVars, toolVars, driftLeft, wizardVars>>

Unsafe == {"TAMPERED", "RECOVERY_REQUIRED", "DOWNGRADE_BLOCKED"}
States == Unsafe \cup {"FRESH", "CURRENT", "OUTDATED", "ABSENT"}
ReadOnlyStages == {"discover", "latest", "rows", "select", "status", "plan",
                   "confirm", "verify"}
Prompts == {"select", "confirm"}

Pending == [outcome |-> "pending"]
Killed == [outcome |-> "killed"]

\* outcome of the result or of the error thrown; the targets it lists; whether it
\* lists tools; the signal it names and the external effect it calls unverified.
Reply(outcome, targets, s, effect) ==
  [outcome |-> outcome, targets |-> targets, tools |-> tools # "none",
   thrown |-> FALSE, signal |-> s, effect |-> effect]
Thrown(outcome, s, effect) == [Reply(outcome, {}, s, effect) EXCEPT !.thrown = TRUE]

Unshown == [status |-> "none", planned |-> "none"]
operationFor(status) == IF status = "OUTDATED" THEN "update" ELSE "install"
Current == order[next]
Listed == {order[i] : i \in 1..completed}

TypeOK ==
  /\ SignalVarsOK /\ ToolTypeOK
  /\ mode \in {"init", "init without tools", "tools"}
  /\ state \in [Targets -> States]
  /\ pc \in ReadOnlyStages \cup {"start", "tools", "apply", "answered"}
  /\ IsInjective(order) /\ ToSet(order) \subseteq Targets
  /\ next \in 1..(Len(order) + 1) /\ completed \in 0..Len(order)
  /\ \A t \in Targets : shown[t].status \in States \cup {"none"}
  /\ tools \in Statuses \cup {"none"}
  /\ answer = Pending \/ answer = Killed \/ answer.targets \subseteq Targets
  /\ approved \in BOOLEAN
  /\ \A c \in changed : c.target \in Targets /\ c.op \in {"install", "update"}
-----------------------------------------------------------------------------
Frame(v) == UNCHANGED <<toolVars, driftLeft, mode>> /\ UNCHANGED v

Answer(reply) == answer' = reply /\ pc' = "answered"

\* Mutant: what is done is not passed on.
InterruptUnlisted(s, effect) == Answer(Reply("INTERRUPTED", {}, s, effect))

\* catch: an interruption lists what is done; another failure is a result only
\* if tools were prepared or a target is done, and is rethrown otherwise.
Interrupt(s, effect) == Answer(Reply("INTERRUPTED", Listed, s, effect))
Fail(outcome) ==
  Answer(IF tools # "none" \/ completed > 0 THEN Reply(outcome, Listed, "none", "none")
                                            ELSE Thrown(outcome, "none", "none"))
cancelled == Answer(Reply("INTERRUPTED", Listed, "none", "none"))

Start == /\ pc = "start"
         /\ \/ Answer(Reply("INVALID_INVOCATION", {}, "none", "none"))
            \/ pc' = (IF mode = "tools" THEN "tools" ELSE "discover") /\ UNCHANGED answer
         /\ Frame(<<state, order, next, shown, tools, completed, approved, changed, signalVars>>)

\* A stage, or the transaction, registers its coordinator.
Begin == /\ pc \in ReadOnlyStages \cup {"apply"}
         /\ start("coordinator")
         /\ UNCHANGED <<toolVars, driftLeft, wizardVars>>

\* Mutant: the target selection does not get the abort signal.
AbortableNoSelect == ReadOnlyStages \ {"select"}

\* Reads end by themselves; the prompts end because they get the abort signal.
Abortable == ReadOnlyStages

\* readOnlyStage: whatever its operation returned or threw, a latched signal decides.
StageInterrupted ==
  /\ pc \in Abortable /\ listener = "coordinator" /\ Interrupted
  /\ Interrupt(latched, "none")
  /\ dispose
  /\ Frame(<<state, order, next, shown, tools, completed, approved, changed>>)

\* The operation of stage p has returned and no signal was latched.
Ends(p) == pc = p /\ listener = "coordinator" /\ ~Interrupted /\ dispose

StageFails == /\ \E p \in ReadOnlyStages : Ends(p)
              /\ Fail("UNSAFE_STATE")
              /\ Frame(<<state, order, next, shown, tools, completed, approved, changed>>)

Inspect == /\ \/ Ends("discover") /\ pc' = "latest"
              \/ Ends("latest") /\ pc' = "rows"
              \/ Ends("rows") /\ pc' = "select"
           /\ Frame(<<state, order, next, shown, tools, completed, answer, approved, changed>>)

\* Mutant: equal targets are accepted.
distinctTargets(picks, manual) == FALSE

duplicateTargets(picks, manual) == picks \cap manual # {}

\* What was selected, each target as often as it was, in the order of compareTargets.
resolved(picks, manual) ==
  {s \in [1..(Cardinality(picks) + Cardinality(manual)) -> picks \cup manual] :
     /\ \A i, j \in DOMAIN s : i < j => s[i] <= s[j]
     /\ \A t \in picks \cup manual : Cardinality({i \in DOMAIN s : s[i] = t})
                                       = Cardinality(picks \cap {t}) + Cardinality(manual \cap {t})}

\* Supported harnesses and one target entered by hand; equal targets are refused.
SelectTargets ==
  /\ Ends("select")
  /\ \E picks \in SUBSET Supported, manual \in SUBSET Targets :
       /\ Cardinality(manual) <= 1 /\ picks \cup manual # {}
       /\ IF duplicateTargets(picks, manual) THEN Fail("UNSAFE_STATE") /\ UNCHANGED order
          ELSE /\ order' \in resolved(picks, manual)
               /\ pc' = IF mode = "init" THEN "tools" ELSE "status"
               /\ UNCHANGED answer
  /\ Frame(<<state, next, shown, tools, completed, approved, changed>>)

Cancel == /\ Ends("select") \/ Ends("confirm")
          /\ cancelled
          /\ Frame(<<state, order, next, shown, tools, completed, approved, changed>>)

CallTools == /\ pc = "tools" /\ PrepareTools
             /\ UNCHANGED <<signalVars, driftLeft, wizardVars>>

\* runInit and runInitTools take what the preparation returned or threw.
ToolsReturn ==
  /\ pc = "tools" /\ at = "returned"
  /\ tools' = IF preparation.kind = "result" THEN preparation.status ELSE "none"
  /\ CASE preparation.kind = "error" -> Fail("UNSAFE_STATE")
       [] preparation.kind = "interrupted" ->
            IF mode = "tools" /\ preparation.signal = "SIGTERM"
              THEN Answer(Thrown("INTERRUPTED", "SIGTERM", preparation.effect))
              ELSE Interrupt(preparation.signal, preparation.effect)
       [] preparation.kind = "result" ->
            IF preparation.status \notin {"READY", "SKIPPED"}
              THEN Answer([Reply("UNSAFE_STATE", {}, "none", "none") EXCEPT !.tools = TRUE])
              ELSE IF mode = "tools"
                THEN Answer([Reply("SUCCESS", {}, "none", "none") EXCEPT !.tools = TRUE])
                ELSE pc' = "status" /\ UNCHANGED answer
  /\ Frame(<<state, order, next, shown, completed, approved, changed, signalVars>>)

ReadStatus == /\ Ends("status")
              /\ shown' = [shown EXCEPT ![Current].status = state[Current]]
              /\ pc' = "plan"
              /\ Frame(<<state, order, next, tools, completed, answer, approved, changed>>)

\* plan inspects the target again, and refuses what cannot be planned safely.
Plan == /\ Ends("plan")
        /\ IF state[Current] \in Unsafe
             THEN Fail("UNSAFE_STATE") /\ UNCHANGED <<shown, next>>
             ELSE /\ shown' = [shown EXCEPT ![Current].planned = state[Current]]
                  /\ next' = IF next = Len(order) THEN 1 ELSE next + 1
                  /\ pc' = IF next = Len(order) THEN "confirm" ELSE "status"
                  /\ UNCHANGED answer
        /\ Frame(<<state, order, tools, completed, approved, changed>>)

Confirm == /\ Ends("confirm")
           /\ approved' = TRUE
           /\ pc' = "apply"
           /\ Frame(<<state, order, next, shown, tools, completed, answer, changed>>)
-----------------------------------------------------------------------------
(* install or update of the target the loop is at, with the operation that *)
(* its status called for before the confirmation.                          *)

Op == operationFor(shown[Current].status)

\* Mutant: install does not look for an outdated installation.
RefusedUnsafe == state[Current] \in Unsafe

\* mutate inspects the target again and refuses states the operation is not for.
Refused == \/ state[Current] \in Unsafe
           \/ Op = "install" /\ state[Current] = "OUTDATED"
           \/ Op = "update" /\ state[Current] \notin {"OUTDATED", "CURRENT"}

Applying == pc = "apply" /\ listener = "coordinator" /\ dispose

ApplyRefused == /\ Applying /\ Refused
                /\ Fail("UNSAFE_STATE")
                /\ Frame(<<state, order, next, shown, tools, completed, approved, changed>>)

\* Nothing to do: no checkpoint looks at the signal.
ApplyNothing == /\ Applying /\ ~Refused /\ state[Current] = "CURRENT"
                /\ pc' = "verify"
                /\ Frame(<<state, order, next, shown, tools, completed, answer, approved, changed>>)

\* The mutation succeeds; a signal that came after its last checkpoint is dropped.
ApplyChanges ==
  /\ Applying /\ ~Refused /\ state[Current] # "CURRENT"
  /\ state' = [state EXCEPT ![Current] = "CURRENT"]
  /\ changed' = changed \cup {[target |-> Current, op |-> Op, was |-> state[Current]]}
  /\ pc' = "verify"
  /\ Frame(<<order, next, shown, tools, completed, answer, approved>>)

\* It is interrupted at a checkpoint before or after it began, fails before it
\* began, fails and is rolled back, or its rollback fails.
ApplyFails ==
  /\ Applying /\ ~Refused /\ state[Current] # "CURRENT"
  /\ \/ Interrupted /\ Interrupt(latched, "none") /\ UNCHANGED <<state, changed>>
     \/ Fail("UNSAFE_STATE") /\ UNCHANGED <<state, changed>>
     \/ ~Interrupted /\ Fail("VERIFICATION_ROLLED_BACK") /\ UNCHANGED <<state, changed>>
     \/ /\ Fail("ROLLBACK_FAILED")
        /\ state' = [state EXCEPT ![Current] = "RECOVERY_REQUIRED"]
        /\ changed' = changed \cup {[target |-> Current, op |-> Op, was |-> state[Current]]}
  /\ Frame(<<order, next, shown, tools, completed, approved>>)

\* verify throws unless the target is CURRENT.
Verify ==
  /\ Ends("verify")
  /\ IF state[Current] # "CURRENT" THEN Fail("UNSAFE_STATE") /\ UNCHANGED <<completed, next>>
     ELSE /\ completed' = next
          /\ next' = next + 1
          /\ IF next = Len(order) THEN Answer(Reply("SUCCESS", ToSet(order), "none", "none"))
                                  ELSE pc' = "apply" /\ UNCHANGED answer
  /\ Frame(<<state, order, shown, tools, approved, changed>>)
-----------------------------------------------------------------------------
\* A signal that nobody listens for ends the process.
Kill == /\ pc # "answered" /\ listener = "none" /\ Send
        /\ Answer(Killed)
        /\ UNCHANGED <<listener, latched, first>>
        /\ Frame(<<state, order, next, shown, tools, completed, approved, changed>>)

\* Another program installs, updates or damages a target; before the first
\* status is read that is another initial state.
TargetDrift == /\ driftLeft > 0
               /\ pc \in {"status", "plan", "confirm", "apply", "verify"}
               /\ driftLeft' = driftLeft - 1
               /\ \E t \in Targets, s \in States \ {"FRESH", "DOWNGRADE_BLOCKED"} :
                    state[t] # s /\ state' = [state EXCEPT ![t] = s]
               /\ UNCHANGED <<signalVars, toolVars, mode, pc, order, next, shown, tools,
                              completed, answer, approved, changed>>

Tool(step) == /\ pc = "tools" /\ step
              /\ UNCHANGED <<driftLeft, wizardVars>>

SystemStep ==
  \/ Start \/ Begin \/ StageInterrupted \/ StageFails \/ Inspect \/ CallTools
  \/ ToolsReturn \/ ReadStatus \/ Plan \/ Verify
  \/ ApplyRefused \/ ApplyNothing \/ ApplyChanges \/ ApplyFails
  \/ Tool(ToolSystemStep)

UserStep == SelectTargets \/ Cancel \/ Confirm \/ Tool(ToolUserStep)

Signal == /\ pc # "answered"
          /\ \E s \in Signals : Deliver(s)
          /\ UNCHANGED <<toolVars, driftLeft, wizardVars>>

Drift == TargetDrift \/ (pc = "tools" /\ ToolDrift /\ UNCHANGED wizardVars)

Next == SystemStep \/ UserStep \/ Signal \/ Kill \/ Drift

CONSTANTS Modes, Platforms, InitialStates, MaxDrift

ASSUME InputsAssumption ==
  /\ Modes \subseteq {"init", "init without tools", "tools"}
  /\ Platforms \subseteq {"darwin", "linux", "other"} /\ InitialStates \subseteq States
  /\ MaxSignals \in Nat /\ MaxDrift \in Nat

\* Inputs that the mode does not read have one value.
Init == /\ SignalInit /\ ToolInit
        /\ driftLeft = MaxDrift
        /\ mode \in Modes
        /\ platform \in Platforms /\ managed \in BOOLEAN
        /\ gh \in {g \in [installed : BOOLEAN, authenticated : BOOLEAN] : g.authenticated => g.installed}
        /\ state \in [Targets -> InitialStates]
        /\ mode = "init without tools" => platform = "other" /\ gh.authenticated
        /\ mode = "tools" => state = [t \in Targets |-> "ABSENT"]
        /\ platform # "linux" => managed
        /\ pc = "start" /\ order = <<>> /\ next = 1 /\ completed = 0
        /\ shown = [t \in Targets |-> Unshown]
        /\ tools = "none" /\ answer = Pending /\ approved = FALSE /\ changed = {}

\* The process goes on by itself; the user need not answer, and nobody need
\* send a signal or change a target.
Spec == Init /\ [][Next]_vars /\ WF_vars(SystemStep)
-----------------------------------------------------------------------------
\* runCli: the exit code of the process for an answer.
ExitCode(a) == CASE a.outcome = "INTERRUPTED" -> IF a.signal = "SIGTERM" THEN 143 ELSE 130
                 [] a.outcome = "SUCCESS" -> 0
                 [] a.outcome = "INVALID_INVOCATION" -> 2
                 [] a.outcome = "UNSAFE_STATE" -> 4
                 [] a.outcome = "VERIFICATION_ROLLED_BACK" -> 5
                 [] a.outcome = "ROLLBACK_FAILED" -> 6

HasAnswered == answer \notin {Pending, Killed}

\* Whatever changes a target while the wizard asks, it only ever changes a target
\* the user approved, with the operation and from the kind of state the approved
\* plan showed: an outdated installation is never replaced under a plan to install.
ApprovedChangesOnly ==
  \A c \in changed :
    /\ approved /\ c.target \in ToSet(order)
    /\ c.op = operationFor(shown[c.target].status)
    /\ c.was = "OUTDATED" <=> shown[c.target].status = "OUTDATED"

\* A package is installed and a login started only after the user said yes to that
\* operation, also when gh appears or disappears between question and command.
EffectsAuthorized == effects \subseteq consent

\* An interruption is never silent about an external operation that was started:
\* it lists the tools as prepared or names the effect as unverified.
InterruptionReportsEffect ==
  HasAnswered /\ answer.outcome = "INTERRUPTED" /\ effects # {}
    => answer.tools \/ answer.effect \in effects

\* An answer accounts for every target: it lists exactly those verified after their
\* transaction, and of the others at most the one in progress has been changed.
TargetsAccounted ==
  HasAnswered /\ mode # "tools" =>
    /\ answer.targets = Listed
    /\ answer.outcome = "SUCCESS" <=> order # <<>> /\ completed = Len(order)
    /\ {c.target : c \in changed} \ answer.targets
         \subseteq {order[i] : i \in {completed + 1} \cap DOMAIN order}

\* A signal received in a read-only stage ends the wizard with that stage, names the
\* first signal received and becomes the exit code, whatever the stage returns.
SignalAnswered ==
  [][(pc \in ReadOnlyStages /\ listener = "coordinator" /\ first # "none" /\ listener' = "none")
       => /\ answer'.outcome = "INTERRUPTED" /\ answer'.signal = first
          /\ ExitCode(answer') = IF first = "SIGINT" THEN 130 ELSE 143]_vars

\* A signal received while a prompt is open ends the wizard even if the user never
\* answers the prompt.
SignalEndsPrompt == (pc \in Prompts /\ Interrupted) ~> (pc = "answered")
=============================================================================
