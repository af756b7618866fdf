-------------------------- MODULE ToolPreparation --------------------------
(***************************************************************************)
(* Preparation of the GitHub CLI: inspect it, ask the user, install it     *)
(* with the package manager, inspect it again, ask, and log in.  Every     *)
(* command is a child process that signals are forwarded to; between two   *)
(* of them nothing listens.  `at' is the command or question it is at, and *)
(* "returned" once `preparation' holds what it returned or threw.  The two *)
(* commands with which an old gh is asked for its login are one step.      *)
(***************************************************************************)
EXTENDS SignalCoordinator

VARIABLES platform,     \* input: "darwin", "linux" or "other"
          managed,      \* input: the package manager can be run
          gh,           \* the machine: is gh installed, is it logged in
          at,           \* command or question
          stage,        \* which part of the orchestrator's loop body runs
          allowed,      \* what the user answered in that stage
          operation,    \* what prepare has begun to change
          effectContext,\* what an earlier prepare has begun to change
          found,        \* finalExists
          preparation,  \* what run returned or threw
          consent,      \* observation: what the user has said yes to
          effects,      \* observation: external operations that were started
          driftLeft     \* bound: changes made by others

toolVars == <<platform, managed, gh, at, stage, allowed, operation,
              effectContext, found, preparation, consent, effects>>

GhCommands == {"inspect exists", "inspect auth", "find", "recheck", "auth",
               "login", "final exists", "final auth"}
ManagerCommands == {"manager", "update", "package"}
Commands == GhCommands \cup ManagerCommands
Questions == {"ask install", "ask login"}
Operations == {"install", "login"}
Statuses == {"READY", "MISSING", "AUTH_REQUIRED", "SKIPPED", "UNAVAILABLE"}

Running == [kind |-> "running"]
Returned(status) == [kind |-> "result", status |-> status]
Threw(s, effect) == [kind |-> "interrupted", signal |-> s, effect |-> effect]
Failed == [kind |-> "error"]

Preparations == {Running, Failed} \cup {Returned(s) : s \in Statuses}
                  \cup {Threw(s, e) : s \in Signals, e \in Operations \cup {"none"}}

ToolTypeOK == /\ platform \in {"darwin", "linux", "other"}
              /\ managed \in BOOLEAN
              /\ gh \in [installed : BOOLEAN, authenticated : BOOLEAN]
              /\ at \in Commands \cup Questions \cup {"idle", "returned"}
              /\ stage \in {"inspect", "install", "reinspect", "login"}
              /\ allowed \in BOOLEAN /\ found \in BOOLEAN
              /\ operation \in Operations \cup {"none"}
              /\ effectContext \in Operations \cup {"none"}
              /\ preparation \in Preparations
              /\ consent \subseteq Operations /\ effects \subseteq Operations

ToolInit == /\ at = "idle" /\ stage = "inspect"
            /\ allowed = FALSE /\ found = FALSE
            /\ operation = "none" /\ effectContext = "none"
            /\ preparation = Running
            /\ consent = {} /\ effects = {}

\* runToolPreparation is called.
PrepareTools == /\ at = "idle"
                /\ at' = "inspect exists"
                /\ UNCHANGED <<platform, managed, gh, stage, allowed, operation,
                               effectContext, found, preparation, consent, effects>>
-----------------------------------------------------------------------------
(* Where control goes: each names its new values of at, stage, operation,  *)
(* effectContext and preparation.                                          *)

control == <<at, stage, operation, effectContext, preparation>>

Goto(to) == at' = to /\ UNCHANGED <<stage, operation, effectContext, preparation>>

Return(p) == /\ at' = "returned"
             /\ preparation' = p
             /\ UNCHANGED <<stage, operation, effectContext>>

\* An interruption names what may have been changed: by the running prepare,
\* or else by the one before it.
toolInterruption(s) ==
  Return(Threw(s, IF operation # "none" THEN operation ELSE effectContext))

\* module.inspect has returned its status to the loop of the orchestrator.
Inspected(status) ==
  CASE status = "MISSING" /\ stage = "inspect" -> Goto("ask install")
    [] status = "AUTH_REQUIRED"                -> Goto("ask login")
    [] OTHER                                   -> Return(Returned(status))

\* module.prepare is called; its operation is local to the call.
Prepare(step) == /\ at' = "find"
                 /\ stage' = step
                 /\ operation' = "none"
                 /\ UNCHANGED <<effectContext, preparation>>

\* Mutant: the result of prepare carries no effect context.
forgottenEffect == "none"

carriedEffect == operation

\* module.prepare has returned.  After an installation the tool is inspected
\* again; the operation of the call lives on as effectContext.
Prepared(status) ==
  \/ /\ stage = "install"
     /\ effectContext' = carriedEffect
     /\ operation' = "none"
     /\ IF ~allowed \/ status = "UNAVAILABLE"
          THEN at' = "returned" /\ preparation' = Returned(status) /\ UNCHANGED stage
          ELSE at' = "inspect exists" /\ stage' = "reinspect" /\ UNCHANGED preparation
  \/ stage = "login" /\ Return(Returned(status))

Operate(op, to) == /\ at' = to
                   /\ operation' = op
                   /\ UNCHANGED <<stage, effectContext, preparation>>

\* Mutant: asking is taken for a yes.
authorizeAsked == stage = "install"

authorizeInstall == stage = "install" /\ allowed
authorizeLogin == stage = "login" /\ allowed

\* gh is not installed when prepare looks for it.
WithoutGh ==
  IF authorizeLogin THEN Prepared("UNAVAILABLE")
  ELSE IF ~authorizeInstall THEN Prepared("SKIPPED")
  ELSE IF platform = "other" THEN Prepared("UNAVAILABLE")
  ELSE Goto("manager")

WithoutLogin == IF authorizeLogin THEN Operate("login", "login")
                                  ELSE Prepared("SKIPPED")

\* What follows the command at `at' when it ends with success (ok) or not.
Continue(ok) ==
  CASE at = "inspect exists" -> IF ok THEN Goto("inspect auth") ELSE Inspected("MISSING")
    [] at = "inspect auth"   -> Inspected(IF ok THEN "READY" ELSE "AUTH_REQUIRED")
    [] at = "find"           -> IF ok THEN Goto("auth") ELSE WithoutGh
    [] at = "manager"        -> IF ~ok THEN Prepared("UNAVAILABLE")
                                ELSE Operate("install", IF platform = "linux" THEN "update" ELSE "package")
    [] at = "update"         -> IF ok THEN Goto("package") ELSE Prepared("UNAVAILABLE")
    [] at = "package"        -> IF ok THEN Goto("recheck") ELSE Prepared("UNAVAILABLE")
    [] at = "recheck"        -> IF ok THEN Goto("auth") ELSE Prepared("UNAVAILABLE")
    [] at = "auth"           -> IF ok THEN Goto("final exists") ELSE WithoutLogin
    [] at = "login"          -> IF ok THEN Goto("final exists") ELSE Prepared("AUTH_REQUIRED")
    [] at = "final exists"   -> Goto("final auth")
    [] at = "final auth"     -> Prepared(IF found /\ ok THEN "READY" ELSE "UNAVAILABLE")
-----------------------------------------------------------------------------
(* Child processes.                                                        *)

\* The file to execute is there; otherwise spawn reports an error.
Spawnable == CASE at \in GhCommands          -> gh.installed
               [] at \in {"update", "package"} -> managed
               [] OTHER                        -> TRUE

\* The machines a command may leave behind, when it ends with success or not.
\* A command that fails or is killed may have done its work all the same.
Outcome(ok) ==
  CASE at = "package" -> {g \in {gh, [gh EXCEPT !.installed = TRUE]} : ok => g.installed}
    [] at = "login"   -> {g \in {gh, [gh EXCEPT !.authenticated = TRUE]} : ok => g.authenticated}
    [] OTHER          -> {gh}

CanSucceed == CASE at \in {"inspect auth", "auth", "final auth"} -> gh.authenticated
                [] at = "manager" -> managed
                [] OTHER          -> TRUE

Spawn == /\ at \in Commands
         /\ start("child")
         /\ effects' = effects \cup (IF at \in {"update", "package"} THEN {"install"}
                                     ELSE IF at = "login" THEN {"login"} ELSE {})
         /\ UNCHANGED <<platform, managed, gh, at, stage, allowed, operation,
                        effectContext, found, preparation, consent>>

\* The child has exited by itself and no signal was forwarded to it.
CommandEnds(ok) ==
  /\ at \in Commands /\ listener = "child" /\ Spawnable /\ ~Interrupted
  /\ ok => CanSucceed
  /\ at \in {"inspect exists", "find", "recheck", "final exists"} => ok
  /\ gh' \in Outcome(ok)
  /\ found' = IF at = "final exists" THEN ok ELSE found
  /\ Continue(ok)
  /\ dispose
  /\ UNCHANGED <<platform, managed, allowed, consent, effects>>

\* It ends after a signal was forwarded, whatever its exit code, or a signal
\* that this process has not seen ended it.
CommandInterrupted ==
  /\ at \in Commands /\ listener = "child" /\ Spawnable
  /\ gh' \in Outcome(FALSE)
  /\ \E s \in IF Interrupted THEN {latched} ELSE Signals : toolInterruption(s)
  /\ dispose
  /\ UNCHANGED <<platform, managed, allowed, found, consent, effects>>

\* The error event of spawn: exit code 127, and a forwarded signal is forgotten.
CommandMissing ==
  /\ at \in Commands /\ listener = "child" /\ ~Spawnable
  /\ found' = IF at = "final exists" THEN FALSE ELSE found
  /\ Continue(FALSE)
  /\ dispose
  /\ UNCHANGED <<platform, managed, gh, allowed, consent, effects>>
-----------------------------------------------------------------------------
(* promptUserAuthorization.                                                *)

Asked == IF at = "ask install" THEN "install" ELSE "login"

Ask == /\ at \in Questions
       /\ start("question")
       /\ UNCHANGED toolVars

\* The user presses "y", another key, or closes the input.
UserAnswers(yes) ==
  /\ at \in Questions /\ listener = "question"
  /\ allowed' = yes
  /\ consent' = consent \cup IF yes THEN {Asked} ELSE {}
  /\ Prepare(Asked)
  /\ dispose
  /\ UNCHANGED <<platform, managed, gh, found, effects>>

\* Reading the answer fails.
QuestionFails ==
  /\ at \in Questions /\ listener = "question"
  /\ Return(Failed)
  /\ dispose
  /\ UNCHANGED <<platform, managed, gh, allowed, found, consent, effects>>

\* A signal, or Ctrl-C as a byte of the raw terminal, rejects the question at once.
QuestionInterrupted(s) ==
  /\ at \in Questions /\ listener = "question"
  /\ toolInterruption(s)
  /\ listener' = "none" /\ latched' = "none" /\ first' = s
  /\ IF s = "SIGINT" THEN Send \/ UNCHANGED signalsLeft ELSE Send
  /\ UNCHANGED <<platform, managed, gh, allowed, found, consent, effects>>

\* Somebody installs or removes gh, logs in or out.
ToolDrift == /\ driftLeft > 0
             /\ driftLeft' = driftLeft - 1
             /\ listener # "child"
             /\ at \notin {"idle", "returned"}
             /\ gh' \in [installed : BOOLEAN, authenticated : BOOLEAN] \ {gh}
             /\ UNCHANGED signalVars
             /\ UNCHANGED <<platform, managed, at, stage, allowed, operation,
                            effectContext, found, preparation, consent, effects>>

ToolSystemStep == \/ Spawn \/ CommandInterrupted \/ CommandMissing \/ Ask
                  \/ \E ok \in BOOLEAN : CommandEnds(ok)

ToolUserStep == \/ \E yes \in BOOLEAN : UserAnswers(yes)
                \/ QuestionFails
                \/ \E s \in Signals : QuestionInterrupted(s)
=============================================================================
