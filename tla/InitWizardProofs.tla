-------------------------- MODULE InitWizardProofs --------------------------
(***************************************************************************)
(* Proofs about the init wizard with its tool preparation, for any number  *)
(* of targets, of signals and of changes made by others.                   *)
(*                                                                         *)
(* The argument: the loop of the wizard changes only the target it is at,  *)
(* after the approval (Loop, Changes); the preparation runs between the    *)
(* selection and the first status (Stages); and what the preparation has   *)
(* started it still knows, in operation or in effectContext, whenever it   *)
(* can be interrupted (Consented, Carried).                                *)
(***************************************************************************)
EXTENDS InitWizard, FiniteSetTheorems, TLAPS

Outcomes == {"INTERRUPTED", "SUCCESS", "INVALID_INVOCATION", "UNSAFE_STATE",
             "VERIFICATION_ROLLED_BACK", "ROLLBACK_FAILED"}
Replies == [outcome : Outcomes, targets : SUBSET Targets, tools : BOOLEAN, thrown : BOOLEAN,
            signal : Signals \cup {"none"}, effect : Operations \cup {"none"}]

\* Before the tools, and after them.
Early == {"discover", "latest", "rows", "select"}
Late == {"status", "plan", "confirm", "apply", "verify"}

Shape == /\ mode \in {"init", "init without tools", "tools"}
         /\ state \in [Targets -> States] /\ driftLeft \in Nat
         /\ pc \in Early \cup Late \cup {"start", "tools", "answered"}
         /\ order \in Seq(Targets) /\ IsInjective(order)
         /\ next \in 1..(Len(order) + 1) /\ completed \in 0..Len(order)
         /\ shown \in [Targets -> [status : States \cup {"none"}, planned : States \cup {"none"}]]
         /\ tools \in Statuses \cup {"none"}
         /\ answer \in Replies \cup {Pending, Killed}
         /\ answer = Pending <=> pc # "answered"
         /\ approved \in BOOLEAN
         /\ \A c \in changed : c.target \in Targets /\ c.op \in {"install", "update"}

\* Where the loops over the targets are.
Loop == /\ pc \in Early \cup {"start"} => order = <<>>
        /\ pc \in Early \cup Late => mode # "tools"
        /\ pc = "tools" => mode # "init without tools" /\ (mode = "init" => order # <<>>)
        /\ pc \in Late => next \in DOMAIN order
        /\ pc \in {"apply", "verify"} => next = completed + 1
        /\ pc \in Early \cup {"start", "tools", "status", "plan", "confirm"} => completed = 0
        /\ pc \in Early \cup {"start", "tools", "confirm"} => next = 1

\* Nothing is changed before the approval, nor a target before its turn.
Changes ==
  /\ pc \in Early \cup {"start", "tools", "status", "plan", "confirm"} => changed = {}
  /\ pc \in {"apply", "verify"} => approved
  /\ \A c \in changed : \E i \in DOMAIN order :
       /\ c.target = order[i]
       /\ i <= completed + 1
       /\ pc = "apply" => i <= completed

\* The preparation runs at "tools" only; what it started, its result lists.
Stages == /\ at = "idle" => effects = {}
          /\ pc \in Early \cup {"start"} \/ mode = "init without tools" => at = "idle"
          /\ pc \in Late => at \in {"idle", "returned"}
          /\ pc \in Late /\ effects # {} => tools # "none"

\* What runs was authorized: by the answer in the same stage.
Consented == /\ EffectsAuthorized
             /\ stage = "install" /\ allowed => "install" \in consent
             /\ stage = "login" /\ allowed => "login" \in consent
             /\ at \in {"manager", "update", "package"} => "install" \in consent
             /\ at = "login" => "login" \in consent

\* What was started is known where an interruption names it.
Carried ==
  /\ stage \in {"inspect", "reinspect"} => operation = "none"
  /\ at # "returned" /\ stage \in {"inspect", "install"} => effectContext = "none"
  /\ stage = "install" => operation # "login"
  /\ at \in {"idle", "inspect exists", "inspect auth", "ask install", "ask login"}
       => stage \in {"inspect", "reinspect"}
  /\ at = "ask install" => stage = "inspect"
  /\ at \in {"find", "manager"} => operation = "none"
  /\ at = "find" => stage \in {"install", "login"}
  /\ at = "manager" => stage = "install"
  /\ at \in {"update", "package"} => operation = "install" /\ stage = "install"
  /\ at = "login" => operation = "login"
  /\ at # "returned" /\ effects # {} =>
       \/ operation \in effects
       \/ operation = "none" /\ effectContext \in effects
       \/ at = "login" /\ listener = "none"
  /\ preparation.kind = "interrupted" /\ effects # {} => preparation.effect \in effects

\* A coordinator that listens has latched the first signal.
Latched == listener = "coordinator" => latched = first

SignalPart == SignalVarsOK /\ Latched
ToolPart == ToolTypeOK /\ Consented /\ Carried /\ (at = "returned" <=> preparation # Running)
WizardPart == /\ Shape /\ Loop /\ Changes /\ Stages
              /\ ApprovedChangesOnly /\ InterruptionReportsEffect /\ TargetsAccounted

IInv == SignalPart /\ ToolPart /\ WizardPart

-----------------------------------------------------------------------------
(* Signals.                                                                *)

LEMMA SendKeeps ==
  ASSUME SignalVarsOK, Send
  PROVE  signalsLeft' \in 0..MaxSignals
<1>1. signalsLeft \in 0..MaxSignals /\ MaxSignals \in Nat
  BY InputsAssumption DEF SignalVarsOK
<1>2. signalsLeft > 0 /\ signalsLeft' = signalsLeft - 1
  BY DEF Send
<1> QED
  BY <1>1, <1>2

LEMMA SignalSteps ==
  ASSUME SignalPart
  PROVE  /\ UNCHANGED signalVars => SignalPart'
         /\ dispose => SignalPart'
         /\ \A who \in Listeners : start(who) => SignalPart'
         /\ \A s \in Signals : Deliver(s) => SignalPart'
<1> USE InputsAssumption DEF SignalPart, SignalVarsOK, Latched, Listeners, Signals
<1>1. UNCHANGED signalVars => SignalPart'
  BY DEF signalVars
<1>2. dispose => SignalPart'
  BY DEF dispose
<1>3. ASSUME NEW who \in Listeners, start(who) PROVE SignalPart'
  BY <1>3 DEF start
<1>4. ASSUME NEW s \in Signals, Deliver(s) PROVE SignalPart'
  <2>1. signalsLeft' \in 0..MaxSignals
    BY <1>4, SendKeeps DEF Deliver
  <2>2. latched' = latch(s) /\ first' = (IF first = "none" THEN s ELSE first) /\ listener' = listener
    BY <1>4 DEF Deliver
  <2>3. latch(s) \in Signals
    BY DEF latch
  <2>4. listener = "coordinator" => latch(s) = first'
    BY <2>2 DEF latch
  <2> QED
    BY <2>1, <2>2, <2>3, <2>4
<1> QED
  BY <1>1, <1>2, <1>3, <1>4

-----------------------------------------------------------------------------
(* The preparation of tools.                                               *)

\* What the orchestrator asks of an idle or finished preparation.
LEMMA ToolsRest ==
  ASSUME ToolPart, at = "idle" => effects = {}, at \in {"idle", "returned"}, UNCHANGED toolVars
  PROVE  ToolPart'
<1> USE DEF ToolPart, toolVars
<1>1. ToolTypeOK'
  BY DEF ToolTypeOK
<1>2. Consented'
  BY DEF Consented, EffectsAuthorized
<1>3. Carried'
  BY DEF Carried
<1>4. (at = "returned" <=> preparation # Running)'
  BY DEF Running
<1> QED
  BY <1>1, <1>2, <1>3, <1>4

LEMMA ToolsSame ==
  ASSUME ToolPart, UNCHANGED toolVars, listener' = listener
  PROVE  ToolPart'
<1> USE DEF ToolPart, toolVars
<1>1. ToolTypeOK' /\ Consented'
  BY DEF ToolTypeOK, Consented, EffectsAuthorized
<1>2. Carried'
  BY DEF Carried
<1> QED
  BY <1>1, <1>2 DEF Running

LEMMA Kinds ==
  /\ \A s : Returned(s) # Running /\ Returned(s).kind = "result"
  /\ \A s, e : Threw(s, e) # Running /\ Threw(s, e).kind = "interrupted" /\ Threw(s, e).effect = e
  /\ Failed # Running /\ Failed.kind = "error"
  /\ Running.kind = "running"
<1>1. Running.kind = "running" /\ Failed.kind = "error"
  BY DEF Running, Failed
<1>2. \A s : Returned(s).kind = "result"
  BY DEF Returned
<1>3. \A s, e : Threw(s, e).kind = "interrupted" /\ Threw(s, e).effect = e
  BY DEF Threw
<1> QED
  BY <1>1, <1>2, <1>3

LEMMA Prepares ==
  \A s \in Statuses : Returned(s) \in Preparations
BY DEF Preparations

\* The rest of what a step of a child or of a question leaves to be shown.
Rests == /\ platform' = platform /\ managed' = managed /\ allowed' = allowed
         /\ consent' = consent /\ effects' = effects
         /\ gh' \in [installed : BOOLEAN, authenticated : BOOLEAN] /\ found' \in BOOLEAN
         /\ listener' = "none"

\* A command is the only place where an operation may be unknown, before it started.
LEMMA Known ==
  ASSUME ToolPart, at # "returned", effects # {}, listener # "none" \/ at # "login"
  PROVE  operation \in effects \/ (operation = "none" /\ effectContext \in effects)
BY DEF ToolPart, Carried

LEMMA GoesOn ==
  ASSUME ToolPart, Rests, listener # "none", at # "returned",
         NEW to \in (Commands \cup Questions) \ {"find", "login"}, Goto(to),
         to \in {"inspect exists", "inspect auth"} \cup Questions => stage \in {"inspect", "reinspect"},
         to = "ask install" => stage = "inspect",
         to = "manager" => operation = "none" /\ stage = "install" /\ allowed,
         to \in {"update", "package"} => operation = "install" /\ stage = "install"
                                           /\ "install" \in consent
  PROVE  ToolPart'
<1> USE DEF ToolPart, Rests, Goto, Commands, GhCommands, ManagerCommands, Questions
<1>1. ToolTypeOK'
  BY ZenonT(30) DEF ToolTypeOK
<1>2. Consented'
  BY DEF Consented, EffectsAuthorized
<1>3. Carried'
  BY Known DEF Carried
<1>4. (at = "returned" <=> preparation # Running)'
  <2>1. at' # "returned" /\ preparation' = preparation
    OBVIOUS
  <2> QED
    BY <2>1 DEF Running
<1> QED
  BY <1>1, <1>2, <1>3, <1>4

LEMMA Returns ==
  ASSUME ToolPart, Rests, listener # "none", at # "returned",
         NEW p \in Preparations, Return(p), p # Running,
         p.kind = "interrupted" /\ effects # {} => p.effect \in effects
  PROVE  ToolPart'
<1> USE DEF ToolPart, Rests, Return
<1>1. ToolTypeOK'
  BY DEF ToolTypeOK
<1>2. Consented'
  BY DEF Consented, EffectsAuthorized
<1>3. Carried'
  BY DEF Carried
<1>4. (at = "returned" <=> preparation # Running)'
  BY DEF Running
<1> QED
  BY <1>1, <1>2, <1>3, <1>4

LEMMA Operates ==
  ASSUME ToolPart, Rests, listener # "none", at # "returned",
         NEW op \in Operations, NEW to \in {"update", "package", "login"}, Operate(op, to),
         IF to = "login" THEN op = "login" /\ stage = "login" /\ allowed
                         ELSE op = "install" /\ at = "manager"
  PROVE  ToolPart'
<1> USE DEF ToolPart, Rests, Operate, Operations
<1>1. ToolTypeOK'
  BY DEF ToolTypeOK, Commands, GhCommands, ManagerCommands
<1>2. Consented'
  BY DEF Consented, EffectsAuthorized
<1>3. Carried'
  <2>1. to # "login" => effects = {}
    BY Known DEF Carried, ToolTypeOK
  <2> QED
    BY <2>1 DEF Carried
<1>4. (at = "returned" <=> preparation # Running)'
  BY DEF Running
<1> QED
  BY <1>1, <1>2, <1>3, <1>4

LEMMA Prepareds ==
  ASSUME ToolPart, Rests, listener # "none", at \in Commands,
         NEW status \in Statuses, Prepared(status)
  PROVE  ToolPart'
<1> USE DEF ToolPart, Rests, Prepared, carriedEffect
<1>1. CASE stage = "login" /\ Return(Returned(status))
  BY <1>1, Returns, Kinds, Prepares DEF Commands, GhCommands, ManagerCommands
<1>2. CASE /\ stage = "install" /\ effectContext' = operation /\ operation' = "none"
           /\ at' = "returned" /\ preparation' = Returned(status) /\ UNCHANGED stage
  <2>1. ToolTypeOK'
    BY <1>2, Prepares DEF ToolTypeOK
  <2>2. Consented'
    BY <1>2 DEF Consented, EffectsAuthorized
  <2>3. Carried'
    BY <1>2, Kinds DEF Carried
  <2>4. (at = "returned" <=> preparation # Running)'
    BY <1>2, Kinds DEF Running
  <2> QED
    BY <2>1, <2>2, <2>3, <2>4
<1>3. CASE /\ stage = "install" /\ effectContext' = operation /\ operation' = "none"
           /\ at' = "inspect exists" /\ stage' = "reinspect" /\ UNCHANGED preparation
  <2>1. ToolTypeOK'
    BY <1>3 DEF ToolTypeOK, Commands, GhCommands
  <2>2. Consented'
    BY <1>3 DEF Consented, EffectsAuthorized
  <2>3. Carried'
    BY <1>3, Known DEF Carried, ToolTypeOK, Commands, GhCommands, ManagerCommands
  <2>4. (at = "returned" <=> preparation # Running)'
    BY <1>3 DEF Running, Commands, GhCommands, ManagerCommands
  <2> QED
    BY <2>1, <2>2, <2>3, <2>4
<1> QED
  BY <1>1, <1>2, <1>3

\* What follows a command, whether it succeeded or not.
LEMMA Continues ==
  ASSUME ToolPart, Rests, listener # "none", at \in Commands, NEW ok \in BOOLEAN, Continue(ok)
  PROVE  ToolPart'
<1> USE DEF Continue
<1>0. at \in GhCommands \cup ManagerCommands /\ at # "returned"
  BY DEF Commands, GhCommands, ManagerCommands
<1>a. /\ at \in {"inspect exists", "inspect auth"} => stage \in {"inspect", "reinspect"}
      /\ at \in {"find", "manager"} => operation = "none"
      /\ at = "find" => stage \in {"install", "login"}
      /\ at = "manager" => stage = "install"
      /\ at \in {"update", "package"} => operation = "install" /\ stage = "install"
      /\ at \in {"update", "package"} => "install" \in consent
  BY DEF ToolPart, Carried, Consented
<1>b. ASSUME NEW status \in {"READY", "MISSING", "AUTH_REQUIRED"}, Inspected(status),
             stage \in {"inspect", "reinspect"}
      PROVE  ToolPart'
  <2>1. CASE (stage = "inspect" /\ Goto("ask install")) \/ Goto("ask login")
    BY <1>0, <1>b, <2>1, GoesOn DEF Questions
  <2>2. CASE Return(Returned(status))
    BY <1>0, <2>2, Returns, Kinds, Prepares DEF Statuses
  <2> QED
    BY <1>b, <2>1, <2>2 DEF Inspected
<1>c. /\ \A status \in Statuses : Prepared(status) => ToolPart'
      /\ {"READY", "MISSING", "AUTH_REQUIRED", "SKIPPED", "UNAVAILABLE"} \subseteq Statuses
  BY Prepareds DEF Statuses
<1>1. CASE at = "inspect exists"
  BY <1>0, <1>1, <1>a, <1>b, GoesOn DEF Commands, GhCommands
<1>2. CASE at = "inspect auth"
  BY <1>2, <1>a, <1>b
<1>3. CASE at = "find"
  <2>1. CASE ok
    BY <1>0, <1>3, <2>1, GoesOn DEF Commands, GhCommands, Questions
  <2>2. CASE ~ok /\ Goto("manager") /\ authorizeInstall
    BY <1>0, <1>3, <1>a, <2>2, GoesOn DEF Commands, ManagerCommands, Questions, authorizeInstall
  <2>3. CASE ~ok /\ (Prepared("UNAVAILABLE") \/ Prepared("SKIPPED"))
    BY <1>c, <2>3
  <2> QED
    BY <1>3, <2>1, <2>2, <2>3 DEF WithoutGh
<1>4. CASE at = "manager"
  <2>1. CASE ok
    <3>1. PICK to \in {"update", "package"} : Operate("install", to)
      BY <1>4, <2>1
    <3> QED
      BY <1>0, <1>4, <3>1, Operates DEF Operations
  <2>2. CASE ~ok
    BY <1>4, <1>c, <2>2
  <2> QED
    BY <2>1, <2>2
<1>5. CASE at \in {"update", "package", "recheck"}
  <2>1. CASE ~ok
    BY <1>5, <1>c, <2>1
  <2>2. CASE ok
    BY <1>0, <1>5, <1>a, <2>2, GoesOn DEF Commands, GhCommands, ManagerCommands, Questions
  <2> QED
    BY <2>1, <2>2
<1>6. CASE at \in {"auth", "login", "final exists"}
  <2>1. CASE Goto("final exists") \/ Goto("final auth")
    BY <1>0, <2>1, GoesOn DEF Commands, GhCommands, Questions
  <2>2. CASE Prepared("SKIPPED") \/ Prepared("AUTH_REQUIRED")
    BY <1>c, <2>2
  <2>3. CASE authorizeLogin /\ Operate("login", "login")
    BY <1>0, <2>3, Operates DEF Operations, authorizeLogin
  <2> QED
    BY <1>6, <2>1, <2>2, <2>3 DEF WithoutLogin
<1>7. CASE at = "final auth"
  BY <1>7, <1>c
<1> QED
  BY <1>0, <1>1, <1>2, <1>3, <1>4, <1>5, <1>6, <1>7 DEF GhCommands, ManagerCommands

\* An interruption of a command or of a question.
LEMMA Interrupts ==
  ASSUME ToolPart, Rests, listener # "none", at # "returned",
         NEW s \in Signals, toolInterruption(s)
  PROVE  ToolPart'
<1> DEFINE e == IF operation # "none" THEN operation ELSE effectContext
<1>1. e \in Operations \cup {"none"}
  BY DEF ToolPart, ToolTypeOK
<1>2. Threw(s, e) \in Preparations
  BY <1>1 DEF Preparations
<1>3. effects # {} => e \in effects
  BY Known DEF ToolPart, ToolTypeOK, Operations
<1>4. Return(Threw(s, e))
  BY DEF toolInterruption
<1> HIDE DEF e
<1> QED
  BY <1>2, <1>3, <1>4, Returns, Kinds

\* The machines a command leaves behind are machines.
LEMMA Machines ==
  ASSUME ToolPart, NEW ok \in BOOLEAN
  PROVE  Outcome(ok) \subseteq [installed : BOOLEAN, authenticated : BOOLEAN]
<1>1. gh \in [installed : BOOLEAN, authenticated : BOOLEAN]
  BY DEF ToolPart, ToolTypeOK
<1>2. /\ [gh EXCEPT !.installed = TRUE] \in [installed : BOOLEAN, authenticated : BOOLEAN]
      /\ [gh EXCEPT !.authenticated = TRUE] \in [installed : BOOLEAN, authenticated : BOOLEAN]
  BY <1>1
<1> QED
  BY <1>1, <1>2 DEF Outcome

LEMMA Spawns ==
  ASSUME ToolPart, Spawn
  PROVE  ToolPart' /\ at' # "idle"
<1> USE DEF ToolPart, Spawn, start
<1>0. /\ at \in GhCommands \cup ManagerCommands /\ at' = at /\ listener' = "child" /\ listener = "none"
      /\ preparation' = preparation
  BY DEF Commands
<1>1. ToolTypeOK'
  BY DEF ToolTypeOK, Operations
<1>2. Consented'
  BY DEF Consented, EffectsAuthorized
<1>3. Carried'
  <2>1. at \in {"update", "package", "login"} \/ effects' = effects
    BY DEF Carried
  <2>2. at \in {"update", "package", "login"} => operation \in effects'
    BY DEF Carried
  <2>3. CASE at \in {"update", "package", "login"}
    BY <1>0, <2>2, <2>3, Kinds DEF Carried
  <2>4. CASE at \notin {"update", "package", "login"}
    BY <1>0, <2>1, <2>4 DEF Carried
  <2> QED
    BY <2>3, <2>4
<1>4. (at = "returned" <=> preparation # Running)'
  BY <1>0 DEF Running
<1> QED
  BY <1>0, <1>1, <1>2, <1>3, <1>4 DEF GhCommands, ManagerCommands

LEMMA Asks ==
  ASSUME ToolPart, Ask
  PROVE  ToolPart' /\ at' # "idle"
<1> USE DEF ToolPart, Ask, start, toolVars
<1>1. ToolTypeOK'
  BY DEF ToolTypeOK
<1>2. Consented'
  BY DEF Consented, EffectsAuthorized
<1>3. Carried'
  BY DEF Carried, Questions
<1>4. (at = "returned" <=> preparation # Running)'
  BY DEF Running
<1> QED
  BY <1>1, <1>2, <1>3, <1>4 DEF Questions

LEMMA Answered ==
  ASSUME ToolPart, NEW yes \in BOOLEAN, UserAnswers(yes)
  PROVE  ToolPart' /\ at' # "idle"
<1> USE DEF ToolPart, UserAnswers, Prepare, Asked, Questions, dispose
<1>1. ToolTypeOK'
  BY DEF ToolTypeOK, Commands, GhCommands, Operations
<1>2. Consented'
  BY DEF Consented, EffectsAuthorized
<1>3. Carried'
  <2>1. effects # {} => effectContext \in effects
    BY Known DEF Carried, ToolTypeOK, Operations
  <2>2. at = "ask install" => effectContext = "none"
    BY DEF Carried
  <2>3. preparation = Running
    OBVIOUS
  <2> QED
    BY <2>1, <2>2, <2>3, Kinds DEF Carried
<1>4. (at = "returned" <=> preparation # Running)'
  BY DEF Running
<1> QED
  BY <1>1, <1>2, <1>3, <1>4

LEMMA ToolSteps ==
  ASSUME SignalPart, ToolPart, ToolSystemStep \/ ToolUserStep \/ ToolDrift
  PROVE  ToolPart' /\ at' # "idle" /\ SignalPart'
<1> USE DEF ToolSystemStep, ToolUserStep
<1>1. CASE Spawn
  BY <1>1, Spawns, SignalSteps DEF Spawn, Listeners
<1>2. CASE Ask
  BY <1>2, Asks, SignalSteps DEF Ask, Listeners
<1>3. ASSUME NEW ok \in BOOLEAN, CommandEnds(ok) PROVE ToolPart' /\ at' # "idle" /\ SignalPart'
  <2>1. gh' \in [installed : BOOLEAN, authenticated : BOOLEAN]
    BY <1>3, Machines DEF CommandEnds
  <2>2. Rests /\ listener # "none" /\ at \in Commands /\ Continue(ok)
    BY <1>3, <2>1 DEF CommandEnds, Rests, dispose, ToolPart, ToolTypeOK
  <2>3. at' # "idle"
    BY <2>2 DEF Commands, GhCommands, ManagerCommands, Continue, Inspected, Prepared, WithoutGh,
                WithoutLogin, Goto, Return, Operate
  <2> QED
    BY <1>3, <2>2, <2>3, Continues, SignalSteps DEF CommandEnds
<1>4. CASE CommandMissing
  <2>1. Rests /\ listener # "none" /\ at \in Commands /\ Continue(FALSE)
    BY <1>4 DEF CommandMissing, Rests, dispose, ToolPart, ToolTypeOK
  <2>2. at' # "idle"
    BY <2>1 DEF Commands, GhCommands, ManagerCommands, Continue, Inspected, Prepared, WithoutGh,
                WithoutLogin, Goto, Return, Operate
  <2> QED
    BY <1>4, <2>1, <2>2, Continues, SignalSteps DEF CommandMissing
<1>5. CASE CommandInterrupted
  <2>1. gh' \in [installed : BOOLEAN, authenticated : BOOLEAN]
    BY <1>5, Machines DEF CommandInterrupted
  <2>2. PICK s \in Signals : toolInterruption(s)
    BY <1>5 DEF CommandInterrupted, Interrupted, SignalPart, SignalVarsOK
  <2>3. Rests /\ listener # "none" /\ at # "returned"
    BY <1>5, <2>1 DEF CommandInterrupted, Rests, dispose, ToolPart, ToolTypeOK,
                      Commands, GhCommands, ManagerCommands
  <2> QED
    BY <1>5, <2>2, <2>3, Interrupts, SignalSteps DEF CommandInterrupted, toolInterruption, Return
<1>6. ASSUME NEW yes \in BOOLEAN, UserAnswers(yes) PROVE ToolPart' /\ at' # "idle" /\ SignalPart'
  BY <1>6, Answered, SignalSteps DEF UserAnswers
<1>7. CASE QuestionFails
  <2>1. Rests /\ listener # "none" /\ at # "returned"
    BY <1>7 DEF QuestionFails, Rests, dispose, ToolPart, ToolTypeOK, Questions
  <2>2. Failed \in Preparations
    BY DEF Preparations
  <2> QED
    BY <1>7, <2>1, <2>2, Returns, Kinds, SignalSteps DEF QuestionFails, Return
<1>8. ASSUME NEW s \in Signals, QuestionInterrupted(s) PROVE ToolPart' /\ at' # "idle" /\ SignalPart'
  <2>1. Rests /\ listener # "none" /\ at # "returned"
    BY <1>8 DEF QuestionInterrupted, Rests, ToolPart, ToolTypeOK, Questions
  <2>2. signalsLeft' \in 0..MaxSignals
    BY <1>8, SendKeeps DEF QuestionInterrupted, SignalPart, SignalVarsOK
  <2>3. SignalPart'
    BY <1>8, <2>2 DEF QuestionInterrupted, SignalPart, SignalVarsOK, Latched, Listeners
  <2> QED
    BY <1>8, <2>1, <2>3, Interrupts DEF QuestionInterrupted, toolInterruption, Return
<1>9. CASE ToolDrift
  <2> USE DEF ToolPart, ToolDrift, signalVars
  <2>1. SignalPart'
    BY <1>9, SignalSteps
  <2>2. ToolTypeOK'
    BY <1>9 DEF ToolTypeOK
  <2>3. Consented'
    BY <1>9 DEF Consented, EffectsAuthorized
  <2>4. Carried'
    BY <1>9 DEF Carried
  <2>5. (at = "returned" <=> preparation # Running)'
    BY <1>9 DEF Running
  <2> QED
    BY <1>9, <2>1, <2>2, <2>3, <2>4, <2>5
<1> QED
  BY <1>1, <1>2, <1>3, <1>4, <1>5, <1>6, <1>7, <1>8, <1>9

-----------------------------------------------------------------------------
(* The wizard.                                                             *)

\* The wizard waits.
LEMMA Waits ==
  ASSUME WizardPart, UNCHANGED wizardVars, driftLeft' \in Nat,
         \/ at' = at /\ effects' = effects
         \/ pc = "tools" /\ at' # "idle"
  PROVE  WizardPart'
<1> USE DEF WizardPart, wizardVars
<1>1. Shape'
  BY DEF Shape
<1>2. Loop' /\ Changes'
  BY DEF Loop, Changes
<1>3. Stages'
  BY DEF Stages, Loop, Early, Late
<1>4. ApprovedChangesOnly'
  BY DEF ApprovedChangesOnly
<1>5. InterruptionReportsEffect'
  BY DEF InterruptionReportsEffect, HasAnswered, Shape
<1>6. TargetsAccounted'
  BY DEF TargetsAccounted, HasAnswered, Listed
<1> QED
  BY <1>1, <1>2, <1>3, <1>4, <1>5, <1>6

\* A reply that tells what was done, when it was not all that was asked for.
Accounts(r) == /\ r \in Replies /\ r # Pending /\ r # Killed
               /\ mode # "tools" => r.targets = Listed /\ r.outcome # "SUCCESS"
               /\ r.outcome = "INTERRUPTED" /\ effects # {} => r.tools \/ r.effect \in effects

\* What a failing step leaves alone, and what it may still have changed.
Stops == /\ UNCHANGED <<toolVars, driftLeft, mode, order, next, shown, completed, approved>>
         /\ tools' \in Statuses \cup {"none"} /\ state' \in [Targets -> States]

LEMMA Ordered ==
  ASSUME WizardPart
  PROVE  /\ Len(order) \in Nat /\ DOMAIN order = 1..Len(order)
         /\ \A i \in DOMAIN order : order[i] \in Targets
         /\ completed \in 0..Len(order) /\ next \in 1..(Len(order) + 1)
         /\ order = <<>> <=> Len(order) = 0
         /\ pc \in Early \cup Late \cup {"start", "tools", "answered"}
<1>1. order \in Seq(Targets) /\ completed \in 0..Len(order) /\ next \in 1..(Len(order) + 1)
      /\ pc \in Early \cup Late \cup {"start", "tools", "answered"}
  BY DEF WizardPart, Shape
<1>2. Len(order) \in Nat /\ DOMAIN order = 1..Len(order) /\ (order = <<>> <=> Len(order) = 0)
  BY <1>1
<1>3. \A i \in DOMAIN order : order[i] \in Targets
  BY <1>1
<1> QED
  BY <1>1, <1>2, <1>3

\* Some target is not done while the process has not answered.
LEMMA Unfinished ==
  ASSUME WizardPart, pc # "answered", mode # "tools", order # <<>>
  PROVE  completed # Len(order)
<1>1. pc \in Early \cup {"start"} => order = <<>>
  BY DEF WizardPart, Loop
<1>2. Len(order) \in Nat /\ Len(order) # 0 /\ DOMAIN order = 1..Len(order)
  BY Ordered
<1>3. pc \in {"tools", "status", "plan", "confirm"} => completed = 0
  BY DEF WizardPart, Loop
<1>4. pc \in {"apply", "verify"} => completed + 1 \in 1..Len(order) /\ completed \in 0..Len(order)
  <2>1. pc \in {"apply", "verify"} => next \in DOMAIN order /\ next = completed + 1
    BY DEF WizardPart, Loop, Late
  <2> QED
    BY <1>2, <2>1, Ordered
<1>5. pc \in Early \cup {"start"} \cup {"tools", "status", "plan", "confirm"} \cup {"apply", "verify"}
  BY Ordered DEF Late
<1>6. pc \notin Early \cup {"start"}
  BY <1>1
<1> QED
  BY <1>2, <1>3, <1>4, <1>5, <1>6

\* A change of the target the loop is at, or of one before it, as approved.
Rightful(c) ==
  /\ approved
  /\ c.op = operationFor(shown[c.target].status)
  /\ c.was = "OUTDATED" <=> shown[c.target].status = "OUTDATED"
  /\ \E i \in DOMAIN order : c.target = order[i] /\ i <= completed + 1

LEMMA ChangedRightful ==
  ASSUME WizardPart, NEW c \in changed
  PROVE  Rightful(c)
BY DEF WizardPart, ApprovedChangesOnly, Changes, Rightful

LEMMA Stopping ==
  ASSUME WizardPart, pc # "answered", NEW r, Answer(r), Accounts(r) \/ r = Killed,
         Stops, \A c \in changed' : Rightful(c)
  PROVE  WizardPart'
<1> USE DEF WizardPart, Stops, Answer, Accounts
<1>1. DOMAIN order = 1..Len(order) /\ \A i \in DOMAIN order : order[i] \in Targets
  BY Ordered
<1>2. \A c \in changed' : c.target \in Targets /\ c.op \in {"install", "update"}
                         /\ c.target \in ToSet(order)
  BY <1>1 DEF Rightful, operationFor, ToSet
<1>3. Shape'
  <2>1. answer' \in Replies \cup {Pending, Killed} /\ answer' # Pending
    BY DEF Pending, Killed
  <2> QED
    BY <1>2, <2>1 DEF Shape
<1>4. Loop'
  BY DEF Loop, Early, Late
<1>5. Changes'
  BY DEF Changes, Rightful, Early
<1>6. Stages'
  BY DEF Stages, Early, Late, toolVars
<1>7. ApprovedChangesOnly'
  BY <1>2 DEF ApprovedChangesOnly, Rightful
<1>8. InterruptionReportsEffect'
  BY DEF InterruptionReportsEffect, HasAnswered, toolVars
<1>9. TargetsAccounted'
  <2> SUFFICES ASSUME answer' # Killed, mode # "tools"
               PROVE  /\ r.targets = Listed'
                      /\ r.outcome = "SUCCESS" <=> order # <<>> /\ completed = Len(order)
                      /\ {c.target : c \in changed'} \ r.targets
                           \subseteq {order[i] : i \in {completed + 1} \cap DOMAIN order}
    BY DEF TargetsAccounted, HasAnswered
  <2>1. r.targets = Listed /\ r.outcome # "SUCCESS"
    OBVIOUS
  <2>2. Listed' = Listed
    BY DEF Listed
  <2>3. r.outcome = "SUCCESS" <=> order # <<>> /\ completed = Len(order)
    BY <2>1, Unfinished
  <2>4. ASSUME NEW c \in changed', c.target \notin Listed
        PROVE  c.target \in {order[i] : i \in {completed + 1} \cap DOMAIN order}
    <3>1. PICK i \in DOMAIN order : c.target = order[i] /\ i <= completed + 1
      BY DEF Rightful
    <3>2. i \notin 1..completed
      BY <2>4, <3>1 DEF Listed
    <3>3. completed \in Nat /\ i \in Nat \ {0}
      BY <1>1, Ordered
    <3>4. i = completed + 1
      BY <3>1, <3>2, <3>3
    <3> QED
      BY <3>1, <3>4
  <2> QED
    BY <2>1, <2>2, <2>3, <2>4
<1> QED
  BY <1>3, <1>4, <1>5, <1>6, <1>7, <1>8, <1>9

\* The replies of the code.
LEMMA Listing ==
  ASSUME WizardPart
  PROVE  /\ Listed \subseteq Targets
         /\ completed = 0 => Listed = {}
<1>1. /\ DOMAIN order = 1..Len(order) /\ \A i \in DOMAIN order : order[i] \in Targets
      /\ completed \in 0..Len(order) /\ Len(order) \in Nat
  BY Ordered
<1> QED
  BY <1>1 DEF Listed

LEMMA Shapes ==
  /\ Pending \notin Replies /\ Killed \notin Replies
<1>1. \A r \in Replies : r.outcome \in Outcomes
  BY DEF Replies
<1>2. Pending.outcome = "pending" /\ Killed.outcome = "killed"
  BY DEF Pending, Killed
<1> QED
  BY <1>1, <1>2 DEF Outcomes

LEMMA Failing ==
  ASSUME WizardPart, pc # "answered", Fail("UNSAFE_STATE") \/ Fail("VERIFICATION_ROLLED_BACK")
                                        \/ Fail("ROLLBACK_FAILED")
  PROVE  \E r : Answer(r) /\ Accounts(r)
<1>1. PICK outcome \in Outcomes \ {"INTERRUPTED", "SUCCESS"} : Fail(outcome)
  BY DEF Outcomes
<1>2. PICK r : /\ Answer(r)
               /\ r = IF tools # "none" \/ completed > 0 THEN Reply(outcome, Listed, "none", "none")
                                                         ELSE Thrown(outcome, "none", "none")
  BY <1>1 DEF Fail
<1>3. completed > 0 \/ Listed = {}
  BY Ordered, Listing
<1>4. r \in Replies /\ r.outcome = outcome /\ r.targets = Listed
  <2>1. Listed \in SUBSET Targets /\ "none" \in Signals \cup {"none"}
        /\ "none" \in Operations \cup {"none"}
    BY Listing
  <2>2. LET x == Reply(outcome, Listed, "none", "none") IN
          x \in Replies /\ x.outcome = outcome /\ x.targets = Listed
    BY <2>1 DEF Reply, Replies
  <2>3. LET x == Thrown(outcome, "none", "none") IN
          x \in Replies /\ x.outcome = outcome /\ x.targets = {}
    BY <2>1 DEF Reply, Thrown, Replies
  <2> QED
    BY <1>2, <1>3, <2>2, <2>3
<1> QED
  BY <1>2, <1>4, Shapes DEF Accounts

LEMMA Interrupting ==
  ASSUME WizardPart, ToolPart, NEW s \in Signals \cup {"none"}, NEW e \in Operations \cup {"none"},
         pc \in Early \cup Late \/ effects = {} \/ e \in effects,
         Interrupt(s, e)
  PROVE  \E r : Answer(r) /\ Accounts(r)
<1>1. PICK r : Answer(r) /\ r = Reply("INTERRUPTED", Listed, s, e)
  BY DEF Interrupt
<1>2. "INTERRUPTED" \in Outcomes
  BY DEF Outcomes
<1>3. /\ r \in Replies /\ r.outcome = "INTERRUPTED" /\ r.targets = Listed
      /\ r.effect = e /\ r.tools = (tools # "none")
  <2>1. Listed \in SUBSET Targets
    BY Listing
  <2>2. LET x == Reply("INTERRUPTED", Listed, s, e) IN
          /\ x \in Replies /\ x.outcome = "INTERRUPTED" /\ x.targets = Listed
          /\ x.effect = e /\ x.tools = (tools # "none")
    BY <1>2, <2>1 DEF Reply, Replies
  <2> QED
    BY <1>1, <2>2
<1>4. effects # {} => tools # "none" \/ e \in effects
  BY DEF WizardPart, Stages
<1> QED
  BY <1>1, <1>3, <1>4, Shapes DEF Accounts

\* A step at "answered" does not happen; one elsewhere that does not answer.
LEMMA Moving ==
  ASSUME WizardPart, pc # "answered", answer' = answer,
         Shape', Loop', Changes', Stages', ApprovedChangesOnly'
  PROVE  WizardPart'
<1>1. answer = Pending
  BY DEF WizardPart, Shape
<1> QED
  BY <1>1 DEF WizardPart, InterruptionReportsEffect, TargetsAccounted, HasAnswered

\* A step that ends in an answer, and changes no target.
LEMMA Stopped ==
  ASSUME WizardPart, pc # "answered", \E r : Answer(r) /\ (Accounts(r) \/ r = Killed),
         Stops, changed' = changed
  PROVE  WizardPart'
BY Stopping, ChangedRightful

LEMMA Kept ==
  ASSUME WizardPart, Frame(<<state, order, next, shown, tools, completed, approved, changed>>)
  PROVE  Stops /\ changed' = changed
BY DEF Frame, Stops, WizardPart, Shape

LEMMA Starts ==
  ASSUME WizardPart, ToolPart, Start
  PROVE  WizardPart'
<1>0. pc = "start" /\ pc # "answered" /\ Stops /\ changed' = changed
  BY DEF Start, Frame, Stops, WizardPart, Shape
<1>1. CASE Answer(Reply("INVALID_INVOCATION", {}, "none", "none"))
  <2>1. Listed = {} /\ completed = 0
    BY <1>0, Listing DEF WizardPart, Loop
  <2>2. "INVALID_INVOCATION" \in Outcomes
    BY DEF Outcomes
  <2>3. Accounts(Reply("INVALID_INVOCATION", {}, "none", "none"))
    <3>1. {} \in SUBSET Targets /\ "none" \in Signals \cup {"none"}
          /\ "none" \in Operations \cup {"none"}
      OBVIOUS
    <3>2. LET x == Reply("INVALID_INVOCATION", {}, "none", "none") IN
            x \in Replies /\ x.outcome = "INVALID_INVOCATION" /\ x.targets = {}
      BY <2>2, <3>1 DEF Reply, Replies
    <3> QED
      BY <2>1, <3>2, Shapes DEF Accounts
  <2> QED
    BY <1>0, <1>1, <2>3, Stopped
<1>2. CASE pc' = (IF mode = "tools" THEN "tools" ELSE "discover") /\ UNCHANGED answer
  <2> USE <1>0, <1>2 DEF Start, Frame, WizardPart
  <2>1. Shape'
    BY DEF Shape, Early
  <2>2. Loop'
    BY DEF Loop, Early, Late
  <2>3. Changes'
    BY DEF Changes, Early
  <2>4. Stages'
    BY DEF Stages, Early, Late, toolVars
  <2>5. ApprovedChangesOnly'
    BY DEF ApprovedChangesOnly
  <2> QED
    BY <2>1, <2>2, <2>3, <2>4, <2>5, Moving
<1> QED
  BY <1>1, <1>2 DEF Start

\* Stages that end with an answer.
LEMMA StageStops ==
  ASSUME WizardPart, ToolPart, SignalPart, StageInterrupted \/ StageFails \/ Cancel
  PROVE  WizardPart'
<1>0. pc \in Early \cup Late /\ pc # "answered"
  BY DEF StageInterrupted, StageFails, Cancel, Ends, Abortable, ReadOnlyStages, Early, Late
<1>1. Stops /\ changed' = changed
  BY Kept DEF StageInterrupted, StageFails, Cancel
<1>2. \E r : Answer(r) /\ Accounts(r)
  <2>1. CASE StageInterrupted
    <3>1. latched \in Signals \cup {"none"} /\ Interrupt(latched, "none")
      BY <2>1 DEF StageInterrupted, SignalPart, SignalVarsOK
    <3> QED
      BY <1>0, <3>1, Interrupting
  <2>2. CASE StageFails
    BY <1>0, <2>2, Failing DEF StageFails
  <2>3. CASE Cancel
    <3>1. Interrupt("none", "none")
      BY <2>3 DEF Cancel, cancelled, Interrupt
    <3> QED
      BY <1>0, <3>1, Interrupting
  <2> QED
    BY <2>1, <2>2, <2>3
<1> QED
  BY <1>0, <1>1, <1>2, Stopped

LEMMA Inspects ==
  ASSUME WizardPart, Inspect
  PROVE  WizardPart'
<1> USE DEF Inspect, Ends, Frame, WizardPart
<1>1. Shape'
  BY DEF Shape, Early
<1>2. Loop'
  BY DEF Loop, Early, Late
<1>3. Changes'
  BY DEF Changes, Early
<1>4. Stages'
  BY DEF Stages, Early, Late, toolVars
<1>5. ApprovedChangesOnly'
  BY DEF ApprovedChangesOnly
<1> QED
  BY <1>1, <1>2, <1>3, <1>4, <1>5, Moving

\* What is selected without duplicates is a sequence without duplicates.
LEMMA Resolved ==
  ASSUME NEW picks \in SUBSET Supported, NEW manual \in SUBSET Targets,
         picks \cap manual = {}, NEW s \in resolved(picks, manual)
  PROVE  /\ s \in Seq(Targets) /\ IsInjective(s)
         /\ picks \cup manual # {} => Len(s) > 0
<1>1. IsFiniteSet(picks) /\ IsFiniteSet(manual)
  BY TargetsAssumption, FS_Subset
<1>2. Cardinality(picks) \in Nat /\ Cardinality(manual) \in Nat
  BY <1>1, FS_CardinalityType
<1> DEFINE n == Cardinality(picks) + Cardinality(manual)
<1>3. n \in Nat /\ s \in [1..n -> picks \cup manual]
  BY <1>2 DEF resolved
<1>4. s \in Seq(Targets) /\ Len(s) = n
  <2>1. picks \cup manual \subseteq Targets
    BY TargetsAssumption
  <2>2. s \in [1..n -> Targets] /\ n \in Nat
    BY <1>3, <2>1
  <2> HIDE DEF n
  <2> QED
    BY <2>2
<1>5. ASSUME NEW i \in DOMAIN s, NEW j \in DOMAIN s, s[i] = s[j] PROVE i = j
  <2> DEFINE P == {k \in DOMAIN s : s[k] = s[i]}
  <2>1. s[i] \in picks \cup manual
    BY <1>3
  <2>2. Cardinality(P) = Cardinality(picks \cap {s[i]}) + Cardinality(manual \cap {s[i]})
    BY <2>1 DEF resolved
  <2>3. \/ picks \cap {s[i]} = {s[i]} /\ manual \cap {s[i]} = {}
        \/ picks \cap {s[i]} = {} /\ manual \cap {s[i]} = {s[i]}
    BY <2>1
  <2>4. Cardinality({s[i]}) = 1 /\ Cardinality({}) = 0
    BY FS_Singleton, FS_EmptySet
  <2>5. Cardinality(P) = 1
    BY <2>2, <2>3, <2>4
  <2>6. IsFiniteSet(1..n)
    BY <1>3, FS_Interval
  <2>7. P \in SUBSET (1..n)
    BY <1>3
  <2>8. IsFiniteSet(P)
    BY <2>6, <2>7, FS_Subset
  <2>9. PICK x : P = {x}
    BY <2>5, <2>8, FS_Singleton
  <2>10. i \in P /\ j \in P
    BY <1>5
  <2> QED
    BY <2>9, <2>10
<1>6. ASSUME picks \cup manual # {} PROVE n > 0
  BY <1>1, <1>2, <1>6, FS_EmptySet
<1> QED
  BY <1>4, <1>5, <1>6 DEF IsInjective

LEMMA Selects ==
  ASSUME WizardPart, ToolPart, SelectTargets
  PROVE  WizardPart'
<1>1. PICK picks \in SUBSET Supported, manual \in SUBSET Targets :
        /\ picks \cup manual # {}
        /\ IF duplicateTargets(picks, manual) THEN Fail("UNSAFE_STATE") /\ UNCHANGED order
           ELSE /\ order' \in resolved(picks, manual)
                /\ pc' = IF mode = "init" THEN "tools" ELSE "status"
                /\ UNCHANGED answer
  BY DEF SelectTargets
<1>2. /\ pc = "select"
      /\ UNCHANGED <<toolVars, driftLeft, mode, state, next, shown, tools, completed, approved, changed>>
  BY DEF SelectTargets, Ends, Frame
<1>3. CASE duplicateTargets(picks, manual)
  <2>1. Stops /\ changed' = changed
    BY <1>1, <1>2, <1>3 DEF Stops, WizardPart, Shape
  <2>2. \E r : Answer(r) /\ Accounts(r)
    BY <1>1, <1>2, <1>3, Failing
  <2> QED
    BY <1>2, <2>1, <2>2, Stopped
<1>4. CASE ~duplicateTargets(picks, manual)
  <2>1. order' \in Seq(Targets) /\ IsInjective(order') /\ Len(order') > 0
    BY <1>1, <1>4, Resolved DEF duplicateTargets
  <2>2. Len(order') \in Nat /\ 1 \in DOMAIN order' /\ order' # <<>>
    BY <2>1
  <2>3. completed = 0 /\ next = 1 /\ changed = {} /\ mode # "tools" /\ at = "idle" /\ effects = {}
    BY <1>2 DEF WizardPart, Loop, Changes, Stages, Early
  <2>4. pc' \in {"tools", "status"} /\ answer' = answer /\ (pc' = "tools" <=> mode = "init")
    BY <1>1, <1>4
  <2> USE <1>2, <2>2, <2>3, <2>4 DEF WizardPart
  <2>5. Shape'
    <3>1. next' \in 1..(Len(order') + 1) /\ completed' \in 0..Len(order')
      OBVIOUS
    <3> QED
      BY <2>1, <3>1 DEF Shape, Late
  <2>6. Loop'
    BY DEF Loop, Early, Late
  <2>7. Changes'
    BY DEF Changes
  <2>8. Stages'
    BY DEF Stages, Early, toolVars, Shape
  <2>9. ApprovedChangesOnly'
    BY DEF ApprovedChangesOnly
  <2> QED
    BY <2>5, <2>6, <2>7, <2>8, <2>9, Moving
<1> QED
  BY <1>3, <1>4

LEMMA Reads ==
  ASSUME WizardPart, ReadStatus \/ Plan \/ Confirm
  PROVE  WizardPart'
<1> USE DEF WizardPart, Ends, Frame
<1>0. pc \in {"status", "plan", "confirm"} /\ next \in DOMAIN order /\ completed = 0 /\ changed = {}
      /\ pc # "answered"
  BY DEF ReadStatus, Plan, Confirm, Loop, Late, Changes
<1>a. Current \in Targets /\ state[Current] \in States
  <2>1. Current \in Targets
    BY <1>0, Ordered DEF Current
  <2> QED
    BY <2>1 DEF Shape
<1>1. CASE ReadStatus
  <2> USE <1>1 DEF ReadStatus
  <2>1. Shape'
    <3>1. shown' \in [Targets -> [status : States \cup {"none"}, planned : States \cup {"none"}]]
      BY <1>a DEF Shape
    <3> QED
      BY <3>1 DEF Shape, Late
  <2>2. Loop'
    BY <1>0 DEF Loop, Early, Late
  <2>3. Changes'
    BY <1>0 DEF Changes, Early
  <2>4. Stages'
    BY DEF Stages, Early, Late, toolVars
  <2>5. ApprovedChangesOnly'
    BY <1>0 DEF ApprovedChangesOnly
  <2> QED
    BY <1>0, <2>1, <2>2, <2>3, <2>4, <2>5, Moving
<1>2. CASE Plan /\ state[Current] \in Unsafe
  <2>1. Stops /\ changed' = changed
    BY <1>2 DEF Stops, Plan, Shape
  <2>2. \E r : Answer(r) /\ Accounts(r)
    BY <1>0, <1>2, Failing DEF Plan
  <2> QED
    BY <1>0, <2>1, <2>2, Stopped
<1>3. CASE Plan /\ state[Current] \notin Unsafe
  <2> USE <1>3 DEF Plan
  <2>0. next' \in DOMAIN order /\ pc' \in {"status", "confirm"} /\ (pc' = "confirm" => next' = 1)
        /\ next' \in 1..(Len(order) + 1)
    BY <1>0, Ordered
  <2>1. Shape'
    <3>1. shown' \in [Targets -> [status : States \cup {"none"}, planned : States \cup {"none"}]]
      <4>1. shown' = [shown EXCEPT ![Current].planned = state[Current]]
        OBVIOUS
      <4>2. shown \in [Targets -> [status : States \cup {"none"}, planned : States \cup {"none"}]]
        BY DEF Shape
      <4> HIDE DEF Plan, WizardPart
      <4> QED
        BY <1>a, <4>1, <4>2
    <3> QED
      BY <2>0, <3>1 DEF Shape, Late
  <2>2. Loop'
    BY <1>0, <2>0 DEF Loop, Early, Late
  <2>3. Changes'
    BY <1>0, <2>0 DEF Changes, Early
  <2>4. Stages'
    BY <2>0 DEF Stages, Early, Late, toolVars
  <2>5. ApprovedChangesOnly'
    BY <1>0 DEF ApprovedChangesOnly
  <2> QED
    BY <1>0, <2>1, <2>2, <2>3, <2>4, <2>5, Moving
<1>4. CASE Confirm
  <2> USE <1>4 DEF Confirm
  <2>1. Shape'
    BY DEF Shape, Late
  <2>2. Loop'
    BY <1>0 DEF Loop, Early, Late
  <2>3. Changes'
    BY <1>0 DEF Changes, Early
  <2>4. Stages'
    BY DEF Stages, Early, Late, toolVars
  <2>5. ApprovedChangesOnly'
    BY <1>0 DEF ApprovedChangesOnly
  <2> QED
    BY <1>0, <2>1, <2>2, <2>3, <2>4, <2>5, Moving
<1> QED
  BY <1>1, <1>2, <1>3, <1>4

LEMMA ToolsReturns ==
  ASSUME WizardPart, ToolPart, ToolsReturn
  PROVE  WizardPart'
<1> USE DEF ToolsReturn, Frame
<1>0. /\ pc = "tools" /\ pc # "answered" /\ completed = 0 /\ next = 1 /\ changed = {}
      /\ mode # "init without tools" /\ (mode = "init" => order # <<>>) /\ at = "returned"
      /\ changed' = changed
  BY DEF WizardPart, Loop, Changes
<1>a. \/ preparation = Failed
      \/ \E status \in Statuses : preparation = Returned(status)
      \/ \E s \in Signals, e \in Operations \cup {"none"} : preparation = Threw(s, e)
  <2>1. preparation \in Preparations /\ preparation # Running
    BY <1>0 DEF ToolPart, ToolTypeOK
  <2>2. \A p \in Preparations :
          \/ p = Running \/ p = Failed
          \/ \E status \in Statuses : p = Returned(status)
          \/ \E s \in Signals, e \in Operations \cup {"none"} : p = Threw(s, e)
    <3>1. ASSUME NEW p \in {Threw(s, e) : s \in Signals, e \in Operations \cup {"none"}}
          PROVE  \E s \in Signals, e \in Operations \cup {"none"} : p = Threw(s, e)
      OBVIOUS
    <3>2. ASSUME NEW p \in {Returned(status) : status \in Statuses}
          PROVE  \E status \in Statuses : p = Returned(status)
      OBVIOUS
    <3>3. ASSUME NEW p \in Preparations
          PROVE  \/ p = Running \/ p = Failed
                 \/ p \in {Returned(status) : status \in Statuses}
                 \/ p \in {Threw(s, e) : s \in Signals, e \in Operations \cup {"none"}}
      <4> DEFINE A == {Returned(status) : status \in Statuses}
                 B == {Threw(s, e) : s \in Signals, e \in Operations \cup {"none"}}
      <4>1. p \in {Running, Failed} \cup A \cup B
        BY <3>3 DEF Preparations
      <4> HIDE DEF A, B
      <4>2. p = Running \/ p = Failed \/ p \in A \/ p \in B
        BY <4>1
      <4> QED
        BY <4>2 DEF A, B
    <3> QED
      BY <3>1, <3>2, <3>3
  <2> QED
    BY <2>1, <2>2
<1>b. tools' \in Statuses \cup {"none"}
  BY <1>a, Kinds DEF Returned
<1>c. Stops
  BY <1>b DEF Stops, WizardPart, Shape
<1>d. Listed = {}
  BY <1>0, Listing
<1>1. CASE preparation = Failed
  <2>1. Fail("UNSAFE_STATE")
    BY <1>1, Kinds
  <2> QED
    BY <1>0, <1>c, <2>1, Failing, Stopped
<1>2. CASE \E s \in Signals, e \in Operations \cup {"none"} : preparation = Threw(s, e)
  <2>1. PICK s \in Signals, e \in Operations \cup {"none"} : preparation = Threw(s, e)
    BY <1>2
  <2>2. preparation.kind = "interrupted" /\ preparation.signal = s /\ preparation.effect = e
    BY <2>1 DEF Threw
  <2>3. effects = {} \/ e \in effects
    BY <2>2 DEF ToolPart, Carried
  <2>4. CASE Interrupt(s, e)
    <3>1. \E r : Answer(r) /\ Accounts(r)
      BY <2>3, <2>4, Interrupting
    <3> QED
      BY <1>0, <1>c, <3>1, Stopped
  <2>5. CASE Answer(Thrown("INTERRUPTED", "SIGTERM", e)) /\ mode = "tools"
    <3>1. LET x == Thrown("INTERRUPTED", "SIGTERM", e) IN
            x \in Replies /\ x.effect = e
      BY DEF Thrown, Reply, Replies, Outcomes, Signals
    <3>2. Accounts(Thrown("INTERRUPTED", "SIGTERM", e))
      BY <2>3, <2>5, <3>1, Shapes DEF Accounts
    <3> QED
      BY <1>0, <1>c, <2>5, <3>2, Stopped
  <2> QED
    BY <2>2, <2>4, <2>5
<1>3. CASE \E status \in Statuses : preparation = Returned(status)
  <2>1. PICK status \in Statuses : preparation = Returned(status)
    BY <1>3
  <2>2. preparation.kind = "result" /\ preparation.status = status
    BY <2>1 DEF Returned
  <2>3. CASE Answer([Reply("UNSAFE_STATE", {}, "none", "none") EXCEPT !.tools = TRUE])
    <3>1. LET x == [Reply("UNSAFE_STATE", {}, "none", "none") EXCEPT !.tools = TRUE] IN
            x \in Replies /\ x.outcome = "UNSAFE_STATE" /\ x.targets = {}
      BY DEF Reply, Replies, Outcomes
    <3>2. Accounts([Reply("UNSAFE_STATE", {}, "none", "none") EXCEPT !.tools = TRUE])
      BY <1>d, <3>1, Shapes DEF Accounts
    <3> QED
      BY <1>0, <1>c, <2>3, <3>2, Stopped
  <2>4. CASE Answer([Reply("SUCCESS", {}, "none", "none") EXCEPT !.tools = TRUE]) /\ mode = "tools"
    <3>1. LET x == [Reply("SUCCESS", {}, "none", "none") EXCEPT !.tools = TRUE] IN
            x \in Replies /\ x.outcome = "SUCCESS"
      BY DEF Reply, Replies, Outcomes
    <3>2. Accounts([Reply("SUCCESS", {}, "none", "none") EXCEPT !.tools = TRUE])
      BY <2>4, <3>1, Shapes DEF Accounts
    <3> QED
      BY <1>0, <1>c, <2>4, <3>2, Stopped
  <2>5. CASE pc' = "status" /\ UNCHANGED answer /\ mode # "tools"
    <3>1. tools' # "none" /\ 1 \in DOMAIN order
      <4>1. tools' = status /\ status # "none"
        BY <2>2 DEF Statuses
      <4>2. order # <<>>
        BY <1>0, <2>5 DEF WizardPart, Shape
      <4> QED
        BY <4>1, <4>2, Ordered
    <3> USE <1>0, <2>5 DEF WizardPart
    <3>2. Shape'
      BY <1>b DEF Shape, Late
    <3>3. Loop'
      BY <3>1 DEF Loop, Early, Late
    <3>4. Changes'
      BY DEF Changes
    <3>5. Stages'
      BY <3>1 DEF Stages, Early, toolVars
    <3>6. ApprovedChangesOnly'
      BY DEF ApprovedChangesOnly
    <3> QED
      BY <3>2, <3>3, <3>4, <3>5, <3>6, Moving
  <2> QED
    BY <2>2, <2>3, <2>4, <2>5
<1> QED
  BY <1>1, <1>2, <1>3, <1>a

LEMMA Kills ==
  ASSUME WizardPart, Kill
  PROVE  WizardPart'
<1>1. Stops /\ changed' = changed /\ pc # "answered" /\ Answer(Killed)
  BY Kept DEF Kill
<1> QED
  BY <1>1, Stopped

LEMMA Drifts ==
  ASSUME WizardPart, TargetDrift
  PROVE  WizardPart'
<1> USE DEF WizardPart, TargetDrift
<1>0. pc # "answered" /\ answer' = answer
  OBVIOUS
<1>1. Shape'
  <2>1. state' \in [Targets -> States] /\ driftLeft' \in Nat
    <3>1. state \in [Targets -> States] /\ driftLeft \in Nat
      BY DEF Shape
    <3>2. driftLeft > 0 /\ driftLeft' = driftLeft - 1
      OBVIOUS
    <3>3. PICK t \in Targets, s \in States : state' = [state EXCEPT ![t] = s]
      OBVIOUS
    <3> HIDE DEF TargetDrift, WizardPart
    <3> QED
      BY <3>1, <3>2, <3>3
  <2> QED
    BY <2>1 DEF Shape
<1>2. Loop'
  BY DEF Loop
<1>3. Changes'
  BY DEF Changes
<1>4. Stages'
  BY DEF Stages, toolVars
<1>5. ApprovedChangesOnly'
  BY DEF ApprovedChangesOnly
<1> QED
  BY <1>0, <1>1, <1>2, <1>3, <1>4, <1>5, Moving

\* Where the loop over the transactions is.
LEMMA InLoop ==
  ASSUME WizardPart, pc \in {"apply", "verify"}
  PROVE  /\ next \in DOMAIN order /\ next = completed + 1 /\ approved = TRUE /\ pc # "answered"
         /\ Current \in Targets /\ Current = order[next] /\ state[Current] \in States
         /\ mode # "tools"
<1>1. next \in DOMAIN order /\ next = completed + 1 /\ approved = TRUE /\ mode # "tools"
  BY DEF WizardPart, Loop, Changes, Shape, Late
<1>2. Current \in Targets /\ Current = order[next]
  BY <1>1, Ordered DEF Current
<1>3. state[Current] \in States
  BY <1>2 DEF WizardPart, Shape
<1> QED
  BY <1>1, <1>2, <1>3

\* What a transaction that is not refused changes, it changes as approved.
LEMMA ChangesRightful ==
  ASSUME WizardPart, pc = "apply", ~Refused, state[Current] # "CURRENT"
  PROVE  LET c == [target |-> Current, op |-> Op, was |-> state[Current]] IN
           Rightful(c) /\ c.target \in Targets /\ c.op \in {"install", "update"}
<1>1. PICK c : c = [target |-> Current, op |-> Op, was |-> state[Current]]
  OBVIOUS
<1>2. c.target = Current /\ c.op = Op /\ c.was = state[Current]
  BY <1>1
<1>3. c.op = operationFor(shown[c.target].status)
  BY <1>2 DEF Op
<1>4. c.was = "OUTDATED" <=> shown[c.target].status = "OUTDATED"
  BY <1>2 DEF Op, Refused, operationFor
<1>5. \E i \in DOMAIN order : c.target = order[i] /\ i <= completed + 1
  BY <1>2, InLoop, Ordered
<1>6. Rightful(c)
  BY <1>3, <1>4, <1>5, InLoop DEF Rightful
<1>7. c.target \in Targets /\ c.op \in {"install", "update"}
  BY <1>2, InLoop DEF Op, operationFor
<1> QED
  BY <1>1, <1>6, <1>7

LEMMA Applies ==
  ASSUME WizardPart, ToolPart, SignalPart,
         ApplyRefused \/ ApplyNothing \/ ApplyChanges \/ ApplyFails
  PROVE  WizardPart'
<1> USE DEF Applying, Frame
<1>0. pc = "apply" /\ pc # "answered" /\ pc \in Early \cup Late
  BY DEF ApplyRefused, ApplyNothing, ApplyChanges, ApplyFails, Late
<1>1. CASE ApplyRefused
  <2>1. Stops /\ changed' = changed
    BY <1>1, Kept DEF ApplyRefused
  <2> QED
    BY <1>0, <1>1, <2>1, Failing, Stopped DEF ApplyRefused
<1>2. CASE ApplyNothing
  <2> USE <1>0, <1>2 DEF ApplyNothing, WizardPart
  <2>1. Shape'
    BY DEF Shape, Late
  <2>2. Loop'
    BY DEF Loop, Early, Late
  <2>3. Changes'
    BY DEF Changes, Early
  <2>4. Stages'
    BY DEF Stages, Early, Late, toolVars
  <2>5. ApprovedChangesOnly'
    BY DEF ApprovedChangesOnly
  <2> QED
    BY <2>1, <2>2, <2>3, <2>4, <2>5, Moving
<1>3. CASE ApplyChanges
  <2>1. PICK c : /\ c = [target |-> Current, op |-> Op, was |-> state[Current]]
                 /\ changed' = changed \cup {c}
    BY <1>3 DEF ApplyChanges
  <2>2. Rightful(c) /\ c.target \in Targets /\ c.op \in {"install", "update"}
    BY <1>0, <1>3, <2>1, ChangesRightful DEF ApplyChanges
  <2>3. state' \in [Targets -> States]
    BY <1>3 DEF ApplyChanges, States, WizardPart, Shape
  <2>4. \A d \in changed' : Rightful(d) /\ d.target \in Targets /\ d.op \in {"install", "update"}
                           /\ d.target \in ToSet(order)
    <3>1. \A d \in changed : d.target \in Targets /\ d.op \in {"install", "update"}
      BY DEF WizardPart, Shape
    <3>2. \A d : Rightful(d) => d.target \in ToSet(order)
      BY DEF Rightful, ToSet
    <3> QED
      BY <2>1, <2>2, <3>1, <3>2, ChangedRightful
  <2> USE <1>0, <1>3 DEF ApplyChanges
  <2>5. Shape'
    BY <2>3, <2>4 DEF Shape, Late, WizardPart
  <2>6. Loop'
    BY DEF Loop, Early, Late, WizardPart
  <2>7. Changes'
    BY <2>4 DEF Changes, Rightful, Early, WizardPart
  <2>8. Stages'
    BY DEF Stages, Early, Late, toolVars, WizardPart
  <2>9. ApprovedChangesOnly'
    BY <2>4 DEF ApprovedChangesOnly, Rightful
  <2> QED
    BY <2>5, <2>6, <2>7, <2>8, <2>9, Moving
<1>4. CASE ApplyFails
  <2>0. Stops
    <3>1. state' \in [Targets -> States]
      BY <1>4 DEF ApplyFails, States, Unsafe, WizardPart, Shape
    <3> QED
      BY <1>4, <3>1 DEF ApplyFails, Stops, WizardPart, Shape
  <2>1. CASE Interrupt(latched, "none") /\ changed' = changed
    <3>1. latched \in Signals \cup {"none"}
      BY DEF SignalPart, SignalVarsOK
    <3>2. \E r : Answer(r) /\ Accounts(r)
      BY <1>0, <2>1, <3>1, Interrupting
    <3> QED
      BY <1>0, <2>0, <2>1, <3>2, Stopped
  <2>2. CASE (Fail("UNSAFE_STATE") \/ Fail("VERIFICATION_ROLLED_BACK")) /\ changed' = changed
    BY <1>0, <2>0, <2>2, Failing, Stopped
  <2>3. CASE /\ Fail("ROLLBACK_FAILED")
             /\ changed' = changed \cup {[target |-> Current, op |-> Op, was |-> state[Current]]}
    <3>1. \A c \in changed' : Rightful(c)
      BY <1>0, <1>4, <2>3, ChangesRightful, ChangedRightful DEF ApplyFails
    <3>2. \E r : Answer(r) /\ Accounts(r)
      BY <1>0, <2>3, Failing
    <3> QED
      BY <1>0, <2>0, <3>1, <3>2, Stopping
  <2> QED
    BY <1>4, <2>1, <2>2, <2>3 DEF ApplyFails
<1> QED
  BY <1>1, <1>2, <1>3, <1>4

LEMMA Verifies ==
  ASSUME WizardPart, ToolPart, Verify
  PROVE  WizardPart'
<1> USE DEF Verify, Ends, Frame
<1>0. pc = "verify" /\ pc # "answered"
  OBVIOUS
<1>b. DOMAIN order = 1..Len(order)
  BY Ordered
<1>a. Len(order) \in Nat /\ next \in 1..Len(order)
      /\ next = completed + 1 /\ completed \in 0..Len(order)
  BY <1>0, <1>b, InLoop, Ordered
<1>1. CASE state[Current] # "CURRENT"
  <2>1. Stops /\ changed' = changed
    BY <1>1 DEF Stops, WizardPart, Shape
  <2> QED
    BY <1>0, <1>1, <2>1, Failing, Stopped
<1>2. CASE state[Current] = "CURRENT"
  <2>a. /\ completed' = next /\ next' = next + 1
        /\ next' \in 1..(Len(order) + 1) /\ completed' \in 0..Len(order)
    <3>1. completed' = next /\ next' = next + 1
      BY <1>2
    <3> HIDE DEF Verify, Ends, Frame
    <3> QED
      BY <1>a, <3>1
  <2>0. /\ completed' = next /\ next' = next + 1
        /\ next' \in 1..(Len(order) + 1) /\ completed' \in 0..Len(order)
        /\ UNCHANGED <<toolVars, driftLeft, mode, state, order, shown, tools, approved, changed>>
    BY <1>2, <2>a
  <2>1. \A c \in changed : \E i \in DOMAIN order : c.target = order[i] /\ i <= completed'
    BY <1>a, <1>b, <2>0 DEF WizardPart, Changes
  <2>2. ApprovedChangesOnly'
    BY <2>0 DEF WizardPart, ApprovedChangesOnly
  <2>3. CASE next # Len(order)
    <3>0. pc' = "apply" /\ answer' = answer /\ next' \in DOMAIN order /\ next' = completed' + 1
      <4>1. pc' = "apply" /\ answer' = answer
        BY <1>2, <2>3
      <4> HIDE DEF Verify, Ends, Frame
      <4>2. next' \in 1..Len(order) /\ next' = completed' + 1
        BY <1>a, <2>a, <2>3
      <4> QED
        BY <1>b, <4>1, <4>2
    <3>1. Shape'
      BY <2>0, <3>0 DEF WizardPart, Shape, Late
    <3>2. Loop'
      BY <1>0, <2>0, <3>0 DEF WizardPart, Loop, Early, Late
    <3>3. Changes'
      <4>1. \A c \in changed : \E i \in DOMAIN order : /\ c.target = order[i] /\ i <= completed'
                                                      /\ i <= completed' + 1
        <5> SUFFICES ASSUME NEW c \in changed
                     PROVE  \E i \in DOMAIN order : /\ c.target = order[i] /\ i <= completed'
                                                    /\ i <= completed' + 1
          OBVIOUS
        <5>1. PICK i \in DOMAIN order : c.target = order[i] /\ i <= completed'
          BY <2>1
        <5> HIDE DEF Verify, Ends, Frame
        <5>2. i \in Int /\ completed' \in Int
          BY <1>a, <1>b, <2>a
        <5>3. i <= completed' + 1
          BY <5>1, <5>2
        <5> QED
          BY <5>1, <5>3
      <4> QED
        BY <1>0, <2>0, <3>0, <4>1 DEF WizardPart, Changes, Early
    <3>4. Stages'
      BY <1>0, <2>0, <3>0 DEF WizardPart, Stages, Early, Late, toolVars
    <3> QED
      BY <1>0, <2>2, <3>0, <3>1, <3>2, <3>3, <3>4, Moving
  <2>4. CASE next = Len(order)
    <3>1. Answer(Reply("SUCCESS", ToSet(order), "none", "none"))
      BY <1>2, <2>4
    <3>2. ToSet(order) \subseteq Targets
      BY Ordered DEF ToSet
    <3>3. PICK r : /\ Answer(r) /\ r \in Replies
                   /\ r.outcome = "SUCCESS" /\ r.targets = ToSet(order)
      <4>1. LET x == Reply("SUCCESS", ToSet(order), "none", "none") IN
              x \in Replies /\ x.outcome = "SUCCESS" /\ x.targets = ToSet(order)
        BY <3>2 DEF Reply, Replies, Outcomes
      <4> QED
        BY <3>1, <4>1
    <3>4. pc' = "answered" /\ answer' = r
      BY <3>3 DEF Answer
    <3>5. Shape'
      BY <2>0, <3>3, <3>4, Shapes DEF WizardPart, Shape
    <3>6. Loop'
      BY <3>4 DEF Loop, Early, Late
    <3>7. Changes'
      <4>1. \A c \in changed : \E i \in DOMAIN order : c.target = order[i] /\ i <= completed' + 1
        <5> SUFFICES ASSUME NEW c \in changed
                     PROVE  \E i \in DOMAIN order : c.target = order[i] /\ i <= completed' + 1
          OBVIOUS
        <5>1. PICK i \in DOMAIN order : c.target = order[i] /\ i <= completed'
          BY <2>1
        <5> HIDE DEF Verify, Ends, Frame
        <5>2. i \in Int /\ completed' \in Int
          BY <1>a, <1>b, <2>a
        <5>3. i <= completed' + 1
          BY <5>1, <5>2
        <5> QED
          BY <5>1, <5>3
      <4> QED
        BY <2>0, <3>4, <4>1 DEF Changes, Early
    <3>8. Stages'
      BY <2>0, <3>4 DEF WizardPart, Stages, Early, Late, toolVars
    <3>9. InterruptionReportsEffect'
      BY <3>3, <3>4 DEF InterruptionReportsEffect, HasAnswered
    <3>10. TargetsAccounted'
      <4>1. Listed' = ToSet(order)
        BY <1>b, <2>0, <2>4 DEF Listed, ToSet
      <4>2. order # <<>> /\ completed' = Len(order)
        <5> HIDE DEF Verify, Ends, Frame
        <5> QED
          BY <1>a, <2>a, <2>4
      <4>3. {c.target : c \in changed'} \subseteq r.targets
        BY <2>0, <2>1, <3>3 DEF ToSet
      <4> QED
        BY <2>0, <3>3, <3>4, <4>1, <4>2, <4>3 DEF TargetsAccounted
    <3> QED
      BY <2>2, <3>5, <3>6, <3>7, <3>8, <3>9, <3>10 DEF WizardPart
  <2> QED
    BY <2>3, <2>4
<1> QED
  BY <1>1, <1>2

-----------------------------------------------------------------------------
(* The inductive invariant.                                                *)

LEMMA Empty ==
  ASSUME NEW s, s = <<>>
  PROVE  s \in Seq(Targets) /\ IsInjective(s) /\ Len(s) = 0
<1>1. s \in Seq(Targets) /\ Len(s) = 0
  OBVIOUS
<1>2. DOMAIN s = {}
  BY <1>1
<1> QED
  BY <1>1, <1>2 DEF IsInjective

LEMMA InitIInv ==
  ASSUME Init
  PROVE  IInv
<1>0. MaxSignals \in Nat /\ MaxDrift \in Nat
  BY InputsAssumption
<1>1. SignalPart
  <2>1. MaxSignals \in 0..MaxSignals
    BY <1>0
  <2>2. SignalInit
    BY DEF Init
  <2> QED
    BY <2>1, <2>2 DEF SignalInit, SignalPart, SignalVarsOK, Latched, Listeners
<1>2. ToolPart
  <2>1. ToolTypeOK
    <3>1. Running \in Preparations
      <4> DEFINE A == {Returned(status) : status \in Statuses}
                 B == {Threw(s, e) : s \in Signals, e \in Operations \cup {"none"}}
      <4>1. Preparations = {Running, Failed} \cup A \cup B
        BY DEF Preparations
      <4> HIDE DEF A, B
      <4> QED
        BY <4>1
    <3>2. gh \in [installed : BOOLEAN, authenticated : BOOLEAN] /\ managed \in BOOLEAN
          /\ platform \in {"darwin", "linux", "other"} /\ ToolInit
      BY InputsAssumption DEF Init
    <3> QED
      BY <3>1, <3>2 DEF ToolInit, ToolTypeOK
  <2>2. ToolInit
    BY DEF Init
  <2>3. Consented
    BY <2>2 DEF ToolInit, Consented, EffectsAuthorized
  <2>4. Carried
    BY <2>2, Kinds DEF ToolInit, Carried
  <2> QED
    BY <2>1, <2>2, <2>3, <2>4 DEF ToolInit, ToolPart
<1>3. WizardPart
  <2>1. order = <<>> /\ order \in Seq(Targets) /\ IsInjective(order) /\ Len(order) = 0
    BY Empty DEF Init
  <2>2. state \in [Targets -> States]
    BY InputsAssumption DEF Init, States, Unsafe
  <2>3. shown \in [Targets -> [status : States \cup {"none"}, planned : States \cup {"none"}]]
    BY DEF Init, Unshown
  <2>4. driftLeft \in Nat /\ answer = Pending /\ pc = "start" /\ changed = {}
        /\ next = 1 /\ completed = 0 /\ at = "idle" /\ effects = {} /\ tools = "none"
        /\ mode \in {"init", "init without tools", "tools"} /\ approved = FALSE
    BY <1>0, InputsAssumption DEF Init, ToolInit
  <2>5. next \in 1..(Len(order) + 1) /\ completed \in 0..Len(order)
    <3>1. next = 1 /\ completed = 0 /\ Len(order) = 0
      BY <2>1, <2>4
    <3> QED
      BY <3>1
  <2>6. Shape
    BY <2>1, <2>2, <2>3, <2>4, <2>5 DEF Shape
  <2>7. Loop /\ Changes /\ Stages
    BY <2>1, <2>4 DEF Loop, Changes, Stages, Early, Late
  <2>8. ApprovedChangesOnly /\ InterruptionReportsEffect /\ TargetsAccounted
    BY <2>4 DEF ApprovedChangesOnly, InterruptionReportsEffect, TargetsAccounted, HasAnswered
  <2> QED
    BY <2>6, <2>7, <2>8 DEF WizardPart
<1> QED
  BY <1>1, <1>2, <1>3 DEF IInv

\* A step of the wizard itself keeps what the preparation and the signals promise.
LEMMA Apart ==
  ASSUME IInv, pc \in Early \cup Late \cup {"start"} \/ at = "returned", UNCHANGED toolVars,
         UNCHANGED signalVars \/ dispose \/ start("coordinator") \/ \E s \in Signals : Deliver(s)
  PROVE  SignalPart' /\ ToolPart'
<1>1. at \in {"idle", "returned"} /\ (at = "idle" => effects = {})
  BY DEF IInv, WizardPart, Stages
<1> QED
  BY <1>1, ToolsRest, SignalSteps DEF IInv, Listeners

LEMMA NextIInv ==
  ASSUME IInv, [Next]_vars
  PROVE  IInv'
<1> USE DEF IInv
<1>1. ASSUME UNCHANGED vars PROVE IInv'
  <2>1. WizardPart'
    BY <1>1, Waits DEF vars, toolVars, WizardPart, Shape
  <2>2. SignalPart'
    BY <1>1, SignalSteps DEF vars
  <2>3. ToolPart'
    BY <1>1, ToolsSame DEF vars, signalVars
  <2> QED
    BY <2>1, <2>2, <2>3
<1>2. CASE Start
  <2>1. pc = "start" /\ UNCHANGED toolVars /\ UNCHANGED signalVars
    BY <1>2 DEF Start, Frame
  <2> QED
    BY <1>2, <2>1, Starts, Apart
<1>3. CASE StageInterrupted \/ StageFails \/ Cancel \/ Inspect
  <2>1. pc \in Early \cup Late /\ UNCHANGED toolVars /\ dispose
    BY <1>3 DEF StageInterrupted, StageFails, Cancel, Inspect, Ends, Frame, Abortable,
                ReadOnlyStages, Early, Late
  <2> QED
    BY <1>3, <2>1, StageStops, Inspects, Apart
<1>4. CASE SelectTargets \/ ReadStatus \/ Plan \/ Confirm \/ Verify
  <2>1. pc \in Early \cup Late /\ UNCHANGED toolVars /\ dispose
    BY <1>4 DEF SelectTargets, ReadStatus, Plan, Confirm, Verify, Ends, Frame, Early, Late
  <2> QED
    BY <1>4, <2>1, Selects, Reads, Verifies, Apart
<1>5. CASE ApplyRefused \/ ApplyNothing \/ ApplyChanges \/ ApplyFails
  <2>1. pc \in Early \cup Late /\ UNCHANGED toolVars /\ dispose
    BY <1>5 DEF ApplyRefused, ApplyNothing, ApplyChanges, ApplyFails, Applying, Frame, Late
  <2> QED
    BY <1>5, <2>1, Applies, Apart
<1>6. CASE ToolsReturn
  <2>1. at = "returned" /\ UNCHANGED toolVars /\ UNCHANGED signalVars
    BY <1>6 DEF ToolsReturn, Frame
  <2> QED
    BY <1>6, <2>1, ToolsReturns, Apart
<1>7. CASE CallTools
  <2>1. /\ at = "idle" /\ at' = "inspect exists" /\ pc = "tools"
        /\ UNCHANGED <<platform, managed, gh, stage, allowed, operation, effectContext, found,
                       preparation, consent, effects, signalVars, driftLeft, wizardVars>>
    BY <1>7 DEF CallTools, PrepareTools
  <2>2. effects = {}
    BY <2>1 DEF WizardPart, Stages
  <2>3. SignalPart' /\ WizardPart'
    BY <2>1, SignalSteps, Waits DEF WizardPart, Shape
  <2>4. ToolPart'
    <3> USE <2>1, <2>2 DEF ToolPart
    <3>1. ToolTypeOK' /\ Consented'
      BY ZenonT(30) DEF ToolTypeOK, Consented, EffectsAuthorized, Commands, GhCommands
    <3>2. Carried'
      BY DEF Carried, signalVars
    <3> QED
      BY <3>1, <3>2 DEF Running
  <2> QED
    BY <2>3, <2>4
<1>8. CASE Begin
  <2>1. pc \in Early \cup Late /\ UNCHANGED toolVars /\ start("coordinator")
    BY <1>8 DEF Begin, ReadOnlyStages, Early, Late
  <2>2. WizardPart'
    BY <1>8, Waits DEF Begin, toolVars, WizardPart, Shape
  <2> QED
    BY <2>1, <2>2, Apart
<1>9. CASE Signal
  <2>1. /\ UNCHANGED <<toolVars, driftLeft, wizardVars>> /\ listener' = listener
        /\ \E s \in Signals : Deliver(s)
    BY <1>9 DEF Signal, Deliver
  <2>2. WizardPart'
    BY <2>1, Waits DEF toolVars, WizardPart, Shape
  <2> QED
    BY <2>1, <2>2, ToolsSame, SignalSteps
<1>10. CASE Kill
  <2>1. UNCHANGED toolVars /\ UNCHANGED <<listener, latched, first>> /\ Send
    BY <1>10 DEF Kill, Frame
  <2>2. SignalPart'
    BY <2>1, SendKeeps DEF SignalPart, SignalVarsOK, Latched
  <2> QED
    BY <1>10, <2>1, <2>2, Kills, ToolsSame
<1>11. CASE TargetDrift
  BY <1>11, Drifts, ToolsSame, SignalSteps DEF TargetDrift, signalVars
<1>12. CASE /\ pc = "tools" /\ UNCHANGED wizardVars
            /\ \/ (ToolSystemStep \/ ToolUserStep) /\ UNCHANGED driftLeft
               \/ ToolDrift
  <2>1. ToolPart' /\ at' # "idle" /\ SignalPart'
    BY <1>12, ToolSteps
  <2>2. driftLeft' \in Nat
    <3>1. driftLeft \in Nat
      BY DEF WizardPart, Shape
    <3>2. driftLeft' = driftLeft \/ (driftLeft > 0 /\ driftLeft' = driftLeft - 1)
      BY <1>12 DEF ToolDrift
    <3> QED
      BY <3>1, <3>2
  <2>3. WizardPart'
    BY <1>12, <2>1, <2>2, Waits
  <2> QED
    BY <2>1, <2>3
<1> QED
  BY <1>1, <1>2, <1>3, <1>4, <1>5, <1>6, <1>7, <1>8, <1>9, <1>10, <1>11, <1>12
     DEF Next, SystemStep, UserStep, Drift, Tool

LEMMA InductiveInvariant == Spec => []IInv
<1>1. Init => IInv
  BY InitIInv
<1>2. IInv /\ [Next]_vars => IInv'
  BY NextIInv
<1> QED
  BY <1>1, <1>2, PTL DEF Spec

-----------------------------------------------------------------------------
(* The theorems.                                                           *)

LEMMA IInvType == IInv => TypeOK
<1> SUFFICES ASSUME IInv PROVE TypeOK
  OBVIOUS
<1>1. SignalVarsOK /\ ToolTypeOK
  BY DEF IInv, SignalPart, ToolPart
<1>2. Shape
  BY DEF IInv, WizardPart
<1>3. order \in Seq(Targets)
  BY <1>2 DEF Shape
<1>4. ToSet(order) \subseteq Targets
  BY <1>3 DEF ToSet
<1>5. \A t \in Targets : shown[t].status \in States \cup {"none"}
  BY <1>2 DEF Shape
<1>6. answer = Pending \/ answer = Killed \/ answer.targets \subseteq Targets
  BY <1>2 DEF Shape, Replies
<1>7. /\ mode \in {"init", "init without tools", "tools"} /\ state \in [Targets -> States]
      /\ IsInjective(order) /\ next \in 1..(Len(order) + 1) /\ completed \in 0..Len(order)
      /\ tools \in Statuses \cup {"none"} /\ approved \in BOOLEAN
      /\ \A c \in changed : c.target \in Targets /\ c.op \in {"install", "update"}
      /\ pc \in Early \cup Late \cup {"start", "tools", "answered"}
  BY <1>2 DEF Shape
<1>8. pc \in ReadOnlyStages \cup {"start", "tools", "apply", "answered"}
  BY <1>7 DEF Early, Late, ReadOnlyStages
<1> QED
  BY <1>1, <1>4, <1>5, <1>6, <1>7, <1>8 DEF TypeOK

\* The wizard stays within its types, and no target is ever selected twice.
THEOREM TypeCorrect == Spec => []TypeOK
BY InductiveInvariant, IInvType, PTL

\* Whatever other programs do to a target between the status that was shown and the
\* transaction, this process only changes targets the user approved, with the operation
\* that was shown, and from an outdated installation only when that was shown.
THEOREM OnlyApprovedChanges == Spec => []ApprovedChangesOnly
<1>1. IInv => ApprovedChangesOnly
  BY DEF IInv, WizardPart
<1> QED
  BY <1>1, InductiveInvariant, PTL

\* No package manager or login command is spawned before its own question got a yes.
THEOREM OnlyAuthorizedEffects == Spec => []EffectsAuthorized
<1>1. IInv => EffectsAuthorized
  BY DEF IInv, ToolPart, Consented
<1> QED
  BY <1>1, InductiveInvariant, PTL

\* Wherever an interruption strikes, an external operation that was started is either
\* listed with the tools or named as unverified.
THEOREM NoSilentEffect == Spec => []InterruptionReportsEffect
<1>1. IInv => InterruptionReportsEffect
  BY DEF IInv, WizardPart
<1> QED
  BY <1>1, InductiveInvariant, PTL

\* Every answer lists exactly the verified targets, and at most the one in progress has
\* been changed besides.
THEOREM AnswersAccount == Spec => []TargetsAccounted
<1>1. IInv => TargetsAccounted
  BY DEF IInv, WizardPart
<1> QED
  BY <1>1, InductiveInvariant, PTL

SignalStep ==
  (pc \in ReadOnlyStages /\ listener = "coordinator" /\ first # "none" /\ listener' = "none")
    => /\ answer'.outcome = "INTERRUPTED" /\ answer'.signal = first
       /\ ExitCode(answer') = IF first = "SIGINT" THEN 130 ELSE 143

\* Of a stage whose coordinator has latched a signal only the interruption is left.
LEMMA SignalDecides ==
  ASSUME IInv, [Next]_vars
  PROVE  SignalStep
<1> SUFFICES ASSUME pc \in ReadOnlyStages, listener = "coordinator", first # "none",
                    listener' = "none"
             PROVE  /\ answer'.outcome = "INTERRUPTED" /\ answer'.signal = first
                    /\ ExitCode(answer') = IF first = "SIGINT" THEN 130 ELSE 143
  BY DEF SignalStep
<1>1. latched = first /\ first \in Signals
  BY DEF IInv, SignalPart, SignalVarsOK, Latched
<1>2. Interrupted
  BY <1>1 DEF Interrupted
<1>3. StageInterrupted
  <2>1. pc \notin {"start", "tools", "apply", "answered"}
    BY DEF ReadOnlyStages
  <2>2. listener' # listener
    OBVIOUS
  <2>3. /\ ~UNCHANGED vars /\ ~Start /\ ~Begin /\ ~CallTools /\ ~ToolsReturn /\ ~Signal /\ ~Kill
        /\ ~TargetDrift
    BY <2>1, <2>2 DEF vars, signalVars, Start, Begin, start, CallTools, ToolsReturn, Signal, Deliver,
                      Kill, TargetDrift
  <2>4. /\ ~StageFails /\ ~Inspect /\ ~SelectTargets /\ ~Cancel /\ ~ReadStatus /\ ~Plan
        /\ ~Confirm /\ ~Verify
    BY <1>2 DEF StageFails, Inspect, SelectTargets, Cancel, ReadStatus, Plan, Confirm, Verify, Ends
  <2>5. ~ApplyRefused /\ ~ApplyNothing /\ ~ApplyChanges /\ ~ApplyFails
    BY <2>1 DEF ApplyRefused, ApplyNothing, ApplyChanges, ApplyFails, Applying
  <2>6. ~Tool(ToolSystemStep) /\ ~Tool(ToolUserStep) /\ pc # "tools"
    BY <2>1 DEF Tool
  <2> QED
    BY <2>3, <2>4, <2>5, <2>6 DEF Next, SystemStep, UserStep, Drift
<1>4. answer' = Reply("INTERRUPTED", Listed, first, "none")
  BY <1>1, <1>3 DEF StageInterrupted, Interrupt, Answer
<1>5. answer'.outcome = "INTERRUPTED" /\ answer'.signal = first
  BY <1>4 DEF Reply
<1> QED
  BY <1>1, <1>5 DEF ExitCode, Signals

\* A signal latched in a read-only stage decides how the stage ends, whatever its operation
\* returned or threw: the answer and the exit code are those of the first signal.
THEOREM SignalsDecide == Spec => SignalAnswered
<1>1. IInv /\ [Next]_vars => [SignalStep]_vars
  BY SignalDecides
<1> QED
  BY <1>1, InductiveInvariant, PTL DEF Spec, SignalAnswered, SignalStep

=============================================================================
