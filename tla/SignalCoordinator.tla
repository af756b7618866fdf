------------------------- MODULE SignalCoordinator -------------------------
(***************************************************************************)
(* SIGINT and SIGTERM as a running command of agent-governance sees them.  *)
(* Who listens decides what a signal does: a SignalCoordinator latches the *)
(* first one and aborts the prompt it guards, a child process gets every   *)
(* one forwarded and remembers the last, and without a listener the        *)
(* process dies.  A signal is the call of its listener; one that the       *)
(* kernel has delivered but the event loop has not is not told apart from  *)
(* one that comes later.                                                   *)
(***************************************************************************)
EXTENDS Naturals

CONSTANT MaxSignals     \* bound: signals the user sends

VARIABLES listener,     \* who has registered for the signals
          latched,      \* interruptedBy, or the signal forwarded to the child
          first,        \* observation: the first signal the listener got
          signalsLeft   \* bound: signals still to come

signalVars == <<listener, latched, first, signalsLeft>>

Signals == {"SIGINT", "SIGTERM"}
Listeners == {"none", "coordinator", "child", "question"}

SignalVarsOK == /\ listener \in Listeners
                /\ latched \in Signals \cup {"none"}
                /\ first \in Signals \cup {"none"}
                /\ signalsLeft \in 0..MaxSignals

SignalInit == /\ listener = "none"
              /\ latched = "none"
              /\ first = "none"
              /\ signalsLeft = MaxSignals

start(who) == /\ listener = "none"
              /\ listener' = who
              /\ latched' = "none"
              /\ first' = "none"
              /\ UNCHANGED signalsLeft

\* A disposed coordinator is not used again: its latch goes with it.
dispose == /\ listener # "none"
           /\ listener' = "none"
           /\ latched' = "none"
           /\ UNCHANGED <<first, signalsLeft>>

Send == /\ signalsLeft > 0
        /\ signalsLeft' = signalsLeft - 1

\* Mutant: a coordinator remembers the last signal.
latchLast(s) == s

\* What a listener remembers after signal s.
latch(s) == IF listener = "coordinator" /\ latched # "none" THEN latched ELSE s

Deliver(s) == /\ Send
              /\ listener \in {"coordinator", "child"}
              /\ latched' = latch(s)
              /\ first' = IF first = "none" THEN s ELSE first
              /\ UNCHANGED listener

\* checkpoint throws exactly when a signal has been latched.
Interrupted == latched # "none"
=============================================================================
