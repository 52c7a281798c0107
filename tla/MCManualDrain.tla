---------------------------- MODULE MCManualDrain ----------------------------
(* ManualDrain with short timers and a small budget of environment events.   *)
EXTENDS ManualDrain

\* Enough to open a valve, start the pump and close the valve again; the
\* sequencer may have opened the other one.
MCBudget ==
  [e \in Events |-> CASE e = "presses" -> 3 [] OTHER -> 1]

MCQuietBudget ==
  [e \in Events |-> CASE e = "presses" -> 3 [] e = "faults" -> 1 [] OTHER -> 0]
=============================================================================
