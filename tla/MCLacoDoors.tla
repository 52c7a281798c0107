----------------------------- MODULE MCLacoDoors -----------------------------
(* LacoDoors with short waits and a small budget of environment events.      *)
EXTENDS LacoDoors

\* Two jobs, or one turned round, with two failures, a cycle and one change of
\* the weather.
MCBudget ==
  [e \in Events |-> CASE e \in {"presses", "faults"} -> 2 [] OTHER -> 1]

\* The operator and the weather only.
MCQuietBudget ==
  [e \in Events |-> CASE e = "presses" -> 2 [] e = "weather" -> 1 [] OTHER -> 0]
=============================================================================
