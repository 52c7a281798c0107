---------------------------- MODULE MCWaterLedger ----------------------------
(* WaterLedger with a rollover of three litres, so that a discharge or two   *)
(* cross it, and a small budget of environment events.                       *)
EXTENDS WaterLedger

MCLitres == {2}
MCDownloadTotals == {0, 1}

\* Every kind of event, and two faults: enough for a reset that fails half way
\* after a lost commit reply, in a gateway that reboots.
MCBudget ==
  [e \in Events |-> CASE e \in {"litres", "faults"} -> 2 [] OTHER -> 1]

\* Liveness is checked without reboots, which drop the obligation anyway.
MCLiveBudget ==
  [e \in Events |-> CASE e = "litres" -> 2 [] e = "reboots" -> 0 [] OTHER -> 1]

\* For the claim about resets: no download at all.
MCQuietBudget ==
  [e \in Events |-> CASE e = "downloads" -> 0 [] OTHER -> 1]
=============================================================================
