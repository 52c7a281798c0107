----------------------------- MODULE MCCloudLink -----------------------------
(* CloudLink with rungs a tick or two apart and a few events of each kind.   *)
EXTENDS CloudLink

MCBudget ==
  [outside |-> 2, faults |-> 2]
=============================================================================
