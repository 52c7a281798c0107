------------------------------ MODULE MCRestart ------------------------------
(* Restart with a ring of three slots, filled past its end with two faults   *)
(* but no save; with two saves of two networks, two faults and one record;   *)
(* and with one of each between the two.                                     *)
EXTENDS Restart

MCBudgets ==
  {[faults |-> 2, saves |-> 0, records |-> 4],
   [faults |-> 2, saves |-> 2, records |-> 1],
   [faults |-> 1, saves |-> 1, records |-> 4]}
=============================================================================
