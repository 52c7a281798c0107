----------------------------- MODULE MCPlcPolls ------------------------------
(* PlcPolls with a few events of each kind.                                  *)
EXTENDS PlcPolls

MCBudget == [plant |-> 4, faults |-> 2, commands |-> 1]
=============================================================================
