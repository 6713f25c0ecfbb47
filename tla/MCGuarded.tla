----------------------------- MODULE MCGuarded -----------------------------
(* The runs that check the supersedes graph: their inputs carry no edge     *)
(* that the code would take unchecked.                                     *)
EXTENDS MCStore

ASSUME GuardedAssumption == GuardedInputs
=============================================================================
