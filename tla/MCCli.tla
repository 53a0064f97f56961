------------------------------- MODULE MCCli --------------------------------
(* Symmetry of Cli: operators, curators and keys are interchangeable.                 *)
EXTENDS Cli, TLC

Symmetry == Permutations(Operators) \cup Permutations(Curators) \cup Permutations(Keys)
=============================================================================
