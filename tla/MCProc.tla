------------------------------- MODULE MCProc -------------------------------
(* Instances of Proc for TLC.                                              *)
EXTENDS Proc, TLC

Symmetry == Permutations(CPUs)
=============================================================================
