----------------------------- MODULE MCManager -----------------------------
(* Instances of Manager. *)
EXTENDS Manager, TLC

AttestatorSymmetry == Permutations(Attestator)
=============================================================================
