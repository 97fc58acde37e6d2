-------------------------- MODULE MutationTrialMC --------------------------
(* Small instances of MutationTrial for TLC *)
EXTENDS MutationTrial, TLC

EditSymmetry == Permutations(Edits)
=============================================================================
