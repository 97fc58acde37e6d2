------------------------- MODULE UntangleCommandsMC -------------------------
(* A small instance of the commands of untangle.py for TLC *)
EXTENDS UntangleCommands, TLC

CommandSymmetry == Permutations(Agents) \cup Permutations(Directories)
=============================================================================
