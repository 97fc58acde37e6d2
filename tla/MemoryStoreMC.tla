--------------------------- MODULE MemoryStoreMC ---------------------------
(* Small instances of MemoryStore for TLC *)
EXTENDS MemoryStore, TLC

SessionSymmetry == Permutations(Sessions)
=============================================================================
