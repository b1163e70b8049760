--------------------------- MODULE MCContentCache ---------------------------
(* Small instances of ContentCache for TLC. *)
EXTENDS ContentCache, TLC

\* Threads are alike, and so are objects.
Symmetry == Permutations(Threads) \cup Permutations(Contents)
=============================================================================
