---------------------------- MODULE MCPhotoStore ----------------------------
(***************************************************************************)
(* TLC instances of PhotoStore.                                            *)
(***************************************************************************)
EXTENDS PhotoStore, TLC

Symmetry == Permutations(Threads) \cup Permutations(Sites)
            \cup Permutations(Photos) \cup Permutations(Files)
=============================================================================
