---------------------------- MODULE MCSiteArchive ----------------------------
(***************************************************************************)
(* TLC instances of SiteArchive.                                           *)
(***************************************************************************)
EXTENDS SiteArchive, TLC

Symmetry == Permutations(Threads) \cup Permutations(Photos) \cup Permutations(Files)
            \cup Permutations(Sites)
=============================================================================
