---------------------------- MODULE MCChangesFeed ----------------------------
(***************************************************************************)
(* TLC instances of ChangesFeed.                                           *)
(***************************************************************************)
EXTENDS ChangesFeed, TLC

Symmetry == Permutations(Threads) \cup Permutations(Photos) \cup Permutations(Files)
=============================================================================
