--------------------------- MODULE MCAndroidClient ---------------------------
(***************************************************************************)
(* TLC instances of AndroidClient.                                         *)
(***************************************************************************)
EXTENDS AndroidClient, TLC

CONSTANTS a, b

Symmetry == Permutations({a, b})

MCLists == {<<a, b>>, <<b, a>>}
=============================================================================
