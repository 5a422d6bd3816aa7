-------------------------- MODULE MCActiveSessions --------------------------
(***************************************************************************)
(* TLC instances of ActiveSessions.                                        *)
(***************************************************************************)
EXTENDS ActiveSessions, TLC

Symmetry == Permutations(Threads) \cup Permutations(Uuids)

\* Daylight saving starts or ends
DaylightSaving == {-1, 1}
=============================================================================
