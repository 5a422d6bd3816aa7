----------------------------- MODULE MCEditForms -----------------------------
(***************************************************************************)
(* TLC instances of EditForms.                                             *)
(***************************************************************************)
EXTENDS EditForms, TLC

CONSTANTS t1, t2, c1, c2, u1, u2, u3, empty, jpeg

MCUserEdits == [UserName |-> {jpeg}, IsAdmin |-> {TRUE}]
MCSiteEdits == [Longitude |-> {Bad}]
MCEdits == [users |-> MCUserEdits, sites |-> MCSiteEdits]
\* 6 is no float: 5 is the next one.
MCAsFloat == [x \in {0, 5, 6} |-> IF x = 6 THEN 5 ELSE x]
MCPositions == {<<0, 6>>}
MCTexts == {empty, jpeg}
MCSymmetry ==
    Permutations({t1, t2}) \cup Permutations({c1, c2}) \cup Permutations({u2, u3})
=============================================================================
