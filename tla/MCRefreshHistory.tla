-------------------------- MODULE MCRefreshHistory --------------------------
(***************************************************************************)
(* Instances of RefreshHistory for TLC.                                    *)
(***************************************************************************)
EXTENDS RefreshHistory, TLC

CONSTANTS w1, w2, c1, e1, r1, r2

MCReliable == {w1}
MCRelevant == {<<c1, e1>>}

\* Refresh runs are interchangeable
MCSymmetry == Permutations(Refreshes)
=============================================================================
