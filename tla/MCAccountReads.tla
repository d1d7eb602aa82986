---------------------------- MODULE MCAccountReads ----------------------------
(* Small instances of AccountReads.                                        *)
EXTENDS AccountReads, TLC

CONSTANTS p1, p2, p3

Three == {p1, p2, p3}
OneOld == p1 :> 1
OneFlagged == {p2}

=============================================================================
