----------------------------- MODULE MCScreening -----------------------------
(* Small instances of Screening.                                           *)
EXTENDS Screening, TLC

\* A sender with two small amounts on record, and one with as many as are kept.
MCKnown == {<<1, 2>>, <<6, 1, 2, 3, 4, 5>>}

\* Every rule that looks at others fires: the closest to a block without a record.
MCElsewhere == {{"unusualHour", "newAccount", "recipientRisk"}}

Symmetry == Permutations(Checks)

=============================================================================
