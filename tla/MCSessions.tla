----------------------------- MODULE MCSessions -----------------------------
(* Small instances of Sessions.                                            *)
EXTENDS Sessions, TLC

\* Requests start alike.
Symmetry == Permutations(Requests)

=============================================================================
