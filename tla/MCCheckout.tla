----------------------------- MODULE MCCheckout -----------------------------
(* A small instance of Checkout: one sender, one recipient, one amount.    *)
EXTENDS Checkout, TLC

MCAccounts == {1, 2}

\* The order the user has in mind, under the key of each visit.
MCOrders == [key : 1 .. MaxVisits, from : {1}, to : {2}, amount : {2}]

\* Requests differ only in the orders they may carry.
Symmetry == Permutations(Requests)

\* Enough for a payment in every visit.
MCOpening == [a \in MCAccounts |-> 6]

=============================================================================
