----------------------------- MODULE MCTransfer -----------------------------
(* Small instances of Transfer for TLC.                                    *)
EXTENDS Transfer, TLC

CONSTANTS k1, k2

TwoAccounts == {1, 2}
MCAccounts == {1, 2, 3}
FourAccounts == {1, 2, 3, 4}
SixAccounts == 1 .. 6
AllActive == [a \in Accounts |-> "active"]
LastTwoClosed == [a \in Accounts |-> CASE a = 5 -> "frozen" [] a = 6 -> "missing"
                                       [] OTHER -> "active"]
Opening3 == [a \in Accounts |-> 3]

Pay(k, f, t, n) == [key |-> k, from |-> f, to |-> t, amount |-> n]

\* A pair paying each other, the first order under a second key, and one with
\* the first key between other accounts.  Account 1 can pay 2 once, not twice;
\* account 3 can pay all it has, and no more.
Crossing == {Pay(k1, 1, 2, 2), Pay(k2, 2, 1, 2), Pay(k2, 1, 2, 2), Pay(k1, 3, 4, 3)}

\* As above with every order the code turns down: a frozen sender or recipient,
\* an account without a row, one account twice, an amount out of bounds.
TurnedDown == {Pay(k1, 5, 1, 1), Pay(k1, 1, 5, 1), Pay(k1, 1, 6, 1),
            Pay(k1, 1, 1, 1), Pay(k1, 1, 2, 0), Pay(k1, 1, 2, 9), Pay(k1, 1, 2, 4)}
Everything == Crossing \cup TurnedDown

\* Every request asks for two of three accounts, each pair in both directions.
Ring == {Pay(k1, 1, 2, 1), Pay(k1, 2, 3, 1), Pay(k1, 3, 1, 1)}
Contended == Ring \cup {Pay(k2, 2, 1, 1), Pay(k2, 3, 2, 1), Pay(k2, 1, 3, 1)}

\* One order sent again and again, and its reverse.
Repeated == {Pay(k1, 1, 2, 1), Pay(k2, 2, 1, 1)}

RequestSymmetry == Permutations(Requests)

=============================================================================
