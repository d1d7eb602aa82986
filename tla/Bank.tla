-------------------------------- MODULE Bank --------------------------------
(***************************************************************************)
(* What Settlr's payment API promises its clients, with none of the        *)
(* machinery: no locks, no caches, no retries.  A request carries an order *)
(* (an idempotency key, two accounts, an amount).  A request may move its  *)
(* money, at one instant, at most once per key and only if the sender can  *)
(* pay; and it is answered at most once.  "ok" is said only of an order    *)
(* whose key has moved money, "refused" only to a request that has moved   *)
(* nothing, and nothing moves for a request after it was answered.         *)
(* "unknown" is the HTTP 500, which promises nothing.                      *)
(*                                                                         *)
(* Transfer.tla, the model of payment.service.ts, implements this module.  *)
(***************************************************************************)
EXTENDS Integers

CONSTANTS Requests, Accounts, Orders, Opening, OpenAccounts

VARIABLES
    order,      \* what each request asks for
    balance,    \* committed balance of each account
    moved,      \* the requests whose money has moved
    answer      \* what each request was told

vars == <<order, balance, moved, answer>>

Init ==
    /\ order \in [Requests -> Orders]
    /\ balance = Opening
    /\ moved = {}
    /\ answer = [r \in Requests |-> "none"]

Move(r) ==
    LET o == order[r] IN
    /\ answer[r] = "none"
    /\ \A s \in moved : order[s].key # o.key
    /\ {o.from, o.to} \subseteq OpenAccounts
    /\ o.from # o.to
    /\ o.amount > 0
    /\ balance[o.from] >= o.amount
    /\ balance' = [balance EXCEPT ![o.from] = @ - o.amount,
                                  ![o.to]   = @ + o.amount]
    /\ moved' = moved \cup {r}
    /\ UNCHANGED <<order, answer>>

Answer(r, a) ==
    /\ answer[r] = "none"
    /\ answer' = [answer EXCEPT ![r] = a]
    /\ UNCHANGED <<order, balance, moved>>

Confirm(r) ==
    /\ \E s \in moved : order[s].key = order[r].key
    /\ Answer(r, "ok")

Refuse(r) ==
    /\ r \notin moved
    /\ Answer(r, "refused")

GiveUp(r) == Answer(r, "unknown")

Next ==
    \E r \in Requests : Move(r) \/ Confirm(r) \/ Refuse(r) \/ GiveUp(r)

Spec == Init /\ [][Next]_vars

=============================================================================
