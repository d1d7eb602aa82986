------------------------------ MODULE Transfer ------------------------------
(***************************************************************************)
(* payment-service: paymentService.initiatePayment, the 17-step transfer,  *)
(* with the parts it runs on: the Redis locks and the idempotency cache,   *)
(* the PostgreSQL rows it locks and writes, and the Kafka events it sends. *)
(*                                                                         *)
(* Every `await` of the code is a point where other requests interleave,   *)
(* so each action is the code between two awaits.  pc[r] names the await   *)
(* request r is at.  A request that is sent again by its client is another *)
(* request whose order has the same idempotency key.                       *)
(*                                                                         *)
(* Faults says what the environment may do besides delaying:               *)
(*   "redis"  a Redis command fails (it may have been applied), or is      *)
(*            resent by ioredis after its answer was lost                  *)
(*   "db"     a SQL statement or COMMIT fails (COMMIT may have been        *)
(*            applied)                                                     *)
(*   "kafka"  a send fails (it may have been stored)                       *)
(*   "crash"  the process serving a request dies                           *)
(*   "slow"   a request outlives the 10 second TTL of its account locks    *)
(*   "late"   an idempotency entry reaches its 24 hour TTL                 *)
(***************************************************************************)
EXTENDS Integers, Sequences, FiniteSets, FiniteSetsExt

CONSTANTS
    Requests,       \* POST /payments requests that reach payment-service
    Accounts,       \* account ids; `<` is the code's sort() of the UUIDs
    Keys,           \* idempotency keys
    Orders,         \* what a request may ask for
    Opening,        \* balance of each account at the start
    Status,         \* accounts.status, or "missing" when there is no row
    MinTransfer,    \* config.minTransferAmountPaise
    MaxTransfer,    \* config.maxTransferAmountPaise
    Faults,
    None

ASSUME AccountsAreSortable == Accounts \subseteq Nat
ASSUME OpeningIsBalance    == Opening \in [Accounts -> Nat]
ASSUME StatusIsColumn      ==
    Status \in [Accounts -> {"active", "frozen", "closed", "missing"}]
ASSUME OrdersAreOrders     ==
    Orders \subseteq [key : Keys, from : Accounts, to : Accounts, amount : Int]
ASSUME LimitsArePositive   == MinTransfer \in Nat \ {0} /\ MaxTransfer \in Nat
ASSUME NoneIsNoRequest     == None \notin Requests

VARIABLES
    order,          \* what each request asks for
    \* --- PostgreSQL, committed
    balance,        \* accounts.balance
    version,        \* accounts.version
    rows,           \* requests whose row is in the transactions table
    ledger,         \* ledger_entries, in order of insertion
    \* --- PostgreSQL, open transactions
    rowLock,        \* the request whose transaction holds the row FOR UPDATE
    \* --- Redis
    redisLock,      \* accounts whose key lock:account:<id> exists
    idem,           \* idempotency:<key>, the cached transaction or None
    \* --- Kafka
    events,         \* events stored by the broker
    inflight,       \* completed events sent without waiting for the broker
    \* --- per request, in the memory of the process
    pc,             \* the await the request is at
    outcome,        \* the answer it will give when it is done
    fromAccount,    \* the sender row as this transaction read it
    toAccount,      \* the recipient row as this transaction read it
    retries

dbVars    == <<balance, version, rows, ledger>>
redisVars == <<redisLock, idem>>
kafkaVars == <<events, inflight>>
readVars  == <<fromAccount, toAccount, retries>>
vars      == <<order, dbVars, rowLock, redisVars, kafkaVars, pc, outcome, readVars>>

-----------------------------------------------------------------------------
(* Vocabulary                                                              *)

Key(r)    == order[r].key
From(r)   == order[r].from
To(r)     == order[r].to
Amount(r) == order[r].amount

Unsorted(r) == <<From(r), To(r)>>       \* mutant: the ids as they come

\* acquireAccountLocks takes its two locks in the order of the ids.
Sorted(r) == IF From(r) < To(r) THEN <<From(r), To(r)>> ELSE <<To(r), From(r)>>
First(r)  == Sorted(r)[1]
Second(r) == Sorted(r)[2]

Confirmations == {"created", "cached"}
Refusals == {"invalid", "locked", "notFound", "frozen", "fraud",
             "insufficient", "conflict"}
Outcomes == Confirmations \cup Refusals \cup {"none", "error"}

Topics == {"payment.completed", "payment.failed", "payment.fraud_blocked"}
Event(topic, r) == [topic |-> topic, request |-> r]

\* Where a request has an open database transaction.
InTransaction == {"lockTo", "write", "insert", "commit"}
Working == InTransaction \cup
    {"lock1", "lock2", "unlock1", "check", "blocked", "lockFrom", "cache",
     "invalidate", "failed", "unlockA", "unlockB"}
Locations == Working \cup {"idle", "done", "orphan", "crashed"}

\* Between acquireAccountLocks returning and releaseAllLocks starting.
BothLocksHeld == {"check", "blocked", "lockFrom", "cache", "invalidate",
                  "failed", "unlockA"} \cup InTransaction

\* The locks request r believes to be its own; Redis knows of no owner.
Holds(r, a) ==
    \/ a = First(r) /\ pc[r] \in BothLocksHeld \cup {"lock2", "unlock1"}
    \/ a = Second(r) /\ pc[r] \in BothLocksHeld \cup {"unlockB"}

NoRead == [balance |-> 0, version |-> 0]

Init ==
    /\ order \in [Requests -> Orders]
    /\ balance = Opening
    /\ version = [a \in Accounts |-> 0]
    /\ rows = {}
    /\ ledger = << >>
    /\ rowLock = [a \in Accounts |-> None]
    /\ redisLock = {}
    /\ idem = [k \in Keys |-> None]
    /\ events = {}
    /\ inflight = {}
    /\ pc = [r \in Requests |-> "idle"]
    /\ outcome = [r \in Requests |-> "none"]
    /\ fromAccount = [r \in Requests |-> NoRead]
    /\ toAccount = [r \in Requests |-> NoRead]
    /\ retries = [r \in Requests |-> 0]

-----------------------------------------------------------------------------
(* How the code moves on                                                   *)

Goto(r, l) == pc' = [pc EXCEPT ![r] = l] /\ UNCHANGED outcome

\* The request is answered: a return, or an error thrown outside the try block.
Finish(r, o) ==
    pc' = [pc EXCEPT ![r] = "done"] /\ outcome' = [outcome EXCEPT ![r] = o]

\* An error thrown inside the try block: the catch block comes next.
Throw(r, o) ==
    pc' = [pc EXCEPT ![r] = "failed"] /\ outcome' = [outcome EXCEPT ![r] = o]

\* COMMIT or ROLLBACK: the row locks go, and with the callback its locals.
EndTransaction(r) ==
    /\ rowLock' = [a \in Accounts |-> IF rowLock[a] = r THEN None ELSE rowLock[a]]
    /\ fromAccount' = [fromAccount EXCEPT ![r] = NoRead]
    /\ toAccount' = [toAccount EXCEPT ![r] = NoRead]

\* An event handed to the broker and awaited, stored or not.
MayStore(topic, r) == events' \in {events, events \cup {Event(topic, r)}}

Valid(o) ==
    /\ o.amount >= MinTransfer
    /\ o.amount <= MaxTransfer
    /\ o.from # o.to

StatusError(a) == IF Status[a] = "missing" THEN "notFound" ELSE "frozen"

-----------------------------------------------------------------------------
(* Before the try block: idempotency, validation, account locks            *)

CheckIdempotency(r) ==
    /\ pc[r] = "idle"
    /\ \/ idem[Key(r)] # None /\ Finish(r, "cached")
       \/ idem[Key(r)] = None /\ ~Valid(order[r]) /\ Finish(r, "invalid")
       \/ idem[Key(r)] = None /\ Valid(order[r]) /\ Goto(r, "lock1")
       \/ "redis" \in Faults /\ Finish(r, "error")
    /\ UNCHANGED <<order, dbVars, rowLock, redisVars, kafkaVars, readVars>>

\* SET lock:account:a 1 EX 10 NX, as the caller sees it: granted, denied, or
\* (a Redis fault) lost with the key set or not, or denied by its own resend.
GrantedToAll(a) == redisLock' = redisLock \cup {a}      \* mutant: SET without NX
Granted(a) == a \notin redisLock /\ redisLock' = redisLock \cup {a}
Denied(a) ==
    \/ a \in redisLock /\ UNCHANGED redisLock
    \/ "redis" \in Faults /\ Granted(a)
SetLost(a) ==
    "redis" \in Faults /\ redisLock' \in {redisLock, redisLock \cup {a}}

AcquireFirst(r) ==
    /\ pc[r] = "lock1"
    /\ \/ Granted(First(r)) /\ Goto(r, "lock2")
       \/ Denied(First(r)) /\ Finish(r, "locked")
       \/ SetLost(First(r)) /\ Finish(r, "error")
    /\ UNCHANGED <<order, dbVars, rowLock, idem, kafkaVars, readVars>>

\* If the second SET throws, nothing releases the first lock.
AcquireSecond(r) ==
    /\ pc[r] = "lock2"
    /\ \/ Granted(Second(r)) /\ Goto(r, "check")
       \/ Denied(Second(r)) /\ Goto(r, "unlock1")
       \/ SetLost(Second(r)) /\ Finish(r, "error")
    /\ UNCHANGED <<order, dbVars, rowLock, idem, kafkaVars, readVars>>

\* DEL lock:account:a, whoever set it.  After a Redis fault it may have been
\* applied or not when the caller sees an error, or be applied again later,
\* when ioredis resends it.
Release(a) == redisLock' = redisLock \ {a}
ReleaseLost(a) ==
    "redis" \in Faults /\ redisLock' \in {redisLock, redisLock \ {a}}
ReleaseResent(a) ==
    "redis" \in Faults /\ Release(a) /\ UNCHANGED <<pc, outcome>>

ReleaseAfterDenial(r) ==
    /\ pc[r] = "unlock1"
    /\ \/ Release(First(r)) /\ Finish(r, "locked")
       \/ ReleaseLost(First(r)) /\ Finish(r, "error")
       \/ ReleaseResent(First(r))
    /\ UNCHANGED <<order, dbVars, rowLock, idem, kafkaVars, readVars>>

-----------------------------------------------------------------------------
(* Inside the try block                                                    *)

\* Both rows are looked up, then fraud-service is asked; it may say anything,
\* and no answer within 5 seconds means "approve".
FraudCheck(r) ==
    /\ pc[r] = "check"
    /\ IF "missing" \in {Status[From(r)], Status[To(r)]}
       THEN Throw(r, "notFound")
       ELSE Goto(r, "lockFrom") \/ Goto(r, "blocked")
    /\ UNCHANGED <<order, dbVars, rowLock, redisVars, kafkaVars, readVars>>

\* mutant: the event is sent, the error is not thrown
BlockedButPaid(r) ==
    /\ pc[r] = "blocked"
    /\ events' = events \cup {Event("payment.fraud_blocked", r)}
    /\ Goto(r, "lockFrom")
    /\ UNCHANGED <<order, dbVars, rowLock, redisVars, inflight, readVars>>

PublishFraudBlocked(r) ==
    /\ pc[r] = "blocked"
    /\ \/ /\ events' = events \cup {Event("payment.fraud_blocked", r)}
          /\ Throw(r, "fraud")
       \/ /\ "kafka" \in Faults
          /\ MayStore("payment.fraud_blocked", r)
          /\ Throw(r, "error")
    /\ UNCHANGED <<order, dbVars, rowLock, redisVars, inflight, readVars>>

\* SELECT ... FOR UPDATE NOWAIT: the row is locked and read, or it is an SQL
\* error at once, which is not an AppError and so becomes an HTTP 500.
Row(a) == [balance |-> balance[a], version |-> version[a]]
LockRow(r, a) == rowLock[a] = None /\ rowLock' = [rowLock EXCEPT ![a] = r]
Refused(r, a) ==
    /\ EndTransaction(r)
    /\ \/ rowLock[a] # None /\ Throw(r, "error")
       \/ rowLock[a] = None /\ Status[a] # "active" /\ Throw(r, StatusError(a))

\* mutant: the status of the sender is not checked
PayFromAny(r) ==
    /\ pc[r] = "lockFrom"
    /\ LockRow(r, From(r))
    /\ fromAccount' = [fromAccount EXCEPT ![r] = Row(From(r))]
    /\ Goto(r, "lockTo")
    /\ UNCHANGED <<order, dbVars, redisVars, kafkaVars, toAccount, retries>>

\* mutant: a plain SELECT of the sender
ReadSender(r) ==
    /\ pc[r] = "lockFrom"
    /\ fromAccount' = [fromAccount EXCEPT ![r] = Row(From(r))]
    /\ Goto(r, "lockTo")
    /\ UNCHANGED <<order, dbVars, rowLock, redisVars, kafkaVars, toAccount, retries>>

LockSender(r) ==
    /\ pc[r] = "lockFrom"
    /\ \/ /\ Status[From(r)] = "active"
          /\ LockRow(r, From(r))
          /\ fromAccount' = [fromAccount EXCEPT ![r] = Row(From(r))]
          /\ UNCHANGED toAccount
          /\ Goto(r, "lockTo")
       \/ Refused(r, From(r))
    /\ UNCHANGED <<order, dbVars, redisVars, kafkaVars, retries>>

\* mutant: a plain SELECT of the recipient
ReadRecipient(r) ==
    /\ pc[r] = "lockTo"
    /\ toAccount' = [toAccount EXCEPT ![r] = Row(To(r))]
    /\ Goto(r, "write")
    /\ UNCHANGED <<order, dbVars, rowLock, redisVars, kafkaVars, fromAccount, retries>>

\* mutant: FOR UPDATE without NOWAIT
WaitForRecipient(r) ==
    /\ pc[r] = "lockTo"
    /\ LockRow(r, To(r))
    /\ toAccount' = [toAccount EXCEPT ![r] = Row(To(r))]
    /\ Goto(r, "write")
    /\ UNCHANGED <<order, dbVars, redisVars, kafkaVars, fromAccount, retries>>

LockRecipient(r) ==
    /\ pc[r] = "lockTo"
    /\ \/ /\ Status[To(r)] = "active"
          /\ LockRow(r, To(r))
          /\ toAccount' = [toAccount EXCEPT ![r] = Row(To(r))]
          /\ UNCHANGED fromAccount
          /\ Goto(r, "write")
       \/ Refused(r, To(r))
    /\ UNCHANGED <<order, dbVars, redisVars, kafkaVars, retries>>

\* Balance check, then UPDATE ... WHERE version = the version read, then the
\* recipient's UPDATE.  Both new rows stay invisible to others until COMMIT.
UpdateBalances(r) ==
    /\ pc[r] = "write"
    /\ IF fromAccount[r].balance < Amount(r)
       THEN EndTransaction(r) /\ Throw(r, "insufficient") /\ UNCHANGED retries
       ELSE IF version[From(r)] = fromAccount[r].version
       THEN Goto(r, "insert") /\ UNCHANGED <<rowLock, readVars>>
       ELSE /\ EndTransaction(r)
            /\ IF retries[r] < 2
               THEN /\ Goto(r, "lockFrom")
                    /\ retries' = [retries EXCEPT ![r] = @ + 1]
               ELSE Throw(r, "conflict") /\ UNCHANGED retries
    /\ UNCHANGED <<order, dbVars, redisVars, kafkaVars>>

\* mutant: idempotency_key without UNIQUE
InsertAnyKey(r) ==
    /\ pc[r] = "insert"
    /\ Goto(r, "commit")
    /\ UNCHANGED <<order, dbVars, rowLock, redisVars, kafkaVars, readVars>>

\* INSERT into transactions (idempotency_key is UNIQUE), ledger_entries and
\* fraud_signals.  PostgreSQL makes the INSERT wait for an open transaction
\* that has inserted the same key; a committed one makes it an SQL error.
InsertRows(r) ==
    /\ pc[r] = "insert"
    /\ \A s \in Requests : pc[s] = "commit" => Key(s) # Key(r)
    /\ IF \E s \in rows : Key(s) = Key(r)
       THEN EndTransaction(r) /\ Throw(r, "error")
       ELSE Goto(r, "commit") /\ UNCHANGED <<rowLock, fromAccount, toAccount>>
    /\ UNCHANGED <<order, dbVars, redisVars, kafkaVars, retries>>

Entry(r, a, type, before, after) ==
    [transaction |-> r, account |-> a, type |-> type, amount |-> Amount(r),
     before |-> before, after |-> after]

\* ledgerService.createEntries: the debit of the sender and the credit of the
\* recipient, each with the balance before and after, as this transaction sees it.
Debit(r) ==
    LET b == fromAccount[r].balance
    IN  Entry(r, From(r), "debit", b, b - Amount(r))

\* mutant: the credit computed from the sender's balance
CreditFromSender(r) ==
    LET b == fromAccount[r].balance
    IN  Entry(r, To(r), "credit", b, b + Amount(r))

Credit(r) ==
    LET b == toAccount[r].balance
    IN  Entry(r, To(r), "credit", b, b + Amount(r))

\* COMMIT makes visible everything the transaction wrote: the values it
\* computed from its own two reads.  Its answer may be lost ("db").
Commit(r) ==
    /\ pc[r] = "commit"
    /\ balance' = [balance EXCEPT
            ![From(r)] = fromAccount[r].balance - Amount(r),
            ![To(r)] = toAccount[r].balance + Amount(r)]
    /\ version' = [version EXCEPT
            ![From(r)] = fromAccount[r].version + 1,
            ![To(r)] = toAccount[r].version + 1]
    /\ rows' = rows \cup {r}
    /\ ledger' = Append(Append(ledger, Debit(r)), Credit(r))
    /\ EndTransaction(r)
    /\ \/ Goto(r, "cache")
       \/ "db" \in Faults /\ Throw(r, "error")
    /\ UNCHANGED <<order, redisVars, kafkaVars, retries>>

\* A statement fails or times out: knex rolls back and the error is thrown.
DatabaseError(r) ==
    /\ "db" \in Faults
    /\ pc[r] \in InTransaction \cup {"check", "lockFrom"}
    /\ EndTransaction(r)
    /\ Throw(r, "error")
    /\ UNCHANGED <<order, dbVars, redisVars, kafkaVars, retries>>

\* SETEX idempotency:<key>.  An error here is caught like any other, though
\* the money has moved.
CacheResponse(r) ==
    /\ pc[r] = "cache"
    /\ \/ /\ idem' = [idem EXCEPT ![Key(r)] = r]
          /\ Goto(r, "invalidate")
       \/ /\ "redis" \in Faults
          /\ idem' \in {idem, [idem EXCEPT ![Key(r)] = r]}
          /\ Throw(r, "error")
    /\ UNCHANGED <<order, dbVars, rowLock, redisLock, kafkaVars, readVars>>

\* The eight DELs, then publishEvent(PAYMENT_COMPLETED) without awaiting it.
InvalidateAndPublish(r) ==
    /\ pc[r] = "invalidate"
    /\ \/ /\ inflight' = inflight \cup {r}
          /\ pc' = [pc EXCEPT ![r] = "unlockA"]
          /\ outcome' = [outcome EXCEPT ![r] = "created"]
       \/ "redis" \in Faults /\ Throw(r, "error") /\ UNCHANGED inflight
    /\ UNCHANGED <<order, dbVars, rowLock, redisVars, events, readVars>>

\* The catch block.
PublishFailed(r) ==
    /\ pc[r] = "failed"
    /\ \/ events' = events \cup {Event("payment.failed", r)}
       \/ "kafka" \in Faults /\ UNCHANGED events
    /\ Goto(r, "unlockA")
    /\ UNCHANGED <<order, dbVars, rowLock, redisVars, inflight, readVars>>

\* The finally block.  An error in it replaces the answer.
ReleaseFirst(r) ==
    /\ pc[r] = "unlockA"
    /\ \/ Release(First(r)) /\ Goto(r, "unlockB")
       \/ ReleaseLost(First(r)) /\ Finish(r, "error")
       \/ ReleaseResent(First(r))
    /\ UNCHANGED <<order, dbVars, rowLock, idem, kafkaVars, readVars>>

ReleaseSecond(r) ==
    /\ pc[r] = "unlockB"
    /\ \/ Release(Second(r)) /\ Finish(r, outcome[r])
       \/ ReleaseLost(Second(r)) /\ Finish(r, "error")
       \/ ReleaseResent(Second(r))
    /\ UNCHANGED <<order, dbVars, rowLock, idem, kafkaVars, readVars>>

-----------------------------------------------------------------------------
(* What goes on outside the request                                        *)

\* The un-awaited send settles, some time after the answer or before it.
DeliverCompleted(r) ==
    /\ r \in inflight
    /\ inflight' = inflight \ {r}
    /\ \/ events' = events \cup {Event("payment.completed", r)}
       \/ Faults \cap {"kafka", "crash"} # {} /\ UNCHANGED events
    /\ UNCHANGED <<order, dbVars, rowLock, redisVars, pc, outcome, readVars>>

\* The process dies.  An open transaction stays open until PostgreSQL notices.
Crash(r) ==
    /\ "crash" \in Faults
    /\ pc[r] \in Working
    /\ pc' = [pc EXCEPT ![r] = IF @ \in InTransaction THEN "orphan" ELSE "crashed"]
    /\ outcome' = [outcome EXCEPT ![r] = "none"]
    /\ fromAccount' = [fromAccount EXCEPT ![r] = NoRead]
    /\ toAccount' = [toAccount EXCEPT ![r] = NoRead]
    /\ UNCHANGED <<order, dbVars, rowLock, redisVars, kafkaVars, retries>>

\* ... the broken connection, or 5 seconds idle in transaction.
AbortOrphan(r) ==
    /\ pc[r] = "orphan"
    /\ EndTransaction(r)
    /\ Goto(r, "crashed")
    /\ UNCHANGED <<order, dbVars, redisVars, kafkaVars, retries>>

NeverExpire(a) == FALSE /\ UNCHANGED vars       \* mutant: SET without EX

\* A lock key reaches its TTL: it was leaked, or its holder is slow.
ExpireLock(a) ==
    /\ a \in redisLock
    /\ "slow" \in Faults \/ ~\E r \in Requests : Holds(r, a)
    /\ Release(a)
    /\ UNCHANGED <<order, dbVars, rowLock, idem, kafkaVars, pc, outcome, readVars>>

ExpireResponse(k) ==
    /\ "late" \in Faults
    /\ idem[k] # None
    /\ idem' = [idem EXCEPT ![k] = None]
    /\ UNCHANGED <<order, dbVars, rowLock, redisLock, kafkaVars, pc, outcome, readVars>>

-----------------------------------------------------------------------------
\* The steps of a request that the process takes by itself.
Step(r) ==
    \/ CheckIdempotency(r)
    \/ AcquireFirst(r)
    \/ AcquireSecond(r)
    \/ ReleaseAfterDenial(r)
    \/ FraudCheck(r)
    \/ PublishFraudBlocked(r)
    \/ LockSender(r)
    \/ LockRecipient(r)
    \/ UpdateBalances(r)
    \/ InsertRows(r)
    \/ Commit(r)
    \/ CacheResponse(r)
    \/ InvalidateAndPublish(r)
    \/ PublishFailed(r)
    \/ ReleaseFirst(r)
    \/ ReleaseSecond(r)

\* Every request has ended and nothing is left to happen: the only states in
\* which the system may stop, so that TLC's deadlock check means something.
Terminated ==
    /\ \A r \in Requests : pc[r] \in {"done", "crashed"}
    /\ inflight = {}
    /\ redisLock = {}
    /\ UNCHANGED vars

Next ==
    \/ \E r \in Requests :
        \/ Step(r)
        \/ DatabaseError(r)
        \/ DeliverCompleted(r)
        \/ Crash(r)
        \/ AbortOrphan(r)
    \/ \E a \in Accounts : ExpireLock(a)
    \/ \E k \in Keys : ExpireResponse(k)
    \/ Terminated

Spec == Init /\ [][Next]_vars

\* The event loop keeps running, every await has a timeout, Redis honours its
\* TTLs and PostgreSQL its session timeout.  A request need not arrive.
Fairness ==
    /\ \A r \in Requests :
        /\ WF_vars(pc[r] # "idle" /\ Step(r))
        /\ WF_vars(AbortOrphan(r))
        /\ WF_vars(DeliverCompleted(r))
    /\ \A a \in Accounts : WF_vars(ExpireLock(a))

FairSpec == Spec /\ Fairness

-----------------------------------------------------------------------------
(* Properties                                                              *)

Reads == [balance : Nat, version : Nat]
Entries == [transaction : Requests, account : Accounts, type : {"debit", "credit"},
            amount : Nat, before : Nat, after : Nat]

\* Every variable keeps its type.  Balances are Nat: the CHECK (balance >= 0) of
\* migration 002 is never what stops an overdraft, the code's own check is.
DatabaseTypeOK ==
    /\ balance \in [Accounts -> Nat]
    /\ version \in [Accounts -> Nat]
    /\ rows \subseteq Requests
    /\ ledger \in Seq(Entries)
RowLockTypeOK == rowLock \in [Accounts -> Requests \cup {None}]
RedisTypeOK ==
    /\ redisLock \subseteq Accounts
    /\ idem \in [Keys -> Requests \cup {None}]
KafkaTypeOK ==
    /\ events \subseteq [topic : Topics, request : Requests]
    /\ inflight \subseteq Requests
ControlTypeOK ==
    /\ pc \in [Requests -> Locations]
    /\ outcome \in [Requests -> Outcomes]
ReadTypeOK ==
    /\ fromAccount \in [Requests -> Reads]
    /\ toAccount \in [Requests -> Reads]
    /\ retries \in [Requests -> 0 .. 2]
TypeOK ==
    /\ order \in [Requests -> Orders]
    /\ DatabaseTypeOK
    /\ RowLockTypeOK
    /\ RedisTypeOK
    /\ KafkaTypeOK
    /\ ControlTypeOK
    /\ ReadTypeOK

\* An idempotency key moves money at most once, whatever happens to the cache:
\* entries lost, expired or never written, requests racing with the same key.
OneTransferPerKey ==
    \A r, s \in rows : Key(r) = Key(s) => r = s

\* While a transaction holds its row locks, the balances and versions it read
\* are the committed ones, even if its Redis locks have expired and been taken
\* by others.  Hence creditAccount, which checks no version, loses no update,
\* and the optimistic check of updateBalance never fails.
ReadsStayCurrent ==
    \A r \in Requests :
        /\ pc[r] \in InTransaction =>
            fromAccount[r] = [balance |-> balance[From(r)], version |-> version[From(r)]]
        /\ pc[r] \in InTransaction \ {"lockTo"} =>
            toAccount[r] = [balance |-> balance[To(r)], version |-> version[To(r)]]

\* The ledger is an audit trail (migration 004): the entries of an account
\* chain from its opening balance, each starting where the one before it
\* ended, and the last one ends at the account's balance.
EntriesOf(a) == {i \in DOMAIN ledger : ledger[i].account = a}
Chained(a) ==
    /\ EntriesOf(a) = {} => balance[a] = Opening[a]
    /\ \A i \in EntriesOf(a) :
        /\ (\A j \in EntriesOf(a) : i <= j) => ledger[i].before = Opening[a]
        /\ (\A j \in EntriesOf(a) : j <= i) => ledger[i].after = balance[a]
        /\ \A j \in EntriesOf(a) :
            (i < j /\ ~\E m \in EntriesOf(a) : i < m /\ m < j)
                => ledger[i].after = ledger[j].before
LedgerExplainsBalances == \A a \in Accounts : Chained(a)

\* No money is made or lost: every balance is the opening one plus what the
\* committed transactions paid in and minus what they paid out, though
\* updateBalance and creditAccount write absolute values.
Amounts == [r \in Requests |-> Amount(r)]
PaidTo(a) == SumFunctionOnSet(Amounts, {r \in rows : To(r) = a})
PaidFrom(a) == SumFunctionOnSet(Amounts, {r \in rows : From(r) = a})
MoneyIsAccountedFor ==
    \A a \in Accounts : balance[a] = Opening[a] + PaidTo(a) - PaidFrom(a)

\* No step changes a balance without appending, at the same instant, exactly
\* the debit and the credit of one transfer; nor is the ledger ever rewritten.
MovesPair(r) ==
    LET n == Len(ledger)
        d == ledger'[n + 1]
        c == ledger'[n + 2]
    IN  /\ r \notin rows
        /\ rows' = rows \cup {r}
        /\ Len(ledger') = n + 2
        /\ SubSeq(ledger', 1, n) = ledger
        /\ d.type = "debit" /\ d.account = From(r) /\ d.transaction = r
        /\ c.type = "credit" /\ c.account = To(r) /\ c.transaction = r
        /\ d.before = balance[From(r)] /\ d.after = d.before - Amount(r)
        /\ c.before = balance[To(r)] /\ c.after = c.before + Amount(r)
        /\ balance' = [balance EXCEPT ![From(r)] = d.after, ![To(r)] = c.after]

MoneyMovesInPairs ==
    [][UNCHANGED <<balance, ledger, rows>> \/ \E r \in Requests : MovesPair(r)]_vars

\* producer.ts rule 1: what is announced as completed is committed, and what is
\* announced as blocked by fraud-service never moves.
EventsAreTrue ==
    \A e \in events :
        /\ e.topic = "payment.completed" => e.request \in rows
        /\ e.topic = "payment.fraud_blocked" => e.request \notin rows

\* Two requests that both believe they hold an account's Redis lock: never, as
\* long as none outlives its TTL and Redis does not fail.
LockHoldersAreAlone ==
    \A r, s \in Requests, a \in Accounts :
        Holds(r, a) /\ Holds(s, a) => r = s

\* What sorting the two ids is for: requests that compete for accounts cannot
\* all turn each other away with ACCOUNT_LOCKED; one of them gets through.
NotAllTurnedAway ==
    (\A r \in Requests : pc[r] = "done") => \E r \in Requests : outcome[r] # "locked"

\* Every request that arrives is answered, unless its process dies.
EveryRequestEnds ==
    \A r \in Requests : pc[r] # "idle" ~> pc[r] \in {"done", "crashed"}

\* No lock outlives its use for ever: a leaked Redis lock expires and a row
\* lock goes with its transaction, so that the account can be paid from again.
LocksAreFreed ==
    \A a \in Accounts :
        /\ a \in redisLock ~> a \notin redisLock
        /\ rowLock[a] # None ~> rowLock[a] = None

\* What the duplicates of a paid order are told: the cached result, or to come
\* back later, but not that the payment failed (DECISIONS.md, section 8).
DuplicatesDoNotFail ==
    \A r \in Requests :
        pc[r] = "done" /\ outcome[r] = "error" => ~\E s \in rows : Key(s) = Key(r)

\* The refinement of the API's promise: money moves when the transaction
\* commits, and the answer is what the client reads.
Answer(r) ==
    IF pc[r] # "done" THEN "none"
    ELSE IF outcome[r] \in Confirmations THEN "ok"
    ELSE IF outcome[r] \in Refusals THEN "refused"
    ELSE "unknown"

BankView == INSTANCE Bank WITH
    moved <- rows,
    answer <- [r \in Requests |-> Answer(r)],
    OpenAccounts <- {a \in Accounts : Status[a] = "active"}

\* payment-service implements Bank: see Bank.tla for what that promises.
ImplementsBank == BankView!Spec

-----------------------------------------------------------------------------
(* The inductive invariant behind the safety properties: TransferProofs.   *)

\* What has been established about a request by the time it is at a location.
RowsLocked ==
    \A r \in Requests :
        /\ pc[r] \in InTransaction => rowLock[From(r)] = r
        /\ pc[r] \in InTransaction \ {"lockTo"} => rowLock[To(r)] = r

OrdersChecked ==
    \A r \in Requests :
        /\ pc[r] \in Working => Valid(order[r])
        /\ pc[r] \in InTransaction => Status[From(r)] = "active"
        /\ pc[r] \in InTransaction \ {"lockTo"} => Status[To(r)] = "active"
        /\ pc[r] \in {"insert", "commit"} => fromAccount[r].balance >= Amount(r)

\* A transaction about to commit is the only one with its key.
KeyIsFree ==
    \A r \in Requests : pc[r] = "commit" =>
        /\ \A s \in rows : Key(s) # Key(r)
        /\ \A s \in Requests : pc[s] = "commit" /\ Key(s) = Key(r) => s = r

BeforeCommit == {"idle", "lock1", "lock2", "unlock1", "check", "blocked",
                 "lockFrom", "orphan"} \cup InTransaction
AfterCommit == {"cache", "invalidate"}

\* What an outcome says about the request's own money.
OutcomesAreTrue ==
    \A r \in Requests :
        /\ pc[r] \in BeforeCommit => r \notin rows
        /\ pc[r] \in AfterCommit => r \in rows
        /\ pc[r] \in BeforeCommit \cup AfterCommit => outcome[r] = "none"
        /\ outcome[r] \in Refusals => r \notin rows
        /\ outcome[r] \in Confirmations => \E s \in rows : Key(s) = Key(r)

CacheIsTrue ==
    \A k \in Keys : idem[k] # None => idem[k] \in rows /\ Key(idem[k]) = k

\* A request that was announced as blocked is past the point of paying.
EventsAreFinal ==
    /\ inflight \subseteq rows
    /\ \A e \in events :
        e.topic = "payment.fraud_blocked" => pc[e.request] \notin BeforeCommit

TransferInv ==
    /\ TypeOK
    /\ RowsLocked
    /\ ReadsStayCurrent
    /\ OrdersChecked
    /\ KeyIsFree
    /\ OneTransferPerKey
    /\ OutcomesAreTrue
    /\ CacheIsTrue
    /\ EventsAreFinal
    /\ EventsAreTrue

=============================================================================
