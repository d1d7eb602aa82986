--------------------------- MODULE TransferProofs ---------------------------
(***************************************************************************)
(* Theorems about Transfer, for any number of requests and accounts, any   *)
(* orders and any set of faults.  All rest on TransferInv being inductive. *)
(***************************************************************************)
EXTENDS Transfer, FiniteSums

\* The steps of a request outside its database transaction, and around it.
OutsideStep(r) ==
    \/ CheckIdempotency(r)
    \/ AcquireFirst(r)
    \/ AcquireSecond(r)
    \/ ReleaseAfterDenial(r)
    \/ FraudCheck(r)
    \/ PublishFraudBlocked(r)
    \/ CacheResponse(r)
    \/ InvalidateAndPublish(r)
    \/ PublishFailed(r)
    \/ ReleaseFirst(r)
    \/ ReleaseSecond(r)
    \/ DeliverCompleted(r)

InsideStep(r) ==
    \/ LockSender(r)
    \/ LockRecipient(r)
    \/ UpdateBalances(r)
    \/ InsertRows(r)
    \/ Commit(r)
    \/ DatabaseError(r)
    \/ Crash(r)
    \/ AbortOrphan(r)

\* The passing of time changes Redis only.
Expiry == UNCHANGED <<order, dbVars, rowLock, kafkaVars, pc, outcome, readVars>>

LEMMA StepCases ==
  ASSUME [Next]_vars
  PROVE  \/ \E r \in Requests : OutsideStep(r) \/ InsideStep(r)
         \/ \E a \in Accounts : ExpireLock(a)
         \/ \E k \in Keys : ExpireResponse(k)
         \/ UNCHANGED vars
BY DEF Next, Step, OutsideStep, InsideStep, Terminated

-----------------------------------------------------------------------------
(* Types                                                                   *)

\* What an order gives the code that handles it.
LEMMA OrderTypes ==
  ASSUME order \in [Requests -> Orders], NEW r \in Requests
  PROVE  /\ Key(r) \in Keys
         /\ From(r) \in Accounts
         /\ To(r) \in Accounts
         /\ Amount(r) \in Int
         /\ First(r) \in {From(r), To(r)}
         /\ Second(r) \in {From(r), To(r)}
<1>1. order[r] \in [key : Keys, from : Accounts, to : Accounts, amount : Int]
  BY OrdersAreOrders
<1>. QED
  BY <1>1 DEF Key, From, To, Amount, First, Second, Sorted

\* Goto, Finish and Throw move one request to a known location.
LEMMA GotoTypes ==
  ASSUME ControlTypeOK, NEW r \in Requests, NEW l \in Locations, Goto(r, l)
  PROVE  ControlTypeOK'
BY DEF ControlTypeOK, Goto

LEMMA FinishTypes ==
  ASSUME ControlTypeOK, NEW r \in Requests, NEW o \in Outcomes,
         Finish(r, o) \/ Throw(r, o)
  PROVE  ControlTypeOK'
BY DEF ControlTypeOK, Finish, Throw, Locations, Working

\* The end of a transaction frees rows and forgets what was read.
LEMMA EndTransactionTypes ==
  ASSUME RowLockTypeOK, ReadTypeOK, NEW r \in Requests, EndTransaction(r)
  PROVE  /\ RowLockTypeOK'
         /\ UNCHANGED retries => ReadTypeOK'
<1>1. NoRead \in Reads
  BY DEF NoRead, Reads
<1>. QED
  BY <1>1 DEF RowLockTypeOK, ReadTypeOK, EndTransaction

\* SET and DEL of a lock key.
LEMMA LockKeyTypes ==
  ASSUME RedisTypeOK, NEW a \in Accounts, UNCHANGED idem,
         \/ Granted(a) \/ Denied(a) \/ SetLost(a)
         \/ Release(a) \/ ReleaseLost(a) \/ ReleaseResent(a)
  PROVE  RedisTypeOK'
BY DEF RedisTypeOK, Granted, Denied, SetLost, Release, ReleaseLost, ReleaseResent

\* Storing an event, and sending one without waiting.
LEMMA EventTypes ==
  ASSUME KafkaTypeOK, NEW r \in Requests, NEW t \in Topics,
         events' \in {events, events \cup {Event(t, r)}},
         inflight' \in {inflight, inflight \cup {r}, inflight \ {r}}
  PROVE  KafkaTypeOK'
BY DEF KafkaTypeOK, Event

\* What an action does not mention keeps its type.
LEMMA FrameTypes ==
  /\ DatabaseTypeOK /\ UNCHANGED dbVars => DatabaseTypeOK'
  /\ RowLockTypeOK /\ UNCHANGED rowLock => RowLockTypeOK'
  /\ RedisTypeOK /\ UNCHANGED redisVars => RedisTypeOK'
  /\ KafkaTypeOK /\ UNCHANGED kafkaVars => KafkaTypeOK'
  /\ ControlTypeOK /\ UNCHANGED <<pc, outcome>> => ControlTypeOK'
  /\ ReadTypeOK /\ UNCHANGED readVars => ReadTypeOK'
BY DEF DatabaseTypeOK, RowLockTypeOK, RedisTypeOK, KafkaTypeOK, ControlTypeOK,
       ReadTypeOK, dbVars, redisVars, kafkaVars, readVars

\* A row as a transaction reads it.
LEMMA RowTypes ==
  ASSUME DatabaseTypeOK, NEW a \in Accounts PROVE Row(a) \in Reads
BY DEF DatabaseTypeOK, Row, Reads

\* The type invariant is kept by the steps outside the database transaction.
LEMMA TypeStepOutside ==
  ASSUME TypeOK, NEW r \in Requests, OutsideStep(r)
  PROVE  TypeOK'
<1>. USE OrderTypes, GotoTypes, FinishTypes, FrameTypes DEF TypeOK
<1>0. /\ {"lock1", "lock2", "unlock1", "check", "blocked", "lockFrom",
          "invalidate", "unlockA", "unlockB"} \subseteq Locations
      /\ Confirmations \cup Refusals \cup {"error"} \subseteq Outcomes
      /\ Topics = {"payment.completed", "payment.failed", "payment.fraud_blocked"}
  BY DEF Locations, Working, Outcomes, Topics
<1>1. CASE CheckIdempotency(r)
  BY <1>0, <1>1 DEF CheckIdempotency, Confirmations, Refusals
<1>2. CASE AcquireFirst(r)
  BY <1>0, <1>2, LockKeyTypes DEF AcquireFirst, Refusals
<1>3. CASE AcquireSecond(r)
  BY <1>0, <1>3, LockKeyTypes DEF AcquireSecond
<1>4. CASE ReleaseAfterDenial(r)
  BY <1>0, <1>4, LockKeyTypes DEF ReleaseAfterDenial, ReleaseResent, Refusals
<1>5. CASE FraudCheck(r)
  BY <1>0, <1>5 DEF FraudCheck, Refusals
<1>6. CASE PublishFraudBlocked(r)
  BY <1>0, <1>6, EventTypes DEF PublishFraudBlocked, MayStore, Refusals
<1>7. CASE CacheResponse(r)
  <2>1. RedisTypeOK'
    BY <1>7 DEF CacheResponse, RedisTypeOK
  <2>. QED
    BY <1>0, <1>7, <2>1 DEF CacheResponse
<1>8. CASE InvalidateAndPublish(r)
  <2>1. ControlTypeOK'
    BY <1>0, <1>8 DEF InvalidateAndPublish, ControlTypeOK, Confirmations
  <2>2. KafkaTypeOK'
    BY <1>0, <1>8, EventTypes DEF InvalidateAndPublish
  <2>. QED
    BY <1>8, <2>1, <2>2 DEF InvalidateAndPublish
<1>9. CASE PublishFailed(r)
  BY <1>0, <1>9, EventTypes DEF PublishFailed
<1>10. CASE ReleaseFirst(r)
  BY <1>0, <1>10, LockKeyTypes DEF ReleaseFirst, ReleaseResent
<1>11. CASE ReleaseSecond(r)
  <2>1. outcome[r] \in Outcomes
    BY DEF ControlTypeOK
  <2>. QED
    BY <1>0, <1>11, <2>1, LockKeyTypes DEF ReleaseSecond, ReleaseResent
<1>12. CASE DeliverCompleted(r)
  BY <1>0, <1>12, EventTypes DEF DeliverCompleted
<1>. QED
  BY <1>1, <1>2, <1>3, <1>4, <1>5, <1>6, <1>7, <1>8, <1>9, <1>10, <1>11, <1>12
     DEF OutsideStep

\* ... and by those of the transaction.
LEMMA TypeStepInside ==
  ASSUME TypeOK, OrdersChecked, NEW r \in Requests, InsideStep(r)
  PROVE  TypeOK'
<1>. USE OrderTypes, GotoTypes, FinishTypes, FrameTypes, EndTransactionTypes DEF TypeOK
<1>0. /\ {"lockFrom", "lockTo", "write", "insert", "commit", "cache",
          "orphan", "crashed"} \subseteq Locations
      /\ Refusals \cup {"none", "error"} \subseteq Outcomes
      /\ \A a \in Accounts : StatusError(a) \in Refusals
  BY DEF Locations, Working, InTransaction, Outcomes, StatusError, Refusals
<1>1. CASE LockSender(r)
  <2>1. CASE Refused(r, From(r))
    BY <1>0, <1>1, <2>1 DEF LockSender, Refused
  <2>2. CASE ~Refused(r, From(r))
    <3>1. RowLockTypeOK' /\ ReadTypeOK'
      BY <1>1, <2>2, RowTypes DEF LockSender, LockRow, RowLockTypeOK, ReadTypeOK
    <3>. QED
      BY <1>0, <1>1, <2>2, <3>1 DEF LockSender
  <2>. QED
    BY <2>1, <2>2
<1>2. CASE LockRecipient(r)
  <2>1. CASE Refused(r, To(r))
    BY <1>0, <1>2, <2>1 DEF LockRecipient, Refused
  <2>2. CASE ~Refused(r, To(r))
    <3>1. RowLockTypeOK' /\ ReadTypeOK'
      BY <1>2, <2>2, RowTypes DEF LockRecipient, LockRow, RowLockTypeOK, ReadTypeOK
    <3>. QED
      BY <1>0, <1>2, <2>2, <3>1 DEF LockRecipient
  <2>. QED
    BY <2>1, <2>2
<1>3. CASE UpdateBalances(r)
  <2>1. ReadTypeOK' /\ RowLockTypeOK'
    <3>1. /\ \/ UNCHANGED <<rowLock, readVars>>
             \/ EndTransaction(r)
          /\ \/ UNCHANGED retries
             \/ retries[r] < 2 /\ retries' = [retries EXCEPT ![r] = @ + 1]
      BY <1>3 DEF UpdateBalances, readVars
    <3>2. retries' \in [Requests -> 0 .. 2]
      BY <3>1 DEF ReadTypeOK
    <3>3. NoRead \in Reads
      BY DEF NoRead, Reads
    <3>. QED
      BY <3>1, <3>2, <3>3 DEF EndTransaction, ReadTypeOK, RowLockTypeOK, readVars
  <2>2. ControlTypeOK'
    BY <1>0, <1>3 DEF UpdateBalances, Refusals
  <2>. QED
    BY <1>3, <2>1, <2>2 DEF UpdateBalances
<1>4. CASE InsertRows(r)
  <2>1. ReadTypeOK' /\ RowLockTypeOK'
    BY <1>4 DEF InsertRows, ReadTypeOK, RowLockTypeOK
  <2>. QED
    BY <1>0, <1>4, <2>1 DEF InsertRows
<1>5. CASE Commit(r)
  <2>1. /\ fromAccount[r] \in Reads
        /\ toAccount[r] \in Reads
        /\ Amount(r) \in Nat
        /\ fromAccount[r].balance >= Amount(r)
    BY <1>5, LimitsArePositive
       DEF Commit, OrdersChecked, Valid, Amount, ReadTypeOK, Working, InTransaction
  <2>2. Debit(r) \in Entries /\ Credit(r) \in Entries
    BY <2>1 DEF Debit, Credit, Entry, Entries, Reads
  <2>3. DatabaseTypeOK'
    <3>1. ledger' \in Seq(Entries)
      BY <1>5, <2>2 DEF Commit, DatabaseTypeOK
    <3>2. /\ fromAccount[r].balance - Amount(r) \in Nat
          /\ toAccount[r].balance + Amount(r) \in Nat
          /\ fromAccount[r].version + 1 \in Nat
          /\ toAccount[r].version + 1 \in Nat
      BY <2>1 DEF Reads
    <3>. QED
      BY <1>5, <3>1, <3>2 DEF Commit, DatabaseTypeOK
  <2>. QED
    BY <1>0, <1>5, <2>3 DEF Commit
<1>6. CASE DatabaseError(r)
  BY <1>0, <1>6 DEF DatabaseError
<1>7. CASE Crash(r)
  <2>1. ControlTypeOK' /\ ReadTypeOK'
    BY <1>0, <1>7 DEF Crash, ControlTypeOK, ReadTypeOK, NoRead, Reads
  <2>. QED
    BY <1>7, <2>1 DEF Crash
<1>8. CASE AbortOrphan(r)
  BY <1>0, <1>8 DEF AbortOrphan
<1>. QED
  BY <1>1, <1>2, <1>3, <1>4, <1>5, <1>6, <1>7, <1>8 DEF InsideStep

LEMMA TypeStep ==
  ASSUME TypeOK, OrdersChecked, [Next]_vars PROVE TypeOK'
<1>1. ASSUME NEW a \in Accounts, ExpireLock(a) PROVE TypeOK'
  BY <1>1, FrameTypes, LockKeyTypes DEF ExpireLock, TypeOK
<1>2. ASSUME NEW k \in Keys, ExpireResponse(k) PROVE TypeOK'
  <2>1. RedisTypeOK'
    BY <1>2 DEF ExpireResponse, TypeOK, RedisTypeOK
  <2>. QED
    BY <1>2, <2>1, FrameTypes DEF ExpireResponse, TypeOK
<1>3. CASE UNCHANGED vars
  BY <1>3, FrameTypes DEF vars, TypeOK, dbVars, redisVars, kafkaVars, readVars
<1>. QED
  BY <1>1, <1>2, <1>3, StepCases, TypeStepOutside, TypeStepInside

-----------------------------------------------------------------------------
(* The database transaction                                                *)

TransactionInv ==
    /\ RowsLocked
    /\ ReadsStayCurrent
    /\ OrdersChecked
    /\ KeyIsFree
    /\ OneTransferPerKey

\* A step outside touches nothing the transaction relies on; the only requests
\* that start work are those whose order was found valid.
LEMMA OutsideFrame ==
  ASSUME TypeOK, OrdersChecked, NEW r \in Requests, OutsideStep(r)
  PROVE  /\ UNCHANGED <<order, dbVars, rowLock, readVars>>
         /\ \A s \in Requests :
              /\ pc'[s] \in InTransaction => pc'[s] = pc[s]
              /\ pc[s] \in InTransaction => pc'[s] = pc[s]
              /\ pc'[s] \in Working => Valid(order[s])
<1>. USE DEF TypeOK, ControlTypeOK, OrdersChecked, Working, InTransaction, Goto, Finish, Throw
<1>1. CASE CheckIdempotency(r)
  BY <1>1 DEF CheckIdempotency
<1>2. CASE AcquireFirst(r)
  BY <1>2 DEF AcquireFirst
<1>3. CASE AcquireSecond(r)
  BY <1>3 DEF AcquireSecond
<1>4. CASE ReleaseAfterDenial(r)
  BY <1>4 DEF ReleaseAfterDenial, ReleaseResent
<1>5. CASE FraudCheck(r)
  BY <1>5 DEF FraudCheck
<1>6. CASE PublishFraudBlocked(r)
  BY <1>6 DEF PublishFraudBlocked
<1>7. CASE CacheResponse(r)
  BY <1>7 DEF CacheResponse
<1>8. CASE InvalidateAndPublish(r)
  BY <1>8 DEF InvalidateAndPublish
<1>9. CASE PublishFailed(r)
  BY <1>9 DEF PublishFailed
<1>10. CASE ReleaseFirst(r)
  BY <1>10 DEF ReleaseFirst, ReleaseResent
<1>11. CASE ReleaseSecond(r)
  BY <1>11 DEF ReleaseSecond, ReleaseResent
<1>12. CASE DeliverCompleted(r)
  BY <1>12 DEF DeliverCompleted
<1>. QED
  BY <1>1, <1>2, <1>3, <1>4, <1>5, <1>6, <1>7, <1>8, <1>9, <1>10, <1>11, <1>12
     DEF OutsideStep

LEMMA TransactionInvOutside ==
  ASSUME TypeOK, TransactionInv, NEW r \in Requests, OutsideStep(r)
  PROVE  TransactionInv'
<1>1. /\ UNCHANGED <<order, dbVars, rowLock, readVars>>
      /\ \A s \in Requests :
              /\ pc'[s] \in InTransaction => pc'[s] = pc[s]
              /\ pc[s] \in InTransaction => pc'[s] = pc[s]
              /\ pc'[s] \in Working => Valid(order[s])
  BY OutsideFrame DEF TransactionInv
<1>. USE <1>1 DEF TransactionInv, Key, From, To, Amount, dbVars, readVars
<1>2. RowsLocked'
  BY DEF RowsLocked
<1>3. ReadsStayCurrent'
  BY DEF ReadsStayCurrent
<1>4. OrdersChecked'
  BY DEF OrdersChecked, InTransaction
<1>5. KeyIsFree'
  BY DEF KeyIsFree, InTransaction
<1>6. OneTransferPerKey'
  BY DEF OneTransferPerKey
<1>. QED
  BY <1>2, <1>3, <1>4, <1>5, <1>6

\* The end of one transaction without a commit disturbs no other: the row locks
\* it frees are its own.
LEMMA Rollback ==
  ASSUME TypeOK, TransactionInv, NEW r \in Requests,
         EndTransaction(r), UNCHANGED <<order, dbVars>>,
         NEW l \in Locations \ InTransaction, pc' = [pc EXCEPT ![r] = l],
         l \in Working => Valid(order[r])
  PROVE  TransactionInv'
<1>. USE DEF TransactionInv, TypeOK, ControlTypeOK, RowLockTypeOK, ReadTypeOK,
             Key, From, To, Amount, dbVars
<1>1. \A s \in Requests : pc'[s] \in InTransaction =>
        /\ s # r
        /\ pc'[s] = pc[s]
        /\ fromAccount'[s] = fromAccount[s]
        /\ toAccount'[s] = toAccount[s]
        /\ \A a \in Accounts : rowLock[a] = s => rowLock'[a] = s
  BY DEF EndTransaction
<1>2. RowsLocked'
  BY <1>1, OrderTypes DEF RowsLocked
<1>3. ReadsStayCurrent'
  BY <1>1 DEF ReadsStayCurrent
<1>4. OrdersChecked'
  BY <1>1 DEF OrdersChecked, InTransaction
<1>5. KeyIsFree'
  BY <1>1 DEF KeyIsFree, InTransaction
<1>6. OneTransferPerKey'
  BY DEF OneTransferPerKey
<1>. QED
  BY <1>2, <1>3, <1>4, <1>5, <1>6

\* Locking a row makes what was read of it, and only of it, current.
LEMMA LockSenderInv ==
  ASSUME TypeOK, TransactionInv, NEW r \in Requests, LockSender(r)
  PROVE  TransactionInv'
<1>. USE DEF TransactionInv, TypeOK, ControlTypeOK, RowLockTypeOK, ReadTypeOK
<1>1. CASE Refused(r, From(r))
  BY <1>1, Rollback
     DEF LockSender, Refused, Throw, OrdersChecked, Locations, Working, InTransaction
<1>2. CASE ~Refused(r, From(r))
  <2>. USE DEF Key, From, To, Amount, dbVars
  <2>1. /\ UNCHANGED <<order, dbVars, toAccount>>
        /\ pc[r] = "lockFrom"
        /\ pc' = [pc EXCEPT ![r] = "lockTo"]
        /\ rowLock[From(r)] = None
        /\ rowLock' = [rowLock EXCEPT ![From(r)] = r]
        /\ fromAccount' = [fromAccount EXCEPT ![r] = Row(From(r))]
        /\ Status[From(r)] = "active"
    BY <1>2 DEF LockSender, LockRow, Goto
  <2>2. RowsLocked'
    BY <2>1, OrderTypes, NoneIsNoRequest DEF RowsLocked, InTransaction
  <2>3. ReadsStayCurrent'
    BY <2>1 DEF ReadsStayCurrent, InTransaction, Row
  <2>4. OrdersChecked'
    BY <2>1 DEF OrdersChecked, Working, InTransaction
  <2>5. KeyIsFree'
    BY <2>1 DEF KeyIsFree
  <2>6. OneTransferPerKey'
    BY <2>1 DEF OneTransferPerKey
  <2>. QED
    BY <2>2, <2>3, <2>4, <2>5, <2>6
<1>. QED
  BY <1>1, <1>2

LEMMA LockRecipientInv ==
  ASSUME TypeOK, TransactionInv, NEW r \in Requests, LockRecipient(r)
  PROVE  TransactionInv'
<1>. USE DEF TransactionInv, TypeOK, ControlTypeOK, RowLockTypeOK, ReadTypeOK
<1>1. CASE Refused(r, To(r))
  BY <1>1, Rollback
     DEF LockRecipient, Refused, Throw, OrdersChecked, Locations, Working, InTransaction
<1>2. CASE ~Refused(r, To(r))
  <2>. USE DEF Key, From, To, Amount, dbVars
  <2>1. /\ UNCHANGED <<order, dbVars, fromAccount>>
        /\ pc[r] = "lockTo"
        /\ pc' = [pc EXCEPT ![r] = "write"]
        /\ rowLock[To(r)] = None
        /\ rowLock' = [rowLock EXCEPT ![To(r)] = r]
        /\ toAccount' = [toAccount EXCEPT ![r] = Row(To(r))]
        /\ Status[To(r)] = "active"
    BY <1>2 DEF LockRecipient, LockRow, Goto
  <2>2. RowsLocked'
    BY <2>1, OrderTypes, NoneIsNoRequest DEF RowsLocked, InTransaction
  <2>3. ReadsStayCurrent'
    BY <2>1 DEF ReadsStayCurrent, InTransaction, Row
  <2>4. OrdersChecked'
    BY <2>1 DEF OrdersChecked, Working, InTransaction
  <2>5. KeyIsFree'
    BY <2>1 DEF KeyIsFree
  <2>6. OneTransferPerKey'
    BY <2>1 DEF OneTransferPerKey
  <2>. QED
    BY <2>2, <2>3, <2>4, <2>5, <2>6
<1>. QED
  BY <1>1, <1>2

\* The version check passes: the row is locked, so nobody has written it since.
LEMMA UpdateBalancesInv ==
  ASSUME TypeOK, TransactionInv, NEW r \in Requests, UpdateBalances(r)
  PROVE  /\ TransactionInv'
         /\ version[From(r)] = fromAccount[r].version
<1>. USE DEF TransactionInv, TypeOK, ControlTypeOK, RowLockTypeOK, ReadTypeOK
<1>1. version[From(r)] = fromAccount[r].version
  BY DEF UpdateBalances, ReadsStayCurrent, InTransaction
<1>2. CASE fromAccount[r].balance < Amount(r)
  <2>1. /\ EndTransaction(r)
        /\ UNCHANGED <<order, dbVars>>
        /\ pc' = [pc EXCEPT ![r] = "failed"]
        /\ Valid(order[r])
    BY <1>2 DEF UpdateBalances, Throw, OrdersChecked, Working, InTransaction
  <2>. QED
    BY <1>1, <2>1, Rollback DEF Locations, Working, InTransaction
<1>3. CASE ~(fromAccount[r].balance < Amount(r))
  <2>. USE DEF Key, From, To, Amount, dbVars, readVars
  <2>1. /\ UNCHANGED <<order, dbVars, rowLock, readVars>>
        /\ pc[r] = "write"
        /\ pc' = [pc EXCEPT ![r] = "insert"]
        /\ fromAccount[r].balance >= Amount(r)
    <3>1. fromAccount[r].balance \in Int /\ Amount(r) \in Int
      BY OrderTypes DEF Reads
    <3>. QED
      BY <1>1, <1>3, <3>1 DEF UpdateBalances, Goto
  <2>2. RowsLocked'
    BY <2>1 DEF RowsLocked, InTransaction
  <2>3. ReadsStayCurrent'
    BY <2>1 DEF ReadsStayCurrent, InTransaction
  <2>4. OrdersChecked'
    BY <2>1 DEF OrdersChecked, Working, InTransaction
  <2>5. KeyIsFree'
    BY <2>1 DEF KeyIsFree
  <2>6. OneTransferPerKey'
    BY <2>1 DEF OneTransferPerKey
  <2>. QED
    BY <1>1, <2>2, <2>3, <2>4, <2>5, <2>6
<1>. QED
  BY <1>2, <1>3

LEMMA InsertRowsInv ==
  ASSUME TypeOK, TransactionInv, NEW r \in Requests, InsertRows(r)
  PROVE  TransactionInv'
<1>. USE DEF TransactionInv, TypeOK, ControlTypeOK, RowLockTypeOK, ReadTypeOK
<1>1. CASE \E s \in rows : Key(s) = Key(r)
  BY <1>1, Rollback
     DEF InsertRows, Throw, OrdersChecked, Locations, Working, InTransaction
<1>2. CASE ~\E s \in rows : Key(s) = Key(r)
  <2>. USE DEF Key, From, To, Amount, dbVars
  <2>1. /\ UNCHANGED <<order, dbVars, rowLock, fromAccount, toAccount>>
        /\ pc[r] = "insert"
        /\ pc' = [pc EXCEPT ![r] = "commit"]
        /\ \A s \in Requests : pc[s] = "commit" => Key(s) # Key(r)
    BY <1>2 DEF InsertRows, Goto
  <2>2. RowsLocked'
    BY <2>1 DEF RowsLocked, InTransaction
  <2>3. ReadsStayCurrent'
    BY <2>1 DEF ReadsStayCurrent, InTransaction
  <2>4. OrdersChecked'
    BY <2>1 DEF OrdersChecked, Working, InTransaction
  <2>5. KeyIsFree'
    BY <1>2, <2>1 DEF KeyIsFree
  <2>6. OneTransferPerKey'
    BY <2>1 DEF OneTransferPerKey
  <2>. QED
    BY <2>2, <2>3, <2>4, <2>5, <2>6
<1>. QED
  BY <1>1, <1>2

\* A commit changes only rows no other transaction has locked.
LEMMA CommitInv ==
  ASSUME TypeOK, TransactionInv, NEW r \in Requests, Commit(r)
  PROVE  TransactionInv'
<1>. USE DEF TransactionInv, TypeOK, ControlTypeOK, RowLockTypeOK, ReadTypeOK
<1>1. /\ UNCHANGED order
      /\ pc[r] = "commit"
      /\ \E l \in {"cache", "failed"} : pc' = [pc EXCEPT ![r] = l]
      /\ rows' = rows \cup {r}
      /\ EndTransaction(r)
      /\ \A a \in Accounts \ {From(r), To(r)} :
            balance'[a] = balance[a] /\ version'[a] = version[a]
      /\ rowLock[From(r)] = r /\ rowLock[To(r)] = r
  BY OrderTypes
     DEF Commit, Goto, Throw, DatabaseTypeOK, RowsLocked, InTransaction
<1>. USE DEF Key, From, To, Amount
<1>2. \A s \in Requests : pc'[s] \in InTransaction =>
        /\ s # r
        /\ pc'[s] = pc[s]
        /\ fromAccount'[s] = fromAccount[s]
        /\ toAccount'[s] = toAccount[s]
        /\ \A a \in Accounts : rowLock[a] = s =>
              /\ rowLock'[a] = s
              /\ balance'[a] = balance[a]
              /\ version'[a] = version[a]
  BY <1>1, OrderTypes DEF EndTransaction, InTransaction
<1>3. RowsLocked'
  BY <1>1, <1>2, OrderTypes DEF RowsLocked
<1>4. ReadsStayCurrent'
  BY <1>1, <1>2, OrderTypes DEF ReadsStayCurrent, RowsLocked
<1>5. OrdersChecked'
  BY <1>1, <1>2 DEF OrdersChecked, Working, InTransaction
<1>6. KeyIsFree'
  BY <1>1, <1>2 DEF KeyIsFree, InTransaction
<1>7. OneTransferPerKey'
  BY <1>1 DEF OneTransferPerKey, KeyIsFree, DatabaseTypeOK
<1>. QED
  BY <1>3, <1>4, <1>5, <1>6, <1>7

\* A crash leaves the row locks where they are and the transaction open.
LEMMA CrashInv ==
  ASSUME TypeOK, TransactionInv, NEW r \in Requests, Crash(r)
  PROVE  TransactionInv'
<1>. USE DEF TransactionInv, TypeOK, ControlTypeOK, RowLockTypeOK, ReadTypeOK,
             Key, From, To, Amount, dbVars
<1>1. /\ UNCHANGED <<order, dbVars, rowLock>>
      /\ \A s \in Requests : pc'[s] \in Working =>
            /\ pc'[s] = pc[s]
            /\ fromAccount'[s] = fromAccount[s]
            /\ toAccount'[s] = toAccount[s]
  BY DEF Crash, Working, InTransaction
<1>2. RowsLocked'
  BY <1>1 DEF RowsLocked, Working
<1>3. ReadsStayCurrent'
  BY <1>1 DEF ReadsStayCurrent, Working
<1>4. OrdersChecked'
  BY <1>1 DEF OrdersChecked, Working, InTransaction
<1>5. KeyIsFree'
  BY <1>1 DEF KeyIsFree, Working, InTransaction
<1>6. OneTransferPerKey'
  BY <1>1 DEF OneTransferPerKey
<1>. QED
  BY <1>2, <1>3, <1>4, <1>5, <1>6

LEMMA TransactionStep ==
  ASSUME TypeOK, TransactionInv, [Next]_vars PROVE TransactionInv'
<1>1. ASSUME NEW r \in Requests, InsideStep(r) PROVE TransactionInv'
  <2>1. CASE DatabaseError(r)
    <3>1. /\ EndTransaction(r)
          /\ UNCHANGED <<order, dbVars>>
          /\ pc' = [pc EXCEPT ![r] = "failed"]
          /\ Valid(order[r])
      BY <2>1 DEF DatabaseError, Throw, TransactionInv, OrdersChecked, Working,
                  InTransaction
    <3>. QED
      BY <3>1, Rollback DEF Locations, Working, InTransaction
  <2>2. CASE AbortOrphan(r)
    BY <2>2, Rollback DEF AbortOrphan, Goto, Locations, Working, InTransaction
  <2>. QED
    BY <1>1, <2>1, <2>2, LockSenderInv, LockRecipientInv, UpdateBalancesInv,
       InsertRowsInv, CommitInv, CrashInv DEF InsideStep
<1>2. ASSUME Expiry PROVE TransactionInv'
  BY <1>2 DEF Expiry, TransactionInv, RowsLocked, ReadsStayCurrent, OrdersChecked,
              KeyIsFree, OneTransferPerKey, Key, From, To, Amount, dbVars, readVars
<1>3. ASSUME NEW a \in Accounts, ExpireLock(a) PROVE Expiry
  BY <1>3 DEF ExpireLock, Expiry
<1>4. ASSUME NEW k \in Keys, ExpireResponse(k) PROVE Expiry
  BY <1>4 DEF ExpireResponse, Expiry
<1>5. UNCHANGED vars => Expiry
  BY DEF vars, Expiry
<1>. QED
  BY <1>1, <1>2, <1>3, <1>4, <1>5, StepCases, TransactionInvOutside

-----------------------------------------------------------------------------
(* What is said, in answers, cache entries and events, is true             *)

LEMMA OutcomesStep ==
  ASSUME TypeOK, OutcomesAreTrue, CacheIsTrue, NEW r \in Requests,
         OutsideStep(r) \/ InsideStep(r)
  PROVE  OutcomesAreTrue'
<1>. USE DEF TypeOK, ControlTypeOK, RedisTypeOK, OutcomesAreTrue, BeforeCommit,
             AfterCommit, InTransaction, Confirmations, Refusals, Key, dbVars, redisVars
<1>1. CASE CheckIdempotency(r)
  BY <1>1, OrderTypes DEF CheckIdempotency, Goto, Finish, CacheIsTrue
<1>2. CASE AcquireFirst(r)
  BY <1>2 DEF AcquireFirst, Goto, Finish
<1>3. CASE AcquireSecond(r)
  BY <1>3 DEF AcquireSecond, Goto, Finish
<1>4. CASE ReleaseAfterDenial(r)
  BY <1>4 DEF ReleaseAfterDenial, Finish, ReleaseResent
<1>5. CASE FraudCheck(r)
  BY <1>5 DEF FraudCheck, Goto, Throw
<1>6. CASE PublishFraudBlocked(r)
  BY <1>6 DEF PublishFraudBlocked, Throw
<1>7. CASE CacheResponse(r)
  BY <1>7 DEF CacheResponse, Goto, Throw
<1>8. CASE InvalidateAndPublish(r)
  BY <1>8 DEF InvalidateAndPublish, Throw
<1>9. CASE PublishFailed(r)
  BY <1>9 DEF PublishFailed, Goto
<1>10. CASE ReleaseFirst(r)
  BY <1>10 DEF ReleaseFirst, Goto, Finish, ReleaseResent
<1>11. CASE ReleaseSecond(r)
  BY <1>11 DEF ReleaseSecond, Finish, ReleaseResent
<1>12. CASE DeliverCompleted(r)
  BY <1>12 DEF DeliverCompleted
<1>13. CASE LockSender(r)
  BY <1>13 DEF LockSender, Refused, StatusError, Goto, Throw
<1>14. CASE LockRecipient(r)
  BY <1>14 DEF LockRecipient, Refused, StatusError, Goto, Throw
<1>15. CASE UpdateBalances(r)
  BY <1>15 DEF UpdateBalances, Goto, Throw
<1>16. CASE InsertRows(r)
  BY <1>16 DEF InsertRows, Goto, Throw
<1>17. CASE Commit(r)
  BY <1>17 DEF Commit, Goto, Throw
<1>18. CASE DatabaseError(r)
  BY <1>18 DEF DatabaseError, Throw
<1>19. CASE Crash(r)
  BY <1>19 DEF Crash
<1>20. CASE AbortOrphan(r)
  BY <1>20 DEF AbortOrphan, Goto
<1>. QED
  BY <1>1, <1>2, <1>3, <1>4, <1>5, <1>6, <1>7, <1>8, <1>9, <1>10, <1>11, <1>12,
     <1>13, <1>14, <1>15, <1>16, <1>17, <1>18, <1>19, <1>20
     DEF OutsideStep, InsideStep

LEMMA CacheStep ==
  ASSUME TypeOK, OutcomesAreTrue, CacheIsTrue, NEW r \in Requests,
         OutsideStep(r) \/ InsideStep(r)
  PROVE  CacheIsTrue'
<1>. USE DEF TypeOK, RedisTypeOK, CacheIsTrue, Key, dbVars, redisVars
<1>1. CASE CheckIdempotency(r)
  BY <1>1 DEF CheckIdempotency, Goto, Finish
<1>2. CASE AcquireFirst(r)
  BY <1>2 DEF AcquireFirst, Goto, Finish
<1>3. CASE AcquireSecond(r)
  BY <1>3 DEF AcquireSecond, Goto, Finish
<1>4. CASE ReleaseAfterDenial(r)
  BY <1>4 DEF ReleaseAfterDenial, Finish, ReleaseResent
<1>5. CASE FraudCheck(r)
  BY <1>5 DEF FraudCheck, Goto, Throw
<1>6. CASE PublishFraudBlocked(r)
  BY <1>6 DEF PublishFraudBlocked, Throw
<1>7. CASE CacheResponse(r)
  BY <1>7, OrderTypes DEF CacheResponse, Goto, Throw, OutcomesAreTrue, AfterCommit
<1>8. CASE InvalidateAndPublish(r)
  BY <1>8 DEF InvalidateAndPublish, Throw
<1>9. CASE PublishFailed(r)
  BY <1>9 DEF PublishFailed, Goto
<1>10. CASE ReleaseFirst(r)
  BY <1>10 DEF ReleaseFirst, Goto, Finish, ReleaseResent
<1>11. CASE ReleaseSecond(r)
  BY <1>11 DEF ReleaseSecond, Finish, ReleaseResent
<1>12. CASE DeliverCompleted(r)
  BY <1>12 DEF DeliverCompleted
<1>13. CASE LockSender(r)
  BY <1>13 DEF LockSender, Refused, StatusError, Goto, Throw
<1>14. CASE LockRecipient(r)
  BY <1>14 DEF LockRecipient, Refused, StatusError, Goto, Throw
<1>15. CASE UpdateBalances(r)
  BY <1>15 DEF UpdateBalances, Goto, Throw
<1>16. CASE InsertRows(r)
  BY <1>16 DEF InsertRows, Goto, Throw
<1>17. CASE Commit(r)
  BY <1>17 DEF Commit, Goto, Throw
<1>18. CASE DatabaseError(r)
  BY <1>18 DEF DatabaseError, Throw
<1>19. CASE Crash(r)
  BY <1>19 DEF Crash
<1>20. CASE AbortOrphan(r)
  BY <1>20 DEF AbortOrphan, Goto
<1>. QED
  BY <1>1, <1>2, <1>3, <1>4, <1>5, <1>6, <1>7, <1>8, <1>9, <1>10, <1>11, <1>12,
     <1>13, <1>14, <1>15, <1>16, <1>17, <1>18, <1>19, <1>20
     DEF OutsideStep, InsideStep

LEMMA EventsStep ==
  ASSUME TypeOK, OutcomesAreTrue, EventsAreFinal, EventsAreTrue, NEW r \in Requests,
         OutsideStep(r) \/ InsideStep(r)
  PROVE  EventsAreFinal' /\ EventsAreTrue'
<1>. USE DEF TypeOK, ControlTypeOK, KafkaTypeOK, EventsAreFinal, EventsAreTrue,
             OutcomesAreTrue, BeforeCommit, AfterCommit, InTransaction,
             dbVars, kafkaVars
<1>1. CASE CheckIdempotency(r)
  BY <1>1 DEF CheckIdempotency, Goto, Finish
<1>2. CASE AcquireFirst(r)
  BY <1>2 DEF AcquireFirst, Goto, Finish
<1>3. CASE AcquireSecond(r)
  BY <1>3 DEF AcquireSecond, Goto, Finish
<1>4. CASE ReleaseAfterDenial(r)
  BY <1>4 DEF ReleaseAfterDenial, Finish, ReleaseResent
<1>5. CASE FraudCheck(r)
  BY <1>5 DEF FraudCheck, Goto, Throw
<1>6. CASE PublishFraudBlocked(r)
  BY <1>6 DEF PublishFraudBlocked, Throw, MayStore, Event
<1>7. CASE CacheResponse(r)
  BY <1>7 DEF CacheResponse, Goto, Throw
<1>8. CASE InvalidateAndPublish(r)
  BY <1>8 DEF InvalidateAndPublish, Throw
<1>9. CASE PublishFailed(r)
  BY <1>9 DEF PublishFailed, Goto, Event
<1>10. CASE ReleaseFirst(r)
  BY <1>10 DEF ReleaseFirst, Goto, Finish, ReleaseResent
<1>11. CASE ReleaseSecond(r)
  BY <1>11 DEF ReleaseSecond, Finish, ReleaseResent
<1>12. CASE DeliverCompleted(r)
  BY <1>12 DEF DeliverCompleted, Event
<1>13. CASE LockSender(r)
  BY <1>13 DEF LockSender, Refused, StatusError, Goto, Throw
<1>14. CASE LockRecipient(r)
  BY <1>14 DEF LockRecipient, Refused, StatusError, Goto, Throw
<1>15. CASE UpdateBalances(r)
  BY <1>15 DEF UpdateBalances, Goto, Throw
<1>16. CASE InsertRows(r)
  BY <1>16 DEF InsertRows, Goto, Throw
<1>17. CASE Commit(r)
  BY <1>17 DEF Commit, Goto, Throw
<1>18. CASE DatabaseError(r)
  BY <1>18 DEF DatabaseError, Throw
<1>19. CASE Crash(r)
  BY <1>19 DEF Crash
<1>20. CASE AbortOrphan(r)
  BY <1>20 DEF AbortOrphan, Goto
<1>. QED
  BY <1>1, <1>2, <1>3, <1>4, <1>5, <1>6, <1>7, <1>8, <1>9, <1>10, <1>11, <1>12,
     <1>13, <1>14, <1>15, <1>16, <1>17, <1>18, <1>19, <1>20
     DEF OutsideStep, InsideStep

-----------------------------------------------------------------------------
(* The inductive invariant                                                 *)

LEMMA InitInv == Init => TransferInv
<1>. SUFFICES ASSUME Init PROVE TransferInv
  OBVIOUS
<1>1. TypeOK
  BY OpeningIsBalance
     DEF Init, TypeOK, DatabaseTypeOK, RowLockTypeOK, RedisTypeOK, KafkaTypeOK,
         ControlTypeOK, ReadTypeOK, Locations, Outcomes, NoRead, Reads, Entries
<1>. QED
  BY <1>1 DEF Init, TransferInv, RowsLocked, ReadsStayCurrent, OrdersChecked,
     KeyIsFree, OneTransferPerKey, OutcomesAreTrue, CacheIsTrue, EventsAreFinal,
     EventsAreTrue, InTransaction, Working, AfterCommit, Refusals, Confirmations

LEMMA NextInv == TransferInv /\ [Next]_vars => TransferInv'
<1>. SUFFICES ASSUME TransferInv, [Next]_vars PROVE TransferInv'
  OBVIOUS
<1>1. TypeOK' /\ TransactionInv'
  BY TypeStep, TransactionStep DEF TransferInv, TransactionInv
<1>2. /\ OutcomesAreTrue' /\ CacheIsTrue'
      /\ EventsAreFinal' /\ EventsAreTrue'
  <2>. USE DEF TransferInv
  <2>1. CASE \E r \in Requests : OutsideStep(r) \/ InsideStep(r)
    BY <2>1, OutcomesStep, CacheStep, EventsStep
  <2>2. CASE \E k \in Keys : ExpireResponse(k)
    BY <2>2 DEF ExpireResponse, OutcomesAreTrue, CacheIsTrue, EventsAreFinal,
       EventsAreTrue, TypeOK, RedisTypeOK, Key, dbVars, kafkaVars
  <2>3. CASE UNCHANGED <<order, dbVars, idem, kafkaVars, pc, outcome>>
    BY <2>3 DEF OutcomesAreTrue, CacheIsTrue, EventsAreFinal, EventsAreTrue,
       Key, dbVars, kafkaVars
  <2>4. ASSUME NEW a \in Accounts, ExpireLock(a)
        PROVE  UNCHANGED <<order, dbVars, idem, kafkaVars, pc, outcome>>
    BY <2>4 DEF ExpireLock
  <2>5. UNCHANGED vars => UNCHANGED <<order, dbVars, idem, kafkaVars, pc, outcome>>
    BY DEF vars, redisVars
  <2>. QED
    BY <2>1, <2>2, <2>3, <2>4, <2>5, StepCases
<1>. QED
  BY <1>1, <1>2 DEF TransferInv, TransactionInv

\* The invariant that all the safety theorems below are read off from: what is
\* known of a request, its locks, its reads and its answer at every await.
THEOREM InvariantHolds == Spec => []TransferInv
BY InitInv, NextInv, PTL DEF Spec

\* Every variable keeps its type; above all, no balance is ever negative.
THEOREM TypeCorrect == Spec => []TypeOK
<1>1. TransferInv => TypeOK
  BY DEF TransferInv
<1>. QED
  BY <1>1, InvariantHolds, PTL

\* An idempotency key moves money at most once, under every fault: Redis may
\* lose any entry at any time, the UNIQUE index does not.
THEOREM KeysMoveMoneyOnce == Spec => []OneTransferPerKey
<1>1. TransferInv => OneTransferPerKey
  BY DEF TransferInv
<1>. QED
  BY <1>1, InvariantHolds, PTL

\* The row locks alone, whatever becomes of the Redis locks, keep every value a
\* transaction computes with current until it commits.
THEOREM NoLostUpdate == Spec => []ReadsStayCurrent
<1>1. TransferInv => ReadsStayCurrent
  BY DEF TransferInv
<1>. QED
  BY <1>1, InvariantHolds, PTL

\* payment.completed is only ever said of committed transfers, and nothing that
\* was announced as blocked by the fraud check is paid.
THEOREM EventsTellTheTruth == Spec => []EventsAreTrue
<1>1. TransferInv => EventsAreTrue
  BY DEF TransferInv
<1>. QED
  BY <1>1, InvariantHolds, PTL

-----------------------------------------------------------------------------
(* The ledger                                                              *)

\* Appending two elements to a sequence.
LEMMA AppendTwo ==
  ASSUME NEW S, NEW q \in Seq(S), NEW d \in S, NEW c \in S,
         NEW t, t = Append(Append(q, d), c)
  PROVE  /\ t \in Seq(S)
         /\ Len(t) = Len(q) + 2
         /\ SubSeq(t, 1, Len(q)) = q
         /\ t[Len(q) + 1] = d
         /\ t[Len(q) + 2] = c
         /\ \A i \in 1 .. Len(q) : t[i] = q[i]
<1>1. /\ t \in Seq(S)
      /\ Len(t) = Len(q) + 2
      /\ t[Len(q) + 1] = d
      /\ t[Len(q) + 2] = c
      /\ \A i \in 1 .. Len(q) : t[i] = q[i]
  OBVIOUS
<1>2. SubSeq(t, 1, Len(q)) = q
  BY <1>1
<1>. QED
  BY <1>1, <1>2

\* Only Commit writes balances, transactions and the ledger.
LEMMA OnlyCommitWrites ==
  ASSUME [Next]_vars
  PROVE  (\E r \in Requests : Commit(r)) \/ UNCHANGED <<order, dbVars>>
<1>1. ASSUME NEW r \in Requests, OutsideStep(r) \/ InsideStep(r)
      PROVE  Commit(r) \/ UNCHANGED <<order, dbVars>>
  BY <1>1 DEF OutsideStep, InsideStep, CheckIdempotency, AcquireFirst, AcquireSecond,
     ReleaseAfterDenial, FraudCheck, PublishFraudBlocked, CacheResponse,
     InvalidateAndPublish, PublishFailed, ReleaseFirst, ReleaseSecond,
     DeliverCompleted, LockSender, LockRecipient, UpdateBalances, InsertRows,
     DatabaseError, Crash, AbortOrphan
<1>2. ASSUME NEW a \in Accounts, ExpireLock(a) PROVE UNCHANGED <<order, dbVars>>
  BY <1>2 DEF ExpireLock
<1>3. ASSUME NEW k \in Keys, ExpireResponse(k) PROVE UNCHANGED <<order, dbVars>>
  BY <1>3 DEF ExpireResponse
<1>4. UNCHANGED vars => UNCHANGED <<order, dbVars>>
  BY DEF vars
<1>. QED
  BY <1>1, <1>2, <1>3, <1>4, StepCases

\* What one commit does, in terms of the balances committed before it.
LEMMA CommitEffect ==
  ASSUME TransferInv, NEW r \in Requests, Commit(r)
  PROVE  /\ r \notin rows
         /\ rows' = rows \cup {r}
         /\ order' = order
         /\ From(r) # To(r)
         /\ Amount(r) > 0
         /\ balance[From(r)] >= Amount(r)
         /\ Status[From(r)] = "active" /\ Status[To(r)] = "active"
         /\ balance' = [balance EXCEPT ![From(r)] = balance[From(r)] - Amount(r),
                                       ![To(r)] = balance[To(r)] + Amount(r)]
         /\ ledger' = Append(Append(ledger, Debit(r)), Credit(r))
         /\ Debit(r) = [transaction |-> r, account |-> From(r), type |-> "debit",
                        amount |-> Amount(r), before |-> balance[From(r)],
                        after |-> balance[From(r)] - Amount(r)]
         /\ Credit(r) = [transaction |-> r, account |-> To(r), type |-> "credit",
                        amount |-> Amount(r), before |-> balance[To(r)],
                        after |-> balance[To(r)] + Amount(r)]
         /\ Debit(r) \in Entries /\ Credit(r) \in Entries
<1>. USE DEF TransferInv, TypeOK
<1>1. /\ pc[r] = "commit"
      /\ fromAccount[r].balance = balance[From(r)]
      /\ toAccount[r].balance = balance[To(r)]
      /\ balance[From(r)] >= Amount(r)
      /\ Status[From(r)] = "active" /\ Status[To(r)] = "active"
      /\ From(r) # To(r)
      /\ Amount(r) \in Nat \ {0}
      /\ r \notin rows
  <2>1. pc[r] = "commit"
    BY DEF Commit
  <2>2. /\ fromAccount[r] = [balance |-> balance[From(r)], version |-> version[From(r)]]
        /\ toAccount[r] = [balance |-> balance[To(r)], version |-> version[To(r)]]
    BY <2>1 DEF ReadsStayCurrent, InTransaction
  <2>3. /\ Valid(order[r])
        /\ Status[From(r)] = "active" /\ Status[To(r)] = "active"
        /\ fromAccount[r].balance >= Amount(r)
    BY <2>1 DEF OrdersChecked, Working, InTransaction
  <2>4. r \notin rows
    BY <2>1 DEF OutcomesAreTrue, BeforeCommit, InTransaction
  <2>5. From(r) # To(r) /\ Amount(r) \in Nat \ {0}
    BY <2>3, LimitsArePositive, OrderTypes DEF Valid, From, To, Amount
  <2>. QED
    BY <2>1, <2>2, <2>3, <2>4, <2>5
<1>2. balance[From(r)] \in Nat /\ balance[To(r)] \in Nat
  BY OrderTypes DEF DatabaseTypeOK
<1>3. Debit(r) \in Entries /\ Credit(r) \in Entries
  BY <1>1, <1>2, OrderTypes DEF Debit, Credit, Entry, Entries
<1>. QED
  BY <1>1, <1>2, <1>3 DEF Commit, Debit, Credit, Entry

\* A balance changes only together with the two ledger entries of one transfer,
\* which say what it was and what it becomes.
THEOREM DoubleEntry == Spec => MoneyMovesInPairs
<1>1. ASSUME TransferInv, NEW r \in Requests, Commit(r)
      PROVE  MovesPair(r)
  <2>1. ledger \in Seq(Entries) /\ Debit(r) \in Entries /\ Credit(r) \in Entries
    BY <1>1, CommitEffect DEF TransferInv, TypeOK, DatabaseTypeOK
  <2>2. /\ Len(ledger') = Len(ledger) + 2
        /\ SubSeq(ledger', 1, Len(ledger)) = ledger
        /\ ledger'[Len(ledger) + 1] = Debit(r)
        /\ ledger'[Len(ledger) + 2] = Credit(r)
    BY <1>1, <2>1, CommitEffect, AppendTwo
  <2>. QED
    BY <1>1, <2>2, CommitEffect DEF MovesPair
<1>2. ASSUME TransferInv, [Next]_vars
      PROVE  UNCHANGED <<balance, ledger, rows>> \/ \E r \in Requests : MovesPair(r)
  BY <1>1, <1>2, OnlyCommitWrites DEF dbVars
<1>. QED
  BY <1>2, InvariantHolds, PTL DEF Spec, MoneyMovesInPairs

\* The rows that are summed, and the amounts, are finite sets and numbers.
LEMMA MoneyTypes ==
  ASSUME TypeOK, IsFiniteSet(rows), NEW a \in Accounts
  PROVE  /\ \A r \in Requests : Amounts[r] = Amount(r) /\ Amounts[r] \in Int
         /\ IsFiniteSet({r \in rows : To(r) = a}) /\ PaidTo(a) \in Int
         /\ IsFiniteSet({r \in rows : From(r) = a}) /\ PaidFrom(a) \in Int
<1>1. \A r \in Requests : Amounts[r] = Amount(r) /\ Amounts[r] \in Int
  BY OrderTypes DEF Amounts, TypeOK
<1>2. \A S \in SUBSET rows : IsFiniteSet(S) /\ SumFunctionOnSet(Amounts, S) \in Int
  <2>1. \A r \in rows : Amounts[r] \in Int
    BY <1>1 DEF TypeOK, DatabaseTypeOK
  <2>. QED
    BY <2>1, FS_Subset, SumIsInt
<1>. QED
  BY <1>1, <1>2 DEF PaidTo, PaidFrom

\* One more row adds its amount to what its account was paid, or paid out, and to
\* nothing else.
LEMMA PaidWithOneMore ==
  ASSUME TypeOK, IsFiniteSet(rows), NEW r \in Requests, r \notin rows,
         rows' = rows \cup {r}, UNCHANGED order, NEW a \in Accounts
  PROVE  /\ PaidTo(a)' = PaidTo(a) + (IF To(r) = a THEN Amount(r) ELSE 0)
         /\ PaidFrom(a)' = PaidFrom(a) + (IF From(r) = a THEN Amount(r) ELSE 0)
<1>. DEFINE In == {s \in rows : To(s) = a}
            Out == {s \in rows : From(s) = a}
<1>1. /\ \A s \in Requests : Amounts[s] = Amount(s) /\ Amounts[s] \in Int
      /\ IsFiniteSet(In) /\ PaidTo(a) = SumFunctionOnSet(Amounts, In)
      /\ IsFiniteSet(Out) /\ PaidFrom(a) = SumFunctionOnSet(Amounts, Out)
      /\ PaidTo(a) \in Int /\ PaidFrom(a) \in Int
      /\ rows \subseteq Requests
  BY MoneyTypes DEF PaidTo, PaidFrom, TypeOK, DatabaseTypeOK
<1>2. Amounts' = Amounts
  BY DEF Amounts, Amount
<1>3. /\ PaidTo(a)' = SumFunctionOnSet(Amounts, IF To(r) = a THEN In \cup {r} ELSE In)
      /\ PaidFrom(a)' = SumFunctionOnSet(Amounts, IF From(r) = a THEN Out \cup {r} ELSE Out)
  <2>1. /\ {s \in rows' : To(s)' = a} = IF To(r) = a THEN In \cup {r} ELSE In
        /\ {s \in rows' : From(s)' = a} = IF From(r) = a THEN Out \cup {r} ELSE Out
    BY DEF To, From
  <2>. QED
    BY <1>2, <2>1 DEF PaidTo, PaidFrom
<1>4. /\ SumFunctionOnSet(Amounts, In \cup {r}) = SumFunctionOnSet(Amounts, In) + Amounts[r]
      /\ SumFunctionOnSet(Amounts, Out \cup {r}) = SumFunctionOnSet(Amounts, Out) + Amounts[r]
  <2>1. \A s \in In \cup Out \cup {r} : Amounts[s] \in Int
    BY <1>1
  <2>. QED
    BY <1>1, <2>1, SumWithOneMore
<1>. HIDE DEF In, Out
<1>. QED
  BY <1>1, <1>3, <1>4

\* Every balance is the opening one, plus what came in, minus what went out: for
\* any number of transfers, under every fault.  No update is lost, none counted
\* twice, though the code writes balances it computed from earlier reads.
MoneyInv == IsFiniteSet(rows) /\ MoneyIsAccountedFor

THEOREM MoneyIsExplained == Spec => []MoneyIsAccountedFor
<1>1. Init => MoneyInv
  <2>1. ASSUME Init, NEW a \in Accounts
        PROVE  balance[a] = Opening[a] + PaidTo(a) - PaidFrom(a)
    <3>1. {r \in rows : To(r) = a} = {} /\ {r \in rows : From(r) = a} = {}
      BY <2>1 DEF Init
    <3>2. PaidTo(a) = 0 /\ PaidFrom(a) = 0
      BY <3>1, SumOfNone DEF PaidTo, PaidFrom
    <3>3. balance[a] = Opening[a] /\ Opening[a] \in Nat
      BY <2>1, OpeningIsBalance DEF Init
    <3>. QED
      BY <3>2, <3>3
  <2>2. Init => IsFiniteSet(rows)
    BY FS_EmptySet DEF Init
  <2>. QED
    BY <2>1, <2>2 DEF MoneyInv, MoneyIsAccountedFor
<1>2. ASSUME TransferInv, MoneyInv, [Next]_vars
      PROVE  MoneyInv'
  <2>1. CASE UNCHANGED <<order, dbVars>>
    BY <1>2, <2>1
       DEF MoneyInv, MoneyIsAccountedFor, PaidTo, PaidFrom, Amounts, Amount, To, From, dbVars
  <2>2. ASSUME NEW r \in Requests, Commit(r)
        PROVE  MoneyInv'
    <3>1. /\ r \notin rows /\ rows' = rows \cup {r} /\ UNCHANGED order
          /\ From(r) # To(r)
          /\ balance' = [balance EXCEPT ![From(r)] = balance[From(r)] - Amount(r),
                                        ![To(r)] = balance[To(r)] + Amount(r)]
      BY <1>2, <2>2, CommitEffect
    <3>2. /\ TypeOK /\ IsFiniteSet(rows)
          /\ balance \in [Accounts -> Nat]
          /\ From(r) \in Accounts /\ To(r) \in Accounts /\ Amount(r) \in Int
      BY <1>2, OrderTypes DEF TransferInv, TypeOK, DatabaseTypeOK, MoneyInv
    <3>3. IsFiniteSet(rows')
      BY <3>1, <3>2, FS_AddElement
    <3>4. ASSUME NEW a \in Accounts
          PROVE  balance'[a] = Opening[a] + PaidTo(a)' - PaidFrom(a)'
      <4>1. balance[a] = Opening[a] + PaidTo(a) - PaidFrom(a)
        BY <1>2 DEF MoneyInv, MoneyIsAccountedFor
      <4>2. /\ PaidTo(a)' = PaidTo(a) + (IF To(r) = a THEN Amount(r) ELSE 0)
            /\ PaidFrom(a)' = PaidFrom(a) + (IF From(r) = a THEN Amount(r) ELSE 0)
        BY <3>1, <3>2, PaidWithOneMore
      <4>3. balance'[a] = IF a = From(r) THEN balance[a] - Amount(r)
                          ELSE IF a = To(r) THEN balance[a] + Amount(r)
                          ELSE balance[a]
        BY <3>1, <3>2
      <4>4. PaidTo(a) \in Int /\ PaidFrom(a) \in Int /\ Opening[a] \in Nat
        BY <3>2, MoneyTypes, OpeningIsBalance
      <4>. QED
        BY <3>1, <3>2, <4>1, <4>2, <4>3, <4>4
    <3>. QED
      BY <3>3, <3>4 DEF MoneyInv, MoneyIsAccountedFor
  <2>. QED
    BY <1>2, <2>1, <2>2, OnlyCommitWrites
<1>3. MoneyInv => MoneyIsAccountedFor
  BY DEF MoneyInv
<1>. QED
  BY <1>1, <1>2, <1>3, InvariantHolds, PTL DEF Spec

\* What the accounts hold together is what they held at the start: transfers make no
\* money and lose none, whatever fails between the two updates of a transfer.
Total == SumFunctionOnSet(balance, Accounts)
TotalIsKept == Total = SumFunctionOnSet(Opening, Accounts)

THEOREM MoneyIsConserved ==
  ASSUME IsFiniteSet(Accounts)
  PROVE  Spec => []TotalIsKept
<1>1. Init => TotalIsKept
  BY DEF Init, Total, TotalIsKept
<1>2. ASSUME TransferInv, [Next]_vars
      PROVE  Total' = Total
  <2>1. ASSUME NEW r \in Requests, Commit(r)
        PROVE  SumFunctionOnSet(balance', Accounts) = SumFunctionOnSet(balance, Accounts)
    <3>1. /\ From(r) \in Accounts /\ To(r) \in Accounts /\ Amount(r) \in Int
          /\ balance \in [Accounts -> Nat]
      BY <1>2, OrderTypes DEF TransferInv, TypeOK, DatabaseTypeOK
    <3>2. /\ From(r) # To(r)
          /\ balance' = [balance EXCEPT ![From(r)] = balance[From(r)] - Amount(r),
                                        ![To(r)] = balance[To(r)] + Amount(r)]
      BY <1>2, <2>1, CommitEffect
    <3>3. /\ balance'[From(r)] = balance[From(r)] - Amount(r)
          /\ balance'[To(r)] = balance[To(r)] + Amount(r)
          /\ \A a \in Accounts \ {From(r), To(r)} : balance'[a] = balance[a]
      BY <3>1, <3>2
    <3>4. \A a \in Accounts : balance[a] \in Int
      BY <3>1
    <3>5. ASSUME NEW x \in Accounts, NEW y \in Accounts, x # y, NEW n \in Int,
                 NEW b, b[x] = balance[x] - n, b[y] = balance[y] + n,
                 \A a \in Accounts \ {x, y} : b[a] = balance[a]
          PROVE  SumFunctionOnSet(b, Accounts) = SumFunctionOnSet(balance, Accounts)
      BY <3>4, <3>5, SumOfMoved
    <3>. QED
      BY <3>1, <3>2, <3>3, <3>5
  <2>2. UNCHANGED <<order, dbVars>> => Total' = Total
    BY DEF Total, dbVars
  <2>. QED
    BY <1>2, <2>1, <2>2, OnlyCommitWrites DEF Total
<1>3. TotalIsKept /\ Total' = Total => TotalIsKept'
  BY DEF TotalIsKept
<1>4. ASSUME TransferInv, TotalIsKept, [Next]_vars
      PROVE  TotalIsKept'
  BY <1>2, <1>3, <1>4
<1>. QED
  BY <1>1, <1>4, InvariantHolds, PTL DEF Spec

\* The ledger explains every balance, entry by entry, from the opening one.
THEOREM LedgerIsAnAuditTrail == Spec => []LedgerExplainsBalances
<1>1. Init => LedgerExplainsBalances
  BY DEF Init, LedgerExplainsBalances, Chained, EntriesOf
<1>2. ASSUME TransferInv, LedgerExplainsBalances, [Next]_vars
      PROVE  LedgerExplainsBalances'
  <2>1. CASE UNCHANGED <<order, dbVars>>
    BY <1>2, <2>1 DEF LedgerExplainsBalances, Chained, EntriesOf, dbVars
  <2>2. ASSUME NEW r \in Requests, Commit(r), NEW a \in Accounts
        PROVE  Chained(a)'
    <3>. DEFINE n == Len(ledger)
    <3>1. /\ ledger \in Seq(Entries)
          /\ balance \in [Accounts -> Nat]
          /\ ledger' \in Seq(Entries)
          /\ n \in Nat
          /\ Len(ledger') = n + 2
          /\ \A i \in 1 .. n : ledger'[i] = ledger[i]
          /\ ledger'[n + 1] = Debit(r)
          /\ ledger'[n + 2] = Credit(r)
      BY <1>2, <2>2, CommitEffect, AppendTwo DEF TransferInv, TypeOK, DatabaseTypeOK
    <3>2. From(r) \in Accounts /\ To(r) \in Accounts /\ From(r) # To(r)
      BY <1>2, <2>2, CommitEffect, OrderTypes DEF TransferInv, TypeOK
    <3>3. Chained(a)
      BY <1>2 DEF LedgerExplainsBalances
    <3>4. /\ EntriesOf(a) = {i \in 1 .. n : ledger[i].account = a}
          /\ EntriesOf(a)' = {i \in 1 .. n + 2 : ledger'[i].account = a}
      BY <3>1 DEF EntriesOf
    <3>9. /\ ledger'[n + 1].account = From(r) /\ ledger'[n + 2].account = To(r)
          /\ ledger'[n + 1].before = balance[From(r)]
          /\ ledger'[n + 2].before = balance[To(r)]
          /\ ledger'[n + 1].after = balance'[From(r)]
          /\ ledger'[n + 2].after = balance'[To(r)]
          /\ a \notin {From(r), To(r)} => balance'[a] = balance[a]
      <4>1. /\ balance' = [balance EXCEPT ![From(r)] = balance[From(r)] - Amount(r),
                                         ![To(r)] = balance[To(r)] + Amount(r)]
            /\ Debit(r).account = From(r) /\ Credit(r).account = To(r)
            /\ Debit(r).before = balance[From(r)] /\ Credit(r).before = balance[To(r)]
            /\ Debit(r).after = balance[From(r)] - Amount(r)
            /\ Credit(r).after = balance[To(r)] + Amount(r)
        BY <1>2, <2>2, CommitEffect
      <4>. QED
        BY <3>1, <3>2, <4>1
    <3>10. \A i \in EntriesOf(a) : i \in 1 .. n /\ ledger'[i] = ledger[i]
      BY <3>1, <3>4
    <3>5. CASE a \notin {From(r), To(r)}
      <4>1. EntriesOf(a)' = EntriesOf(a)
        BY <3>1, <3>4, <3>5, <3>9
      <4>. QED
        BY <3>3, <3>5, <3>9, <3>10, <4>1 DEF Chained
    <3>6. ASSUME NEW m \in {n + 1, n + 2},
                 EntriesOf(a)' = EntriesOf(a) \cup {m},
                 ledger'[m].before = balance[a],
                 ledger'[m].after = balance'[a]
          PROVE  Chained(a)'
      <4>1. \A i \in EntriesOf(a) : i < m /\ ledger'[i] = ledger[i] /\ i \in Nat
        BY <3>1, <3>10
      <4>2. EntriesOf(a) = {} => ledger'[m].before = Opening[a]
        BY <3>3, <3>6 DEF Chained
      <4>3. \A i \in EntriesOf(a) :
              (\A j \in EntriesOf(a) : j <= i) => ledger[i].after = ledger'[m].before
        BY <3>3, <3>6 DEF Chained
      <4>. DEFINE E == EntriesOf(a)
      <4>4. m \in Nat
        BY <3>1
      <4>5. ASSUME NEW i \in E \cup {m}, \A j \in E \cup {m} : i <= j
            PROVE  ledger'[i].before = Opening[a]
        <5>1. CASE i = m
          <6>1. ASSUME NEW e \in E PROVE FALSE
            <7>1. e \in E \cup {m}
              BY <6>1
            <7>2. i <= e /\ e < m /\ e \in Nat
              BY <4>1, <4>5, <6>1, <7>1
            <7>. QED
              BY <4>4, <5>1, <7>2
          <6>. QED
            BY <4>2, <5>1, <6>1
        <5>2. CASE i \in E
          BY <3>3, <4>1, <4>5, <5>2 DEF Chained
        <5>. QED
          BY <5>1, <5>2
      <4>6. ASSUME NEW i \in E \cup {m}, \A j \in E \cup {m} : j <= i
            PROVE  ledger'[i].after = balance'[a]
        BY <3>6, <4>1, <4>4, <4>6
      <4>7. ASSUME NEW i \in E \cup {m}, NEW j \in E \cup {m}, i < j,
                   ~\E l \in E \cup {m} : i < l /\ l < j
            PROVE  ledger'[i].after = ledger'[j].before
        <5>1. i \in E
          BY <4>1, <4>4, <4>7
        <5>2. CASE j = m
          <6>1. ASSUME NEW l \in E PROVE l <= i
            <7>1. l \in E \cup {m}
              BY <6>1
            <7>2. l < m /\ l \in Nat /\ i \in Nat
              BY <4>1, <5>1, <6>1
            <7>. QED
              BY <4>7, <5>2, <7>1, <7>2
          <6>. QED
            BY <4>1, <4>3, <5>1, <5>2, <6>1
        <5>3. CASE j \in E
          BY <3>3, <4>1, <4>7, <5>1, <5>3 DEF Chained
        <5>. QED
          BY <5>2, <5>3
      <4>. QED
        BY <3>6, <4>5, <4>6, <4>7 DEF Chained
    <3>7. CASE a = From(r)
      <4>1. EntriesOf(a)' = EntriesOf(a) \cup {n + 1}
        BY <3>1, <3>2, <3>4, <3>7, <3>9
      <4>. QED
        BY <3>6, <3>7, <3>9, <4>1
    <3>8. CASE a = To(r)
      <4>1. EntriesOf(a)' = EntriesOf(a) \cup {n + 2}
        BY <3>1, <3>2, <3>4, <3>8, <3>9
      <4>. QED
        BY <3>6, <3>8, <3>9, <4>1
    <3>. QED
      BY <3>5, <3>7, <3>8
  <2>. QED
    BY <1>2, <2>1, <2>2, OnlyCommitWrites DEF LedgerExplainsBalances
<1>. QED
  BY <1>1, <1>2, InvariantHolds, PTL DEF Spec

-----------------------------------------------------------------------------
(* The refinement                                                          *)

Answers == [r \in Requests |-> Answer(r)]

\* What the client reads does not change until the request is done.
LEMMA NotAnswered ==
  ASSUME ControlTypeOK, NEW r \in Requests, pc[r] # "done",
         NEW l, l # "done", pc' = [pc EXCEPT ![r] = l],
         NEW o, outcome' = [outcome EXCEPT ![r] = o]
  PROVE  Answers' = Answers
BY DEF ControlTypeOK, Answers, Answer

LEMMA MovedOn ==
  ASSUME ControlTypeOK, NEW r \in Requests, pc[r] # "done",
         \/ UNCHANGED <<pc, outcome>>
         \/ \E l \in Locations \ {"done"} : Goto(r, l)
         \/ \E o \in Outcomes : Throw(r, o)
  PROVE  Answers' = Answers
<1>1. CASE UNCHANGED <<pc, outcome>>
  BY <1>1 DEF Answers, Answer
<1>2. ASSUME NEW l \in Locations \ {"done"}, Goto(r, l) PROVE Answers' = Answers
  <2>1. outcome' = [outcome EXCEPT ![r] = outcome[r]]
    BY <1>2 DEF Goto, ControlTypeOK
  <2>. QED
    BY <1>2, <2>1, NotAnswered DEF Goto
<1>3. ASSUME NEW o \in Outcomes, Throw(r, o) PROVE Answers' = Answers
  BY <1>3, NotAnswered DEF Throw
<1>. QED
  BY <1>1, <1>2, <1>3

\* A request that is answered confirms, refuses or gives up, and the answer is
\* one that Bank allows.
LEMMA AnsweredTruly ==
  ASSUME ControlTypeOK, NEW r \in Requests, pc[r] # "done",
         NEW o \in Outcomes, Finish(r, o), UNCHANGED <<order, balance, rows>>,
         o \in Confirmations => \E s \in rows : Key(s) = Key(r),
         o \in Refusals => r \notin rows
  PROVE  BankView!Next
<1>1. Answer(r) = "none"
  BY DEF Answer
<1>. DEFINE said == IF o \in Confirmations THEN "ok"
                    ELSE IF o \in Refusals THEN "refused" ELSE "unknown"
<1>2. Answers' = [Answers EXCEPT ![r] = said]
  <2>1. \A s \in Requests : s # r => Answer(s)' = Answer(s)
    BY DEF ControlTypeOK, Finish, Answer
  <2>2. Answer(r)' = said
    BY DEF ControlTypeOK, Finish, Answer
  <2>. QED
    BY <2>1, <2>2 DEF Answers
<1>3. BankView!Answer(r, said)
  BY <1>1, <1>2 DEF BankView!Answer, Answers
<1>4. CASE o \in Confirmations
  BY <1>3, <1>4 DEF BankView!Next, BankView!Confirm, Key
<1>5. CASE o \in Refusals
  BY <1>3, <1>5 DEF BankView!Next, BankView!Refuse, Confirmations, Refusals
<1>6. CASE o \notin Confirmations \cup Refusals
  BY <1>3, <1>6 DEF BankView!Next, BankView!GiveUp
<1>. QED
  BY <1>4, <1>5, <1>6

\* A commit is the one step that moves money.
LEMMA CommitMoves ==
  ASSUME TransferInv, NEW r \in Requests, Commit(r)
  PROVE  BankView!Next
<1>1. /\ pc[r] = "commit"
      /\ \A s \in rows : Key(s) # Key(r)
  BY DEF Commit, TransferInv, KeyIsFree
<1>2. Answers' = Answers
  <2>1. "cache" \in Locations \ {"done"} /\ "error" \in Outcomes
    BY DEF Locations, Working, Outcomes
  <2>. QED
    BY <1>1, <2>1, MovedOn DEF Commit, TransferInv, TypeOK
<1>3. From(r) \in Accounts /\ To(r) \in Accounts
  BY OrderTypes DEF TransferInv, TypeOK
<1>4. balance' = [balance EXCEPT ![From(r)] = @ - Amount(r), ![To(r)] = @ + Amount(r)]
  BY <1>3, CommitEffect DEF TransferInv, TypeOK, DatabaseTypeOK
<1>5. BankView!Move(r)
  BY <1>1, <1>2, <1>3, <1>4, CommitEffect
     DEF BankView!Move, Answers, Answer, Key, From, To, Amount
<1>. QED
  BY <1>5 DEF BankView!Next

\* Every step of a request is a step of Bank or changes nothing Bank can see.
LEMMA RequestStep ==
  ASSUME TransferInv, NEW r \in Requests, OutsideStep(r) \/ InsideStep(r)
  PROVE  BankView!Next \/ UNCHANGED <<order, balance, rows, Answers>>
<1>. USE DEF TransferInv, TypeOK, dbVars, redisVars
<1>0. /\ {"lock1", "lock2", "unlock1", "check", "blocked", "lockFrom", "lockTo",
          "write", "insert", "commit", "cache", "invalidate", "unlockA", "unlockB",
          "crashed", "orphan"} \subseteq Locations \ {"done"}
      /\ {"error", "none"} \cup Confirmations \cup Refusals \subseteq Outcomes
      /\ {"notFound", "frozen", "fraud", "insufficient", "conflict",
          "locked", "invalid"} \subseteq Refusals
      /\ "error" \notin Confirmations \cup Refusals
      /\ Confirmations = {"created", "cached"}
      /\ Confirmations \cap Refusals = {}
  BY DEF Locations, Working, InTransaction, Outcomes, Refusals, Confirmations
<1>1. CASE CheckIdempotency(r)
  <2>1. pc[r] # "done" /\ r \notin rows
    BY <1>1 DEF CheckIdempotency, OutcomesAreTrue, BeforeCommit
  <2>2. idem[Key(r)] # None => \E s \in rows : Key(s) = Key(r)
    BY OrderTypes DEF CacheIsTrue
  <2>. QED
    BY <1>0, <1>1, <2>1, <2>2, MovedOn, AnsweredTruly DEF CheckIdempotency
<1>2. CASE AcquireFirst(r) \/ AcquireSecond(r) \/ ReleaseAfterDenial(r)
  <2>1. pc[r] # "done" /\ r \notin rows
    BY <1>2 DEF AcquireFirst, AcquireSecond, ReleaseAfterDenial, OutcomesAreTrue,
       BeforeCommit
  <2>. QED
    BY <1>0, <1>2, <2>1, MovedOn, AnsweredTruly
       DEF AcquireFirst, AcquireSecond, ReleaseAfterDenial, ReleaseResent
<1>3. CASE FraudCheck(r) \/ PublishFraudBlocked(r) \/ PublishFailed(r)
  BY <1>0, <1>3, MovedOn DEF FraudCheck, PublishFraudBlocked, PublishFailed
<1>4. CASE CacheResponse(r)
  BY <1>0, <1>4, MovedOn DEF CacheResponse
<1>5. CASE InvalidateAndPublish(r)
  BY <1>0, <1>5, MovedOn, NotAnswered DEF InvalidateAndPublish
<1>6. CASE ReleaseFirst(r)
  <2>1. pc[r] # "done"
    BY <1>6 DEF ReleaseFirst
  <2>. QED
    BY <1>0, <1>6, <2>1, MovedOn, AnsweredTruly DEF ReleaseFirst, ReleaseResent
<1>7. CASE ReleaseSecond(r)
  <2>1. pc[r] # "done" /\ outcome[r] \in Outcomes
    BY <1>7 DEF ReleaseSecond, ControlTypeOK
  <2>2. /\ outcome[r] \in Confirmations => \E s \in rows : Key(s) = Key(r)
        /\ outcome[r] \in Refusals => r \notin rows
    BY DEF OutcomesAreTrue
  <2>. QED
    BY <1>0, <1>7, <2>1, <2>2, MovedOn, AnsweredTruly DEF ReleaseSecond, ReleaseResent
<1>8. CASE DeliverCompleted(r)
  BY <1>8 DEF DeliverCompleted, Answers, Answer
<1>9. CASE LockSender(r) \/ LockRecipient(r)
  BY <1>0, <1>9, MovedOn DEF LockSender, LockRecipient, Refused, StatusError
<1>10. CASE UpdateBalances(r) \/ InsertRows(r)
  BY <1>0, <1>10, MovedOn DEF UpdateBalances, InsertRows
<1>11. CASE Commit(r)
  BY <1>11, CommitMoves
<1>12. CASE DatabaseError(r)
  <2>1. pc[r] # "done"
    BY <1>12 DEF DatabaseError, InTransaction
  <2>. QED
    BY <1>0, <1>12, <2>1, MovedOn DEF DatabaseError
<1>13. CASE Crash(r)
  <2>1. pc[r] # "done"
    BY <1>13 DEF Crash, Working, InTransaction
  <2>. QED
    BY <1>13, <2>1, NotAnswered DEF Crash
<1>14. CASE AbortOrphan(r)
  BY <1>0, <1>14, MovedOn DEF AbortOrphan
<1>. QED
  BY <1>1, <1>2, <1>3, <1>4, <1>5, <1>6, <1>7, <1>8, <1>9, <1>10, <1>11, <1>12,
     <1>13, <1>14 DEF OutsideStep, InsideStep

\* payment-service implements Bank: with every fault, its clients see money that
\* moves at one instant and answers that are true of it.
THEOREM ServiceImplementsBank == Spec => ImplementsBank
<1>1. Init => BankView!Init
  BY DEF Init, BankView!Init, Answer
<1>2. ASSUME TransferInv, [Next]_vars
      PROVE  [BankView!Next]_(BankView!vars)
  <2>1. CASE \E r \in Requests : OutsideStep(r) \/ InsideStep(r)
    BY <1>2, <2>1, RequestStep DEF BankView!vars, Answers
  <2>2. CASE UNCHANGED <<order, dbVars, pc, outcome>>
    BY <2>2 DEF BankView!vars, Answer, dbVars
  <2>3. ASSUME NEW a \in Accounts, ExpireLock(a)
        PROVE  UNCHANGED <<order, dbVars, pc, outcome>>
    BY <2>3 DEF ExpireLock
  <2>4. ASSUME NEW k \in Keys, ExpireResponse(k)
        PROVE  UNCHANGED <<order, dbVars, pc, outcome>>
    BY <2>4 DEF ExpireResponse
  <2>5. UNCHANGED vars => UNCHANGED <<order, dbVars, pc, outcome>>
    BY DEF vars
  <2>. QED
    BY <1>2, <2>1, <2>2, <2>3, <2>4, <2>5, StepCases
<1>. QED
  BY <1>1, <1>2, InvariantHolds, PTL DEF Spec, ImplementsBank, BankView!Spec

-----------------------------------------------------------------------------
(* The Redis locks, when Redis answers and no request outlives their TTL   *)

HeldLocksAreSet == \A r \in Requests, a \in Accounts : Holds(r, a) => a \in redisLock
LocksInv == HeldLocksAreSet /\ LockHoldersAreAlone

\* What request s holds is a matter of its own location.
LEMMA HoldsFrame ==
  ASSUME TypeOK, NEW r \in Requests, NEW s \in Requests, NEW a \in Accounts,
         UNCHANGED order, NEW l, pc' = [pc EXCEPT ![r] = l]
  PROVE  Holds(s, a)' <=> IF s = r
                          THEN \/ a = First(r) /\ l \in BothLocksHeld \cup {"lock2", "unlock1"}
                               \/ a = Second(r) /\ l \in BothLocksHeld \cup {"unlockB"}
                          ELSE Holds(s, a)
BY DEF TypeOK, ControlTypeOK, Holds, First, Second, Sorted, From, To

\* A request that leaves Redis alone and holds no more locks than before.
LEMMA HoldsNoMore ==
  ASSUME TypeOK, LocksInv, UNCHANGED <<order, redisLock>>, NEW r \in Requests,
         NEW l, pc' = [pc EXCEPT ![r] = l],
         \/ l = pc[r]
         \/ l \notin BothLocksHeld \cup {"lock2", "unlock1", "unlockB"}
         \/ pc[r] = "lock2" /\ l = "unlock1"
         \/ pc[r] \in BothLocksHeld /\ l \in BothLocksHeld
  PROVE  LocksInv'
<1>1. ASSUME NEW s \in Requests, NEW a \in Accounts, Holds(s, a)'
      PROVE  Holds(s, a)
  <2>1. IF s = r
        THEN \/ a = First(r) /\ l \in BothLocksHeld \cup {"lock2", "unlock1"}
             \/ a = Second(r) /\ l \in BothLocksHeld \cup {"unlockB"}
        ELSE Holds(s, a)
    BY <1>1, HoldsFrame
  <2>. QED
    BY <2>1 DEF Holds, BothLocksHeld, InTransaction
<1>. QED
  BY <1>1 DEF LocksInv, HeldLocksAreSet, LockHoldersAreAlone

\* SET NX, granted: the key was not there, so nobody held the lock.
LEMMA LockGranted ==
  ASSUME TypeOK, LocksInv, UNCHANGED order, NEW r \in Requests,
         \/ Granted(First(r)) /\ pc[r] = "lock1" /\ Goto(r, "lock2")
         \/ Granted(Second(r)) /\ pc[r] = "lock2" /\ Goto(r, "check")
  PROVE  LocksInv'
<1>1. First(r) \in Accounts /\ Second(r) \in Accounts
  BY OrderTypes DEF TypeOK
<1>2. PICK b \in Accounts : /\ Granted(b)
                            /\ \A s \in Requests, a \in Accounts :
                                Holds(s, a)' <=> Holds(s, a) \/ (s = r /\ a = b)
  <2>. USE DEF BothLocksHeld, InTransaction
  <2>1. CASE Granted(First(r)) /\ pc[r] = "lock1" /\ Goto(r, "lock2")
    <3>1. \A s \in Requests, a \in Accounts :
            Holds(s, a)' <=> IF s = r THEN a = First(r) ELSE Holds(s, a)
      BY <2>1, HoldsFrame DEF Goto
    <3>2. \A a \in Accounts : ~Holds(r, a)
      BY <2>1 DEF Holds
    <3>. QED
      BY <1>1, <2>1, <3>1, <3>2
  <2>2. CASE Granted(Second(r)) /\ pc[r] = "lock2" /\ Goto(r, "check")
    <3>1. \A s \in Requests, a \in Accounts :
            Holds(s, a)' <=> IF s = r THEN a \in {First(r), Second(r)} ELSE Holds(s, a)
      BY <2>2, HoldsFrame DEF Goto
    <3>2. \A a \in Accounts : Holds(r, a) <=> a = First(r)
      BY <2>2 DEF Holds
    <3>. QED
      BY <1>1, <2>2, <3>1, <3>2
  <2>. QED
    BY <2>1, <2>2
<1>. QED
  BY <1>2 DEF LocksInv, HeldLocksAreSet, LockHoldersAreAlone, Granted

\* DEL by the request that holds the lock, which it then no longer does.
LEMMA LockReleased ==
  ASSUME TransferInv, LocksInv, UNCHANGED order, NEW r \in Requests, NEW o,
         \/ Release(First(r)) /\ pc[r] = "unlock1" /\ Finish(r, o)
         \/ Release(First(r)) /\ pc[r] = "unlockA" /\ Goto(r, "unlockB")
         \/ Release(Second(r)) /\ pc[r] = "unlockB" /\ Finish(r, o)
  PROVE  LocksInv'
<1>. USE DEF TransferInv
<1>1. First(r) \in Accounts /\ Second(r) \in Accounts
  BY OrderTypes DEF TypeOK
<1>2. First(r) # Second(r)
  <2>1. Valid(order[r])
    BY DEF OrdersChecked, Working
  <2>. QED
    BY <2>1 DEF Valid, First, Second, Sorted, From, To
<1>3. PICK b \in Accounts : /\ Release(b)
                            /\ Holds(r, b)
                            /\ \A s \in Requests, a \in Accounts :
                                Holds(s, a)' => Holds(s, a) /\ ~(s = r /\ a = b)
  <2>. USE DEF BothLocksHeld, InTransaction
  <2>1. ASSUME NEW b \in {First(r), Second(r)}, Release(b), Finish(r, o), Holds(r, b)
        PROVE  \A s \in Requests, a \in Accounts :
                Holds(s, a)' => Holds(s, a) /\ ~(s = r /\ a = b)
    <3>1. \A s \in Requests, a \in Accounts : Holds(s, a)' => s # r /\ Holds(s, a)
      <4>1. pc' = [pc EXCEPT ![r] = "done"]
        BY <2>1 DEF Finish
      <4>. QED
        BY <4>1, HoldsFrame
    <3>. QED
      BY <3>1
  <2>2. CASE Release(First(r)) /\ pc[r] = "unlockA" /\ Goto(r, "unlockB")
    <3>1. \A s \in Requests, a \in Accounts :
            Holds(s, a)' <=> IF s = r THEN a = Second(r) ELSE Holds(s, a)
      BY <2>2, HoldsFrame DEF Goto
    <3>2. Holds(r, First(r)) /\ Holds(r, Second(r))
      BY <2>2 DEF Holds
    <3>. QED
      BY <1>1, <1>2, <2>2, <3>1, <3>2
  <2>3. CASE Release(First(r)) /\ pc[r] = "unlock1" /\ Finish(r, o)
    <3>1. Holds(r, First(r))
      BY <2>3 DEF Holds
    <3>. QED
      BY <1>1, <2>1, <2>3, <3>1
  <2>4. CASE Release(Second(r)) /\ pc[r] = "unlockB" /\ Finish(r, o)
    <3>1. Holds(r, Second(r))
      BY <2>4 DEF Holds
    <3>. QED
      BY <1>1, <2>1, <2>4, <3>1
  <2>. QED
    BY <2>2, <2>3, <2>4
<1>. QED
  BY <1>3 DEF LocksInv, HeldLocksAreSet, LockHoldersAreAlone, Release

LEMMA LocksStep ==
  ASSUME TransferInv, LocksInv, Faults \cap {"redis", "slow"} = {},
         NEW r \in Requests, OutsideStep(r) \/ InsideStep(r)
  PROVE  LocksInv'
<1>. USE DEF redisVars, BothLocksHeld, InTransaction
<1>0. TypeOK
  BY DEF TransferInv
<1>1. CASE CheckIdempotency(r)
  BY <1>0, <1>1, HoldsNoMore DEF CheckIdempotency, Goto, Finish
<1>2. CASE AcquireFirst(r)
  BY <1>0, <1>2, HoldsNoMore, LockGranted DEF AcquireFirst, Denied, SetLost, Finish
<1>3. CASE AcquireSecond(r)
  BY <1>0, <1>3, HoldsNoMore, LockGranted DEF AcquireSecond, Denied, SetLost, Goto
<1>4. CASE ReleaseAfterDenial(r)
  BY <1>4, LockReleased DEF ReleaseAfterDenial, ReleaseLost, ReleaseResent
<1>5. CASE FraudCheck(r)
  BY <1>0, <1>5, HoldsNoMore DEF FraudCheck, Goto, Throw
<1>6. CASE PublishFraudBlocked(r)
  BY <1>0, <1>6, HoldsNoMore DEF PublishFraudBlocked, Throw
<1>7. CASE CacheResponse(r)
  BY <1>0, <1>7, HoldsNoMore DEF CacheResponse, Goto, Throw
<1>8. CASE InvalidateAndPublish(r)
  BY <1>0, <1>8, HoldsNoMore DEF InvalidateAndPublish, Throw
<1>9. CASE PublishFailed(r)
  BY <1>0, <1>9, HoldsNoMore DEF PublishFailed, Goto
<1>10. CASE ReleaseFirst(r)
  BY <1>10, LockReleased DEF ReleaseFirst, ReleaseLost, ReleaseResent
<1>11. CASE ReleaseSecond(r)
  BY <1>11, LockReleased DEF ReleaseSecond, ReleaseLost, ReleaseResent
<1>12. CASE DeliverCompleted(r)
  <2>1. pc' = [pc EXCEPT ![r] = pc[r]]
    BY <1>0, <1>12 DEF DeliverCompleted, TypeOK, ControlTypeOK
  <2>. QED
    BY <1>0, <1>12, <2>1, HoldsNoMore DEF DeliverCompleted
<1>13. CASE LockSender(r)
  BY <1>0, <1>13, HoldsNoMore DEF LockSender, Refused, Goto, Throw
<1>14. CASE LockRecipient(r)
  BY <1>0, <1>14, HoldsNoMore DEF LockRecipient, Refused, Goto, Throw
<1>15. CASE UpdateBalances(r)
  BY <1>0, <1>15, HoldsNoMore DEF UpdateBalances, Goto, Throw
<1>16. CASE InsertRows(r)
  BY <1>0, <1>16, HoldsNoMore DEF InsertRows, Goto, Throw
<1>17. CASE Commit(r)
  BY <1>0, <1>17, HoldsNoMore DEF Commit, Goto, Throw
<1>18. CASE DatabaseError(r)
  BY <1>0, <1>18, HoldsNoMore DEF DatabaseError, Throw
<1>19. CASE Crash(r)
  <2>1. PICK l \in {"orphan", "crashed"} : pc' = [pc EXCEPT ![r] = l]
    BY <1>19 DEF Crash
  <2>. QED
    BY <1>0, <1>19, <2>1, HoldsNoMore DEF Crash
<1>20. CASE AbortOrphan(r)
  BY <1>0, <1>20, HoldsNoMore DEF AbortOrphan, Goto
<1>. QED
  BY <1>1, <1>2, <1>3, <1>4, <1>5, <1>6, <1>7, <1>8, <1>9, <1>10, <1>11, <1>12,
     <1>13, <1>14, <1>15, <1>16, <1>17, <1>18, <1>19, <1>20
     DEF OutsideStep, InsideStep

\* The account locks exclude each other as long as Redis answers every command
\* and no request outlives its TTL; crashes and SQL or Kafka errors do no harm.
\* (The money is safe without them: NoLostUpdate.)
THEOREM LocksExclude ==
  ASSUME Faults \cap {"redis", "slow"} = {}
  PROVE  Spec => []LockHoldersAreAlone
<1>1. Init => LocksInv
  BY DEF Init, LocksInv, HeldLocksAreSet, LockHoldersAreAlone, Holds, BothLocksHeld,
     InTransaction
<1>2. ASSUME TransferInv, LocksInv, [Next]_vars
      PROVE  LocksInv'
  <2>1. CASE \E r \in Requests : OutsideStep(r) \/ InsideStep(r)
    BY <1>2, <2>1, LocksStep
  <2>2. CASE UNCHANGED <<order, pc, redisLock>>
    BY <1>2, <2>2 DEF LocksInv, HeldLocksAreSet, LockHoldersAreAlone, Holds, First,
       Second, Sorted, From, To
  <2>3. ASSUME NEW a \in Accounts, ExpireLock(a)
        PROVE  LocksInv'
    <3>1. \A s \in Requests : ~Holds(s, a)
      BY <2>3 DEF ExpireLock
    <3>2. \A s \in Requests, b \in Accounts : Holds(s, b)' <=> Holds(s, b)
      BY <2>3 DEF ExpireLock, Holds, First, Second, Sorted, From, To
    <3>3. redisLock' = redisLock \ {a}
      BY <2>3 DEF ExpireLock, Release
    <3>. QED
      BY <1>2, <3>1, <3>2, <3>3 DEF LocksInv, HeldLocksAreSet, LockHoldersAreAlone
  <2>4. ASSUME NEW k \in Keys, ExpireResponse(k)
        PROVE  UNCHANGED <<order, pc, redisLock>>
    BY <2>4 DEF ExpireResponse
  <2>5. UNCHANGED vars => UNCHANGED <<order, pc, redisLock>>
    BY DEF vars, redisVars
  <2>. QED
    BY <1>2, <2>1, <2>2, <2>3, <2>4, <2>5, StepCases
<1>3. LocksInv => LockHoldersAreAlone
  BY DEF LocksInv
<1>. QED
  BY <1>1, <1>2, <1>3, InvariantHolds, PTL DEF Spec

-----------------------------------------------------------------------------
(* Why two sorted locks turn nobody away for nothing, when Redis answers   *)

\* A request that has got through, or will: both locks are, or were, its own.
PastLocks == BothLocksHeld \cup {"unlockB", "orphan", "crashed"}
Through(r) == pc[r] \in PastLocks \/ (pc[r] = "done" /\ outcome[r] # "locked")

\* As long as nobody is through, a lock key has its holder, and whoever is turned
\* away leaves one waiting for its second lock, further up in the order of the ids.
Waiting(r) == pc[r] = "lock2"
SomeoneIsLeft ==
    /\ \A a \in redisLock : \E r \in Requests : Holds(r, a)
    /\ \A r \in Requests : pc[r] = "unlock1" =>
            \E t \in Requests : Waiting(t) /\ First(t) >= Second(r)
    /\ \A r \in Requests : outcome[r] = "locked" => \E t \in Requests : Waiting(t)

LockedMeansDone == \A r \in Requests : outcome[r] = "locked" => pc[r] = "done"
ContentionInv == LockedMeansDone /\ ((\E r \in Requests : Through(r)) \/ SomeoneIsLeft)

\* The two ids of a request at work are numbers, the first the smaller one.
LEMMA SortedIds ==
  ASSUME TransferInv, NEW r \in Requests
  PROVE  /\ First(r) \in Nat /\ Second(r) \in Nat
         /\ First(r) \in Accounts /\ Second(r) \in Accounts
         /\ pc[r] \in Working => First(r) < Second(r)
<1>1. /\ From(r) \in Accounts /\ To(r) \in Accounts
      /\ From(r) \in Nat /\ To(r) \in Nat
  BY OrderTypes, AccountsAreSortable DEF TransferInv, TypeOK
<1>2. pc[r] \in Working => From(r) # To(r)
  BY DEF TransferInv, OrdersChecked, Valid, From, To
<1>. QED
  BY <1>1, <1>2 DEF First, Second, Sorted

\* What a step does to the contest for the locks: a request passes through, or it
\* is one of five moves before that.
PassesThrough(r) ==
    \E l \in PastLocks \cup {"done"}, o \in Outcomes \ {"locked"} :
        pc' = [pc EXCEPT ![r] = l] /\ outcome' = [outcome EXCEPT ![r] = o]
Contests(r) ==
    \/ pc[r] = "idle" /\ Goto(r, "lock1") /\ UNCHANGED redisLock
    \/ pc[r] = "lock1" /\ Granted(First(r)) /\ Goto(r, "lock2")
    \/ pc[r] = "lock1" /\ First(r) \in redisLock /\ UNCHANGED redisLock /\ Finish(r, "locked")
    \/ pc[r] = "lock2" /\ Second(r) \in redisLock /\ UNCHANGED redisLock /\ Goto(r, "unlock1")
    \/ pc[r] = "unlock1" /\ Release(First(r)) /\ Finish(r, "locked")

\* Moving on inside the try block keeps the outcome, which is none of "locked".
LEMMA GoesOn ==
  ASSUME TypeOK, LockedMeansDone, NEW r \in Requests, pc[r] # "done",
         NEW l \in PastLocks \cup {"done"},
         \/ Goto(r, l)
         \/ Finish(r, outcome[r])
         \/ \E o \in Outcomes \ {"locked"} : Finish(r, o) \/ Throw(r, o)
  PROVE  PassesThrough(r)
<1>1. /\ outcome[r] \in Outcomes \ {"locked"}
      /\ outcome = [outcome EXCEPT ![r] = outcome[r]]
      /\ "failed" \in PastLocks
  BY DEF TypeOK, ControlTypeOK, LockedMeansDone, PastLocks, BothLocksHeld
<1>2. CASE Goto(r, l)
  BY <1>1, <1>2 DEF PassesThrough, Goto
<1>3. CASE Finish(r, outcome[r])
  BY <1>1, <1>3 DEF PassesThrough, Finish
<1>4. ASSUME NEW o \in Outcomes \ {"locked"}, Finish(r, o) \/ Throw(r, o)
      PROVE  PassesThrough(r)
  BY <1>1, <1>4 DEF PassesThrough, Finish, Throw
<1>. QED
  BY <1>2, <1>3, <1>4

LEMMA ContestCases ==
  ASSUME TypeOK, LockedMeansDone, "redis" \notin Faults,
         NEW r \in Requests, OutsideStep(r) \/ InsideStep(r)
  PROVE  /\ UNCHANGED order
         /\ \/ PassesThrough(r)
            \/ Contests(r)
            \/ UNCHANGED <<pc, outcome, redisLock>>
<1>0. /\ BothLocksHeld \cup {"unlockB", "crashed"} \subseteq PastLocks
      /\ BothLocksHeld = {"check", "blocked", "lockFrom", "cache", "invalidate",
                  "failed", "unlockA", "lockTo", "write", "insert", "commit"}
      /\ {"cached", "invalid", "error", "created", "fraud", "notFound", "frozen",
          "insufficient", "conflict", "none"} \subseteq Outcomes \ {"locked"}
      /\ \A a : StatusError(a) \in Outcomes \ {"locked"}
  BY DEF PastLocks, BothLocksHeld, InTransaction, Outcomes, Confirmations, Refusals, StatusError
<1>1. CASE CheckIdempotency(r)
  BY <1>0, <1>1, GoesOn DEF CheckIdempotency, Contests, redisVars
<1>2. CASE AcquireFirst(r)
  BY <1>2 DEF AcquireFirst, Denied, SetLost, Contests
<1>3. CASE AcquireSecond(r)
  BY <1>0, <1>3, GoesOn DEF AcquireSecond, Denied, SetLost, Contests
<1>4. CASE ReleaseAfterDenial(r)
  BY <1>4 DEF ReleaseAfterDenial, ReleaseLost, ReleaseResent, Contests
<1>5. CASE FraudCheck(r)
  BY <1>0, <1>5, GoesOn DEF FraudCheck
<1>6. CASE PublishFraudBlocked(r)
  BY <1>0, <1>6, GoesOn DEF PublishFraudBlocked
<1>7. CASE CacheResponse(r)
  BY <1>0, <1>7, GoesOn DEF CacheResponse
<1>8. CASE InvalidateAndPublish(r)
  BY <1>0, <1>8 DEF InvalidateAndPublish, PassesThrough
<1>9. CASE PublishFailed(r)
  BY <1>0, <1>9, GoesOn DEF PublishFailed
<1>10. CASE ReleaseFirst(r)
  BY <1>0, <1>10, GoesOn DEF ReleaseFirst, ReleaseLost, ReleaseResent
<1>11. CASE ReleaseSecond(r)
  BY <1>0, <1>11, GoesOn DEF ReleaseSecond, ReleaseLost, ReleaseResent
<1>12. CASE DeliverCompleted(r)
  BY <1>12 DEF DeliverCompleted, redisVars
<1>13. CASE LockSender(r)
  BY <1>0, <1>13, GoesOn DEF LockSender, Refused
<1>14. CASE LockRecipient(r)
  BY <1>0, <1>14, GoesOn DEF LockRecipient, Refused
<1>15. CASE UpdateBalances(r)
  BY <1>0, <1>15, GoesOn DEF UpdateBalances
<1>16. CASE InsertRows(r)
  BY <1>0, <1>16, GoesOn DEF InsertRows
<1>17. CASE Commit(r)
  BY <1>0, <1>17, GoesOn DEF Commit
<1>18. CASE DatabaseError(r)
  <2>1. pc[r] # "done"
    BY <1>18 DEF DatabaseError, InTransaction
  <2>. QED
    BY <1>0, <1>18, <2>1, GoesOn DEF DatabaseError
<1>19. CASE Crash(r)
  <2>1. PICK l \in {"orphan", "crashed"} :
            pc' = [pc EXCEPT ![r] = l] /\ outcome' = [outcome EXCEPT ![r] = "none"]
    BY <1>19 DEF Crash
  <2>. QED
    BY <1>0, <1>19, <2>1 DEF Crash, PassesThrough, PastLocks
<1>20. CASE AbortOrphan(r)
  BY <1>0, <1>20, GoesOn DEF AbortOrphan
<1>. QED
  BY <1>1, <1>2, <1>3, <1>4, <1>5, <1>6, <1>7, <1>8, <1>9, <1>10, <1>11, <1>12,
     <1>13, <1>14, <1>15, <1>16, <1>17, <1>18, <1>19, <1>20
     DEF OutsideStep, InsideStep

\* Nobody who is through comes back, and a "locked" request is done.
LEMMA ThroughStays ==
  ASSUME TypeOK, LockedMeansDone, NEW r \in Requests, PassesThrough(r) \/ Contests(r)
  PROVE  /\ LockedMeansDone'
         /\ (PassesThrough(r) \/ \E s \in Requests : Through(s))
                => \E s \in Requests : Through(s)'
<1>1. CASE PassesThrough(r)
  BY <1>1 DEF PassesThrough, Through, LockedMeansDone, TypeOK, ControlTypeOK
<1>2. CASE Contests(r) /\ ~PassesThrough(r)
  <2>1. /\ pc[r] \in {"idle", "lock1", "lock2", "unlock1"}
        /\ \A s \in Requests \ {r} : pc'[s] = pc[s] /\ outcome'[s] = outcome[s]
        /\ outcome'[r] = outcome[r] \/ pc'[r] = "done"
    BY <1>2 DEF Contests, Goto, Finish, TypeOK, ControlTypeOK
  <2>2. ~Through(r) /\ outcome[r] # "locked"
    BY <2>1 DEF Through, PastLocks, BothLocksHeld, InTransaction, LockedMeansDone
  <2>. QED
    BY <1>2, <2>1, <2>2 DEF LockedMeansDone, Through
<1>. QED
  BY <1>1, <1>2

\* While nobody is through, a lock key has a holder at "lock2" or "unlock1", whose
\* first lock it is; and so somebody waits for the second lock further up.
LEMMA HolderWaits ==
  ASSUME TransferInv, SomeoneIsLeft, ~\E s \in Requests : Through(s),
         NEW a \in redisLock
  PROVE  \E t \in Requests : Waiting(t) /\ First(t) >= a
<1>1. PICK u \in Requests : Holds(u, a)
  BY DEF SomeoneIsLeft
<1>2. pc[u] \in {"lock2", "unlock1"} /\ a = First(u)
  BY <1>1 DEF Holds, Through, PastLocks
<1>3. First(u) \in Nat /\ Second(u) \in Nat /\ First(u) < Second(u)
  BY <1>2, SortedIds DEF Working
<1>4. CASE pc[u] = "lock2"
  BY <1>2, <1>3, <1>4 DEF Waiting
<1>5. CASE pc[u] = "unlock1"
  <2>1. PICK t \in Requests : Waiting(t) /\ First(t) >= Second(u)
    BY <1>5 DEF SomeoneIsLeft
  <2>2. First(t) \in Nat
    BY SortedIds
  <2>. QED
    BY <1>2, <1>3, <2>1, <2>2
<1>. QED
  BY <1>2, <1>4, <1>5

\* The five moves keep somebody waiting: one denied its second lock gave way to a
\* request further up.
LEMMA ContestStep ==
  ASSUME TransferInv, LockedMeansDone, SomeoneIsLeft,
         ~\E s \in Requests : Through(s), ~\E s \in Requests : Through(s)',
         UNCHANGED order, NEW r \in Requests, Contests(r)
  PROVE  SomeoneIsLeft'
<1>. USE DEF TransferInv
<1>1. \A s \in Requests : /\ First(s)' = First(s) /\ Second(s)' = Second(s)
                           /\ First(s) \in Nat /\ Second(s) \in Nat
                           /\ First(s) \in Accounts
  <2>1. \A s \in Requests : First(s)' = First(s) /\ Second(s)' = Second(s)
    BY DEF First, Second, Sorted, From, To
  <2>. QED
    BY <2>1, SortedIds
<1>2. \A s \in Requests \ {r} : /\ pc'[s] = pc[s] /\ outcome'[s] = outcome[s]
                                 /\ \A a : Holds(s, a)' <=> Holds(s, a)
  <2>1. \A s \in Requests \ {r} : pc'[s] = pc[s] /\ outcome'[s] = outcome[s]
    BY DEF Contests, Goto, Finish, TypeOK, ControlTypeOK
  <2>. QED
    BY <1>1, <2>1 DEF Holds
<1>3. pc \in [Requests -> Locations] /\ outcome \in [Requests -> Outcomes]
  BY DEF TypeOK, ControlTypeOK
<1>4. CASE pc[r] = "idle" /\ Goto(r, "lock1") /\ UNCHANGED redisLock
  <2>1. \A a : ~Holds(r, a)
    BY <1>4 DEF Holds, BothLocksHeld, InTransaction
  <2>. QED
    BY <1>1, <1>2, <1>3, <1>4, <2>1 DEF SomeoneIsLeft, Waiting, Goto
<1>5. CASE pc[r] = "lock1" /\ Granted(First(r)) /\ Goto(r, "lock2")
  <2>1. Holds(r, First(r))' /\ \A a : ~Holds(r, a)
    BY <1>1, <1>3, <1>5 DEF Holds, Goto, BothLocksHeld, InTransaction
  <2>. QED
    BY <1>1, <1>2, <1>3, <1>5, <2>1 DEF SomeoneIsLeft, Waiting, Goto, Granted
<1>6. CASE /\ pc[r] = "lock1" /\ First(r) \in redisLock
           /\ UNCHANGED redisLock /\ Finish(r, "locked")
  <2>1. \A a : ~Holds(r, a)
    BY <1>6 DEF Holds, BothLocksHeld, InTransaction
  <2>2. \E t \in Requests : Waiting(t)
    BY <1>6, HolderWaits
  <2>3. \A t \in Requests : Waiting(t) <=> Waiting(t)'
    BY <1>2, <1>3, <1>6 DEF Waiting, Finish
  <2>. QED
    BY <1>1, <1>2, <1>3, <1>6, <2>1, <2>2, <2>3 DEF SomeoneIsLeft, Finish
<1>7. CASE /\ pc[r] = "lock2" /\ Second(r) \in redisLock
           /\ UNCHANGED redisLock /\ Goto(r, "unlock1")
  <2>1. First(r) < Second(r)
    BY <1>7, SortedIds DEF Working
  <2>2. PICK t \in Requests : Waiting(t) /\ First(t) >= Second(r)
    BY <1>7, HolderWaits
  <2>3. t # r /\ Waiting(t)'
    BY <1>1, <1>2, <2>1, <2>2 DEF Waiting
  <2>4. \A s \in Requests, a \in Accounts : Holds(s, a)' <=> Holds(s, a)
    <3>1. \A a : Holds(r, a)' <=> Holds(r, a)
      BY <1>1, <1>3, <1>7 DEF Holds, Goto, BothLocksHeld, InTransaction
    <3>. QED
      BY <1>2, <3>1
  <2>5. redisLock \subseteq Accounts
    BY DEF TypeOK, RedisTypeOK
  <2>6. ASSUME NEW s \in Requests, pc'[s] = "unlock1"
        PROVE  \E w \in Requests : Waiting(w)' /\ First(w) >= Second(s)
    <3>1. CASE s = r
      BY <2>2, <2>3, <3>1
    <3>2. CASE s # r
      <4>1. PICK w \in Requests : Waiting(w) /\ First(w) >= Second(s)
        BY <1>2, <2>6, <3>2 DEF SomeoneIsLeft
      <4>2. CASE w # r
        BY <1>2, <4>1, <4>2 DEF Waiting
      <4>3. CASE w = r
        <5>1. First(t) >= Second(s)
          BY <1>1, <2>1, <2>2, <4>1, <4>3
        <5>. QED
          BY <2>3, <5>1
      <4>. QED
        BY <4>2, <4>3
    <3>. QED
      BY <3>1, <3>2
  <2>. QED
    BY <1>1, <1>7, <2>3, <2>4, <2>5, <2>6 DEF SomeoneIsLeft
<1>8. CASE pc[r] = "unlock1" /\ Release(First(r)) /\ Finish(r, "locked")
  <2>1. \A a : Holds(r, a) => a = First(r)
    BY <1>8 DEF Holds, BothLocksHeld, InTransaction
  <2>2. redisLock' = redisLock \ {First(r)}
    BY <1>8 DEF Release
  <2>3. \A t \in Requests : Waiting(t) <=> Waiting(t)'
    BY <1>2, <1>3, <1>8 DEF Waiting, Finish
  <2>4. \E t \in Requests : Waiting(t)
    BY <1>8 DEF SomeoneIsLeft
  <2>5. pc'[r] = "done"
    BY <1>3, <1>8 DEF Finish
  <2>. QED
    BY <1>1, <1>2, <2>1, <2>2, <2>3, <2>4, <2>5 DEF SomeoneIsLeft
<1>. QED
  BY <1>4, <1>5, <1>6, <1>7, <1>8 DEF Contests

\* As long as Redis answers, requests that compete for accounts cannot all be told
\* ACCOUNT_LOCKED, however many they are, whatever else fails, crashes or is slow:
\* this is what sorting the two ids gives beyond freedom from deadlock.
THEOREM OneGetsThrough ==
  ASSUME "redis" \notin Faults, Requests # {}
  PROVE  Spec => []NotAllTurnedAway
<1>1. Init => ContentionInv
  BY DEF Init, ContentionInv, LockedMeansDone, SomeoneIsLeft
<1>2. ASSUME TransferInv, ContentionInv, [Next]_vars
      PROVE  ContentionInv'
  <2>1. ASSUME NEW r \in Requests, OutsideStep(r) \/ InsideStep(r)
        PROVE  ContentionInv'
    <3>1. /\ UNCHANGED order
          /\ \/ PassesThrough(r)
             \/ Contests(r)
             \/ UNCHANGED <<pc, outcome, redisLock>>
      BY <1>2, <2>1, ContestCases DEF TransferInv, ContentionInv
    <3>2. CASE PassesThrough(r) \/ Contests(r)
      BY <1>2, <3>1, <3>2, ThroughStays, ContestStep DEF ContentionInv, TransferInv
    <3>3. CASE UNCHANGED <<pc, outcome, redisLock>>
      BY <1>2, <3>1, <3>3 DEF ContentionInv, LockedMeansDone, Through, SomeoneIsLeft,
         Waiting, Holds, First, Second, Sorted, From, To
    <3>. QED
      BY <3>1, <3>2, <3>3
  <2>2. CASE UNCHANGED <<order, pc, outcome>> /\ redisLock' \subseteq redisLock
    BY <1>2, <2>2 DEF ContentionInv, LockedMeansDone, Through, SomeoneIsLeft,
       Waiting, Holds, First, Second, Sorted, From, To
  <2>3. ASSUME NEW a \in Accounts, ExpireLock(a)
        PROVE  UNCHANGED <<order, pc, outcome>> /\ redisLock' \subseteq redisLock
    BY <2>3 DEF ExpireLock, Release
  <2>4. ASSUME NEW k \in Keys, ExpireResponse(k)
        PROVE  UNCHANGED <<order, pc, outcome, redisLock>>
    BY <2>4 DEF ExpireResponse
  <2>5. UNCHANGED vars => UNCHANGED <<order, pc, outcome, redisLock>>
    BY DEF vars, redisVars
  <2>. QED
    BY <1>2, <2>1, <2>2, <2>3, <2>4, <2>5, StepCases
<1>3. ContentionInv => NotAllTurnedAway
  <2>. SUFFICES ASSUME ContentionInv, \A r \in Requests : pc[r] = "done",
                       \A r \in Requests : outcome[r] = "locked"
                PROVE  FALSE
    BY DEF NotAllTurnedAway
  <2>1. ~\E r \in Requests : Through(r)
    BY DEF Through, PastLocks, BothLocksHeld, InTransaction
  <2>2. \E t \in Requests : pc[t] = "lock2"
    BY <2>1 DEF ContentionInv, SomeoneIsLeft, Waiting
  <2>. QED
    BY <2>2
<1>. QED
  BY <1>1, <1>2, <1>3, InvariantHolds, PTL DEF Spec

=============================================================================
