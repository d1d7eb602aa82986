# Settlr in TLA+

Formal models of Settlr, a peer-to-peer payment platform: a TypeScript monorepo
of seven services that share PostgreSQL, Redis and Kafka.  The models are
written from the source; paths below are relative to the repository.

| module | what it is |
|---|---|
| `Bank` | what the payment API promises its clients, without any machinery |
| `Transfer` | `paymentService.initiatePayment` and the Redis, PostgreSQL and Kafka it runs on; implements `Bank` |
| `MCTransfer` | small instances of `Transfer` for TLC |
| `TransferProofs` | theorems about `Transfer`, for any number of requests and accounts |
| `FiniteSums` | theorems about sums over finite sets, for balances and averages |
| `WebhookDelivery` | the dispatcher and the retry worker of webhook-service |
| `MCWebhookDelivery` | small instances of it |
| `WebhookProofs` | theorems about `WebhookDelivery` |
| `EventPipeline` | `publishEvent`, Kafka, and the consumer of webhook-service or notification-service |
| `MCEventPipeline` | a small instance of it |
| `EventProofs` | theorems about `EventPipeline` |
| `Sessions`, `MCSessions` | `authService`: register, login, refresh, logout |
| `SessionProofs` | theorems about `Sessions` |
| `Clock` | the clock that TTLs and windows share |
| `RateLimit` | the gateway's limiter on Redis |
| `FraudEngine` | fraud-service's check of one sender's payments |
| `Screening`, `MCScreening` | both of them, as a payment meets them |
| `ScreeningProofs` | theorems about the limiter, the velocity rule, the amounts on record and the score |
| `Checkout`, `MCCheckout` | the send-money page and the gateway, over `Bank` |
| `AccountReads`, `MCAccountReads` | cached views of an account while payments are made |
| `ReadProofs` | theorems about `AccountReads` |
| `Startup` | how the services come up: migrations, Redis, Kafka, restarts |
| `LiveSocket` | the browser's live connection and the gateway's clients |
| `EdgeProofs` | theorems about `Startup`, `LiveSocket` and `Checkout`, which share nothing |

`PROJECT.json` holds the machine-readable side: which lines each definition
models, the runs, the mutants that show each property can fail, the hazards and
the theorems.  To run: `tlc -config Transfer_calm.cfg MCTransfer.tla`,
`tlapm TransferProofs.tla`.

## 1. The system

    settlr-ui --> api-gateway --> account-service  (sessions, accounts, cached reads)
                       |--------> payment-service --> fraud-service
                       |--------> webhook-service
                       `--------> admin-service ---> fraud-service
    payment-service, webhook-service --Kafka--> webhook-service, notification-service
    PostgreSQL: accounts, transactions, ledger_entries, webhook_*     (all services)
    Redis: account locks, idempotency, sessions, read caches, rate limits, fraud counters

| component | state it keeps | operations | what is hard | what makes it correct |
|---|---|---|---|---|
| **payment-service** `payment.service.ts` | transactions, balances, ledger, `idempotency:*`, `lock:account:*` | `initiatePayment` (17 steps) | same key twice, opposite transfers, locks that outlive their holder, errors after COMMIT, crashes | a key pays once; no update lost; ledger explains balances; answers and events are true; requests end, locks are freed |
| **packages/redis** | lock keys, rate-limit counters | `acquireAccountLocks`, `releaseAllLocks`, `slidingWindowRateLimit` | DEL does not ask whose lock it deletes; INCR and PEXPIRE are two steps; windows aligned to the clock | mutual exclusion while nobody outlives the TTL; no lock is kept for ever |
| **packages/kafka** | broker topics, consumer's set of seen event ids | `publishEvent`, `createConsumer` | un-awaited sends; handler errors swallowed and the offset committed; dedup set emptied at 10 000; events keyed by trace id | an event is about something that happened; it is handled at least once, and once if it arrives twice |
| **packages/database** | pool, session timeouts, schema | `db`, transactions, `runMigrations` | orphaned transactions hold row locks; two services migrate at once | they end; nobody serves on half a schema |
| **webhook-service** | `webhook_endpoints`, `webhook_deliveries` | dispatch, retry, deactivate | polls overlap; stale attempt numbers; crash between INSERT and outcome | delivered means accepted; all attempts are made; every retry ends |
| **fraud-service** | velocity counters, last amounts, recipients' senders | six rules and a score; admin approve / block | INCR and EXPIRE apart; an amount that is part of its own average; one rule failing while the others write; commands sent twice; approve and block do not look at the status | a burst is noticed; the counter counts no check outside its chain; nobody is blocked without a record |
| **account-service: sessions** | `refresh:*`, users, primary accounts | register, login, refresh, logout | refresh is GET then SETEX; account creation is check then insert | an address is registered once; a displaced token stays displaced and buys no more; sessions only yield to later ones |
| **account-service: reads** | caches of first pages, statistics, charts | read-through with TTLs of 5 s to 5 min; payment-service deletes keys | reader fills the cache after the writer has deleted it; pages shift between reads, and the browser keeps some of them | a stale entry needs such a race, and ends by the TTL; paging shows everything, but for what an old entry hides |
| **api-gateway** | Redis counters, set of WebSocket clients | auth, rate limit (fails open), proxy with a 30 s timeout | INCR and PEXPIRE apart; answers 502 while the payment goes on | the limit holds in each window; a timeout leaves the outcome unknown, never false |
| **notification-service** | none | four topic handlers, e-mails | redelivered and lost events | as packages/kafka |
| **admin-service** | none | proxy to fraud-service | | |
| **settlr-ui** | the review page's key; the live socket and its timer | pay, try again, go back, leave; connect, reconnect | attempts given up go on; a new review draws a new key (`ReviewAndConfirm.tsx:49`); sockets close late | a success shown is a payment made; a review is paid once; one connection, or one way back to it |

How they fit together here: `Transfer` implements `Bank`, and `Checkout` puts the
browser and the gateway in front of `Bank`; `Screening` is what a payment meets
before `Transfer` (which lets the fraud check answer anything); `EventPipeline`
carries what `Transfer` publishes, `WebhookDelivery` is one of its handlers;
`AccountReads` has the keys that `Transfer` deletes in `InvalidateAndPublish`.
`Startup` is what precedes all of them, and `LiveSocket` stands by itself.

## 2. `Transfer`: a payment from request to answer

### How the model corresponds to the code

A request is a member of `Requests` with an `order` (key, from, to, amount).  A
client's retry is another request whose order has the same key.  Each action is
the code between two awaits, and `pc[r]` names the await the request is at.

| action | code |
|---|---|
| `CheckIdempotency` | `payment.service.ts` 59-74: the cache is looked up once, then the order is validated |
| `AcquireFirst`, `AcquireSecond`, `ReleaseAfterDenial` | `redis/client.ts` 139-167: `SET NX EX 10` on both accounts in sorted order; the first lock is released when the second is denied, but not when it throws |
| `FraudCheck`, `PublishFraudBlocked` | 91-137: the two account lookups and the call to fraud-service, which may answer anything and whose silence means "approve" |
| `LockSender`, `LockRecipient` | 145-165: `SELECT ... FOR UPDATE NOWAIT`, then the status checks |
| `UpdateBalances` | 167-192, with the loop around it (235-247): balance check, optimistic version check, three tries |
| `InsertRows` | 194-231: transaction (UNIQUE key), two ledger entries, fraud signals |
| `Commit` | everything the transaction wrote becomes visible, from the two rows it read; the answer to COMMIT may be lost |
| `CacheResponse`, `InvalidateAndPublish` | 256-306: SETEX, eight DELs, `payment.completed` sent without waiting |
| `PublishFailed` | 308-323: the catch block, reached by every error thrown after the locks were taken, including those after COMMIT |
| `ReleaseFirst`, `ReleaseSecond` | 325-329: the finally block, whose own error replaces the answer |
| `DeliverCompleted`, `Crash`, `AbortOrphan`, `ExpireLock`, `ExpireResponse`, `DatabaseError` | what the world does meanwhile |

Redis locks have no owner, as in the code: `redisLock` is the set of keys that
exist, and what a request *believes* to hold (`Holds`) follows from `pc`.  The
rows a transaction has read are `fromAccount` and `toAccount`; the values it
commits are computed from them and not from the table.

`Faults` says what the environment may do besides delaying: Redis, SQL and
Kafka failures (applied or not, as seen from the caller), ioredis resending a
command whose answer was lost, crashes, requests that outlive the 10 s TTL, and
idempotency entries that reach their 24 h TTL.

Decisions worth knowing:

- Account ids are numbers and `<` is the code's `sort()` of the UUIDs, which
  reach the code in one spelling.
- `accounts.status` does not change while requests run: payment-service never
  writes it.
- Money is in paise, as in the code after the handler; parsing is not modelled.
- A crash takes one request, not all of a process; that includes the whole
  process dying, as several may crash in a row.
- The row of a transaction that dies before COMMIT blocks a second INSERT of its
  key in PostgreSQL only until the session ends; the model does not let it block
  at all, which gives more behaviours and not fewer.
- An un-awaited `payment.completed` may be dropped under `"kafka"` or `"crash"`.

### What `Bank` promises

Each request is answered at most once.  Money moves at one instant, at most once
per key, only between different active accounts, only if the sender can pay, and
never for a request that has been answered.  "ok" is said only of a key that has
moved money and "refused" (a 4xx) only to a request that has moved none.
"unknown" (HTTP 500) promises nothing, and the code needs it: an error after
COMMIT is answered that way.  `ImplementsBank` maps `moved` to `rows` and the
answer to `outcome` once `pc` is `done`.

### Runs

| run | instance | properties | shows |
|---|---|---|---|
| `transfer_faults` | 2 requests, 6 accounts (one frozen, one missing), 11 orders incl. every kind that is turned down, all faults | `OneTransferPerKey`, `EventsAreTrue`, `ReadsStayCurrent`, `LedgerExplainsBalances`, `MoneyIsAccountedFor`, `MoneyMovesInPairs`, `ImplementsBank` | whatever fails, a key pays once, `payment.completed` is true and a blocked payment is not paid; the row locks alone prevent lost updates when Redis locks expire; table, ledger and transactions agree; the service implements `Bank` |
| `transfer_calm` | 3 requests, 3 accounts, every pair in both directions, no faults | `LockHoldersAreAlone`, `NotAllTurnedAway` | the Redis locks exclude each other, and sorting the ids is what keeps rivals from turning each other all away |
| `transfer_live` | 2 requests, one order and its reverse, fair | `EveryRequestEnds`, `LocksAreFreed` | requests end and no Redis or row lock stays for ever, with leaked locks and orphaned transactions |
| `duplicate` | 2 requests, no faults | `DuplicatesDoNotFail` violated | see findings |

Two requests are enough for every pairwise conflict (same key, same account,
opposite directions), a Redis lock that expires under its holder among them;
three are used where a third matters, in the ring of `transfer_calm`.  That a
third request enters when A deletes the lock B has taken changes nothing for
the row locks: `NoLostUpdate` is proved for any number.  Balances of
3 against amounts of 1, 2, 3 and 4 let an account pay once but not twice, just
about once (the boundary of the balance check), and not at all.  The code draws no
distinction between more keys than "the same" and
"another".  Requests are symmetric (every order is open to each), and symmetry is
off in the liveness run.  Deadlock is checked in every run: `Terminated` is the
only place to stop.

### Fairness

`FairSpec` assumes that a request that has begun takes its next step, that Redis
honours TTLs, that PostgreSQL ends broken sessions, and that the un-awaited send
settles.  The code justifies each: the event loop runs what is ready; every await
has a timeout (fraud-service 5 s, statements and pool in `database/client.ts`,
`maxRetriesPerRequest` in `redis/client.ts`); locks are set with EX;
`idle_in_transaction_session_timeout` is 5 s.  A request need not arrive
(`pc[r] # "idle"` guards its fairness), nothing is assumed about a fault, and
fairness is weak throughout.

### What is proved (`TransferProofs`)

For any number of requests, accounts and keys, any orders and any faults:

| theorem | statement |
|---|---|
| `TypeCorrect` | `Spec => []TypeOK` |
| `KeysMoveMoneyOnce` | `Spec => []OneTransferPerKey` |
| `NoLostUpdate` | `Spec => []ReadsStayCurrent` |
| `EventsTellTheTruth` | `Spec => []EventsAreTrue` |
| `DoubleEntry` | `Spec => MoneyMovesInPairs` |
| `LedgerIsAnAuditTrail` | `Spec => []LedgerExplainsBalances` |
| `MoneyIsExplained` | `Spec => []MoneyIsAccountedFor` |
| `MoneyIsConserved` | finitely many accounts: `Spec => []TotalIsKept`, the sum of all balances is that of the opening ones |
| `ServiceImplementsBank` | `Spec => ImplementsBank` |
| `LocksExclude` | without `"redis"` and `"slow"`: `Spec => []LockHoldersAreAlone` |
| `OneGetsThrough` | without `"redis"`, one request at least: `Spec => []NotAllTurnedAway` |

They rest on the assumptions on the constants named in `Transfer` and on
`InvariantHolds: Spec => []TransferInv`.  None of the safety properties is
inductive alone; `TransferInv` adds what the code has established by each await:

- `RowsLocked` - inside the transaction the row locks are the request's own.
  Without it `ReadsStayCurrent` fails at another request's commit.
- `OrdersChecked` - validation, status and balance check are behind.  It gives
  non-negative balances (`TypeOK`) and the guards of `Bank!Move`.
- `KeyIsFree` - a transaction that has passed its INSERT is the only one with its
  key.  This is what makes `OneTransferPerKey` survive `Commit`.
- `OutcomesAreTrue` - before COMMIT no money has moved, and a refusal is never
  pending for a request whose money has.
- `CacheIsTrue` - a cached answer belongs to a committed transfer of its key, so
  "cached" refines `Bank!Confirm`.
- `EventsAreFinal` - what is in flight is committed; what was announced as
  blocked is past the point of paying.

The proof that it is inductive treats the actions one by one, grouped by what
they disturb (`OutsideStep`, `InsideStep`, `Expiry`).  The refinement shows that
`Commit` is `Bank!Move`, that a step into `done` is `Confirm`, `Refuse` or
`GiveUp`, and that all others stutter.  The ledger theorem adds an induction over
`Commit` only, as no other step touches ledger or balances (`OnlyCommitWrites`).
`LocksExclude` adds that every lock somebody believes to hold exists in Redis.

The two theorems about money are inductions over `Commit` too.  What an account
was paid and has paid are sums over the committed rows, and one row more adds its
amount to one sum of each side (`PaidWithOneMore`, from `SumWithOneMore`); the
total is a sum over accounts, of which one loses what another gains
(`SumOfMoved`).  `FiniteSums` proves these of the community modules'
`SumFunctionOnSet`.  That needs induction over finite sets, which it takes from
the least-number principle stated of a set of numbers (`LeastNumber`, `BySize`)
instead of from the library's theorems with an operator parameter.

`OneGetsThrough` is the reason for the `sort()` in `acquireAccountLocks`, for any
number of requests in any rings.  `ContentionInv` says that somebody has got past
both locks, or been answered anything but ACCOUNT_LOCKED; or else that every key
in Redis has its holder, that a request denied its second lock leaves another
that holds a first lock no lower than the one denied and asks for its second
(`SomeoneIsLeft`), and that so does whoever has been answered ACCOUNT_LOCKED.  Each
denial passes on to a request further up in the order of the ids, so that
the chain cannot close.  It needs that Redis answers: a command that is
applied and then throws leaves a key that nobody holds.  Crashes, slow requests
and SQL failures need not be excluded.

## 3. `WebhookDelivery`: dispatch and retries

Rows of `webhook_deliveries` are `Deliveries`; `status`, `endpoint`, `attempt` and
`due` are their columns (`due`: `next_retry_at` has passed).  The workers are the
Kafka handler (`Dispatcher`; kafkajs runs one handler at a time) and calls of
`processRetries` (`Polls`).  `setInterval` starts a poll every 10 s, finished or
not the one before, and a batch of 50 rows with 5 s each may take minutes: polls
do overlap.  `batch` and `job` are the rows *as the worker read them*; the code
compares the attempt number of that copy with the number of retries but
increments the one in the table.

| action | code |
|---|---|
| `HandleEvent`, `CreateDelivery` | `dispatcher.ts` 16-40 |
| `Poll`, `Rest` | `retryWorker.ts` 9-41, `findPendingRetries` |
| `LookUp`, `Retire` | `retryDelivery`, 123-131 |
| `Post`, `RecordDelivered` | `attemptDelivery`, 42-83: 2xx, another status, or no answer, and then the receiver may have taken it in; a failing `markDelivered` falls into the catch block |
| `ScheduleRetry`, `Announce` | `scheduleRetry`, 85-121; called from the try block it may throw and be called again from the catch block |
| `BecomeDue`, `Deactivate`, `Crash` | time, the owner, the operating system |

A statement that fails may have been applied.  A redelivered Kafka event is a
further `HandleEvent`.  `MaxFailures` bounds failed statements, failed sends of
the failure event and crashes together.  Row order within a batch and the LIMIT
of 50 are left open: a poll takes all due rows, in any order.

| run | instance | properties | shows |
|---|---|---|---|
| `webhook_overlap` | 1 row, 2 overlapping polls, 2 retries, 2 failures, fair | `DeliveredWasAccepted`, `GivenUpAfterAllAttempts`, `NothingLeftPending`, `RetriesEnd` | stale copies never make a row say "delivered" wrongly, cost an attempt only to a failure, and never retry for ever; a failure strands at most one row in "pending", where no poll looks |

The real service has four retries; one and two are enough to have a first, a
middle and a last attempt, and one row suffices for two polls to collide on.
`CHECK_DEADLOCK` is off: with every row handled the service has nothing to do
until an event comes.  Fairness is weak: polls keep being started, workers move
on (`fetch` is aborted after 5 s, statements time out), `next_retry_at` passes;
events need not come.  Failures are bounded, which is the assumption behind
`RetriesEnd`: a service that crashes for ever delivers nothing.

`WebhookProofs` proves `DeliveryTypes`, `DeliveredMeansAccepted`,
`AllAttemptsAreMade` and `FailuresLeaveOneRow` for any number of rows, endpoints,
polls, retries and failures, from `DeliveryInv`:

- `SnapshotsAreOld` - a worker's copy is never newer than its row.
- `AttemptsWereMade` - the attempt number in the table plus the workers that have
  sent and not yet counted (`Uncounted`) is at most the POSTs plus the failures
  plus one.  With the previous part it shows why a stale copy cannot give up
  early: the copy's number is at most the table's, and that was paid for.  The
  proof counts a finite set that each action grows or shrinks by one worker.
- `WorkersAreRight` - whoever is about to write "delivered" has been accepted;
  whoever is about to announce a failure has spent the attempts.
- `DispatcherDispatches` - only polls retry, so the dispatcher's row is new.

## 4. `EventPipeline`: from `publishEvent` to a handler

One consumer group that is one process.  Kafka is a log per topic and partition
(`log`) and the group's `committed` offsets; the process keeps `pos` (what it is
done with), `seen` (`processedEventIds`) and the message it is `at`.  `acted`
tells whether the handler has sent its e-mail or written its row; `effects`
counts that per event.

| action | code |
|---|---|
| `Publish` | `producer.ts` 88-136; kafkajs retries a send, so an event may be lost, or stored twice |
| `Receive` | `consumer.ts` 111-149: parse, skip what is in `processedEventIds` |
| `Act` | the handler; for notification-service, `sendEmail` |
| `Remember` | 149-160 with `pruneDeduplicationSet` (51-68), which empties the whole set |
| `GiveUp` | 161-178: the handler throws, before or after it acted; the error is logged and the message is done with |
| `CommitOffset`, `Rebalance`, `Crash` | kafkajs' autoCommit, Kafka, the operating system |

Decisions: messages are handled one at a time, as kafkajs does unless told
otherwise; a rebalance during a handler shows once the handler is done; the
group exists already, so that offsets start at 0 (`fromBeginning: false` makes a
new group skip what is there).  `Poison` are events whose handler always throws;
any other handler may throw as one of `MaxFaults` faults.  An event has one
effect: that `handlePaymentCompleted` sends two e-mails is not told apart.

| run | instance | properties | shows |
|---|---|---|---|
| `events` | 3 events in 2 topics, 1 of them poison, room for 1 id, 2 lost or doubled sends or rebalances, 1 crash or thrown error, fair | `NoneSkipped`, `RepeatsNeedAFault`, `StoredEventsAreSettled` | at-least-once up to a handler's own error; copies and rebalances are deduplicated while the id is remembered; a poison message blocks nothing |

With room for one id, the second handled event already empties the set, which is
the case of the 10 001st in production.  One partition per topic is the smallest
deployment, and the most ordered one; `Bucket` may be any function of the key.
`CHECK_DEADLOCK` is off: when all is published and handled there is nothing to do.
Fairness is weak, on receiving and on handlers, which end because their database
statements and HTTP requests time out; offsets need not be committed and
nothing need be published.

`EventProofs` proves `PipelineTypes`, `NoEventIsSkipped` and `RepeatsAreExcused`
for any events, topics, partitions, limits and faults, from `PipelineInv`:

- `NoneDropped` - `NoneSkipped` up to `pos` instead of `committed`; a commit may
  then happen at any time.
- `SeenHadEffect` - a remembered id was handled, so that skipping it drops
  nothing.  It fails if the id is remembered before the handler returns.
- `HandsAreNew` - the message in hand is not remembered.
- `EffectsAccounted` - effects beyond the faults and prunes so far are at most
  one, and that one is remembered or in hand.  A crash loses the memory but is
  itself counted.

## 5. `Sessions`: register, login, refresh, logout

A user has one refresh token at a time, in `refresh:<userId>`.  Requests stop at
every await of `auth.service.ts`; a token is named by the request that made it,
since `tokenId` is a random UUID.

| action | code |
|---|---|
| `Begin` | a call arrives; a token too old for `jwt.verify` is refused at once (93-99) |
| `FindByEmail`, `CreateUser` | 36-42 and 66-80; `users.email` is UNIQUE, the look-up before it is not enough |
| `StoreToken` | the SETEX of 48, 83 and 114, whatever is stored by then |
| `FindPrimary`, `InsertPrimary` | `getOrCreatePrimaryAccount`, `auth.repository.ts` 38-60: SELECT, then INSERT without a constraint |
| `CheckStored`, `FindById` | 101-112 |
| `Logout` | 120-125, with the key the handler really passes (section 11) |
| `Fail`, `FailAfterWrite`, `StoreResent`, `Expire` | an await throws, its write applied or not; ioredis sends a SETEX again; the 7 days pass |

A crash is many requests failing.  `is_active` is always true: `deactivate()` has
no caller.  A wrong password and an inactive user are one refusal.  `before[r]`
(who had ended when r came) is history.

| run | instance | properties | shows |
|---|---|---|---|
| `sessions` | 1 user, 4 requests of any kind, all faults | `OneRegistration`, `SecondAccountOnlyByOverlap`, `SessionsYieldToLaterOnes`, `DisplacedForGood`, `OneExchange` | the races the code leaves open, and that it leaves open no others: second accounts and double exchanges need requests that overlap, a confirmed session yields only to one not over when it came, a displaced token never returns |

Users share no row and no key but `refresh:undefined`, which nobody reads, so one
user is enough; four requests hold a sign-in, two refreshes that race and a third
party.  All requests start alike: symmetry.  Deadlock is checked; there is no
liveness to ask for, as nobody waits on anybody.

`SessionProofs` proves all five, and the types, for any users, requests and faults.  `TypeInv`
ties the await to the operation; to it `ExchangedOnce` adds `Presents` (a token
that bought tokens is not stored, and by `DisplacedStayDisplaced` never will be),
`RegisteredAtMostOnce` adds `RegisteredOnce` (whoever is past the INSERT made the
row), `SecondAccountsOverlap` adds `AccountsInv` (a request about to insert saw no
account made before it came), and `SessionsYield` adds `Yields`, its property from
the SETEX on instead of from the answer on.

## 6. `Screening`: the limiter and the fraud check

`RateLimit` is `slidingWindowRateLimit` (`redis/client.ts` 199-232) with the
middleware that lets a request through when Redis fails.  INCR, PEXPIRE and PTTL
are three awaits (`Increment`, `SetTtl`, `TurnAway`); a command may throw, applied
or not (`FailOpen`), or be sent twice (`IncrementResent`).  Time is in ticks, and
a request's window is that of its arrival, as `Date.now()` is read once.

`FraudEngine` is `POST /fraud/check` for one sender.  The rules run in
`Promise.all`; the two that keep state of the sender are awaited command by
command:

| action | code |
|---|---|
| `CountCheck`, `ExtendVelocity` | `velocityRule.ts` 7-8: INCR, then EXPIRE, which does nothing when the key has gone in between |
| `RepeatVelocity` | `redis/client.ts` 27-33: the answer to either is lost, and ioredis sends it again |
| `RecordAmount`, `TrimAmounts` | `amountAnomalyRule.ts` 8 and 10: ZADD, then ZREMRANGEBYRANK; other checks see the untrimmed set |
| `Judge` | ZRANGE and the comparison, after which the score is summed up |
| `FailVelocity`, `FailAmount` | a command throws, applied or not, at any of these awaits |

The two rules touch different keys, so the model puts one before the other.
`RoundFires` is a function of the amount; the rules on the hour, the account's age
and the recipient depend on others and fire as `Elsewhere` allows.  When a rule
throws the check fails and payment-service takes that for an approval, but what
the other rules write stays.  The order of the ZADDs is taken for that of the
times they carry as scores.  A ZADD or ZREMRANGEBYRANK sent again does nothing new
(unless another ZADD came between, which is another order of the two).  The ages
of amounts (30 days) are beyond the clock.

`Screening` puts them in a row: a request that has `passed` may come to be checked.

| run | instance | properties | shows |
|---|---|---|---|
| `screening` | 2 requests, 3 ticks, windows of 2, limit 1, TTL 2, 1 Redis fault, 1 rule that fails or command that is sent again; a sender with two checks just before and two or six amounts on record, six being kept | `LimitHolds`, `CountersWillGo`, `BurstsAreNoticed`, `CountedInAChain`, `BlockedForARecord` | a window grants no more than the limit; a counter for ever needs a fault; no check is forgotten for 60 s after an EXPIRE; the counter counts none outside a chain; a block needs the sender's own record |

Bounds: two windows and a boundary between them; a limit of one puts every second
request over it, and two earlier checks let the fourth of a chain happen; of six
amounts, the fewest with which the amount rule can fire, a record holds all and
two, and a seventh is there between ZADD and ZREMRANGEBYRANK.  `Elsewhere` makes
all other rules fire, the case nearest to a wrong block.  `CHECK_DEADLOCK` is off:
the clock stops.  A tick may fall between any two commands.

The velocity counter is measured from both sides, and from histories only: the
times of the INCRs (`checkedAt`) and of their EXPIREs (`extendedAt`), and where each
EXPIRE found the counter (`renewals`).

- `BurstsAreNoticed` is the bound below, under every fault: within 60 s of an
  EXPIRE the counter goes on from where that EXPIRE found it.  What it does not
  say is that any four payments within 60 s are noticed, as that is false: the old
  key may go between a check's INCR and its EXPIRE, and then nothing has counted
  this check.
- `CountedInAChain` is the bound above.  A link of the chain is less than 60 s from
  an EXPIRE to a later INCR; a gap between INCR and EXPIRE is no gap of the chain.
  A rule that fails, or an INCR sent again (`hurt`), does break it: the counter
  counts a check twice, or one that is on no list.
- `BlockedForARecord` asks for a fourth check *of the chain* (`RunTo(place[c]) > 3`),
  or six amounts.

What the properties say of the code's own words: "sliding window" is a window
aligned to the clock, so a minute across a boundary lets twice the limit through;
"more than 3 transactions in 60 seconds" is a chain that four payments 50 seconds
apart also make; "at least 3 data points" are six.

`ScreeningProofs` proves all five, and the types, for any number of requests and
ticks and any limit, window and TTL.

- `LimitIsKept`, from `LimitInv`: a key outlives its window, so until the window
  ends every request it granted is in the count.  `CountersExpire` is inductive
  with it.
- `BurstsNoticed`, from `BurstInv`: while a renewal lasts, the key's expiry is not
  before its end, and the counter has grown by each check since (`LastingInv`).
- `CounterWithinChain`, from `ChainInv`: some check keeps the key, its EXPIRE to
  come or less than a TTL ago, and so the next check is linked to it.  Both rest on
  `PlacesInv`: a check whose EXPIRE is to come has a place of its own.
- `ScreeningTypes`: among the types, that no amount is on record twice, and that
  more than `KeptAmounts` are by no more than the checks (`Untrimmed`) that are
  between ZADD and ZREMRANGEBYRANK, or have failed.  ZADD takes a member out before
  it puts it in again (the community modules' `RemoveFirst`); what that does to a
  sequence without repetitions is the first section.
- `BlockedForReason`, from `RecordInv`: a signal of the velocity rule has a place
  in a chain, a signal of the amount rule six amounts.  A check judges after its
  own amount was recorded, and the amount is on the record still unless as many as
  are kept have come since.  An amount on record is part of the sum it is compared
  with, so five times the average of fewer than six cannot be exceeded
  (`SixAmountsAtLeast`, with `SumIsAtLeast` of `FiniteSums`); the other four rules
  come to 50, and 60 blocks (`OthersCannotBlock`).  The theorem assumes that six
  amounts are kept; the code keeps 20.  With fewer it would be false, as an amount
  could have been pushed out of the record it is judged by.

## 7. `Checkout`: paying once, as the user sees it

The send-money page (`SendMoneyPage.tsx`, `ReviewAndConfirm.tsx`,
`api/client.ts`), the gateway's payment route, and payment-service as
`INSTANCE Bank`, which `ServiceImplementsBank` justifies.  A visit is one mounting
of `ReviewAndConfirm`, and its `useRef` draws one idempotency key.

| action | code |
|---|---|
| `Review`, `GoBack`, `Leave` | the stepper, Go Back and the arrow in the header, which unmounts a page that still waits |
| `HandleConfirm` | `ReviewAndConfirm.tsx` 66-78, from Confirm or Try Again, not while `isPending` |
| `ShowAnswer` | 80-93 with the interceptor of `api/client.ts`: 401 leads to /login |
| `GiveUpWaiting` | 10 s in the browser, a broken connection, or the gateway's 502 after its own 30 s; the request goes on |
| `Forward`, `Reject` | `payment.routes.ts` 21-62 behind limiter, validation and `authMiddleware` |
| `Serve` | any step of `Bank` for a request that came through |

| run | instance | properties | shows |
|---|---|---|---|
| `checkout` | 3 visits, 4 attempts, 2 accounts with money for a payment per visit | `SuccessIsPaid`, `PaidOncePerReview`, `PaidTwiceOnlyAfterUnknown` | "Payment Successful!" is true of this review, were it by an attempt given up; a review pays once; paying again takes a review whose attempt had no definite answer |

`SuccessIsPaid` and `PaidOncePerReview` are why the key belongs to the review and
not to the attempt (the unused `components/send/ConfirmStep.tsx` has it the other
way).  The third property is the honest bound: "Transaction Failed" is also said
of a time-out and of a 500, and a user who then goes back and reviews again may
pay twice.  A browser that reloads is a `Leave`.  Nothing here must happen, so
there is no liveness, and deadlock checking is off (a success is the end).
`EdgeProofs` proves all three, and the types, for any number of visits and attempts, from
`CheckoutInv`: requests carry the key of their review, `Bank`'s promises of those
that reached it, and that every attempt but the one awaited was given up, refused,
or was the end of it.

## 8. `AccountReads`: cached views while payments are made

One account, and readers of one view of it (others use other keys): `usual`, a
list of the default length, whose page 1 payment-service deletes; `other`, a list
of another length, whose key it does not know (nor that of a chart of other than 7
days); `payments`, payment-service's list with its separate COUNT; `stats`, put
together from several queries.

There are two caches, one for each kind of view.  Redis has page 1 of
account-service's views (`account.service.ts` 57-71, 177).  `payments` is in no
Redis cache, but `TransactionsPage.tsx` 32-36 keeps each of its pages in the browser
for 10 s, under a key with the page's number; the readers of this view are walks in
one browser, and a payment's answer (`useSendMoney.ts` 16-24) invalidates all pages
at once (`Cleared`).  (`App.tsx` mounts the one-page `TransactionHistoryPage` and
not `TransactionsPage`; the model has the latter, the only one that pages.)

| action | code |
|---|---|
| `Begin`, `Commit`, `DeleteKey` | `created_at` is the time of BEGIN; after COMMIT the DELs of `payment.service.ts` 263-272, which may fail or never be sent, or the invalidation in the browser, which may never come either (another device) |
| `Review` | approve and block, `fraud.routes.ts` 87-116: the row, no check of its status, no cache; admin-service proxies them.  Only payments in `Flagged` are shown to an administrator |
| `Hit`, `Miss`, `Read` | `account.service.ts` 57-71: GET, then the query or queries, each a snapshot; a page the browser has asked for already is not asked for again (`Asked`) |
| `Refuse` | account-service's ownership check, whose failure discards what was read |
| `AnswerFromCache`, `AnswerFromTable` | the page is shown, stored (`SETEX` only if it gets through), and the next page asked for if `hasMore` |
| `Expire` | the TTLs of 5, 60 and 300 s, and the 10 s in the browser |

| run | instance | properties | shows |
|---|---|---|---|
| `reads` | any view, 2 readers, 1 old payment and 2 new ones, 1 row a page, 1 review, fair | `StaleIsRaced`, `WalkShowsAll`, `StaleEntriesGo` | an entry lacks a payment that deleted its key only if its reader had missed the cache before that DEL; paging to the end shows all that was there when page 1 was asked for, but for what an old entry hides and for a commit between COUNT and rows; staleness ends |

`WalkShowsAll` counts from the moment the reader asks for page 1 (`unseen` starts
from `Committed`), not from what it is given: page 1 may be an entry seconds old.
So it names its exceptions, each at the step where it arises:

- an entry of page 1 lacks a payment that has not deleted the key, or did while
  the entry was read: that payment (`hidden`);
- an entry of a later page, which only the browser has, lacks such a payment: rows
  may have moved past that page, and whatever was to be shown yet is excused;
- a payment committed between COUNT and rows (`torn`), or an entry read like that.

An entry that lacks nothing of what is committed excuses nothing.  With entries of
later pages that no payment deletes (account-service caching every page, the
mutant) a walk misses payments it has no excuse for.

Two payments committed while a reader pages move a row by two pages of one.  A
second reader fills the cache the first one finds.  Fairness is weak: while there
are requests one goes on (awaits time out), and while there are entries one
expires; payments need not come, nor their DELs.  Transactions and ledger entries
are read alike and modelled once.  Rows with equal `created_at` are left out: ranks
are distinct, so no order is left to chance.  A page that is more than 10 s old is still on display until its new
answer is there, but "Load more" is disabled while `isFetching`
(`TransactionsPage.tsx` 122-126): a walk goes on only from the answer, which is what
the model takes for shown.  It leaves out that the page on display is asked for
again when it is invalidated.

`ReadProofs` proves the two invariants, and the types, for any payments, readers and page
size.  `CacheInv` adds to `StaleIsRaced` the same of a reader's hands
(`ReadOrRaced`).  `WalkInv` says of a reader at page n that what it is owed (not
shown yet and not hidden) is in the table beyond n-1 pages (`OwedBeyond`), and in the
rows it has in its hands (`OwedInRows`): a commit only pushes rows back, which takes
lemmas on the place of a row in a set that grows.  That an entry it hits lacks
nothing owed (`HitKeeps`) follows from `StaleIsRaced`.

## 9. `Startup`: coming up, and staying up

`at[p]` is the step of `start()` a service is at, from the list `Start[p]`: what
it needs (a failure ends the process), and what it only tries (a failure
is logged).  `docker-compose.yml` restarts what has exited.

| action | code |
|---|---|
| `SkipFile`, `RunFile`, `CommitFile`, `MigrationFails`, `Migrated` | `runMigrations`, `database/client.ts` 124-150: a file is one `db.raw` and so one transaction; "already exists" is passed over, any other error thrown, and no `start` catches it |
| `ConnectRedis`, `Ready` | `connectRedis`, `redis/client.ts` 51-62, from `start` and from the gateway's `GET /ready` |
| `LoseRedis`, `Reconnect` | ioredis with the `retryStrategy` of 29-33; after it has given up only `connectRedis` connects again |
| `ConnectProducer`, `CreateConsumer` | `producer.ts` 59-72, `consumer.ts` 93-108; webhook-service needs its consumer, notification-service does not |
| `Restart`, `Fails`, `Recovers` | docker-compose, the world |

The two services that migrate do so without a lock.  What one has not committed
the other does not see, so both may run a file; PostgreSQL lets the second wait,
and then fails it with a duplicate key in its catalog, whose message says nothing
of "already exists": that service exits and starts again.  `depends_on` and health
checks are left out, as they only delay starts that may be delayed anyway.

| run | instance | properties | shows |
|---|---|---|---|
| `startup` | account, payment, gateway, webhook and notification on an empty database, 1 outage of anything, 1 retry of Redis, fair | `TypeOK`, `ServesOnFullSchema`, `AllServeInTheEnd` | neither the race nor an outage between two files lets a service serve with a table missing, and all serve in the end |

fraud-service starts like the gateway and admin-service needs nothing; the run
leaves them out.  One outage meets every step of every start, also the second
start after a lost race.  Fairness: processes go on, docker-compose restarts
(`restart: unless-stopped`), outages end.  Nobody has to call `/ready`, which is
why "in the end Redis is connected" is no property: account-service only tries
Redis, its client gives up after the retries, and it serves on without; so does
notification-service without its consumer.

`EdgeProofs` proves the types and `ServesOnFullSchema` for any of the services, any outages
and retries.  Two facts make it inductive.  A file is in the database as a whole or not
at all, although two services run them at once (`FilesAreWhole`): a file is one
transaction, and no two files create the same table, so an "already exists" is
about one's own.  And what a service has gone past is there, and it goes past
all before it does anything else (`PastIsThere`), a restart beginning anew.

## 10. `LiveSocket`: the live connection

`hooks/useWebSocket.ts`, mounted with `AppLayout`, and the gateway's `clients`.
A layout is one mounting; its refs (`mounted`, `retries`, `wsRef`, `timerRef`) are
what its sockets' callbacks use, at whatever time they run.

| action | code |
|---|---|
| `Mount`, `Unmount` | the effect, 32-41 and 94, and its cleanup, 96-105 |
| `OnOpen`, `OnClose` | 47-51, 75-86 |
| `TimerFires` | `setTimeout(connect, delay)`, 85, with the checks of `connect`, 36-45 |
| `Accept`, `ClientGone` | `api-gateway/src/index.ts` 73-89 |
| `GoDown`, `ComeUp` | the gateway goes away with its connections, and returns |

A delay is any time (the backoff only makes it longer).  A socket that is closed,
and has neither timer nor client left, may be used for a new connection; that
bounds the model and not the number of connections.

| run | instance | properties | shows |
|---|---|---|---|
| `live` | 2 layouts, 3 sockets, 3 retries, 2 outages, fair | `OneWayBack`, `ConnectedIsTrue`, `ConnectedInTheEnd` | a mounted layout has one connection, or one reconnect pending, or has given up; what it shows as connected is so; it ends connected or having given up |

Three sockets are one that lives, one that closes late and one of the layout
before; three retries let the count reach, miss and be reset from its limit (10 in
the code), and two outages let a reconnect fail after one that succeeded.
Fairness: browser and gateway go on with what has happened, and the gateway is
restarted; a user may stay on a page.  A stop is a user who stays, so deadlock is
not checked.  Layouts are mounted one after the other, as the router shows one.

`EdgeProofs` proves the two invariants, and the types, for any layouts, sockets,
retries and outages.  `Belongs` says whose a socket is (a pending timer or
client belongs to the layout that made it; only the sockets of a layout that is
gone are closing, so that their late onclose finds `mountedRef` false).  With it
the three ways of `OneWayBack` are inductive as `Ways`, and `Truth` adds that the
socket in the ref is open when the hook says connected.

## 11. Findings

One run expects a violation of what a document of the repository says:

`duplicate` - `DECISIONS.md:113`: "Duplicate keys return the cached result without
executing again."  The cache is read once, before the locks
(`payment.service.ts:59`).  A duplicate that misses it, and takes the locks after
the original has released them, executes up to the INSERT, fails on the UNIQUE
index, is answered 500 and announced as `payment.failed`.  The money is safe
(`OneTransferPerKey`).

Divergences that need no run, as the models show them in passing:

- `DECISIONS.md:75`: "`payment.failed` - failed transfer".  A Redis error in the
  SETEX or the DELs after COMMIT lands in the catch block, which announces a
  committed transfer as failed (`PublishFailed` after `CacheResponse`).
- `DECISIONS.md:153`: "Enables instant logout - delete the Redis key and the
  refresh token is immediately invalid."  `POST /auth/logout` (`auth.routes.ts:12`)
  runs without `internalAuth`, so `req.userId` is undefined and the key deleted is
  `refresh:undefined` (`LogoutKey`); the token works on.
- `redis/client.ts:45`: `connectRedis` "Returns true if the connection is healthy,
  false otherwise."  It calls `redis.connect()` first, which ioredis rejects on a
  client that is connected; the gateway's `start` has made that call, so `GET
  /ready` answers 503 while Redis is fine (`Answer`).
- `database/client.ts:100`: "Runs all SQL migration files".  They are a list in the
  code, and `007_add_performance_indexes.sql` is not in it.
- `useWebSocket.ts:8`: "Handles React StrictMode double-mount gracefully."  The
  refs are shared by both runs of the effect: the first socket, closed by the
  cleanup between them, fires its onclose after `mountedRef` is true again, and
  schedules a connection beside the second's.  `OneWayBack` is about the production
  build, where a mounting runs the effect once.
- `006_create_webhooks.sql:17` gives the status flow "pending → delivered |
  retrying → failed".  The UPDATEs of `webhook.repository.ts` have no condition on
  the status, and overlapping polls of `WebhookDelivery` take rows out of their
  final status: an accepted webhook is sent again.
- `producer.ts:112`: the message key "guarantees ordering for events belonging to
  the same user action".  A blocked payment publishes `payment.fraud_blocked` and
  then `payment.failed`; these are two topics, and in `EventPipeline` a consumer may
  take the second first.
- `account.service.ts:43`: "Cache is busted on every payment completion", which is
  so for 20 rows and 7 days only; line 44: "balance is always read from DB", but
  the statistics cache a balance for 60 s.
- `payment.service.ts:261`: both sides "see the new transaction immediately",
  except for `StaleIsRaced`'s race.
- `velocityRule.ts:1`, "more than 3 transactions in 60 seconds", is neither: the
  counter counts a chain of attempts, each within 60 s of another's EXPIRE
  (`CountedInAChain`), and an old key that goes between INCR and EXPIRE takes a check
  of that minute with it.  `amountAnomalyRule.ts:15` and the limiter's name: section 6.
- `unusualHourRule.ts:9` fires until 5:59, its comment says 5:00.

## 12. Only model-checked

Every safety property that a run checks is also a theorem.  What TLC alone shows is
liveness (`EveryRequestEnds`, `LocksAreFreed`, `RetriesEnd`,
`StoredEventsAreSettled`, `StaleEntriesGo`, `AllServeInTheEnd`,
`ConnectedInTheEnd`), which is out of the prover's reach.  The violation is a
counterexample and has nothing to prove.

The other way round, the type invariants that are theorems (all but that of
`Startup`, which is both) are not checked again by the runs, nor
is `TotalIsKept`, which `MoneyIsAccountedFor` explains account by account.

## 13. Not modelled

- HTTP parsing, validation of bodies, the contents of JWTs, password hashing,
  e-mail texts, HMAC signatures, logging, views: no state that the properties tell
  apart.  Of the interface that is all but paying and paging.
- Reads that are one query without a cache (account row, weekly figures, recipient
  look-up, profile, metrics, flagged list), and `getTransactionDetails`.
- Writes of one statement that nothing else reads: the profile.
- `POST /fraud/signals`, `deactivate()`, the gateway's `broadcast` (and so the
  messages and cache invalidations of `useWebSocket.ts` 53-71), `components/send`,
  `disconnectRedis` and the interface's `logout`: nothing calls them.
- Half-open connections: neither side sends pings, so a client whose machine has
  vanished stays in `clients` until TCP notices.  An address that is no WebSocket
  address (`useWebSocket.ts` 89) ends the hook and has no state.
- The insides of kafkajs, ioredis and React: what the code relies on is modelled
  and marked external.
- Senders per recipient (`recipientRiskRule.ts`): a set that only grows until its
  TTL, shared by senders; `Elsewhere` lets the rule fire or not.
- Registering an endpoint while events are handled: endpoints exist from the
  start in `WebhookDelivery`; deactivation is modelled.
- Several consumers in one Kafka group and the graceful disconnect.
- Connection pools, except that waiting for one may time out (`DatabaseError`).
- Scripts, seeds and k6: not part of the running system.  Of the Docker files only
  the restart policy is used.

## 14. Where to go on

1. **Payment to webhook**, a composition of `Transfer`'s events, `EventPipeline`
   and `WebhookDelivery`'s `HandleEvent`.
2. Senders per recipient in `FraudEngine`, with several senders, and the effect of
   a blocked payment's retry on the counters.
3. The status of a transaction as `Transfer` writes it and an administrator
   rewrites it, once the code relates it to the ledger.
