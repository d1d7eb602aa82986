------------------------------- MODULE Startup -------------------------------
(***************************************************************************)
(* How the services come up, and stay up: start() of each of them, which   *)
(* migrates the schema, connects to Redis and Kafka and then serves, or    *)
(* exits and is restarted by docker-compose; runMigrations, which two      *)
(* services run at once on one database; and the Redis client behind       *)
(* connectRedis, which the gateway's /ready calls again and again.         *)
(***************************************************************************)
EXTENDS Integers, Sequences

CONSTANTS
    Services,       \* the services that are deployed
    RedisRetries,   \* retryStrategy gives up after so many
    MaxOutages      \* bound: how often PostgreSQL, Redis or Kafka goes away

AllServices == {"account", "payment", "fraud", "gateway", "webhook",
                "notification", "admin"}

ASSUME ServicesAreKnown   == Services \subseteq AllServices
ASSUME RetriesAreCounted  == RedisRetries \in Nat
ASSUME OutagesAreCounted  == MaxOutages \in Nat

VARIABLES
    up,             \* what can be reached of PostgreSQL, Redis and Kafka
    outages,        \* outages so far
    tables,         \* the tables committed in PostgreSQL
    at,             \* where a service is in its start; 0 when it has exited
    file,           \* the migration it is at
    batch,          \* its statements have run and are not committed
    client,         \* its Redis client: status and attempts since it was ready
    consuming       \* its Kafka consumer runs

vars == <<up, outages, tables, at, file, batch, client, consuming>>

Backends == {"postgres", "redis", "kafka"}

-----------------------------------------------------------------------------
(* The migrations: what a file creates and what its tables refer to.       *)

UsersFile == [creates |-> {"users"}, needs |-> {}]
AccountsFile == [creates |-> {"accounts"}, needs |-> {"users"}]
TransactionsFile == [creates |-> {"transactions"}, needs |-> {"accounts"}]
LedgerFile == [creates |-> {"ledger_entries"}, needs |-> {"transactions", "accounts"}]
SignalsFile == [creates |-> {"fraud_signals"}, needs |-> {"transactions"}]
WebhooksFile == [creates |-> {"webhook_endpoints", "webhook_deliveries"},
                 needs   |-> {"users", "transactions"}]

\* mutant: one file too early
WrongOrder == <<UsersFile, AccountsFile, LedgerFile, TransactionsFile, SignalsFile,
                WebhooksFile>>

\* What runMigrations runs: a list in the code, without 007 of the directory.
MigrationFiles == <<UsersFile, AccountsFile, TransactionsFile, LedgerFile, SignalsFile,
                    WebhooksFile>>

Files == {UsersFile, AccountsFile, TransactionsFile, LedgerFile, SignalsFile,
          WebhooksFile}

-----------------------------------------------------------------------------
(* The steps of each start.  What it needs and does not get ends the       *)
(* process; what it tries in vain is logged.                               *)

AccountStart      == <<"migrate", "tryRedis">>
PaymentStart      == <<"migrate", "needRedis", "tryKafka">>
FraudStart        == <<"needRedis">>
GatewayStart      == <<"needRedis">>
WebhookStart      == <<"tryRedis", "tryKafka", "needConsumer">>
NotificationStart == <<"tryConsumer">>
AdminStart        == <<>>

Start ==
    [account |-> AccountStart, payment |-> PaymentStart, fraud |-> FraudStart,
     gateway |-> GatewayStart, webhook |-> WebhookStart,
     notification |-> NotificationStart, admin |-> AdminStart]

Doing(p, task) == at[p] \in DOMAIN Start[p] /\ Start[p][at[p]] = task
Serving(p)     == at[p] = Len(Start[p]) + 1

NewClient == [status |-> "wait", attempts |-> 0]

Init ==
    /\ up = Backends
    /\ outages = 0
    /\ tables = {}
    /\ at = [p \in Services |-> 1]
    /\ file = [p \in Services |-> 1]
    /\ batch = [p \in Services |-> FALSE]
    /\ client = [p \in Services |-> NewClient]
    /\ consuming = [p \in Services |-> FALSE]

GoOn(p) == at' = [at EXCEPT ![p] = @ + 1]

\* process.exit(1), or a rejection that nobody catches: Node.js exits as well.
Exit(p) == at' = [at EXCEPT ![p] = 0]

\* restart: unless-stopped
Restart(p) ==
    /\ at[p] = 0
    /\ at' = [at EXCEPT ![p] = 1]
    /\ file' = [file EXCEPT ![p] = 1]
    /\ batch' = [batch EXCEPT ![p] = FALSE]
    /\ client' = [client EXCEPT ![p] = NewClient]
    /\ consuming' = [consuming EXCEPT ![p] = FALSE]
    /\ UNCHANGED <<up, outages, tables>>

-----------------------------------------------------------------------------
(* runMigrations: a file is one call of db.raw, and so one transaction.    *)

Migrating(p) == Doing(p, "migrate") /\ file[p] <= Len(MigrationFiles)
This(p)      == MigrationFiles[file[p]]
Exists(p)    == This(p).creates \cap tables # {}

\* "already exists" is caught, and the loop continues.
SkipFile(p) ==
    /\ Migrating(p) /\ ~batch[p]
    /\ "postgres" \in up
    /\ Exists(p)
    /\ file' = [file EXCEPT ![p] = @ + 1]
    /\ UNCHANGED <<up, outages, tables, at, batch, client, consuming>>

\* The statements run; another session does not see yet what they create.
RunFile(p) ==
    /\ Migrating(p) /\ ~batch[p]
    /\ "postgres" \in up
    /\ ~Exists(p)
    /\ This(p).needs \subseteq tables
    /\ batch' = [batch EXCEPT ![p] = TRUE]
    /\ UNCHANGED <<up, outages, tables, at, file, client, consuming>>

CommitFile(p) ==
    /\ Migrating(p) /\ batch[p]
    /\ "postgres" \in up
    /\ ~Exists(p)
    /\ tables' = tables \cup This(p).creates
    /\ file' = [file EXCEPT ![p] = @ + 1]
    /\ batch' = [batch EXCEPT ![p] = FALSE]
    /\ UNCHANGED <<up, outages, at, client, consuming>>

\* mutant: a failed file is logged and passed over, as in scripts/run-migrations.ps1
PassOver(p) ==
    /\ Migrating(p)
    /\ \/ "postgres" \notin up
       \/ batch[p] /\ Exists(p)
       \/ ~Exists(p) /\ ~(This(p).needs \subseteq tables)
    /\ file' = [file EXCEPT ![p] = @ + 1]
    /\ batch' = [batch EXCEPT ![p] = FALSE]
    /\ UNCHANGED <<up, outages, tables, at, client, consuming>>

\* Any other error is thrown, and start has no catch: the database is away, a
\* table is missing, or another service has committed the same file while this
\* one's statements ran, which is a duplicate key of PostgreSQL's catalog and
\* not an "already exists".
MigrationFails(p) ==
    /\ Migrating(p)
    /\ \/ "postgres" \notin up
       \/ batch[p] /\ Exists(p)
       \/ ~Exists(p) /\ ~(This(p).needs \subseteq tables)
    /\ Exit(p)
    /\ UNCHANGED <<up, outages, tables, file, batch, client, consuming>>

Migrated(p) ==
    /\ Doing(p, "migrate")
    /\ file[p] > Len(MigrationFiles)
    /\ GoOn(p)
    /\ UNCHANGED <<up, outages, tables, file, batch, client, consuming>>

-----------------------------------------------------------------------------
(* Redis                                                                   *)

\* The delay before the next attempt, or null: give up.
RetryStrategy(times) == times <= RedisRetries

\* mutant: the count of attempts is kept over a connection that was made
NotReset(c) ==
    IF "redis" \in up THEN [status |-> "ready", attempts |-> c.attempts]
    ELSE [status   |-> IF RetryStrategy(c.attempts + 1) THEN "reconnecting"
                       ELSE "end",
          attempts |-> c.attempts + 1]

\* The client after an attempt to connect.
Attempted(c) ==
    IF "redis" \in up THEN [status |-> "ready", attempts |-> 0]
    ELSE [status   |-> IF RetryStrategy(c.attempts + 1) THEN "reconnecting"
                       ELSE "end",
          attempts |-> IF RetryStrategy(c.attempts) THEN c.attempts + 1
                       ELSE c.attempts]

\* ioredis: connect() rejects when the client is connected already, so that
\* connectRedis answers FALSE on a healthy connection.
Connects(p) == client[p].status # "ready"

\* What connectRedis returns: connect() and the PING after it succeeded.
Answer(p) == Connects(p) /\ "redis" \in up

\* The client as connectRedis leaves it.
Called(p) == IF Connects(p) THEN Attempted(client[p]) ELSE client[p]

\* In start: who only tries ignores the answer, who needs it exits on FALSE.
ConnectRedis(p) ==
    /\ \/ Doing(p, "tryRedis") /\ GoOn(p)
       \/ Doing(p, "needRedis") /\ Answer(p) /\ GoOn(p)
       \/ Doing(p, "needRedis") /\ ~Answer(p) /\ Exit(p)
    /\ client' = [client EXCEPT ![p] = Called(p)]
    /\ UNCHANGED <<up, outages, tables, file, batch, consuming>>

\* GET /ready of the gateway, which answers 503 on FALSE.
Ready(p) ==
    /\ p = "gateway" /\ Serving(p)
    /\ client' = [client EXCEPT ![p] = Called(p)]
    /\ UNCHANGED <<up, outages, tables, at, file, batch, consuming>>

\* The connection breaks, and the client is told to try again.
LoseRedis(p) ==
    /\ at[p] # 0
    /\ client[p].status = "ready" /\ "redis" \notin up
    /\ client' = [client EXCEPT ![p] = Attempted(@)]
    /\ UNCHANGED <<up, outages, tables, at, file, batch, consuming>>

\* The delay is over.
Reconnect(p) ==
    /\ at[p] # 0
    /\ client[p].status = "reconnecting"
    /\ client' = [client EXCEPT ![p] = Attempted(@)]
    /\ UNCHANGED <<up, outages, tables, at, file, batch, consuming>>

-----------------------------------------------------------------------------
(* Kafka                                                                   *)

\* connectProducer: publishEvent connects when it has to, so that nothing
\* hangs on the answer here.
ConnectProducer(p) ==
    /\ Doing(p, "tryKafka")
    /\ GoOn(p)
    /\ UNCHANGED <<up, outages, tables, file, batch, client, consuming>>

CreateConsumer(p) ==
    /\ \/ Doing(p, "tryConsumer") /\ GoOn(p)
       \/ Doing(p, "needConsumer") /\ "kafka" \in up /\ GoOn(p)
       \/ Doing(p, "needConsumer") /\ "kafka" \notin up /\ Exit(p)
    /\ consuming' = [consuming EXCEPT ![p] = "kafka" \in up]
    /\ UNCHANGED <<up, outages, tables, file, batch, client>>

-----------------------------------------------------------------------------
(* What the services depend on                                             *)

Fails(b) ==
    /\ b \in up
    /\ outages < MaxOutages
    /\ up' = up \ {b}
    /\ outages' = outages + 1
    /\ UNCHANGED <<tables, at, file, batch, client, consuming>>

Recovers(b) ==
    /\ b \in Backends \ up
    /\ up' = up \cup {b}
    /\ UNCHANGED <<outages, tables, at, file, batch, client, consuming>>

Step(p) ==
    \/ Restart(p)
    \/ SkipFile(p) \/ RunFile(p) \/ CommitFile(p) \/ MigrationFails(p) \/ Migrated(p)
    \/ ConnectRedis(p)
    \/ ConnectProducer(p) \/ CreateConsumer(p)

Next ==
    \/ \E p \in Services : Step(p) \/ Ready(p) \/ LoseRedis(p) \/ Reconnect(p)
    \/ \E b \in Backends : Fails(b) \/ Recovers(b)

Spec == Init /\ [][Next]_vars

\* A process that can go on does, docker-compose restarts the one that cannot,
\* and an outage ends.  Nobody has to call /ready.
Fairness ==
    /\ \A p \in Services : WF_vars(Step(p)) /\ WF_vars(LoseRedis(p) \/ Reconnect(p))
    /\ \A b \in Backends : WF_vars(Recovers(b))

FairSpec == Spec /\ Fairness

-----------------------------------------------------------------------------
(* Properties                                                              *)

\* Types, with the bounds of each counter.
TypeOK ==
    /\ up \subseteq Backends
    /\ outages \in 0 .. MaxOutages
    /\ tables \subseteq UNION {f.creates : f \in Files}
    /\ \A p \in Services : at[p] \in 0 .. Len(Start[p]) + 1
    /\ file \in [Services -> 1 .. Len(MigrationFiles) + 1]
    /\ batch \in [Services -> BOOLEAN]
    /\ client \in [Services -> [status : {"wait", "ready", "reconnecting", "end"},
                                 attempts : 0 .. RedisRetries + 1]]
    /\ consuming \in [Services -> BOOLEAN]

Migrators == Services \cap {"account", "payment"}

\* A service that migrates serves on the whole schema only: an outage in the
\* middle of runMigrations, or the other service running the same files at the
\* same time, never lets it through with a table missing (database/client.ts
\* 124-147: only "already exists" is passed over).
ServesOnFullSchema ==
    \A p \in Migrators : Serving(p) =>
        \A i \in DOMAIN MigrationFiles : MigrationFiles[i].creates \subseteq tables

\* Whatever races and outages did to their starts, in the end all services
\* serve for good, and webhook-service, which dies without a consumer,
\* consumes.  (notification-service may serve without one for ever.)
AllServeInTheEnd ==
    <>[](/\ \A p \in Services : Serving(p)
         /\ "webhook" \in Services => consuming["webhook"])

=============================================================================
