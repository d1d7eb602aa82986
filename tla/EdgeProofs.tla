------------------------------ MODULE EdgeProofs ------------------------------
(***************************************************************************)
(* Theorems about what surrounds the services: how they come up (Startup), *)
(* the live updates in the browser (LiveSocket) and the send-money page    *)
(* (Checkout).  The three share nothing; each part stands for itself.      *)
(*                                                                         *)
(* Startup: a file of the migrations is there as a whole or not at all,    *)
(* and what a service has gone past is there (FilesAreWhole, PastIsThere). *)
(*                                                                         *)
(* LiveSocket: each socket belongs to the layout that made it, and only a  *)
(* layout that is gone has sockets that are closing (Belongs); with this   *)
(* the three ways of OneWayBack are inductive (Ways).                      *)
(*                                                                         *)
(* Checkout: for any number of requests and visits, and for whatever       *)
(* payment-service does that Bank allows, CheckoutInv is inductive.        *)
(***************************************************************************)
EXTENDS Checkout, LiveSocket, Startup, TLAPS

-----------------------------------------------------------------------------
(* How the services come up: the lists                                     *)

LEMMA FileList ==
  /\ Len(MigrationFiles) = 6 /\ DOMAIN MigrationFiles = 1 .. 6
  /\ \A i \in 1 .. 6 : MigrationFiles[i] \in Files
BY DEF MigrationFiles, Files

LEMMA FilesShareNothing ==
  ASSUME NEW f \in Files, NEW g \in Files, f.creates \cap g.creates # {}
  PROVE  f = g
BY DEF Files, UsersFile, AccountsFile, TransactionsFile, LedgerFile, SignalsFile, WebhooksFile

\* A service that migrates does it first, and then no more.
MigratesFirst(list) ==
    /\ Len(list) \in Nat /\ DOMAIN list = 1 .. Len(list)
    /\ \A i \in DOMAIN list : list[i] = "migrate" => i = 1

LEMMA StartLists ==
  ASSUME NEW p \in AllServices
  PROVE  /\ MigratesFirst(Start[p])
         /\ p \in {"account", "payment"} => Len(Start[p]) > 0 /\ Start[p][1] = "migrate"
<1>1. MigratesFirst(AccountStart) /\ Len(AccountStart) > 0 /\ AccountStart[1] = "migrate"
  <2>1. /\ Len(AccountStart) = 2 /\ DOMAIN AccountStart = 1 .. 2
        /\ AccountStart[1] = "migrate"
        /\ AccountStart[2] = "tryRedis"
    BY DEF AccountStart
  <2>. QED
    BY <2>1 DEF MigratesFirst
<1>2. MigratesFirst(PaymentStart) /\ Len(PaymentStart) > 0 /\ PaymentStart[1] = "migrate"
  <2>1. /\ Len(PaymentStart) = 3 /\ DOMAIN PaymentStart = 1 .. 3
        /\ PaymentStart[1] = "migrate"
        /\ PaymentStart[2] = "needRedis"
        /\ PaymentStart[3] = "tryKafka"
    BY DEF PaymentStart
  <2>. QED
    BY <2>1 DEF MigratesFirst
<1>3. MigratesFirst(FraudStart)
  <2>1. /\ Len(FraudStart) = 1 /\ DOMAIN FraudStart = 1 .. 1
        /\ FraudStart[1] = "needRedis"
    BY DEF FraudStart
  <2>. QED
    BY <2>1 DEF MigratesFirst
<1>4. MigratesFirst(GatewayStart)
  <2>1. /\ Len(GatewayStart) = 1 /\ DOMAIN GatewayStart = 1 .. 1
        /\ GatewayStart[1] = "needRedis"
    BY DEF GatewayStart
  <2>. QED
    BY <2>1 DEF MigratesFirst
<1>5. MigratesFirst(WebhookStart)
  <2>1. /\ Len(WebhookStart) = 3 /\ DOMAIN WebhookStart = 1 .. 3
        /\ WebhookStart[1] = "tryRedis"
        /\ WebhookStart[2] = "tryKafka"
        /\ WebhookStart[3] = "needConsumer"
    BY DEF WebhookStart
  <2>. QED
    BY <2>1 DEF MigratesFirst
<1>6. MigratesFirst(NotificationStart)
  <2>1. /\ Len(NotificationStart) = 1 /\ DOMAIN NotificationStart = 1 .. 1
        /\ NotificationStart[1] = "tryConsumer"
    BY DEF NotificationStart
  <2>. QED
    BY <2>1 DEF MigratesFirst
<1>7. MigratesFirst(AdminStart)
  <2>1. /\ Len(AdminStart) = 0 /\ DOMAIN AdminStart = 1 .. 0
    BY DEF AdminStart
  <2>. QED
    BY <2>1 DEF MigratesFirst
<1>. QED
  BY <1>1, <1>2, <1>3, <1>4, <1>5, <1>6, <1>7 DEF Start, AllServices

-----------------------------------------------------------------------------
(* How the services come up: types                                         *)

StartTypes == TypeOK /\ at = [p \in Services |-> at[p]]

LEMMA InitStart == Init => StartTypes
<1>. SUFFICES ASSUME Init
              PROVE  StartTypes
  OBVIOUS
<1>1. \A p \in Services : at[p] \in 0 .. Len(Start[p]) + 1
  BY ServicesAreKnown, StartLists DEF Init, MigratesFirst
<1>2. client \in [Services -> [status : {"wait", "ready", "reconnecting", "end"},
                               attempts : 0 .. RedisRetries + 1]]
  BY RetriesAreCounted DEF Init, NewClient
<1>. QED
  BY <1>1, <1>2, FileList, OutagesAreCounted DEF Init, StartTypes, TypeOK, Backends

\* The places a start can come to.
LEMMA Places ==
  ASSUME StartTypes, NEW p \in Services
  PROVE  /\ at[p] \in Nat /\ Len(Start[p]) \in Nat
         /\ \A task : Doing(p, task) => at[p] + 1 \in 0 .. Len(Start[p]) + 1
         /\ GoOn(p) /\ (\E task : Doing(p, task)) =>
               /\ at' = [q \in Services |-> at'[q]]
               /\ \A q \in Services : at'[q] \in 0 .. Len(Start[q]) + 1
         /\ Exit(p) =>
               /\ at' = [q \in Services |-> at'[q]]
               /\ \A q \in Services : at'[q] \in 0 .. Len(Start[q]) + 1
<1>1. \A q \in Services : /\ Len(Start[q]) \in Nat /\ DOMAIN Start[q] = 1 .. Len(Start[q])
                          /\ at[q] \in 0 .. Len(Start[q]) + 1
  BY ServicesAreKnown, StartLists DEF StartTypes, TypeOK, MigratesFirst
<1>2. ASSUME NEW task, Doing(p, task)
      PROVE  at[p] + 1 \in 0 .. Len(Start[p]) + 1
  BY <1>1, <1>2 DEF Doing
<1>3. ASSUME GoOn(p), NEW task, Doing(p, task)
      PROVE  /\ at' = [q \in Services |-> at'[q]]
             /\ \A q \in Services : at'[q] \in 0 .. Len(Start[q]) + 1
  <2>1. at = [q \in Services |-> at[q]] /\ at' = [at EXCEPT ![p] = @ + 1]
    BY <1>3 DEF StartTypes, GoOn
  <2>. QED
    BY <1>1, <1>2, <1>3, <2>1
<1>4. ASSUME Exit(p)
      PROVE  /\ at' = [q \in Services |-> at'[q]]
             /\ \A q \in Services : at'[q] \in 0 .. Len(Start[q]) + 1
  <2>1. at = [q \in Services |-> at[q]] /\ at' = [at EXCEPT ![p] = 0]
    BY <1>4 DEF StartTypes, Exit
  <2>. QED
    BY <1>1, <2>1
<1>. QED
  BY <1>1, <1>2, <1>3, <1>4

\* An attempt to connect leaves the client within the attempts it has.
LEMMA AttemptType ==
  ASSUME NEW c \in [status : {"wait", "ready", "reconnecting", "end"},
                    attempts : 0 .. RedisRetries + 1]
  PROVE  Attempted(c) \in [status : {"wait", "ready", "reconnecting", "end"},
                           attempts : 0 .. RedisRetries + 1]
BY RetriesAreCounted DEF Attempted, RetryStrategy

LEMMA StepStart ==
  ASSUME StartTypes, [Next]_vars
  PROVE  StartTypes'
<1>. DEFINE Clients == [status : {"wait", "ready", "reconnecting", "end"},
                        attempts : 0 .. RedisRetries + 1]
<1>0. /\ up \subseteq Backends /\ outages \in 0 .. MaxOutages
      /\ tables \subseteq UNION {f.creates : f \in Files}
      /\ \A p \in Services : at[p] \in 0 .. Len(Start[p]) + 1
      /\ file \in [Services -> 1 .. 7]
      /\ batch \in [Services -> BOOLEAN] /\ client \in [Services -> Clients]
      /\ consuming \in [Services -> BOOLEAN]
      /\ at = [q \in Services |-> at[q]]
  BY FileList DEF StartTypes, TypeOK
<1>. DEFINE Placed == /\ at' = [q \in Services |-> at'[q]]
                      /\ \A q \in Services : at'[q] \in 0 .. Len(Start[q]) + 1
<1>. SUFFICES /\ up' \subseteq Backends /\ outages' \in 0 .. MaxOutages
              /\ tables' \subseteq UNION {f.creates : f \in Files}
              /\ file' \in [Services -> 1 .. 7]
              /\ batch' \in [Services -> BOOLEAN] /\ client' \in [Services -> Clients]
              /\ consuming' \in [Services -> BOOLEAN]
              /\ Placed
  BY FileList DEF StartTypes, TypeOK
<1>1. ASSUME NEW p \in Services, Restart(p)
      PROVE  /\ Placed /\ UNCHANGED <<up, outages, tables>> /\ file' \in [Services -> 1 .. 7]
             /\ batch' \in [Services -> BOOLEAN] /\ client' \in [Services -> Clients]
             /\ consuming' \in [Services -> BOOLEAN]
  <2>1. 1 \in 0 .. Len(Start[p]) + 1
    BY Places
  <2>2. NewClient \in Clients
    BY RetriesAreCounted DEF NewClient
  <2>. HIDE DEF Clients
  <2>. QED
    BY <1>0, <1>1, <2>1, <2>2 DEF Restart
<1>2. ASSUME NEW p \in Services, SkipFile(p) \/ RunFile(p) \/ CommitFile(p)
      PROVE  /\ UNCHANGED <<up, outages, at, client, consuming>>
             /\ tables' \subseteq UNION {f.creates : f \in Files}
             /\ file' \in [Services -> 1 .. 7] /\ batch' \in [Services -> BOOLEAN]
  <2>1. file[p] \in 1 .. 6 /\ This(p) \in Files
    BY <1>0, <1>2, FileList DEF SkipFile, RunFile, CommitFile, Migrating, This
  <2>2. tables' \subseteq UNION {f.creates : f \in Files}
    BY <1>0, <1>2, <2>1 DEF SkipFile, RunFile, CommitFile
  <2>3. /\ file' = file \/ file' = [file EXCEPT ![p] = @ + 1]
        /\ batch' = batch \/ batch' \in {[batch EXCEPT ![p] = x] : x \in BOOLEAN}
        /\ UNCHANGED <<up, outages, at, client, consuming>>
    BY <1>2 DEF SkipFile, RunFile, CommitFile
  <2>4. file \in [Services -> 1 .. 7] /\ batch \in [Services -> BOOLEAN]
    BY <1>0
  <2>5. file' \in [Services -> 1 .. 7]
    BY <2>1, <2>3, <2>4
  <2>6. batch' \in [Services -> BOOLEAN]
    BY <2>3, <2>4
  <2>. QED
    BY <2>2, <2>3, <2>5, <2>6
<1>3. ASSUME NEW p \in Services, MigrationFails(p) \/ Migrated(p) \/ ConnectProducer(p)
      PROVE  Placed /\ UNCHANGED <<up, outages, tables, file, batch, client, consuming>>
  <2>1. CASE MigrationFails(p)
    BY <2>1, Places DEF MigrationFails
  <2>2. CASE Migrated(p) \/ ConnectProducer(p)
    <3>1. \/ GoOn(p) /\ Doing(p, "migrate")
          \/ GoOn(p) /\ Doing(p, "tryKafka")
      BY <2>2 DEF Migrated, ConnectProducer
    <3>2. Placed
      BY <3>1, Places, Zenon
    <3>. QED
      BY <2>2, <3>2 DEF Migrated, ConnectProducer
  <2>. QED
    BY <1>3, <2>1, <2>2
<1>4. ASSUME NEW p \in Services, CreateConsumer(p)
      PROVE  /\ Placed /\ UNCHANGED <<up, outages, tables, file, batch, client>>
             /\ consuming' \in [Services -> BOOLEAN]
  BY <1>0, <1>4, Places DEF CreateConsumer
<1>5. ASSUME NEW p \in Services
      PROVE  /\ Called(p) \in Clients /\ Attempted(client[p]) \in Clients
             /\ ConnectRedis(p) \/ Ready(p) \/ LoseRedis(p) \/ Reconnect(p)
                   => client' \in [Services -> Clients]
  <2>1. client[p] \in Clients
    BY <1>0
  <2>2. Attempted(client[p]) \in Clients
    BY <2>1, AttemptType
  <2>3. Called(p) \in Clients
    BY <2>1, <2>2 DEF Called
  <2>. HIDE DEF Clients
  <2>. QED
    BY <1>0, <2>2, <2>3 DEF ConnectRedis, Ready, LoseRedis, Reconnect
<1>6. ASSUME NEW p \in Services, ConnectRedis(p) \/ Ready(p) \/ LoseRedis(p) \/ Reconnect(p)
      PROVE  /\ UNCHANGED <<up, outages, tables, file, batch, consuming>>
             /\ Placed \/ UNCHANGED at
  BY <1>6, Places DEF ConnectRedis, Ready, LoseRedis, Reconnect
<1>7. ASSUME NEW b \in Backends, Fails(b) \/ Recovers(b)
      PROVE  /\ UNCHANGED <<tables, at, file, batch, client, consuming>>
             /\ up' \subseteq Backends /\ outages' \in 0 .. MaxOutages
  BY <1>0, <1>7, OutagesAreCounted DEF Fails, Recovers
<1>8. UNCHANGED at => Placed
  BY <1>0
<1>9. CASE UNCHANGED vars
  BY <1>0, <1>8, <1>9 DEF vars
<1>10. CASE Next
  <2>1. ASSUME NEW p \in Services, Step(p) \/ Ready(p) \/ LoseRedis(p) \/ Reconnect(p)
        PROVE  /\ up' \subseteq Backends /\ outages' \in 0 .. MaxOutages
               /\ tables' \subseteq UNION {f.creates : f \in Files}
               /\ file' \in [Services -> 1 .. 7]
               /\ batch' \in [Services -> BOOLEAN] /\ client' \in [Services -> Clients]
               /\ consuming' \in [Services -> BOOLEAN]
               /\ Placed
    <3>. HIDE DEF Clients, Placed
    <3>1. CASE Restart(p)
      BY <1>0, <1>1, <3>1
    <3>2. CASE SkipFile(p) \/ RunFile(p) \/ CommitFile(p)
      BY <1>0, <1>2, <1>8, <3>2
    <3>3. CASE MigrationFails(p) \/ Migrated(p) \/ ConnectProducer(p)
      BY <1>0, <1>3, <3>3
    <3>4. CASE CreateConsumer(p)
      BY <1>0, <1>4, <3>4
    <3>5. CASE ConnectRedis(p) \/ Ready(p) \/ LoseRedis(p) \/ Reconnect(p)
      BY <1>0, <1>5, <1>6, <1>8, <3>5
    <3>. QED
      BY <2>1, <3>1, <3>2, <3>3, <3>4, <3>5 DEF Step
  <2>2. ASSUME NEW b \in Backends, Fails(b) \/ Recovers(b)
        PROVE  /\ up' \subseteq Backends /\ outages' \in 0 .. MaxOutages
               /\ tables' \subseteq UNION {f.creates : f \in Files}
               /\ file' \in [Services -> 1 .. 7]
               /\ batch' \in [Services -> BOOLEAN] /\ client' \in [Services -> Clients]
               /\ consuming' \in [Services -> BOOLEAN]
               /\ Placed
    <3>. HIDE DEF Clients, Placed
    <3>. QED
      BY <1>0, <1>7, <1>8, <2>2
  <2>. QED
    BY <1>10, <2>1, <2>2, Zenon DEF Next
<1>. QED
  BY <1>9, <1>10, Zenon

\* Type correctness of the starts: a place in its list for each service, a file of
\* the migrations, and a Redis client that has not tried more often than it may.
THEOREM StartTypesHold == Spec => []TypeOK
<1>1. StartTypes => TypeOK
  BY DEF StartTypes
<1>. QED
  BY <1>1, InitStart, StepStart, PTL DEF Spec

-----------------------------------------------------------------------------
(* How the services come up: the schema                                    *)

\* A file is one transaction: its tables are there together or not at all.
FilesAreWhole == \A f \in Files : f.creates \cap tables # {} => f.creates \subseteq tables

Has(f) == f.creates \subseteq tables

\* What a service has gone past is there, and one that migrates goes past it all
\* before it does anything else.
PastIsThere ==
    \A p \in Services :
        /\ \A i \in 1 .. 6 : i < file[p] => Has(MigrationFiles[i])
        /\ p \in Migrators /\ at[p] > 1 => file[p] = 7

LEMMA StepSchema ==
  ASSUME StartTypes, FilesAreWhole, PastIsThere, [Next]_vars
  PROVE  FilesAreWhole' /\ PastIsThere'
<1>0. /\ file \in [Services -> 1 .. 7] /\ at = [q \in Services |-> at[q]]
      /\ \A p \in Services : at[p] \in Nat
  BY FileList, Places DEF StartTypes, TypeOK
<1>1. ASSUME UNCHANGED <<tables, file>>, \A p \in Migrators : at'[p] > 1 => at[p] > 1 \/ file[p] = 7
      PROVE  FilesAreWhole' /\ PastIsThere'
  BY <1>1 DEF FilesAreWhole, PastIsThere, Has
<1>2. ASSUME NEW p \in Services, Restart(p)
      PROVE  FilesAreWhole' /\ PastIsThere'
  <2>1. /\ tables' = tables /\ at' = [at EXCEPT ![p] = 1] /\ file' = [file EXCEPT ![p] = 1]
    BY <1>2 DEF Restart
  <2>. QED
    BY <1>0, <2>1 DEF FilesAreWhole, PastIsThere, Has
<1>3. ASSUME NEW p \in Services, SkipFile(p) \/ CommitFile(p)
      PROVE  FilesAreWhole' /\ PastIsThere'
  <2>1. /\ file[p] \in 1 .. 6 /\ This(p) = MigrationFiles[file[p]] /\ This(p) \in Files
        /\ at' = at /\ file' = [file EXCEPT ![p] = @ + 1]
    BY <1>0, <1>3, FileList DEF SkipFile, CommitFile, Migrating, This
  <2>2. tables \subseteq tables' /\ This(p).creates \subseteq tables'
    BY <1>3, <2>1 DEF SkipFile, CommitFile, Exists, FilesAreWhole
  <2>3. FilesAreWhole'
    <3>. SUFFICES ASSUME NEW f \in Files, f.creates \cap tables' # {}
                  PROVE  f.creates \subseteq tables'
      BY DEF FilesAreWhole
    <3>1. CASE f.creates \cap tables # {}
      BY <2>2, <3>1 DEF FilesAreWhole
    <3>2. CASE f.creates \cap tables = {}
      <4>1. f.creates \cap This(p).creates # {}
        BY <1>3, <3>2 DEF SkipFile, CommitFile
      <4>. QED
        BY <2>1, <2>2, <4>1, FilesShareNothing
    <3>. QED
      BY <3>1, <3>2
  <2>4. ASSUME NEW q \in Services, NEW i \in 1 .. 6, i < file'[q]
        PROVE  MigrationFiles[i].creates \subseteq tables'
    <3>1. CASE i < file[q]
      BY <2>2, <3>1 DEF PastIsThere, Has
    <3>2. CASE ~(i < file[q])
      <4>1. q = p /\ i = file[p]
        BY <1>0, <2>1, <2>4, <3>2
      <4>. QED
        BY <2>1, <2>2, <4>1
    <3>. QED
      BY <3>1, <3>2
  <2>5. ASSUME NEW q \in Services, q \in Migrators, at'[q] > 1
        PROVE  file'[q] = 7
    <3>1. file[q] = 7
      BY <2>1, <2>5 DEF PastIsThere
    <3>2. q # p
      BY <2>1, <3>1
    <3>. QED
      BY <1>0, <2>1, <3>1, <3>2
  <2>. QED
    BY <2>3, <2>4, <2>5 DEF PastIsThere, Has
<1>4. ASSUME NEW p \in Services, UNCHANGED <<tables, file>>,
             Migrated(p) \/ MigrationFails(p) \/ ConnectRedis(p) \/ ConnectProducer(p)
                \/ CreateConsumer(p)
      PROVE  FilesAreWhole' /\ PastIsThere'
  <2>1. CASE Exit(p)
    BY <1>0, <1>1, <1>4, <2>1 DEF Exit
  <2>2. CASE GoOn(p) /\ file[p] = 7
    <3>1. \A q \in Services : q # p => at'[q] = at[q]
      BY <1>0, <2>2 DEF GoOn
    <3>. QED
      BY <1>1, <1>4, <2>2, <3>1 DEF Migrators
  <2>3. CASE GoOn(p) /\ \E task \in {"tryRedis", "needRedis", "tryKafka",
                                     "tryConsumer", "needConsumer"} : Doing(p, task)
    <3>1. p \in Migrators => at[p] > 1
      <4>1. p \in Migrators => Start[p][1] = "migrate"
        BY ServicesAreKnown, StartLists DEF Migrators
      <4>2. at[p] \in DOMAIN Start[p] /\ DOMAIN Start[p] = 1 .. Len(Start[p])
        BY <2>3, ServicesAreKnown, StartLists DEF Doing, MigratesFirst
      <4>3. Start[p][at[p]] # "migrate"
        BY <2>3 DEF Doing
      <4>. QED
        BY <1>0, <4>1, <4>2, <4>3
    <3>2. \A q \in Services : q # p => at'[q] = at[q]
      BY <1>0, <2>3 DEF GoOn
    <3>. QED
      BY <1>1, <1>4, <3>1, <3>2 DEF Migrators
  <2>4. Migrated(p) => GoOn(p) /\ file[p] = 7
    BY <1>0, FileList DEF Migrated
  <2>. QED
    BY <1>4, <2>1, <2>2, <2>3, <2>4
    DEF MigrationFails, ConnectRedis, ConnectProducer, CreateConsumer
<1>5. ASSUME UNCHANGED <<tables, file, at>>
      PROVE  FilesAreWhole' /\ PastIsThere'
  BY <1>1, <1>5
<1>6. ASSUME NEW p \in Services,
             RunFile(p) \/ Ready(p) \/ LoseRedis(p) \/ Reconnect(p)
      PROVE  FilesAreWhole' /\ PastIsThere'
  BY <1>5, <1>6 DEF RunFile, Ready, LoseRedis, Reconnect
<1>7. ASSUME NEW p \in Services,
             Migrated(p) \/ MigrationFails(p) \/ ConnectRedis(p) \/ ConnectProducer(p)
                \/ CreateConsumer(p)
      PROVE  UNCHANGED <<tables, file>>
  BY <1>7 DEF Migrated, MigrationFails, ConnectRedis, ConnectProducer, CreateConsumer
<1>8. ASSUME NEW b \in Backends, Fails(b) \/ Recovers(b)
      PROVE  FilesAreWhole' /\ PastIsThere'
  BY <1>5, <1>8 DEF Fails, Recovers
<1>9. CASE UNCHANGED vars
  BY <1>5, <1>9 DEF vars
<1>. QED
  BY <1>2, <1>3, <1>4, <1>6, <1>7, <1>8, <1>9 DEF Next, Step

\* For any set of services, and however often the backends go away or a service is
\* restarted while another migrates: who serves with the database has all its tables.
THEOREM ServesWithTables == Spec => []ServesOnFullSchema
<1>. DEFINE Inv == StartTypes /\ FilesAreWhole /\ PastIsThere
<1>1. Init => Inv
  <2>1. Init => FilesAreWhole /\ PastIsThere
    BY DEF Init, FilesAreWhole, PastIsThere, Migrators
  <2>. QED
    BY <2>1, InitStart
<1>2. Inv /\ [Next]_vars => Inv'
  BY StepStart, StepSchema
<1>3. Inv => ServesOnFullSchema
  <2>. SUFFICES ASSUME Inv, NEW p \in Migrators, Serving(p), NEW i \in 1 .. 6
                PROVE  MigrationFiles[i].creates \subseteq tables
    BY FileList DEF ServesOnFullSchema
  <2>1. p \in Services /\ Len(Start[p]) \in Nat /\ Len(Start[p]) > 0
    BY ServicesAreKnown, StartLists DEF Migrators, MigratesFirst
  <2>2. at[p] > 1
    BY <2>1 DEF Serving
  <2>3. file[p] = 7
    BY <2>1, <2>2 DEF PastIsThere
  <2>. QED
    BY <2>1, <2>3 DEF PastIsThere, Has
<1>. QED
  BY <1>1, <1>2, <1>3, PTL DEF Spec

-----------------------------------------------------------------------------
(* The live updates: what can happen                                       *)

USE ReconnectsAreCounted, NoSocketIsNone

LEMMA LiveStepCases ==
  ASSUME [LiveNext]_liveVars
  PROVE  \/ \E l \in Layouts : Mount(l) \/ Unmount(l)
         \/ \E s \in Sockets : SocketStep(s)
         \/ GoDown \/ ComeUp
         \/ UNCHANGED liveVars
BY DEF LiveNext

Belongs ==
    \A s \in Sockets :
        /\ sock[s] # "closed" \/ s \in timers \/ s \in clients => owner[s] \in Layouts
        /\ s \in timers => sock[s] = "closed"
        /\ sock[s] = "closing" => mounted[owner[s]] = "off"
        /\ \A l \in Layouts :
             /\ mounted[l] = "never" => owner[s] # l
             /\ mounted[l] = "on" /\ wsRef[l] = s => owner[s] = l

Idle(l) == \A s \in Sockets : owner[s] = l => sock[s] \notin Alive /\ s \notin timers

Connection(l, w) ==
    /\ wsRef[l] = w /\ owner[w] = l /\ sock[w] \in Alive
    /\ \A s \in Sockets : owner[s] = l => s \notin timers /\ (sock[s] \in Alive => s = w)

Waiting(l, w) ==
    /\ timerRef[l] = w /\ owner[w] = l /\ w \in timers
    /\ ~GaveUp(l)
    /\ \A s \in Sockets : owner[s] = l => sock[s] \notin Alive /\ (s \in timers => s = w)

Way(l) ==
    IF mounted[l] # "on" THEN Idle(l)
    ELSE \/ \E w \in Sockets : Connection(l, w)
         \/ \E w \in Sockets : Waiting(l, w)
         \/ Idle(l) /\ GaveUp(l)

Ways == \A l \in Layouts : Way(l)

TrueFor(l) ==
    /\ mounted[l] = "never" => ~connected[l]
    /\ mounted[l] = "on" =>
         (connected[l] <=> wsRef[l] \in Sockets /\ sock[wsRef[l]] = "open")

Truth == \A l \in Layouts : TrueFor(l)

LiveInv == LiveTypeOK /\ Belongs /\ Ways

-----------------------------------------------------------------------------
(* The live updates: types                                                 *)

LEMMA InitLive == LiveInit => LiveTypeOK
BY GatewayOutagesAreCounted DEF LiveInit, LiveTypeOK, Alive

LEMMA StepLiveTypes == LiveTypeOK /\ Belongs /\ [LiveNext]_liveVars => LiveTypeOK'
<1>. SUFFICES ASSUME LiveTypeOK, Belongs, [LiveNext]_liveVars
              PROVE  LiveTypeOK'
  OBVIOUS
<1>1. ASSUME NEW l \in Layouts, Mount(l) PROVE LiveTypeOK'
  BY <1>1 DEF Mount, Connect, LiveTypeOK, Alive, gateVars
<1>2. ASSUME NEW l \in Layouts, Unmount(l) PROVE LiveTypeOK'
  BY <1>2 DEF Unmount, LiveTypeOK, Alive, gateVars
<1>3. ASSUME NEW s \in Sockets, OnOpen(s) PROVE LiveTypeOK'
  <2>1. owner[s] \in Layouts
    BY <1>3 DEF OnOpen, Belongs
  <2>. QED
    <3>1. CASE mounted[owner[s]] = "on"
      <4>1. retries' \in [Layouts -> Nat]
        BY <1>3, <2>1, <3>1 DEF OnOpen, LiveTypeOK
      <4>2. connected' \in [Layouts -> BOOLEAN]
        BY <1>3, <2>1, <3>1, Zenon DEF OnOpen, LiveTypeOK
      <4>3. sock' \in [Sockets -> {"closed", "closing"} \cup Alive]
        BY <1>3, <3>1 DEF OnOpen, LiveTypeOK, Alive
      <4>. QED
        BY <1>3, <4>1, <4>2, <4>3 DEF OnOpen, LiveTypeOK, gateVars
    <3>2. CASE mounted[owner[s]] # "on"
      BY <1>3, <3>2 DEF OnOpen, LiveTypeOK, Alive, gateVars
    <3>. QED
      BY <3>1, <3>2
<1>4. ASSUME NEW s \in Sockets, OnClose(s) PROVE LiveTypeOK'
  <2>1. owner[s] \in Layouts
    BY <1>4 DEF OnClose, Ends, Belongs, LiveTypeOK
  <2>. QED
    BY <1>4, <2>1 DEF OnClose, Reschedule, LiveTypeOK, Alive, gateVars
<1>5. ASSUME NEW s \in Sockets, TimerFires(s) PROVE LiveTypeOK'
  <2>1. owner[s] \in Layouts
    BY <1>5 DEF TimerFires, Belongs
  <2>. QED
    BY <1>5, <2>1 DEF TimerFires, Connect, LiveTypeOK, Alive, gateVars
<1>6. ASSUME NEW s \in Sockets, Accept(s) \/ ClientGone(s) PROVE LiveTypeOK'
  <2>1. CASE Accept(s)
    BY <2>1 DEF Accept, LiveTypeOK, Alive, refVars
  <2>2. CASE ClientGone(s)
    BY <2>2 DEF ClientGone, LiveTypeOK, Alive, refVars
  <2>. QED
    BY <1>6, <2>1, <2>2
<1>7. ASSUME GoDown \/ ComeUp PROVE LiveTypeOK'
  <2>1. CASE GoDown
    <3>1. gatewayOutages' \in 0 .. MaxGatewayOutages
      BY <2>1, GatewayOutagesAreCounted DEF GoDown, LiveTypeOK
    <3>. QED
      BY <2>1, <3>1 DEF GoDown, LiveTypeOK, refVars
  <2>2. CASE ComeUp
    BY <2>2 DEF ComeUp, LiveTypeOK, refVars
  <2>. QED
    BY <1>7, <2>1, <2>2
<1>8. CASE UNCHANGED liveVars
  BY <1>8 DEF liveVars, refVars, gateVars, LiveTypeOK
<1>. QED
  BY <1>1, <1>2, <1>3, <1>4, <1>5, <1>6, <1>7, <1>8, LiveStepCases DEF SocketStep

-----------------------------------------------------------------------------
(* The live updates: whose a socket is                                     *)

LEMMA StepBelongs ==
  ASSUME LiveTypeOK, Belongs, Ways, [LiveNext]_liveVars
  PROVE  Belongs'
<1>1. ASSUME NEW l \in Layouts, Mount(l) PROVE Belongs'
  BY <1>1 DEF Mount, Connect, Unused, Belongs, LiveTypeOK, gateVars
<1>2. ASSUME NEW l \in Layouts, Unmount(l) PROVE Belongs'
  BY <1>2 DEF Unmount, Belongs, LiveTypeOK, gateVars
<1>3. ASSUME NEW s \in Sockets, OnOpen(s) PROVE Belongs'
  <2>1. owner[s] \in Layouts /\ mounted[owner[s]] \in {"on", "off"}
    BY <1>3 DEF OnOpen, Belongs, LiveTypeOK
  <2>. QED
    BY <1>3, <2>1 DEF OnOpen, Belongs, LiveTypeOK, gateVars
<1>4. ASSUME NEW s \in Sockets, OnClose(s) PROVE Belongs'
  BY <1>4 DEF OnClose, Ends, Reschedule, Belongs, LiveTypeOK, gateVars
<1>5. ASSUME NEW s \in Sockets, TimerFires(s) PROVE Belongs'
  BY <1>5 DEF TimerFires, MayConnect, Connect, Unused, Belongs, LiveTypeOK, gateVars
<1>6. ASSUME NEW s \in Sockets, Accept(s) \/ ClientGone(s) PROVE Belongs'
  BY <1>6 DEF Accept, ClientGone, Belongs, LiveTypeOK, refVars
<1>7. ASSUME GoDown \/ ComeUp PROVE Belongs'
  BY <1>7 DEF GoDown, ComeUp, Belongs, refVars
<1>8. CASE UNCHANGED liveVars
  BY <1>8 DEF liveVars, refVars, gateVars, Belongs
<1>. QED
  BY <1>1, <1>2, <1>3, <1>4, <1>5, <1>6, <1>7, <1>8, LiveStepCases DEF SocketStep

-----------------------------------------------------------------------------
(* The live updates: the three ways                                        *)

LEMMA StepWays ==
  ASSUME LiveTypeOK, Belongs, Ways, [LiveNext]_liveVars
  PROVE  Ways'
<1>. SUFFICES ASSUME NEW m \in Layouts
              PROVE  Way(m)'
  BY DEF Ways
<1>. Way(m)
  BY DEF Ways
<1>1. ASSUME NEW l \in Layouts, Mount(l) PROVE Way(m)'
  <2>1. PICK w \in Sockets : Connect(l, w)
    BY <1>1 DEF Mount
  <2>2. CASE m = l
    <3>1. Connection(l, w)'
      BY <1>1, <2>1 DEF Mount, Connect, Unused, Connection, Belongs, LiveTypeOK, Alive
    <3>. QED
      BY <1>1, <2>2, <3>1 DEF Mount, Way, LiveTypeOK
  <2>3. CASE m # l
    BY <1>1, <2>1, <2>3 DEF Mount, Connect, Way, Idle, LiveTypeOK
  <2>. QED
    BY <2>2, <2>3
<1>2. ASSUME NEW l \in Layouts, Unmount(l) PROVE Way(m)'
  <2>1. CASE m = l
    BY <1>2, <2>1 DEF Unmount, Way, Idle, Connection, Waiting, LiveTypeOK, Alive
  <2>2. CASE m # l
    BY <1>2, <2>2 DEF Unmount, Way, Idle, LiveTypeOK, Alive
  <2>. QED
    BY <2>1, <2>2
<1>3. ASSUME NEW s \in Sockets, OnOpen(s) PROVE Way(m)'
  <2>1. CASE mounted[m] # "on"
    BY <1>3, <2>1 DEF OnOpen, Way, Idle, LiveTypeOK, Alive
  <2>2. CASE mounted[m] = "on" /\ owner[s] = m
    <3>1. PICK w \in Sockets : Connection(m, w)
      BY <1>3, <2>2 DEF OnOpen, Way, Idle, Waiting, Alive
    <3>2. Connection(m, w)'
      <4>1. sock'[w] \in Alive /\ \A t \in Sockets : sock'[t] \in Alive => sock[t] \in Alive
        BY <1>3, <2>2, <3>1 DEF OnOpen, Connection, LiveTypeOK, Alive
      <4>. QED
        BY <1>3, <3>1, <4>1 DEF OnOpen, Connection
    <3>. QED
      BY <1>3, <2>2, <3>2 DEF OnOpen, Way
  <2>3. CASE mounted[m] = "on" /\ owner[s] # m
    BY <1>3, <2>3 DEF OnOpen, Way, Idle, Connection, Waiting, GaveUp, LiveTypeOK, Belongs, Alive
  <2>. QED
    BY <2>1, <2>2, <2>3
<1>4. ASSUME NEW s \in Sockets, OnClose(s) PROVE Way(m)'
  <2>0. owner[s] \in Layouts
    BY <1>4 DEF OnClose, Ends, Belongs
  <2>1. CASE mounted[m] # "on"
    BY <1>4, <2>0, <2>1 DEF OnClose, Reschedule, Way, Idle, LiveTypeOK, Alive
  <2>2. CASE mounted[m] = "on" /\ owner[s] = m
    <3>1. Connection(m, s)
      BY <1>4, <2>2 DEF OnClose, Ends, Way, Idle, Connection, Waiting, Belongs, Alive
    <3>2. CASE retries[m] + 1 >= MaxRetries
      <4>1. Idle(m)' /\ GaveUp(m)'
        BY <1>4, <2>2, <3>1, <3>2
        DEF OnClose, Reschedule, Connection, Idle, GaveUp, LiveTypeOK, Alive
      <4>. QED
        BY <1>4, <2>2, <4>1 DEF OnClose, Way
    <3>3. CASE ~(retries[m] + 1 >= MaxRetries)
      <4>1. Waiting(m, s)'
        BY <1>4, <2>2, <3>1, <3>3
        DEF OnClose, Reschedule, Connection, Waiting, GaveUp, LiveTypeOK, Alive
      <4>. QED
        BY <1>4, <2>2, <4>1 DEF OnClose, Way
    <3>. QED
      BY <3>2, <3>3
  <2>3. CASE mounted[m] = "on" /\ owner[s] # m
    <3>1. mounted[owner[s]] # "on"
      BY <2>0, <2>3 DEF LiveTypeOK
    <3>. QED
      BY <1>4, <2>3, <3>1
      DEF OnClose, Way, Idle, Connection, Waiting, GaveUp, LiveTypeOK, Alive
  <2>. QED
    BY <2>1, <2>2, <2>3
<1>5. ASSUME NEW s \in Sockets, TimerFires(s) PROVE Way(m)'
  <2>1. owner[s] \in Layouts /\ ~GaveUp(owner[s]) /\ mounted[owner[s]] = "on"
    BY <1>5 DEF TimerFires, Belongs, Ways, Way, Idle, Connection, Waiting
  <2>2. PICK w \in Sockets : Connect(owner[s], w)
    BY <1>5, <2>1 DEF TimerFires, MayConnect, GaveUp, LiveTypeOK
  <2>3. CASE m = owner[s]
    <3>1. Waiting(m, s)
      BY <1>5, <2>1, <2>3 DEF TimerFires, Way, Idle, Connection, Waiting
    <3>2. Connection(m, w)'
      BY <1>5, <2>2, <2>3, <3>1
      DEF TimerFires, Connect, Unused, Connection, Waiting, LiveTypeOK, Alive
    <3>. QED
      BY <1>5, <2>1, <2>3, <3>2 DEF TimerFires, Way
  <2>4. CASE m # owner[s]
    <3>1. mounted[m] # "on"
      BY <2>1, <2>4 DEF LiveTypeOK
    <3>. QED
      BY <1>5, <2>2, <2>4, <3>1 DEF TimerFires, Connect, Way, Idle, LiveTypeOK
  <2>. QED
    BY <2>3, <2>4
<1>6. ASSUME NEW s \in Sockets, Accept(s) \/ ClientGone(s) PROVE Way(m)'
  BY <1>6 DEF Accept, ClientGone, Way, Idle, Connection, Waiting, GaveUp, LiveTypeOK,
              Alive, refVars
<1>7. ASSUME GoDown \/ ComeUp PROVE Way(m)'
  BY <1>7 DEF GoDown, ComeUp, Way, Idle, Connection, Waiting, GaveUp, refVars
<1>8. CASE UNCHANGED liveVars
  BY <1>8 DEF liveVars, refVars, Way, Idle, Connection, Waiting, GaveUp
<1>. QED
  BY <1>1, <1>2, <1>3, <1>4, <1>5, <1>6, <1>7, <1>8, LiveStepCases DEF SocketStep

LEMMA LiveInvHolds == LiveSpec => []LiveInv
<1>1. LiveInit => LiveInv
  BY InitLive DEF LiveInit, LiveInv, Belongs, Ways, Way, Idle, Alive
<1>2. LiveInv /\ [LiveNext]_liveVars => LiveInv'
  BY StepLiveTypes, StepBelongs, StepWays DEF LiveInv
<1>. QED
  BY <1>1, <1>2, PTL DEF LiveSpec

\* For every value of the constants: the refs, the sockets and the gateway's
\* clients are of their kinds, and one layout at most is mounted.
THEOREM LiveTypesHold == LiveSpec => []LiveTypeOK
BY LiveInvHolds, PTL DEF LiveInv

\* For every number of sockets, layouts, retries and gatewayOutages: a mounted layout
\* has one connection, or one reconnect pending, or has given up, and one that
\* is gone has neither (useWebSocket.ts 75-105).
THEOREM NeverTwoConnections == LiveSpec => []OneWayBack
<1>1. ASSUME LiveInv, NEW l \in Layouts
      PROVE  IF mounted[l] # "on" THEN Live(l) = {} /\ Pending(l) = {}
             ELSE \/ Live(l) = {wsRef[l]} /\ Pending(l) = {}
                  \/ Live(l) = {} /\ Pending(l) = {timerRef[l]} /\ ~GaveUp(l)
                  \/ Live(l) = {} /\ Pending(l) = {} /\ GaveUp(l)
  <2>. LiveTypeOK /\ Way(l)
    BY <1>1 DEF LiveInv, Ways
  <2>1. ASSUME Idle(l) PROVE Live(l) = {} /\ Pending(l) = {}
    BY <2>1 DEF Idle, Live, Pending, LiveTypeOK
  <2>2. ASSUME NEW w \in Sockets, Connection(l, w)
        PROVE  Live(l) = {wsRef[l]} /\ Pending(l) = {}
    BY <2>2 DEF Connection, Live, Pending, LiveTypeOK
  <2>3. ASSUME NEW w \in Sockets, Waiting(l, w)
        PROVE  Live(l) = {} /\ Pending(l) = {timerRef[l]} /\ ~GaveUp(l)
    BY <2>3 DEF Waiting, Live, Pending, LiveTypeOK
  <2>. QED
    BY <2>1, <2>2, <2>3 DEF Way
<1>2. LiveInv => OneWayBack
  BY <1>1 DEF OneWayBack
<1>. QED
  BY <1>2, LiveInvHolds, PTL

-----------------------------------------------------------------------------
(* The live updates: what the hook returns                                 *)

LEMMA StepTruth ==
  ASSUME LiveInv, Truth, [LiveNext]_liveVars
  PROVE  Truth'
<1>. SUFFICES ASSUME NEW m \in Layouts PROVE TrueFor(m)'
  BY DEF Truth, TrueFor
<1>. LiveTypeOK /\ Belongs /\ Ways /\ Way(m)
  BY DEF LiveInv, Ways
<1>1. ASSUME NEW l \in Layouts, Mount(l) PROVE TrueFor(m)'
  BY <1>1 DEF Mount, Connect, Truth, TrueFor, LiveTypeOK
<1>2. ASSUME NEW l \in Layouts, Unmount(l) PROVE TrueFor(m)'
  BY <1>2 DEF Unmount, Truth, TrueFor, LiveTypeOK
<1>3. ASSUME NEW s \in Sockets, OnOpen(s) PROVE TrueFor(m)'
  <2>0. owner[s] \in Layouts
    BY <1>3 DEF OnOpen, Belongs
  <2>1. CASE mounted[m] = "on" /\ owner[s] = m
    <3>1. Connection(m, s)
      BY <1>3, <2>1 DEF OnOpen, Way, Idle, Connection, Waiting, Alive
    <3>. QED
      <4>1. connected'[m] /\ mounted'[m] = "on"
        BY <1>3, <2>1 DEF OnOpen, LiveTypeOK
      <4>2. wsRef'[m] = s /\ sock'[s] = "open"
        BY <1>3, <2>1, <3>1 DEF OnOpen, Connection, LiveTypeOK
      <4>. QED
        BY <4>1, <4>2 DEF TrueFor
  <2>2. CASE mounted[m] = "on" /\ owner[s] # m
    <3>1. wsRef[m] # s
      BY <2>2 DEF Belongs
    <3>. QED
      BY <1>3, <2>0, <2>2, <3>1 DEF OnOpen, Truth, TrueFor, LiveTypeOK
  <2>3. CASE mounted[m] # "on"
    BY <1>3, <2>0, <2>3 DEF OnOpen, Truth, TrueFor, LiveTypeOK
  <2>. QED
    BY <2>1, <2>2, <2>3
<1>4. ASSUME NEW s \in Sockets, OnClose(s) PROVE TrueFor(m)'
  <2>0. owner[s] \in Layouts
    BY <1>4 DEF OnClose, Ends, Belongs
  <2>1. CASE mounted[m] = "on" /\ owner[s] = m
    <3>1. Connection(m, s)
      BY <1>4, <2>1 DEF OnClose, Ends, Way, Idle, Connection, Waiting, Belongs, Alive
    <3>. QED
      <4>1. ~connected'[m] /\ mounted'[m] = "on"
        BY <1>4, <2>1 DEF OnClose, LiveTypeOK
      <4>2. wsRef'[m] = s /\ sock'[s] = "closed"
        BY <1>4, <2>1, <3>1 DEF OnClose, Connection, LiveTypeOK
      <4>. QED
        BY <4>1, <4>2 DEF TrueFor
  <2>2. CASE mounted[m] = "on" /\ owner[s] # m
    <3>1. wsRef[m] # s
      BY <2>2 DEF Belongs
    <3>. QED
      BY <1>4, <2>0, <2>2, <3>1 DEF OnClose, Truth, TrueFor, LiveTypeOK
  <2>3. CASE mounted[m] # "on"
    BY <1>4, <2>0, <2>3 DEF OnClose, Truth, TrueFor, LiveTypeOK
  <2>. QED
    BY <2>1, <2>2, <2>3
<1>5. ASSUME NEW s \in Sockets, TimerFires(s) PROVE TrueFor(m)'
  <2>1. owner[s] \in Layouts /\ ~GaveUp(owner[s]) /\ mounted[owner[s]] = "on"
    BY <1>5 DEF TimerFires, Belongs, Ways, Way, Idle, Connection, Waiting
  <2>2. PICK w \in Sockets : Connect(owner[s], w)
    BY <1>5, <2>1 DEF TimerFires, MayConnect, GaveUp, LiveTypeOK
  <2>3. CASE m = owner[s]
    <3>1. Waiting(m, s)
      BY <1>5, <2>1, <2>3 DEF TimerFires, Way, Idle, Connection, Waiting
    <3>2. ~connected[m]
      BY <2>1, <2>3, <3>1 DEF Truth, TrueFor, Waiting, Belongs, Alive
    <3>3. sock'[wsRef'[m]] = "connecting"
      BY <2>1, <2>2, <2>3 DEF Connect, LiveTypeOK
    <3>4. ~connected'[m] /\ mounted'[m] = "on"
      BY <1>5, <2>1, <2>3, <3>2 DEF TimerFires
    <3>. QED
      BY <3>3, <3>4 DEF TrueFor
  <2>4. CASE m # owner[s]
    <3>1. mounted[m] # "on"
      BY <2>1, <2>4 DEF LiveTypeOK
    <3>. QED
      BY <1>5, <3>1 DEF TimerFires, Truth, TrueFor
  <2>. QED
    BY <2>3, <2>4
<1>6. ASSUME NEW s \in Sockets, Accept(s) \/ ClientGone(s) PROVE TrueFor(m)'
  BY <1>6 DEF Accept, ClientGone, Truth, TrueFor, LiveTypeOK, refVars
<1>7. ASSUME GoDown \/ ComeUp \/ UNCHANGED liveVars PROVE TrueFor(m)'
  BY <1>7 DEF GoDown, ComeUp, Truth, TrueFor, liveVars, refVars
<1>. QED
  BY <1>1, <1>2, <1>3, <1>4, <1>5, <1>6, <1>7, LiveStepCases DEF SocketStep

\* For every value of the constants: a mounted layout reports a connection when
\* the socket in its ref is open, and only then.
THEOREM ConnectedIsSo == LiveSpec => []ConnectedIsTrue
<1>1. LiveInit => Truth
  BY DEF LiveInit, Truth, TrueFor
<1>2. LiveInv /\ Truth /\ [LiveNext]_liveVars => Truth'
  BY StepTruth
<1>3. Truth => ConnectedIsTrue
  BY DEF Truth, TrueFor, ConnectedIsTrue
<1>. QED
  BY <1>1, <1>2, <1>3, LiveInvHolds, PTL DEF LiveSpec

USE VisitsAreCounted, NoneIsNoRequest

-----------------------------------------------------------------------------
(* The send-money page: the inductive invariant                            *)

\* A request carries the key of the review it was sent in.
KeyOfItsReview ==
    \A r \in Requests :
        passage[r] # "unsent" => order[r].key = sentIn[r] /\ sentIn[r] <= visit

\* What Bank promises of the requests that have reached it.
OnlyForwarded == \A r \in Requests : r \in moved \/ answer[r] # "none" => passage[r] = "bank"
OneMovePerKey == \A r, q \in moved : order[r].key = order[q].key => r = q
OkIsMoved ==
    \A r \in Requests : answer[r] = "ok" => \E s \in moved : order[s].key = order[r].key
RefusedIsUnmoved == \A r \in Requests : answer[r] = "refused" => r \notin moved

\* The request that is waited for is one of this review.
AwaitedIsOfThisReview ==
    current # None => passage[current] # "unsent" /\ sentIn[current] = visit

\* The others have been told of, and a success was the end of it.
OthersAreKnown ==
    \A r \in Requests :
        passage[r] # "unsent" /\ r # current =>
            \/ seen[r] \in {"refused", "unknown"}
            \/ seen[r] = "ok" /\ screen = "success" /\ sentIn[r] = visit

\* A refusal that was seen is the gateway's or payment-service's.
RefusalIsReal ==
    \A r \in Requests :
        seen[r] = "refused" => passage[r] \in Rejections \/ answer[r] = "refused"

CheckoutInv ==
    /\ CheckoutTypeOK
    /\ KeyOfItsReview
    /\ OnlyForwarded
    /\ OneMovePerKey
    /\ OkIsMoved
    /\ RefusedIsUnmoved
    /\ AwaitedIsOfThisReview
    /\ OthersAreKnown
    /\ RefusalIsReal
    /\ SuccessIsPaid

LEMMA InitCheckout == CheckoutInit => CheckoutInv
BY DEF CheckoutInit, PaymentService!Init, CheckoutInv, CheckoutTypeOK, KeyOfItsReview, OnlyForwarded,
       OneMovePerKey, OkIsMoved, RefusedIsUnmoved, AwaitedIsOfThisReview, OthersAreKnown,
       RefusalIsReal, SuccessIsPaid, PaidIn, Rejections

-----------------------------------------------------------------------------
(* The send-money page: the steps                                          *)

\* The definitions that CheckoutInv is made of, and those for the steps of the page.
USE DEF CheckoutInv, CheckoutTypeOK, KeyOfItsReview, OnlyForwarded, OneMovePerKey, OkIsMoved,
        RefusedIsUnmoved, AwaitedIsOfThisReview, OthersAreKnown, RefusalIsReal, SuccessIsPaid,
        PaidIn, Rejections, bankVars, uiVars

LEMMA StepReview == CheckoutInv /\ Review => CheckoutInv'
BY DEF Review

LEMMA StepHandleConfirm ==
  ASSUME CheckoutInv, NEW r \in Requests, HandleConfirm(r)
  PROVE  CheckoutInv'
BY DEF HandleConfirm, IdempotencyKey

LEMMA StepGoBack == CheckoutInv /\ GoBack => CheckoutInv'
BY DEF GoBack

LEMMA StepLeave == CheckoutInv /\ Leave => CheckoutInv'
BY DEF Leave

LEMMA StepShowAnswer ==
  ASSUME CheckoutInv, NEW r \in Requests, ShowAnswer(r)
  PROVE  CheckoutInv'
BY DEF ShowAnswer, Told, ScreenFor

LEMMA StepGiveUpWaiting ==
  ASSUME CheckoutInv, NEW r \in Requests, GiveUpWaiting(r)
  PROVE  CheckoutInv'
BY DEF GiveUpWaiting

LEMMA StepForward ==
  ASSUME CheckoutInv, NEW r \in Requests, Forward(r)
  PROVE  CheckoutInv'
BY DEF Forward, AtGateway

LEMMA StepReject ==
  ASSUME CheckoutInv, NEW r \in Requests, Reject(r)
  PROVE  CheckoutInv'
BY DEF Reject, AtGateway

LEMMA StepServe ==
  ASSUME CheckoutInv, NEW r \in Requests, Serve(r)
  PROVE  CheckoutInv'
BY DEF Serve, PaymentService!Move, PaymentService!Confirm, PaymentService!Refuse,
       PaymentService!GiveUp, PaymentService!Answer

LEMMA StepCheckout == CheckoutInv /\ [CheckoutNext]_checkoutVars => CheckoutInv'
<1>1. CASE UNCHANGED checkoutVars
  BY <1>1 DEF checkoutVars
<1>2. CASE CheckoutNext
  BY <1>2, StepReview, StepHandleConfirm, StepGoBack, StepLeave, StepShowAnswer,
     StepGiveUpWaiting, StepForward, StepReject, StepServe, Zenon DEF CheckoutNext
<1>. QED
  BY <1>1, <1>2

LEMMA CheckoutInvHolds == CheckoutSpec => []CheckoutInv
BY InitCheckout, StepCheckout, PTL DEF CheckoutSpec

-----------------------------------------------------------------------------
(* The send-money page: the theorems                                       *)

\* Type correctness of the page, the gateway and the bank behind it.
THEOREM CheckoutTypes == CheckoutSpec => []CheckoutTypeOK
<1>1. CheckoutInv => CheckoutTypeOK
  OBVIOUS
<1>. QED
  BY <1>1, CheckoutInvHolds, PTL

\* "Payment Successful!" tells of a payment of this very review.
THEOREM SuccessIsTrue == CheckoutSpec => []SuccessIsPaid
<1>1. CheckoutInv => SuccessIsPaid
  OBVIOUS
<1>. QED
  BY <1>1, CheckoutInvHolds, PTL

\* A review pays at most once, however many attempts are under way.
THEOREM OnePaymentPerReview == CheckoutSpec => []PaidOncePerReview
<1>1. CheckoutInv => PaidOncePerReview
  BY DEF PaidOncePerReview
<1>. QED
  BY <1>1, CheckoutInvHolds, PTL

\* A payment that a later review may repeat is one of which the user was told
\* nothing definite.
THEOREM RepeatedOnlyWhenUnknown == CheckoutSpec => []PaidTwiceOnlyAfterUnknown
<1>1. CheckoutInv => PaidTwiceOnlyAfterUnknown
  BY DEF PaidTwiceOnlyAfterUnknown
<1>. QED
  BY <1>1, CheckoutInvHolds, PTL

=============================================================================
