-------------------------- MODULE WebhookDelivery --------------------------
(***************************************************************************)
(* webhook-service: an event is dispatched to the endpoints subscribed to  *)
(* it, one row of webhook_deliveries each, and a delivery that fails is    *)
(* retried by the retry worker until it is accepted or given up.           *)
(*                                                                         *)
(* The service is one process.  Its workers are the handler of a Kafka     *)
(* event and the polls of the retry worker: setInterval starts a poll      *)
(* every 10 seconds, finished or not the one before.  Each action is the   *)
(* code between two awaits.                                                *)
(***************************************************************************)
EXTENDS Integers, FiniteSets

CONSTANTS
    Deliveries,     \* rows that webhook_deliveries may come to have
    Endpoints,      \* webhook_endpoints subscribed to the event
    Polls,          \* calls of processRetries that may be running at once
    Dispatcher,     \* the call of dispatchWebhook
    MaxRetries,     \* Len(config.webhookRetryDelays)
    MaxFailures,    \* bound: failed SQL statements, failed sends to Kafka, crashes
    None

ASSUME RetriesAreCounted  == MaxRetries \in Nat
ASSUME FailuresAreCounted == MaxFailures \in Nat
ASSUME PollsAreFinite     == IsFiniteSet(Polls)
ASSUME DispatcherPollsNot == Dispatcher \notin Polls
ASSUME NoneIsNothing      == None \notin Deliveries \cup Endpoints

Workers == Polls \cup {Dispatcher}

VARIABLES
    \* --- PostgreSQL
    active,         \* endpoints with is_active
    status,         \* webhook_deliveries.status, "none" before the INSERT
    endpoint,       \* .endpoint_id
    attempt,        \* .attempt_number
    due,            \* deliveries whose next_retry_at has passed
    \* --- the world outside
    posts,          \* how often a delivery was sent
    accepted,       \* deliveries that their receiver has taken in
    announced,      \* webhook.delivery.failed events
    \* --- in the memory of the process
    pc,             \* the await each worker is at
    todo,           \* endpoints dispatchWebhook has still to serve
    batch,          \* rows, as a poll read them, that it has still to retry
    job,            \* the row a worker is busy with, as it read it
    failures        \* failures so far

rowVars    == <<active, status, endpoint, attempt, due>>
outVars    == <<posts, accepted, announced>>
vars       == <<rowVars, outVars, pc, todo, batch, job, failures>>

NoJob == [delivery |-> None, attempt |-> 0]
Delivery(w) == job[w].delivery

Init ==
    /\ active = Endpoints
    /\ status = [d \in Deliveries |-> "none"]
    /\ endpoint = [d \in Deliveries |-> None]
    /\ attempt = [d \in Deliveries |-> 0]
    /\ due = {}
    /\ posts = [d \in Deliveries |-> 0]
    /\ accepted = {}
    /\ announced = {}
    /\ pc = [w \in Workers |-> "idle"]
    /\ todo = {}
    /\ batch = [w \in Workers |-> {}]
    /\ job = [w \in Workers |-> NoJob]
    /\ failures = 0

-----------------------------------------------------------------------------
Goto(w, l) == pc' = [pc EXCEPT ![w] = l]
SetStatus(d, s) == status' = [status EXCEPT ![d] = s]

\* The worker turns to its next row.
NextRow(w) == Goto(w, "next") /\ job' = [job EXCEPT ![w] = NoJob]

\* An SQL statement that throws; what it wrote may have been written or not.
Fails == failures < MaxFailures /\ failures' = failures + 1
Works == UNCHANGED failures

-----------------------------------------------------------------------------
(* dispatchWebhook                                                         *)

\* findActiveByEvent: the rows of the endpoints are read now and used later.
HandleEvent ==
    /\ pc[Dispatcher] = "idle"
    /\ active # {}
    /\ Cardinality(active) <= Cardinality({d \in Deliveries : status[d] = "none"})
    /\ todo' = active
    /\ Goto(Dispatcher, "next")
    /\ UNCHANGED <<rowVars, outVars, batch, job, failures>>

Insert(d, e) ==
    /\ SetStatus(d, "pending")
    /\ endpoint' = [endpoint EXCEPT ![d] = e]
    /\ attempt' = [attempt EXCEPT ![d] = 1]

CreateDelivery ==
    /\ pc[Dispatcher] = "next"
    /\ \E e \in todo, d \in Deliveries :
        /\ status[d] = "none"
        /\ todo' = todo \ {e}
        /\ \/ /\ Insert(d, e)
              /\ job' = [job EXCEPT ![Dispatcher] = [delivery |-> d, attempt |-> 1]]
              /\ Goto(Dispatcher, "post")
              /\ Works
           \/ /\ Insert(d, e) \/ UNCHANGED <<status, endpoint, attempt>>
              /\ UNCHANGED <<pc, job>>
              /\ Fails
    /\ UNCHANGED <<active, due, outVars, batch>>

-----------------------------------------------------------------------------
(* processRetries                                                          *)

\* mutant: rows at their last attempt are left out
LastIsForgotten ==
    {d \in Deliveries : status[d] = "retrying" /\ d \in due /\ attempt[d] <= MaxRetries}

Pending == {d \in Deliveries : status[d] = "retrying" /\ d \in due}

\* findPendingRetries: the poll goes on with the rows as they are now.
Poll(w) ==
    /\ w \in Polls
    /\ pc[w] = "idle"
    /\ Pending # {}
    /\ batch' = [batch EXCEPT ![w] =
            {[delivery |-> d, attempt |-> attempt[d]] : d \in Pending}]
    /\ Goto(w, "next")
    /\ UNCHANGED <<rowVars, outVars, todo, job, failures>>

\* retryDelivery: the endpoint is looked up again.
LookUp(w) ==
    /\ pc[w] = "next"
    /\ \E s \in batch[w] :
        /\ batch' = [batch EXCEPT ![w] = @ \ {s}]
        /\ \/ /\ job' = [job EXCEPT ![w] = s]
              /\ Goto(w, IF endpoint[s.delivery] \in active THEN "post" ELSE "retire")
              /\ Works
           \/ UNCHANGED <<pc, job>> /\ Fails
    /\ UNCHANGED <<rowVars, outVars, todo>>

\* markFailed for a deactivated endpoint; nothing is announced.
Retire(w) ==
    /\ pc[w] = "retire"
    /\ \/ SetStatus(Delivery(w), "failed") /\ Works
       \/ SetStatus(Delivery(w), "failed") /\ Fails
       \/ UNCHANGED status /\ Fails
    /\ NextRow(w)
    /\ UNCHANGED <<active, endpoint, attempt, due, outVars, todo, batch>>

\* The end of the loop over the endpoints or the rows.
Rest(w) ==
    /\ pc[w] = "next"
    /\ batch[w] = {}
    /\ w = Dispatcher => todo = {}
    /\ Goto(w, "idle")
    /\ UNCHANGED <<rowVars, outVars, todo, batch, job, failures>>

-----------------------------------------------------------------------------
(* attemptDelivery and scheduleRetry                                       *)

Sent(d) == posts' = [posts EXCEPT ![d] = @ + 1]

\* mutant: no answer is taken for an answer
TimeoutIsFine(w) ==
    /\ pc[w] = "post"
    /\ Sent(Delivery(w))
    /\ \/ accepted' = accepted \cup {Delivery(w)} /\ Goto(w, "record")
       \/ UNCHANGED accepted /\ Goto(w, "retry")
       \/ UNCHANGED accepted /\ Goto(w, "record")
    /\ UNCHANGED <<rowVars, announced, todo, batch, job, failures>>

\* mutant: a timeout is not caught in attemptDelivery
TimeoutEscapes(w) ==
    /\ pc[w] = "post"
    /\ Sent(Delivery(w))
    /\ \/ accepted' = accepted \cup {Delivery(w)} /\ Goto(w, "record") /\ UNCHANGED job
       \/ UNCHANGED accepted /\ Goto(w, "retry") /\ UNCHANGED job
       \/ UNCHANGED accepted /\ NextRow(w)
    /\ UNCHANGED <<rowVars, announced, todo, batch, failures>>

\* The POST: a 2xx, another status, or no answer within 5 seconds, and then
\* the receiver may have taken the event in or not.
Post(w) ==
    /\ pc[w] = "post"
    /\ Sent(Delivery(w))
    /\ \/ accepted' = accepted \cup {Delivery(w)} /\ Goto(w, "record")
       \/ UNCHANGED accepted /\ Goto(w, "retry")
       \/ accepted' \in {accepted, accepted \cup {Delivery(w)}} /\ Goto(w, "again")
    /\ UNCHANGED <<rowVars, announced, todo, batch, job, failures>>

\* markDelivered, which when it throws is taken for a failed delivery.
RecordDelivered(w) ==
    /\ pc[w] = "record"
    /\ \/ SetStatus(Delivery(w), "delivered") /\ NextRow(w) /\ Works
       \/ /\ SetStatus(Delivery(w), "delivered") \/ UNCHANGED status
          /\ Goto(w, "again")
          /\ UNCHANGED job
          /\ Fails
    /\ UNCHANGED <<active, endpoint, attempt, due, outVars, todo, batch>>

\* mutant: one attempt too few
OneTooFew(w) == job[w].attempt >= MaxRetries

\* Which attempt this was is told from the row as the worker read it.
Exhausted(w) == job[w].attempt > MaxRetries

MarkRetrying(d) ==
    /\ SetStatus(d, "retrying")
    /\ attempt' = [attempt EXCEPT ![d] = @ + 1]
    /\ due' = due \ {d}

\* scheduleRetry, called in the try block after an answer ("retry") or in the
\* catch block ("again"); if it throws in the former the latter calls it again.
ScheduleRetry(w) ==
    /\ pc[w] \in {"retry", "again"}
    /\ \/ ~Exhausted(w) /\ MarkRetrying(Delivery(w)) /\ NextRow(w) /\ Works
       \/ /\ Exhausted(w)
          /\ SetStatus(Delivery(w), "failed")
          /\ Goto(w, "announce")
          /\ UNCHANGED <<attempt, due, job>>
          /\ Works
       \/ /\ \/ ~Exhausted(w) /\ MarkRetrying(Delivery(w))
             \/ Exhausted(w) /\ SetStatus(Delivery(w), "failed") /\ UNCHANGED <<attempt, due>>
             \/ UNCHANGED <<status, attempt, due>>
          /\ IF pc[w] = "retry" THEN Goto(w, "again") /\ UNCHANGED job ELSE NextRow(w)
          /\ Fails
    /\ UNCHANGED <<active, endpoint, outVars, todo, batch>>

\* publishEvent(WEBHOOK_DELIVERY_FAILED); its errors are swallowed.
Announce(w) ==
    /\ pc[w] = "announce"
    /\ \/ announced' = announced \cup {Delivery(w)} /\ Works
       \/ UNCHANGED announced /\ Fails
    /\ NextRow(w)
    /\ UNCHANGED <<rowVars, posts, accepted, todo, batch>>

-----------------------------------------------------------------------------
(* What goes on outside                                                    *)

\* next_retry_at passes.
BecomeDue(d) ==
    /\ status[d] = "retrying"
    /\ d \notin due
    /\ due' = due \cup {d}
    /\ UNCHANGED <<active, status, endpoint, attempt, outVars, pc, todo, batch, job,
                   failures>>

\* The owner deletes an endpoint.
Deactivate(e) ==
    /\ e \in active
    /\ active' = active \ {e}
    /\ UNCHANGED <<status, endpoint, attempt, due, outVars, pc, todo, batch, job,
                   failures>>

\* The process dies and is started again.
Crash ==
    /\ Fails
    /\ \E w \in Workers : pc[w] # "idle"
    /\ pc' = [w \in Workers |-> "idle"]
    /\ todo' = {}
    /\ batch' = [w \in Workers |-> {}]
    /\ job' = [w \in Workers |-> NoJob]
    /\ UNCHANGED <<rowVars, outVars>>

-----------------------------------------------------------------------------
WorkerStep(w) ==
    \/ LookUp(w)
    \/ Retire(w)
    \/ Rest(w)
    \/ Post(w)
    \/ RecordDelivered(w)
    \/ ScheduleRetry(w)
    \/ Announce(w)

Next ==
    \/ HandleEvent
    \/ CreateDelivery
    \/ \E w \in Workers : Poll(w) \/ WorkerStep(w)
    \/ \E d \in Deliveries : BecomeDue(d)
    \/ \E e \in Endpoints : Deactivate(e)
    \/ Crash

Spec == Init /\ [][Next]_vars

\* The event loop runs, fetch times out, the interval fires, time passes.
\* Events need not come and endpoints need not go.
Fairness ==
    /\ WF_vars(CreateDelivery)
    /\ \A w \in Workers : WF_vars(WorkerStep(w)) /\ WF_vars(Poll(w))
    /\ \A d \in Deliveries : WF_vars(BecomeDue(d))

FairSpec == Spec /\ Fairness

-----------------------------------------------------------------------------
(* Properties                                                              *)

Statuses == {"none", "pending", "retrying", "delivered", "failed"}
Locations == {"idle", "next", "retire", "post", "record", "retry", "again", "announce"}
Snapshots == [delivery : Deliveries, attempt : Nat \ {0}]

RowsTypeOK ==
    /\ active \subseteq Endpoints
    /\ status \in [Deliveries -> Statuses]
    /\ endpoint \in [Deliveries -> Endpoints \cup {None}]
    /\ attempt \in [Deliveries -> Nat]
    /\ due \subseteq Deliveries
    /\ posts \in [Deliveries -> Nat]
    /\ accepted \subseteq Deliveries
    /\ announced \subseteq Deliveries

WorkersTypeOK ==
    /\ pc \in [Workers -> Locations]
    /\ todo \subseteq Endpoints
    /\ batch \in [Workers -> SUBSET Snapshots]
    /\ job \in [Workers -> Snapshots \cup {NoJob}]
    /\ failures \in 0 .. MaxFailures

\* Every variable keeps its type, and a worker has a row in hand exactly while
\* it is busy with one.
TypeOK ==
    /\ RowsTypeOK
    /\ WorkersTypeOK
    /\ \A w \in Workers : job[w] = NoJob <=> pc[w] \in {"idle", "next"}

\* A row says 'delivered' only if the receiver has taken the webhook in,
\* however many workers, timeouts and late retries were at it.
DeliveredWasAccepted ==
    \A d \in Deliveries : status[d] = "delivered" => d \in accepted

\* The merchant is told that a delivery was given up only after one POST and
\* MaxRetries retries, though overlapping polls count attempts from stale rows.
\* A failure can cost an attempt: an UPDATE that was written and then repeated
\* because it threw counts twice.
GivenUpAfterAllAttempts ==
    \A d \in announced : posts[d] + failures > MaxRetries

Left == {d \in Deliveries : status[d] = "pending" /\ Delivery(Dispatcher) # d}

\* A row is 'pending', where the retry worker does not look, only while
\* dispatchWebhook is at it.  Each SQL statement that fails and each crash may
\* leave one such row behind, and no more.
NothingLeftPending == Cardinality(Left) <= failures

\* Whatever is to be retried is in the end delivered or given up.
RetriesEnd ==
    \A d \in Deliveries : status[d] = "retrying" ~> status[d] \in {"delivered", "failed"}

-----------------------------------------------------------------------------
(* Why they hold: the parts of an inductive invariant                      *)

\* What a worker read of a row is not newer than the row.
IsOlderThanRow(s) == status[s.delivery] # "none" /\ s.attempt <= attempt[s.delivery]

SnapshotsAreOld ==
    /\ \A w \in Workers : \A s \in batch[w] : IsOlderThanRow(s)
    /\ \A w \in Workers : job[w] # NoJob => IsOlderThanRow(job[w])

\* Only polls retry; only the dispatcher has new rows.
DispatcherDispatches ==
    /\ batch[Dispatcher] = {}
    /\ pc[Dispatcher] # "retire"

\* Workers that have sent d and have not yet counted the attempt.
Uncounted(d) ==
    {w \in Workers : Delivery(w) = d /\ pc[w] \in {"record", "retry", "again"}}

\* An attempt is counted only once it was made, or because of a failure.
AttemptsWereMade ==
    \A d \in Deliveries : status[d] # "none" =>
        /\ attempt[d] >= 1
        /\ attempt[d] + Cardinality(Uncounted(d)) <= posts[d] + failures + 1

\* What a worker is about to say is so.
WorkersAreRight ==
    \A w \in Workers :
        /\ pc[w] = "record" => Delivery(w) \in accepted
        /\ pc[w] = "announce" => /\ status[Delivery(w)] # "pending"
                                 /\ posts[Delivery(w)] + failures > MaxRetries

DeliveryInv ==
    /\ TypeOK
    /\ SnapshotsAreOld
    /\ DispatcherDispatches
    /\ AttemptsWereMade
    /\ WorkersAreRight
    /\ DeliveredWasAccepted
    /\ GivenUpAfterAllAttempts
    /\ IsFiniteSet(Left) /\ NothingLeftPending

=============================================================================
