---------------------------- MODULE WebhookProofs ----------------------------
(***************************************************************************)
(* Theorems about WebhookDelivery, for any number of rows, endpoints,      *)
(* overlapping polls, retries and failures.  All rest on DeliveryInv being *)
(* inductive.                                                              *)
(***************************************************************************)
EXTENDS WebhookDelivery, FiniteSetTheorems, TLAPS

USE RetriesAreCounted, FailuresAreCounted, DispatcherPollsNot, NoneIsNothing

\* The steps that neither send nor write a row.
QuietStep(w) == LookUp(w) \/ Rest(w) \/ Poll(w) \/ Announce(w)

OutsideStep ==
    \/ \E d \in Deliveries : BecomeDue(d)
    \/ \E e \in Endpoints : Deactivate(e)

LEMMA StepCases ==
  ASSUME [Next]_vars
  PROVE  \/ HandleEvent
         \/ CreateDelivery
         \/ \E w \in Workers : QuietStep(w)
         \/ \E w \in Workers : Retire(w)
         \/ \E w \in Workers : Post(w)
         \/ \E w \in Workers : RecordDelivered(w)
         \/ \E w \in Workers : ScheduleRetry(w)
         \/ OutsideStep
         \/ Crash
         \/ UNCHANGED vars
BY DEF Next, WorkerStep, QuietStep, OutsideStep

-----------------------------------------------------------------------------
(* Sets that grow and shrink by an element                                 *)

LEMMA AtMostOneMore ==
  ASSUME NEW S, IsFiniteSet(S), NEW T, NEW x, T \subseteq S \cup {x}
  PROVE  IsFiniteSet(T) /\ Cardinality(T) <= Cardinality(S) + 1
<1>0. Cardinality(S) \in Nat
  BY FS_CardinalityType
<1>1. /\ IsFiniteSet(S \cup {x})
      /\ Cardinality(S \cup {x}) = IF x \in S THEN Cardinality(S) ELSE Cardinality(S) + 1
  BY FS_AddElement, Zenon
<1>2. IsFiniteSet(T) /\ Cardinality(T) <= Cardinality(S \cup {x})
  BY <1>1, FS_Subset
<1>3. Cardinality(S \cup {x}) <= Cardinality(S) + 1
  BY <1>0, <1>1
<1>. QED
  BY <1>0, <1>1, <1>2, <1>3, FS_CardinalityType

LEMMA OneFewer ==
  ASSUME NEW S, IsFiniteSet(S), NEW T, NEW x \in S, T \subseteq S \ {x}
  PROVE  Cardinality(T) <= Cardinality(S) - 1
<1>1. IsFiniteSet(S \ {x}) /\ Cardinality(S \ {x}) = Cardinality(S) - 1
  BY FS_RemoveElement
<1>. QED
  BY <1>1, FS_Subset

LEMMA UncountedIsFinite ==
  ASSUME NEW d
  PROVE  /\ IsFiniteSet(Uncounted(d))
         /\ IsFiniteSet(Uncounted(d)')
         /\ Cardinality(Uncounted(d)) \in Nat
         /\ Cardinality(Uncounted(d)') \in Nat
<1>1. IsFiniteSet(Workers)
  BY PollsAreFinite, FS_AddElement DEF Workers
<1>2. Uncounted(d) \subseteq Workers /\ Uncounted(d)' \subseteq Workers
  BY DEF Uncounted, Workers
<1>. QED
  BY <1>1, <1>2, FS_Subset, FS_CardinalityType

-----------------------------------------------------------------------------
(* Types                                                                   *)

\* A busy worker has a row in hand.
LEMMA Busy ==
  ASSUME TypeOK, NEW w \in Workers, pc[w] \notin {"idle", "next"}
  PROVE  /\ job[w] \in Snapshots
         /\ job[w] # NoJob
         /\ Delivery(w) \in Deliveries
         /\ job[w].attempt \in Nat
BY DEF TypeOK, WorkersTypeOK, Delivery, Snapshots, NoJob

\* Whoever has a row in hand is busy.
LEMMA InHand ==
  ASSUME TypeOK, NEW w \in Workers, Delivery(w) \in Deliveries
  PROVE  job[w] # NoJob /\ pc[w] \notin {"idle", "next"}
BY DEF TypeOK, Delivery, NoJob

LEMMA RowsTypeStep ==
  ASSUME TypeOK, [Next]_vars
  PROVE  RowsTypeOK'
<1>. USE DEF TypeOK, RowsTypeOK, Statuses
<1>1. CASE HandleEvent
  BY <1>1 DEF HandleEvent, rowVars, outVars
<1>2. CASE CreateDelivery
  BY <1>2 DEF CreateDelivery, Insert, SetStatus, outVars, WorkersTypeOK
<1>3. ASSUME NEW w \in Workers, QuietStep(w)
      PROVE  RowsTypeOK'
  <2>1. CASE LookUp(w) \/ Rest(w) \/ Poll(w)
    BY <2>1 DEF LookUp, Rest, Poll, rowVars, outVars
  <2>2. CASE Announce(w)
    <3>1. Delivery(w) \in Deliveries
      BY <2>2, Busy DEF Announce
    <3>. QED
      BY <2>2, <3>1 DEF Announce, rowVars
  <2>. QED
    BY <1>3, <2>1, <2>2 DEF QuietStep
<1>4. ASSUME NEW w \in Workers, Retire(w)
      PROVE  RowsTypeOK'
  BY <1>4 DEF Retire, SetStatus, outVars
<1>5. ASSUME NEW w \in Workers, Post(w)
      PROVE  RowsTypeOK'
  <2>1. Delivery(w) \in Deliveries
    BY <1>5, Busy DEF Post
  <2>. QED
    BY <1>5, <2>1 DEF Post, Sent, rowVars
<1>6. ASSUME NEW w \in Workers, RecordDelivered(w)
      PROVE  RowsTypeOK'
  BY <1>6 DEF RecordDelivered, SetStatus, outVars
<1>7. ASSUME NEW w \in Workers, ScheduleRetry(w)
      PROVE  RowsTypeOK'
  BY <1>7 DEF ScheduleRetry, MarkRetrying, SetStatus, outVars
<1>8. CASE OutsideStep
  BY <1>8 DEF OutsideStep, BecomeDue, Deactivate, outVars
<1>9. CASE Crash
  BY <1>9 DEF Crash, rowVars, outVars
<1>10. CASE UNCHANGED vars
  BY <1>10 DEF vars, rowVars, outVars
<1>. QED
  BY StepCases, <1>1, <1>2, <1>3, <1>4, <1>5, <1>6, <1>7, <1>8, <1>9, <1>10

LEMMA WorkersTypeStep ==
  ASSUME TypeOK, AttemptsWereMade, [Next]_vars
  PROVE  WorkersTypeOK' /\ (\A w \in Workers : job[w] = NoJob <=> pc[w] \in {"idle", "next"})'
<1>. DEFINE InHandWhileBusy == \A w \in Workers : job[w] = NoJob <=> pc[w] \in {"idle", "next"}
<1>. USE DEF TypeOK, WorkersTypeOK, Locations, Goto
<1>0. /\ NoJob \notin Snapshots
      /\ \A d \in Deliveries, n \in Nat \ {0} : [delivery |-> d, attempt |-> n] \in Snapshots
  BY DEF NoJob, Snapshots
<1>1. CASE HandleEvent
  BY <1>1 DEF HandleEvent, RowsTypeOK, Workers
<1>2. CASE CreateDelivery
  BY <1>0, <1>2 DEF CreateDelivery, Workers, Works, Fails
<1>3. ASSUME NEW w \in Workers, QuietStep(w)
      PROVE  WorkersTypeOK' /\ InHandWhileBusy'
  <2>1. CASE LookUp(w)
    <3>1. batch[w] \in SUBSET Snapshots
      OBVIOUS
    <3>2. PICK s \in batch[w] :
            /\ batch' = [batch EXCEPT ![w] = @ \ {s}]
            /\ \/ /\ job' = [job EXCEPT ![w] = s]
                  /\ Goto(w, IF endpoint[s.delivery] \in active THEN "post" ELSE "retire")
                  /\ Works
               \/ UNCHANGED <<pc, job>> /\ Fails
      BY <2>1 DEF LookUp
    <3>3. batch' \in [Workers -> SUBSET Snapshots]
      BY <3>1, <3>2
    <3>. QED
      BY <1>0, <2>1, <3>1, <3>2, <3>3 DEF LookUp, Works, Fails
  <2>2. CASE Rest(w)
    BY <2>2 DEF Rest
  <2>3. CASE Poll(w)
    <3>1. \A d \in Pending : attempt[d] \in Nat \ {0}
      BY DEF Pending, AttemptsWereMade, RowsTypeOK
    <3>2. {[delivery |-> d, attempt |-> attempt[d]] : d \in Pending} \subseteq Snapshots
      BY <1>0, <3>1 DEF Pending
    <3>. QED
      BY <2>3, <3>2 DEF Poll
  <2>4. CASE Announce(w)
    BY <2>4 DEF Announce, NextRow, Works, Fails
  <2>. QED
    BY <1>3, <2>1, <2>2, <2>3, <2>4 DEF QuietStep
<1>4. ASSUME NEW w \in Workers, Retire(w)
      PROVE  WorkersTypeOK' /\ InHandWhileBusy'
  BY <1>4 DEF Retire, NextRow, Works, Fails
<1>5. ASSUME NEW w \in Workers, Post(w)
      PROVE  WorkersTypeOK' /\ InHandWhileBusy'
  BY <1>5 DEF Post
<1>6. ASSUME NEW w \in Workers, RecordDelivered(w)
      PROVE  WorkersTypeOK' /\ InHandWhileBusy'
  BY <1>6 DEF RecordDelivered, NextRow, Works, Fails
<1>7. ASSUME NEW w \in Workers, ScheduleRetry(w)
      PROVE  WorkersTypeOK' /\ InHandWhileBusy'
  BY <1>7 DEF ScheduleRetry, NextRow, Works, Fails
<1>8. CASE OutsideStep
  BY <1>8 DEF OutsideStep, BecomeDue, Deactivate
<1>9. CASE Crash
  BY <1>9 DEF Crash, Fails
<1>10. CASE UNCHANGED vars
  BY <1>10 DEF vars
<1>. QED
  BY StepCases, <1>1, <1>2, <1>3, <1>4, <1>5, <1>6, <1>7, <1>8, <1>9, <1>10

LEMMA TypeStep ==
  ASSUME TypeOK, AttemptsWereMade, [Next]_vars
  PROVE  TypeOK'
BY RowsTypeStep, WorkersTypeStep DEF TypeOK

-----------------------------------------------------------------------------
(* Rows only grow older                                                    *)

\* No step makes a row forget an attempt or that it exists.
LEMMA RowsAge ==
  ASSUME TypeOK, [Next]_vars, NEW d \in Deliveries, status[d] # "none"
  PROVE  status'[d] # "none" /\ attempt'[d] >= attempt[d]
<1>. USE DEF TypeOK, RowsTypeOK, WorkersTypeOK
<1>0. attempt[d] \in Nat
  OBVIOUS
<1>1. CASE HandleEvent \/ Crash \/ UNCHANGED vars
  BY <1>0, <1>1 DEF HandleEvent, Crash, vars, rowVars
<1>2. CASE CreateDelivery
  BY <1>0, <1>2 DEF CreateDelivery, Insert, SetStatus
<1>3. ASSUME NEW w \in Workers, QuietStep(w) \/ Post(w)
      PROVE  status'[d] # "none" /\ attempt'[d] >= attempt[d]
  BY <1>0, <1>3 DEF QuietStep, LookUp, Rest, Poll, Announce, Post, rowVars
<1>4. ASSUME NEW w \in Workers, Retire(w) \/ RecordDelivered(w)
      PROVE  status'[d] # "none" /\ attempt'[d] >= attempt[d]
  BY <1>0, <1>4 DEF Retire, RecordDelivered, SetStatus
<1>5. ASSUME NEW w \in Workers, ScheduleRetry(w)
      PROVE  status'[d] # "none" /\ attempt'[d] >= attempt[d]
  BY <1>0, <1>5 DEF ScheduleRetry, MarkRetrying, SetStatus
<1>6. CASE OutsideStep
  BY <1>0, <1>6 DEF OutsideStep, BecomeDue, Deactivate
<1>. QED
  BY StepCases, <1>1, <1>2, <1>3, <1>4, <1>5, <1>6

\* So what is older than a row stays older.
LEMMA OldStaysOld ==
  ASSUME TypeOK, [Next]_vars, NEW s \in Snapshots, IsOlderThanRow(s)
  PROVE  status'[s.delivery] # "none" /\ s.attempt <= attempt'[s.delivery]
<1>1. s.delivery \in Deliveries /\ s.attempt \in Nat
  BY DEF Snapshots
<1>2. attempt[s.delivery] \in Nat /\ attempt'[s.delivery] \in Nat
  BY <1>1, RowsTypeStep DEF TypeOK, RowsTypeOK
<1>. QED
  BY <1>1, <1>2, RowsAge DEF IsOlderThanRow

LEMMA SnapshotsStep ==
  ASSUME TypeOK, SnapshotsAreOld, AttemptsWereMade, [Next]_vars
  PROVE  SnapshotsAreOld'
<1>. DEFINE Old(s) == status'[s.delivery] # "none" /\ s.attempt <= attempt'[s.delivery]
            BatchesAreOld == \A w \in Workers : \A s \in batch'[w] : Old(s)
            JobsAreOld == \A w \in Workers : job'[w] # NoJob => Old(job'[w])
<1>. SUFFICES BatchesAreOld /\ JobsAreOld
  BY DEF SnapshotsAreOld, IsOlderThanRow
<1>. USE DEF TypeOK, WorkersTypeOK
<1>1. \A w \in Workers : \A s \in batch[w] : Old(s)
  BY OldStaysOld DEF SnapshotsAreOld
<1>2. \A w \in Workers : job[w] # NoJob => Old(job[w])
  <2>. SUFFICES ASSUME NEW w \in Workers, job[w] # NoJob
                PROVE  Old(job[w])
    OBVIOUS
  <2>1. job[w] \in Snapshots
    OBVIOUS
  <2>. QED
    BY <2>1, OldStaysOld DEF SnapshotsAreOld
<1>3. CASE HandleEvent \/ OutsideStep \/ UNCHANGED vars
  BY <1>1, <1>2, <1>3 DEF HandleEvent, OutsideStep, BecomeDue, Deactivate, vars
<1>4. CASE CreateDelivery
  <2>1. batch' = batch
    BY <1>4 DEF CreateDelivery
  <2>2. PICK d \in Deliveries :
          \/ job' = job
          \/ /\ job' = [job EXCEPT ![Dispatcher] = [delivery |-> d, attempt |-> 1]]
             /\ Insert(d, endpoint'[d])
    BY <1>4 DEF CreateDelivery, Insert, RowsTypeOK
  <2>3. CASE job' = job
    BY <1>1, <1>2, <2>1, <2>3
  <2>4. CASE /\ job' = [job EXCEPT ![Dispatcher] = [delivery |-> d, attempt |-> 1]]
             /\ Insert(d, endpoint'[d])
    <3>1. Old([delivery |-> d, attempt |-> 1])
      BY <2>4 DEF Insert, SetStatus, RowsTypeOK
    <3>. QED
      BY <1>1, <1>2, <2>1, <2>4, <3>1
  <2>. QED
    BY <2>2, <2>3, <2>4
<1>5. ASSUME NEW w \in Workers, QuietStep(w)
      PROVE  BatchesAreOld /\ JobsAreOld
  <2>1. CASE LookUp(w)
    <3>1. PICK s \in batch[w] :
            /\ batch' = [batch EXCEPT ![w] = @ \ {s}]
            /\ job' = job \/ job' = [job EXCEPT ![w] = s]
      BY <2>1 DEF LookUp
    <3>. QED
      BY <1>1, <1>2, <3>1
  <2>2. CASE Rest(w)
    BY <1>1, <1>2, <2>2 DEF Rest
  <2>3. CASE Poll(w)
    <3>1. \A d \in Pending : Old([delivery |-> d, attempt |-> attempt[d]])
      BY <2>3 DEF Poll, Pending, rowVars, RowsTypeOK
    <3>2. batch' = [batch EXCEPT ![w] =
                      {[delivery |-> d, attempt |-> attempt[d]] : d \in Pending}]
      BY <2>3 DEF Poll
    <3>. QED
      BY <1>1, <1>2, <2>3, <3>1, <3>2 DEF Poll
  <2>4. CASE Announce(w)
    BY <1>1, <1>2, <2>4 DEF Announce, NextRow
  <2>. QED
    BY <1>5, <2>1, <2>2, <2>3, <2>4 DEF QuietStep
<1>6. ASSUME NEW w \in Workers,
             Retire(w) \/ Post(w) \/ RecordDelivered(w) \/ ScheduleRetry(w)
      PROVE  BatchesAreOld /\ JobsAreOld
  BY <1>1, <1>2, <1>6 DEF Retire, Post, RecordDelivered, ScheduleRetry, NextRow
<1>7. CASE Crash
  BY <1>7 DEF Crash
<1>. QED
  BY StepCases, <1>3, <1>4, <1>5, <1>6, <1>7

LEMMA DispatcherStep ==
  ASSUME TypeOK, DispatcherDispatches, [Next]_vars
  PROVE  DispatcherDispatches'
<1>. USE DEF TypeOK, WorkersTypeOK, DispatcherDispatches, Goto
<1>0. Dispatcher \in Workers
  BY DEF Workers
<1>1. CASE HandleEvent \/ CreateDelivery \/ OutsideStep \/ UNCHANGED vars
  BY <1>0, <1>1 DEF HandleEvent, CreateDelivery, OutsideStep, BecomeDue, Deactivate, vars
<1>2. ASSUME NEW w \in Workers, QuietStep(w) \/ Retire(w)
      PROVE  DispatcherDispatches'
  BY <1>0, <1>2 DEF QuietStep, LookUp, Rest, Poll, Announce, Retire, NextRow
<1>3. ASSUME NEW w \in Workers, Post(w) \/ RecordDelivered(w) \/ ScheduleRetry(w)
      PROVE  DispatcherDispatches'
  BY <1>0, <1>3 DEF Post, RecordDelivered, ScheduleRetry, NextRow
<1>4. CASE Crash
  BY <1>0, <1>4 DEF Crash
<1>. QED
  BY StepCases, <1>1, <1>2, <1>3, <1>4

-----------------------------------------------------------------------------
(* Attempts are counted once they were made                                *)

\* The count of d holds if the step frees a worker, sends d, or fails for
\* every attempt that it adds.
LEMMA CountedFrame ==
  ASSUME TypeOK, TypeOK', AttemptsWereMade, NEW d \in Deliveries, status[d] # "none",
         attempt'[d] >= attempt[d],
         attempt'[d] + Cardinality(Uncounted(d)') + posts[d] + failures
            <= attempt[d] + Cardinality(Uncounted(d)) + posts'[d] + failures'
  PROVE  /\ attempt'[d] >= 1
         /\ attempt'[d] + Cardinality(Uncounted(d)') <= posts'[d] + failures' + 1
<1>1. /\ attempt[d] \in Nat /\ attempt'[d] \in Nat
      /\ posts[d] \in Nat /\ posts'[d] \in Nat
      /\ failures \in Nat /\ failures' \in Nat
  BY DEF TypeOK, RowsTypeOK, WorkersTypeOK
<1>2. attempt[d] >= 1 /\ attempt[d] + Cardinality(Uncounted(d)) <= posts[d] + failures + 1
  BY DEF AttemptsWereMade
<1>. QED
  BY <1>1, <1>2, UncountedIsFinite

LEMMA AttemptsStep ==
  ASSUME TypeOK, SnapshotsAreOld, DispatcherDispatches, AttemptsWereMade, [Next]_vars
  PROVE  AttemptsWereMade'
<1>. DEFINE Made(d) == /\ attempt'[d] >= 1
                       /\ attempt'[d] + Cardinality(Uncounted(d)') <= posts'[d] + failures' + 1
<1>. SUFFICES ASSUME NEW d \in Deliveries, status'[d] # "none"
              PROVE  Made(d)
  BY DEF AttemptsWereMade
<1>1. TypeOK'
  BY TypeStep
<1>2. /\ attempt[d] \in Nat /\ attempt'[d] \in Nat
      /\ posts[d] \in Nat /\ posts'[d] \in Nat
      /\ failures \in Nat /\ failures' \in Nat
      /\ Cardinality(Uncounted(d)) \in Nat /\ Cardinality(Uncounted(d)') \in Nat
  BY <1>1, UncountedIsFinite DEF TypeOK, RowsTypeOK, WorkersTypeOK
<1>. DEFINE Frame == /\ status[d] # "none"
                     /\ attempt'[d] >= attempt[d]
                     /\ attempt'[d] + Cardinality(Uncounted(d)') + posts[d] + failures
                          <= attempt[d] + Cardinality(Uncounted(d)) + posts'[d] + failures'
<1>3. Frame => Made(d)
  BY <1>1, CountedFrame
<1>. HIDE DEF Frame, Made
<1>4. ASSUME UNCHANGED <<status, attempt, posts>>, failures' >= failures,
             Uncounted(d)' \subseteq Uncounted(d)
      PROVE  Frame
  <2>1. Cardinality(Uncounted(d)') <= Cardinality(Uncounted(d))
    BY <1>4, UncountedIsFinite, FS_Subset
  <2>. QED
    BY <1>2, <1>4, <2>1 DEF Frame
<1>5. Dispatcher \in Workers
  BY DEF Workers
<1>6. CASE HandleEvent
  <2>1. Uncounted(d)' \subseteq Uncounted(d)
    BY <1>6 DEF HandleEvent, Uncounted, Delivery, Goto, TypeOK, WorkersTypeOK
  <2>. QED
    BY <1>2, <1>3, <1>4, <1>6, <2>1 DEF HandleEvent, rowVars, outVars
<1>7. CASE CreateDelivery
  <2>1. Uncounted(d)' \subseteq Uncounted(d)
    BY <1>7 DEF CreateDelivery, Uncounted, Delivery, Goto, TypeOK, WorkersTypeOK
  <2>2. Cardinality(Uncounted(d)') <= Cardinality(Uncounted(d))
    BY <2>1, UncountedIsFinite, FS_Subset
  <2>3. posts' = posts /\ failures' >= failures
    BY <1>2, <1>7 DEF CreateDelivery, Works, Fails, outVars
  <2>4. CASE status[d] # "none"
    <3>1. attempt'[d] = attempt[d]
      BY <1>7, <2>4 DEF CreateDelivery, Insert, TypeOK, RowsTypeOK
    <3>. QED
      BY <1>2, <1>3, <2>2, <2>3, <2>4, <3>1 DEF Frame
  <2>5. CASE status[d] = "none"
    <3>1. attempt'[d] = 1
      BY <1>7, <2>5 DEF CreateDelivery, Insert, SetStatus, TypeOK, RowsTypeOK
    <3>2. \A w \in Workers : Delivery(w) # d
      BY <2>5, InHand DEF SnapshotsAreOld, IsOlderThanRow, Delivery
    <3>3. Uncounted(d) = {}
      BY <3>2 DEF Uncounted
    <3>4. Cardinality(Uncounted(d)') = 0
      BY <2>1, <3>3, FS_EmptySet
    <3>. QED
      BY <1>2, <3>1, <3>4 DEF Made
  <2>. QED
    BY <2>4, <2>5
<1>8. ASSUME NEW w \in Workers, QuietStep(w)
      PROVE  Made(d)
  <2>1. Uncounted(d)' \subseteq Uncounted(d)
    <3>1. CASE LookUp(w)
      <4>1. /\ \A v \in Workers \ {w} : job'[v] = job[v] /\ pc'[v] = pc[v]
            /\ pc'[w] \notin {"record", "retry", "again"}
        BY <3>1 DEF LookUp, Goto, TypeOK, WorkersTypeOK
      <4>. QED
        BY <4>1 DEF Uncounted, Delivery
    <3>2. CASE Rest(w) \/ Poll(w) \/ Announce(w)
      BY <3>2 DEF Rest, Poll, Announce, NextRow, Uncounted, Delivery, Goto,
                  TypeOK, WorkersTypeOK
    <3>. QED
      BY <1>8, <3>1, <3>2 DEF QuietStep
  <2>2. UNCHANGED <<status, attempt, posts>> /\ failures' >= failures
    BY <1>2, <1>8 DEF QuietStep, LookUp, Rest, Poll, Announce, Works, Fails, rowVars, outVars
  <2>. QED
    BY <1>3, <1>4, <2>1, <2>2
<1>9. ASSUME NEW w \in Workers, Retire(w) \/ RecordDelivered(w)
      PROVE  Made(d)
  <2>1. Uncounted(d)' \subseteq Uncounted(d)
    BY <1>9 DEF Retire, RecordDelivered, NextRow, Uncounted, Delivery, Goto,
                TypeOK, WorkersTypeOK
  <2>2. Cardinality(Uncounted(d)') <= Cardinality(Uncounted(d))
    BY <2>1, UncountedIsFinite, FS_Subset
  <2>3. /\ UNCHANGED <<attempt, posts>>
        /\ failures' >= failures
    BY <1>2, <1>9 DEF Retire, RecordDelivered, Works, Fails, outVars
  <2>4. status[d] # "none"
    <3>1. pc[w] \notin {"idle", "next"}
      BY <1>9 DEF Retire, RecordDelivered
    <3>2. status[Delivery(w)] # "none"
      BY <3>1, Busy DEF SnapshotsAreOld, IsOlderThanRow, Delivery
    <3>. QED
      BY <1>9, <3>2 DEF Retire, RecordDelivered, SetStatus, TypeOK, RowsTypeOK
  <2>. QED
    BY <1>2, <1>3, <2>2, <2>3, <2>4 DEF Frame
<1>10. ASSUME NEW w \in Workers, Post(w)
       PROVE  Made(d)
  <2>1. /\ UNCHANGED <<status, attempt, job, failures>>
        /\ posts' = [posts EXCEPT ![Delivery(w)] = @ + 1]
        /\ \A v \in Workers \ {w} : pc'[v] = pc[v]
    BY <1>10 DEF Post, Sent, rowVars, Goto, TypeOK, WorkersTypeOK
  <2>2. CASE Delivery(w) = d
    <3>1. Uncounted(d)' \subseteq Uncounted(d) \cup {w}
      BY <2>1 DEF Uncounted, Delivery
    <3>2. Cardinality(Uncounted(d)') <= Cardinality(Uncounted(d)) + 1
      BY <3>1, UncountedIsFinite, AtMostOneMore
    <3>3. posts'[d] = posts[d] + 1
      BY <2>1, <2>2 DEF TypeOK, RowsTypeOK
    <3>. QED
      BY <1>2, <1>3, <2>1, <3>2, <3>3 DEF Frame
  <2>3. CASE Delivery(w) # d
    <3>1. Uncounted(d)' \subseteq Uncounted(d)
      BY <2>1, <2>3 DEF Uncounted, Delivery
    <3>2. Cardinality(Uncounted(d)') <= Cardinality(Uncounted(d))
      BY <3>1, UncountedIsFinite, FS_Subset
    <3>3. posts'[d] = posts[d]
      BY <2>1, <2>3 DEF TypeOK, RowsTypeOK
    <3>. QED
      BY <1>2, <1>3, <2>1, <3>2, <3>3 DEF Frame
  <2>. QED
    BY <2>2, <2>3
<1>11. ASSUME NEW w \in Workers, ScheduleRetry(w)
       PROVE  Made(d)
  <2>1. /\ pc[w] \in {"retry", "again"}
        /\ posts' = posts
    BY <1>11 DEF ScheduleRetry, outVars
  <2>2. Delivery(w) \in Deliveries /\ status[Delivery(w)] # "none"
    BY <2>1, Busy DEF SnapshotsAreOld, IsOlderThanRow, Delivery
  <2>3. status[d] # "none"
    BY <1>11, <2>2 DEF ScheduleRetry, MarkRetrying, SetStatus, TypeOK, RowsTypeOK
  <2>4. Uncounted(d)' \subseteq Uncounted(d)
    BY <1>11 DEF ScheduleRetry, NextRow, Uncounted, Delivery, Goto, TypeOK, WorkersTypeOK
  <2>5. Cardinality(Uncounted(d)') <= Cardinality(Uncounted(d))
    BY <2>4, UncountedIsFinite, FS_Subset
  <2>6. CASE attempt'[d] = attempt[d]
    BY <1>2, <1>3, <1>11, <2>1, <2>3, <2>5, <2>6 DEF Frame, ScheduleRetry, Works, Fails
  <2>7. CASE attempt'[d] # attempt[d]
    <3>1. Delivery(w) = d /\ attempt'[d] = attempt[d] + 1
      BY <1>11, <2>2, <2>7 DEF ScheduleRetry, MarkRetrying, TypeOK, RowsTypeOK
    <3>2. CASE Fails
      BY <1>2, <1>3, <2>1, <2>3, <2>5, <3>1, <3>2 DEF Frame, Fails
    <3>3. CASE ~Fails
      <4>1. NextRow(w) /\ Works
        BY <1>11, <2>7, <3>3 DEF ScheduleRetry
      <4>2. Uncounted(d)' \subseteq Uncounted(d) \ {w}
        BY <2>4, <4>1 DEF Uncounted, NextRow, Goto, TypeOK, WorkersTypeOK
      <4>3. w \in Uncounted(d)
        BY <2>1, <3>1 DEF Uncounted
      <4>4. Cardinality(Uncounted(d)') <= Cardinality(Uncounted(d)) - 1
        BY <4>2, <4>3, UncountedIsFinite, OneFewer
      <4>. QED
        BY <1>2, <1>3, <2>1, <2>3, <3>1, <4>1, <4>4 DEF Frame, Works
    <3>. QED
      BY <3>2, <3>3
  <2>. QED
    BY <2>6, <2>7
<1>12. CASE OutsideStep \/ UNCHANGED vars
  <2>1. UNCHANGED <<status, attempt, posts, failures, pc, job>>
    BY <1>12 DEF OutsideStep, BecomeDue, Deactivate, vars, rowVars, outVars
  <2>2. Uncounted(d)' \subseteq Uncounted(d)
    BY <2>1 DEF Uncounted, Delivery
  <2>. QED
    BY <1>2, <1>3, <1>4, <2>1, <2>2
<1>13. CASE Crash
  <2>1. Uncounted(d)' \subseteq Uncounted(d)
    BY <1>13 DEF Crash, Uncounted
  <2>. QED
    BY <1>2, <1>3, <1>4, <1>13, <2>1 DEF Crash, Fails, rowVars, outVars
<1>. QED
  BY StepCases, <1>6, <1>7, <1>8, <1>9, <1>10, <1>11, <1>12, <1>13

-----------------------------------------------------------------------------
(* What workers say is so                                                  *)

\* Nothing that was sent or taken in, or has failed, is taken back.
LEMMA SentStaysSent ==
  ASSUME TypeOK, [Next]_vars
  PROVE  /\ accepted \subseteq accepted'
         /\ failures' >= failures
         /\ \A d \in Deliveries : posts'[d] >= posts[d]
<1>. USE DEF TypeOK, RowsTypeOK, WorkersTypeOK
<1>1. CASE HandleEvent \/ CreateDelivery \/ OutsideStep \/ Crash \/ UNCHANGED vars
  BY <1>1 DEF HandleEvent, CreateDelivery, OutsideStep, BecomeDue, Deactivate, Crash,
              Works, Fails, vars, outVars
<1>2. ASSUME NEW w \in Workers,
             QuietStep(w) \/ Retire(w) \/ RecordDelivered(w) \/ ScheduleRetry(w)
      PROVE  UNCHANGED <<accepted, posts>> /\ failures' >= failures
  BY <1>2 DEF QuietStep, LookUp, Rest, Poll, Announce, Retire, RecordDelivered,
              ScheduleRetry, Works, Fails, outVars
<1>3. ASSUME NEW w \in Workers, Post(w)
      PROVE  /\ accepted \subseteq accepted'
             /\ failures' = failures
             /\ \A d \in Deliveries : posts'[d] >= posts[d]
  BY <1>3 DEF Post, Sent
<1>. QED
  BY StepCases, <1>1, <1>2, <1>3

\* A row that has left 'pending', or has not been there, is not made pending
\* again unless it is new.
LEMMA PendingIsNew ==
  ASSUME TypeOK, [Next]_vars, NEW d \in Deliveries,
         status[d] \notin {"none", "pending"}
  PROVE  status'[d] # "pending"
<1>. USE DEF TypeOK, RowsTypeOK
<1>1. CASE HandleEvent \/ CreateDelivery \/ OutsideStep \/ Crash \/ UNCHANGED vars
  BY <1>1 DEF HandleEvent, CreateDelivery, Insert, SetStatus, OutsideStep, BecomeDue,
              Deactivate, Crash, vars, rowVars
<1>2. ASSUME NEW w \in Workers, QuietStep(w) \/ Post(w)
      PROVE  status' = status
  BY <1>2 DEF QuietStep, LookUp, Rest, Poll, Announce, Post, rowVars
<1>3. ASSUME NEW w \in Workers, Retire(w) \/ RecordDelivered(w) \/ ScheduleRetry(w)
      PROVE  status'[d] # "pending"
  BY <1>3 DEF Retire, RecordDelivered, ScheduleRetry, MarkRetrying, SetStatus
<1>. QED
  BY StepCases, <1>1, <1>2, <1>3

LEMMA WorkersStep ==
  ASSUME TypeOK, SnapshotsAreOld, AttemptsWereMade, WorkersAreRight, [Next]_vars
  PROVE  WorkersAreRight'
<1>. DEFINE Right(w) ==
              /\ pc'[w] = "record" => job'[w].delivery \in accepted'
              /\ pc'[w] = "announce" =>
                    /\ status'[job'[w].delivery] # "pending"
                    /\ posts'[job'[w].delivery] + failures' > MaxRetries
<1>. SUFFICES ASSUME NEW w \in Workers
              PROVE  Right(w)
  BY DEF WorkersAreRight, Delivery
<1>0. TypeOK'
  BY TypeStep
<1>1. ASSUME pc'[w] = pc[w], job'[w] = job[w]
      PROVE  Right(w)
  <2>1. CASE pc[w] \in {"record", "announce"}
    <3>1. Delivery(w) \in Deliveries /\ status[Delivery(w)] # "none"
      BY <2>1, Busy DEF SnapshotsAreOld, IsOlderThanRow, Delivery
    <3>2. /\ posts[Delivery(w)] \in Nat /\ posts'[Delivery(w)] \in Nat
          /\ failures \in Nat /\ failures' \in Nat
          /\ posts'[Delivery(w)] >= posts[Delivery(w)]
          /\ failures' >= failures
          /\ accepted \subseteq accepted'
      BY <1>0, <3>1, SentStaysSent DEF TypeOK, RowsTypeOK, WorkersTypeOK
    <3>. QED
      BY <1>1, <2>1, <3>1, <3>2, PendingIsNew DEF WorkersAreRight, Delivery
  <2>. QED
    BY <1>1, <2>1
<1>2. ASSUME pc'[w] \notin {"record", "announce"}
      PROVE  Right(w)
  BY <1>2
<1>. HIDE DEF Right
<1>. USE DEF TypeOK, WorkersTypeOK, Goto
<1>3. CASE HandleEvent \/ CreateDelivery \/ OutsideStep \/ Crash \/ UNCHANGED vars
  BY <1>1, <1>2, <1>3 DEF HandleEvent, CreateDelivery, OutsideStep, BecomeDue,
                          Deactivate, Crash, vars
<1>4. ASSUME NEW v \in Workers, QuietStep(v)
      PROVE  Right(w)
  <2>1. CASE LookUp(v)
    BY <1>1, <1>2, <2>1 DEF LookUp
  <2>2. CASE Rest(v) \/ Poll(v) \/ Announce(v)
    BY <1>1, <1>2, <2>2 DEF Rest, Poll, Announce, NextRow
  <2>. QED
    BY <1>4, <2>1, <2>2 DEF QuietStep
<1>5. ASSUME NEW v \in Workers, Retire(v) \/ RecordDelivered(v)
      PROVE  Right(w)
  BY <1>1, <1>2, <1>5 DEF Retire, RecordDelivered, NextRow
<1>6. ASSUME NEW v \in Workers, Post(v)
      PROVE  Right(w)
  <2>1. CASE v = w
    BY <1>6, <2>1 DEF Post, Right, Delivery
  <2>2. CASE v # w
    BY <1>1, <1>6, <2>2 DEF Post
  <2>. QED
    BY <2>1, <2>2
<1>7. ASSUME NEW v \in Workers, ScheduleRetry(v)
      PROVE  Right(w)
  <2>1. CASE v = w /\ pc'[w] = "announce"
    <3>1. /\ Exhausted(w)
          /\ SetStatus(Delivery(w), "failed")
          /\ UNCHANGED <<job, posts, failures>>
          /\ pc[w] \in {"retry", "again"}
      BY <1>7, <2>1 DEF ScheduleRetry, NextRow, Works, outVars
    <3>2. /\ job[w].attempt \in Nat
          /\ Delivery(w) \in Deliveries
          /\ status[Delivery(w)] # "none"
          /\ job[w].attempt <= attempt[Delivery(w)]
      BY <3>1, Busy DEF SnapshotsAreOld, IsOlderThanRow, Delivery
    <3>3. Cardinality(Uncounted(Delivery(w))) >= 1
      <4>1. w \in Uncounted(Delivery(w))
        BY <3>1 DEF Uncounted
      <4>. QED
        BY <4>1, UncountedIsFinite, FS_EmptySet
    <3>4. attempt[Delivery(w)] + Cardinality(Uncounted(Delivery(w)))
            <= posts[Delivery(w)] + failures + 1
      BY <3>2 DEF AttemptsWereMade
    <3>5. /\ attempt[Delivery(w)] \in Nat
          /\ posts[Delivery(w)] \in Nat
          /\ failures \in Nat
          /\ Cardinality(Uncounted(Delivery(w))) \in Nat
      BY <3>2, UncountedIsFinite DEF RowsTypeOK
    <3>6. posts[Delivery(w)] + failures > MaxRetries
      BY <3>1, <3>2, <3>3, <3>4, <3>5 DEF Exhausted
    <3>7. status'[Delivery(w)] = "failed"
      BY <3>1, <3>2 DEF SetStatus, RowsTypeOK
    <3>. QED
      BY <2>1, <3>1, <3>6, <3>7 DEF Right, Delivery
  <2>2. CASE v = w /\ pc'[w] # "announce"
    BY <1>2, <1>7, <2>2 DEF ScheduleRetry, NextRow
  <2>3. CASE v # w
    BY <1>1, <1>7, <2>3 DEF ScheduleRetry, NextRow
  <2>. QED
    BY <2>1, <2>2, <2>3
<1>. QED
  BY StepCases, <1>3, <1>4, <1>5, <1>6, <1>7

LEMMA AcceptedStep ==
  ASSUME TypeOK, WorkersAreRight, DeliveredWasAccepted, [Next]_vars
  PROVE  DeliveredWasAccepted'
<1>. SUFFICES ASSUME NEW d \in Deliveries, status'[d] = "delivered"
              PROVE  d \in accepted'
  BY DEF DeliveredWasAccepted
<1>0. status[d] = "delivered" => d \in accepted'
  BY SentStaysSent DEF DeliveredWasAccepted
<1>. USE DEF TypeOK, RowsTypeOK
<1>1. CASE HandleEvent \/ CreateDelivery \/ OutsideStep \/ Crash \/ UNCHANGED vars
  BY <1>0, <1>1 DEF HandleEvent, CreateDelivery, Insert, SetStatus, OutsideStep,
                    BecomeDue, Deactivate, Crash, vars, rowVars
<1>2. ASSUME NEW w \in Workers, QuietStep(w) \/ Post(w)
      PROVE  status' = status
  BY <1>2 DEF QuietStep, LookUp, Rest, Poll, Announce, Post, rowVars
<1>3. ASSUME NEW w \in Workers, Retire(w) \/ ScheduleRetry(w)
      PROVE  status[d] = "delivered"
  BY <1>3 DEF Retire, ScheduleRetry, MarkRetrying, SetStatus
<1>4. ASSUME NEW w \in Workers, RecordDelivered(w)
      PROVE  d \in accepted'
  <2>1. Delivery(w) \in accepted'
    BY <1>4, SentStaysSent DEF RecordDelivered, WorkersAreRight
  <2>. QED
    BY <1>0, <1>4, <2>1 DEF RecordDelivered, SetStatus
<1>. QED
  BY StepCases, <1>0, <1>1, <1>2, <1>3, <1>4

LEMMA GivenUpStep ==
  ASSUME TypeOK, AttemptsWereMade, WorkersAreRight, GivenUpAfterAllAttempts, [Next]_vars
  PROVE  GivenUpAfterAllAttempts'
<1>. SUFFICES ASSUME NEW d \in announced'
              PROVE  posts'[d] + failures' > MaxRetries
  BY DEF GivenUpAfterAllAttempts
<1>0. TypeOK'
  BY TypeStep
<1>1. posts[d] + failures > MaxRetries
  <2>1. CASE d \in announced
    BY <2>1 DEF GivenUpAfterAllAttempts
  <2>2. CASE d \notin announced
    <3>1. PICK w \in Workers : Announce(w)
      BY <2>2, StepCases
         DEF HandleEvent, CreateDelivery, QuietStep, LookUp, Rest, Poll, Retire, Post,
             RecordDelivered, ScheduleRetry, OutsideStep, BecomeDue, Deactivate, Crash,
             vars, outVars
    <3>2. d = Delivery(w) /\ pc[w] = "announce"
      BY <2>2, <3>1 DEF Announce
    <3>. QED
      BY <3>2 DEF WorkersAreRight
  <2>. QED
    BY <2>1, <2>2
<1>2. /\ posts[d] \in Nat /\ posts'[d] \in Nat
      /\ failures \in Nat /\ failures' \in Nat
      /\ posts'[d] >= posts[d] /\ failures' >= failures
  BY <1>0, SentStaysSent DEF TypeOK, RowsTypeOK, WorkersTypeOK
<1>. QED
  BY <1>1, <1>2

-----------------------------------------------------------------------------
(* Rows left pending                                                       *)

LEMMA LeftStep ==
  ASSUME TypeOK, AttemptsWereMade, DispatcherDispatches, WorkersAreRight,
         IsFiniteSet(Left), NothingLeftPending, [Next]_vars
  PROVE  IsFiniteSet(Left') /\ NothingLeftPending'
<1>. DEFINE Goal == IsFiniteSet(Left') /\ NothingLeftPending'
<1>0. /\ failures \in Nat /\ failures' \in Nat /\ failures' >= failures
      /\ Cardinality(Left) \in Nat /\ Cardinality(Left) <= failures
  BY TypeStep, SentStaysSent, FS_CardinalityType
     DEF TypeOK, WorkersTypeOK, NothingLeftPending
<1>1. ASSUME Left' \subseteq Left
      PROVE  Goal
  <2>1. /\ IsFiniteSet(Left')
        /\ Cardinality(Left') <= Cardinality(Left)
    BY <1>1, FS_Subset
  <2>2. Cardinality(Left') \in Nat
    BY <2>1, FS_CardinalityType
  <2>. QED
    BY <1>0, <2>1, <2>2 DEF NothingLeftPending
<1>2. ASSUME NEW x, Left' \subseteq Left \cup {x}, Fails
      PROVE  Goal
  <2>1. /\ IsFiniteSet(Left')
        /\ Cardinality(Left') <= Cardinality(Left) + 1
    BY <1>2, AtMostOneMore
  <2>2. Cardinality(Left') \in Nat
    BY <2>1, FS_CardinalityType
  <2>. QED
    BY <1>0, <1>2, <2>1, <2>2 DEF NothingLeftPending, Fails
<1>. SUFFICES Goal
  OBVIOUS
<1>. HIDE DEF Goal
<1>. USE DEF TypeOK, RowsTypeOK, WorkersTypeOK
<1>3. Dispatcher \in Workers
  BY DEF Workers
<1>4. CASE CreateDelivery
  <2>1. Delivery(Dispatcher) \notin Deliveries
    BY <1>3, <1>4, InHand DEF CreateDelivery
  <2>2. PICK d \in Deliveries :
          \/ Insert(d, endpoint'[d]) /\ Works /\ Delivery(Dispatcher)' = d
          \/ /\ Insert(d, endpoint'[d]) \/ UNCHANGED status
             /\ UNCHANGED job
             /\ Fails
    BY <1>3, <1>4 DEF CreateDelivery, Insert, Delivery
  <2>3. CASE Insert(d, endpoint'[d]) /\ Works /\ Delivery(Dispatcher)' = d
    <3>1. Left' \subseteq Left
      BY <2>1, <2>3 DEF Left, Insert, SetStatus
    <3>. QED
      BY <1>1, <3>1
  <2>4. CASE /\ Insert(d, endpoint'[d]) \/ UNCHANGED status
             /\ UNCHANGED job
             /\ Fails
    <3>1. Left' \subseteq Left \cup {d}
      BY <2>1, <2>4 DEF Left, Insert, SetStatus, Delivery
    <3>. QED
      BY <1>2, <2>4, <3>1
  <2>. QED
    BY <2>2, <2>3, <2>4
<1>5. ASSUME NEW w \in Workers, QuietStep(w)
      PROVE  Goal
  <2>1. CASE LookUp(w)
    <3>1. w # Dispatcher
      BY <2>1 DEF LookUp, DispatcherDispatches
    <3>2. status' = status /\ job'[Dispatcher] = job[Dispatcher]
      BY <1>3, <2>1, <3>1 DEF LookUp, rowVars
    <3>. QED
      BY <1>1, <3>2 DEF Left, Delivery
  <2>2. CASE Rest(w) \/ Poll(w)
    BY <1>1, <2>2 DEF Rest, Poll, rowVars, Left, Delivery
  <2>3. CASE Announce(w)
    <3>1. /\ status' = status
          /\ w # Dispatcher => job'[Dispatcher] = job[Dispatcher]
          /\ status[Delivery(w)] # "pending"
      BY <1>3, <2>3 DEF Announce, NextRow, rowVars, WorkersAreRight
    <3>. QED
      BY <1>1, <3>1 DEF Left, Delivery
  <2>. QED
    BY <1>5, <2>1, <2>2, <2>3 DEF QuietStep
<1>6. ASSUME NEW w \in Workers, Retire(w)
      PROVE  Goal
  <2>1. job'[Dispatcher] = job[Dispatcher]
    BY <1>3, <1>6 DEF Retire, NextRow, DispatcherDispatches
  <2>. QED
    BY <1>1, <1>6, <2>1 DEF Retire, SetStatus, Left, Delivery
<1>7. ASSUME NEW w \in Workers, RecordDelivered(w)
      PROVE  Goal
  <2>1. CASE UNCHANGED job
    BY <1>1, <1>7, <2>1 DEF RecordDelivered, SetStatus, Left, Delivery
  <2>2. CASE SetStatus(Delivery(w), "delivered") /\ NextRow(w)
    BY <1>1, <1>3, <2>2 DEF SetStatus, NextRow, Left, Delivery
  <2>. QED
    BY <1>7, <2>1, <2>2 DEF RecordDelivered
<1>8. ASSUME NEW w \in Workers, ScheduleRetry(w)
      PROVE  Goal
  <2>1. CASE Fails
    <3>1. \A v \in Workers \ {w} : job'[v] = job[v]
      BY <1>8 DEF ScheduleRetry, NextRow
    <3>2. \A d \in Deliveries : status'[d] = "pending" => status[d] = "pending"
      BY <1>8 DEF ScheduleRetry, MarkRetrying, SetStatus
    <3>3. Left' \subseteq Left \cup {Delivery(w)}
      BY <1>3, <3>1, <3>2 DEF Left, Delivery
    <3>. QED
      BY <1>2, <2>1, <3>3
  <2>2. CASE UNCHANGED job
    BY <1>1, <1>8, <2>2 DEF ScheduleRetry, MarkRetrying, SetStatus, Left, Delivery
  <2>3. CASE MarkRetrying(Delivery(w)) /\ NextRow(w)
    BY <1>1, <1>3, <2>3 DEF MarkRetrying, SetStatus, NextRow, Left, Delivery
  <2>. QED
    BY <1>8, <2>1, <2>2, <2>3 DEF ScheduleRetry
<1>9. CASE Crash
  <2>1. Left' \subseteq Left \cup {Delivery(Dispatcher)}
    BY <1>9 DEF Crash, rowVars, Left, Delivery
  <2>2. Fails
    BY <1>9 DEF Crash
  <2>. QED
    BY <1>2, <2>1, <2>2
<1>10. ASSUME UNCHANGED <<status, job>>
       PROVE  Goal
  <2>1. Left' = Left
    BY <1>10 DEF Left, Delivery
  <2>. QED
    BY <1>1, <2>1
<1>11. CASE HandleEvent \/ OutsideStep \/ UNCHANGED vars \/ (\E w \in Workers : Post(w))
  BY <1>10, <1>11 DEF HandleEvent, OutsideStep, BecomeDue, Deactivate, Post, vars, rowVars
<1>. QED
  BY StepCases, <1>4, <1>5, <1>6, <1>7, <1>8, <1>9, <1>11

-----------------------------------------------------------------------------
(* Theorems                                                                *)

LEMMA DeliveryInvInit ==
  ASSUME Init
  PROVE  DeliveryInv
<1>1. TypeOK
  BY DEF Init, TypeOK, RowsTypeOK, WorkersTypeOK, Statuses, Locations
<1>2. SnapshotsAreOld /\ DispatcherDispatches /\ AttemptsWereMade /\ WorkersAreRight
  BY DEF Init, SnapshotsAreOld, DispatcherDispatches, AttemptsWereMade, WorkersAreRight, Workers
<1>3. DeliveredWasAccepted /\ GivenUpAfterAllAttempts
  BY DEF Init, DeliveredWasAccepted, GivenUpAfterAllAttempts
<1>4. Left = {}
  BY DEF Init, Left
<1>5. IsFiniteSet(Left) /\ NothingLeftPending
  BY <1>4, FS_EmptySet DEF Init, NothingLeftPending
<1>. QED
  BY <1>1, <1>2, <1>3, <1>5 DEF DeliveryInv

LEMMA DeliveryInvStep ==
  ASSUME DeliveryInv, [Next]_vars
  PROVE  DeliveryInv'
BY TypeStep, SnapshotsStep, DispatcherStep, AttemptsStep, WorkersStep, AcceptedStep,
   GivenUpStep, LeftStep
DEF DeliveryInv

\* DeliveryInv, what is known of the rows and of every worker at each of its
\* awaits, holds in every reachable state.
THEOREM DeliveryInvHolds == Spec => []DeliveryInv
<1>1. Init => DeliveryInv
  BY DeliveryInvInit
<1>2. DeliveryInv /\ [Next]_vars => DeliveryInv'
  BY DeliveryInvStep
<1>. QED
  BY <1>1, <1>2, PTL DEF Spec

\* Every variable keeps its type.
THEOREM DeliveryTypes == Spec => []TypeOK
<1>1. DeliveryInv => TypeOK
  BY DEF DeliveryInv
<1>. QED
  BY <1>1, DeliveryInvHolds, PTL

\* Whatever overlaps and fails, a row that says 'delivered' was accepted.
THEOREM DeliveredMeansAccepted == Spec => []DeliveredWasAccepted
<1>1. DeliveryInv => DeliveredWasAccepted
  BY DEF DeliveryInv
<1>. QED
  BY <1>1, DeliveryInvHolds, PTL

\* However many polls overlap, no delivery is announced as given up before
\* its attempts, less one for each failure, were made.
THEOREM AllAttemptsAreMade == Spec => []GivenUpAfterAllAttempts
<1>1. DeliveryInv => GivenUpAfterAllAttempts
  BY DEF DeliveryInv
<1>. QED
  BY <1>1, DeliveryInvHolds, PTL

\* At most one row is left pending for every failure or crash.
THEOREM FailuresLeaveOneRow == Spec => []NothingLeftPending
<1>1. DeliveryInv => NothingLeftPending
  BY DEF DeliveryInv
<1>. QED
  BY <1>1, DeliveryInvHolds, PTL

=============================================================================
