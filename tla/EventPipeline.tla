---------------------------- MODULE EventPipeline ----------------------------
(***************************************************************************)
(* packages/kafka: publishEvent on one side, createConsumer on the other,  *)
(* for one consumer group (webhook-service or notification-service) that   *)
(* is one process.  The offsets start at 0: the group exists already, as a *)
(* new one would start at the end of each log (fromBeginning: false).      *)
(*                                                                         *)
(* Kafka keeps a log per topic and partition, and for the group a          *)
(* committed offset in each.  The consumer handles one message at a time,  *)
(* remembers the ids of the events it has handled, and starts again from   *)
(* the committed offsets when it is restarted or its group is rebalanced.  *)
(***************************************************************************)
EXTENDS Integers, Sequences, FiniteSets

CONSTANTS
    Events,         \* event ids
    Topic,          \* topic of each event
    Trace,          \* traceId of each event, its message key
    Bucket,         \* partition number that Kafka computes from a key
    Poison,         \* events whose handler throws every time
    MaxSeen,        \* MAX_DEDUP_SET_SIZE
    MaxHiccups,     \* bound: sends lost or stored twice, rebalances
    MaxFaults,      \* bound: crashes of the consumer, handlers that throw
    None

Place(e) == <<Topic[e], Bucket[Trace[e]]>>
Places == {Place(e) : e \in Events}

ASSUME PoisonIsEvents    == Poison \subseteq Events
ASSUME SeenIsBounded     == MaxSeen \in Nat
ASSUME HiccupsAreCounted == MaxHiccups \in Nat
ASSUME FaultsAreCounted  == MaxFaults \in Nat
ASSUME NoneIsNoPlace     == None \notin Places

VARIABLES
    sent,           \* events handed to publishEvent, in this order
    \* --- Kafka
    log,            \* the log of each topic and partition
    committed,      \* the group's committed offset in each
    \* --- in the memory of the consumer
    pos,            \* messages of each log it is done with
    seen,           \* processedEventIds
    at,             \* the log whose next message is being handled, or None
    acted,          \* whether its handler has had its effect
    \* --- what has come of it
    effects,        \* how often a handler has sent its e-mail or written its row
    gaveUp,         \* messages, by log and offset, whose handler threw
    prunes,         \* how often processedEventIds was emptied
    hiccups, faults

brokerVars   == <<sent, log>>
consumerVars == <<pos, seen, at, acted>>
resultVars   == <<effects, gaveUp, prunes>>
vars == <<brokerVars, committed, consumerVars, resultVars, hiccups, faults>>

Init ==
    /\ sent = << >>
    /\ log = [p \in Places |-> << >>]
    /\ committed = [p \in Places |-> 0]
    /\ pos = [p \in Places |-> 0]
    /\ seen = {}
    /\ at = None
    /\ acted = FALSE
    /\ effects = [e \in Events |-> 0]
    /\ gaveUp = {}
    /\ prunes = 0
    /\ hiccups = 0
    /\ faults = 0

Hiccup == hiccups < MaxHiccups /\ hiccups' = hiccups + 1
Fault == faults < MaxFaults /\ faults' = faults + 1

-----------------------------------------------------------------------------
(* publishEvent                                                            *)

Stored(e, copies) == log' = [log EXCEPT ![Place(e)] = @ \o copies]

\* The event gets a new id once; the send is retried by the client, so that it
\* may be lost, or stored twice when only the answer was lost.
Publish(e) ==
    /\ \A i \in DOMAIN sent : sent[i] # e
    /\ sent' = Append(sent, e)
    /\ \/ Stored(e, <<e>>) /\ UNCHANGED hiccups
       \/ Stored(e, <<e, e>>) /\ Hiccup
       \/ UNCHANGED log /\ Hiccup
    /\ UNCHANGED <<committed, consumerVars, resultVars, faults>>

-----------------------------------------------------------------------------
(* eachMessage                                                             *)

Message(p) == log[p][pos[p] + 1]
DoneWith(p) == pos' = [pos EXCEPT ![p] = @ + 1]

\* mutant: the id is remembered before the event is handled
RememberFirst(p) ==
    /\ at = None
    /\ pos[p] < Len(log[p])
    /\ IF Message(p) \in seen
       THEN DoneWith(p) /\ UNCHANGED <<at, seen>>
       ELSE at' = p /\ seen' = seen \cup {Message(p)} /\ UNCHANGED pos
    /\ UNCHANGED <<brokerVars, committed, acted, resultVars, hiccups, faults>>

\* mutant: no deduplication
TakeAll(p) ==
    /\ at = None
    /\ pos[p] < Len(log[p])
    /\ at' = p
    /\ UNCHANGED <<brokerVars, committed, pos, seen, acted, resultVars, hiccups, faults>>

Receive(p) ==
    /\ at = None
    /\ pos[p] < Len(log[p])
    /\ IF Message(p) \in seen
       THEN DoneWith(p) /\ UNCHANGED at
       ELSE at' = p /\ UNCHANGED pos
    /\ UNCHANGED <<brokerVars, committed, seen, acted, resultVars, hiccups, faults>>

\* The handler writes its row or asks for its e-mail; sendEmail returns whatever
\* the e-mail service answers.
Act ==
    /\ at # None
    /\ ~acted
    /\ Message(at) \notin Poison
    /\ effects' = [effects EXCEPT ![Message(at)] = @ + 1]
    /\ acted' = TRUE
    /\ UNCHANGED <<brokerVars, committed, pos, seen, at, gaveUp, prunes, hiccups, faults>>

\* pruneDeduplicationSet
Prune(ids) ==
    IF Cardinality(ids) > MaxSeen
    THEN seen' = {} /\ prunes' = prunes + 1
    ELSE seen' = ids /\ UNCHANGED prunes

\* The handler returns.
Remember ==
    /\ at # None
    /\ acted
    /\ Prune(seen \cup {Message(at)})
    /\ DoneWith(at)
    /\ at' = None
    /\ acted' = FALSE
    /\ UNCHANGED <<brokerVars, committed, effects, gaveUp, hiccups, faults>>

\* mutant: the error is thrown on, and kafkajs fetches the message again
ThrowOn ==
    /\ at # None
    /\ \/ Message(at) \in Poison /\ UNCHANGED faults
       \/ Fault
    /\ at' = None
    /\ acted' = FALSE
    /\ UNCHANGED <<brokerVars, committed, pos, seen, resultVars, hiccups>>

\* The handler throws, before or after it had an effect; the error is logged
\* and the message is done with.
GiveUp ==
    /\ at # None
    /\ \/ Message(at) \in Poison /\ UNCHANGED faults
       \/ Fault
    /\ gaveUp' = gaveUp \cup {<<at, pos[at] + 1>>}
    /\ DoneWith(at)
    /\ at' = None
    /\ acted' = FALSE
    /\ UNCHANGED <<brokerVars, committed, seen, effects, prunes, hiccups>>

-----------------------------------------------------------------------------
(* kafkajs and the group                                                   *)

\* autoCommit, at a time of its own.
CommitOffset(p) ==
    /\ committed[p] < pos[p]
    /\ committed' = [committed EXCEPT ![p] = pos[p]]
    /\ UNCHANGED <<brokerVars, consumerVars, resultVars, hiccups, faults>>

\* Between two messages the group is rebalanced: back to the committed offsets.
Rebalance ==
    /\ Hiccup
    /\ at = None
    /\ pos' = committed
    /\ UNCHANGED <<brokerVars, committed, seen, at, acted, resultVars, faults>>

\* The consumer dies, at whatever it was, and is started again.
Crash ==
    /\ Fault
    /\ pos' = committed
    /\ seen' = {}
    /\ at' = None
    /\ acted' = FALSE
    /\ UNCHANGED <<brokerVars, committed, resultVars, hiccups>>

-----------------------------------------------------------------------------
Handle == Act \/ Remember \/ (at # None /\ Message(at) \in Poison /\ GiveUp)

Next ==
    \/ \E e \in Events : Publish(e)
    \/ \E p \in Places : Receive(p) \/ CommitOffset(p)
    \/ Act
    \/ Remember
    \/ GiveUp
    \/ Rebalance
    \/ Crash

Spec == Init /\ [][Next]_vars

\* The consumer fetches what there is, and handlers return or throw; nothing
\* need be published, and no offset be committed.
Fairness ==
    /\ WF_vars(\E p \in Places : Receive(p))
    /\ WF_vars(Handle)

FairSpec == Spec /\ Fairness

-----------------------------------------------------------------------------
(* Properties                                                              *)

\* Every variable keeps its type; the consumer never commits what it has not
\* read, and never remembers more than MaxSeen ids.
TypeOK ==
    /\ sent \in Seq(Events)
    /\ log \in [Places -> Seq(Events)]
    /\ \A p \in Places : \A i \in DOMAIN log[p] : Place(log[p][i]) = p
    /\ pos \in [Places -> Nat]
    /\ committed \in [Places -> Nat]
    /\ \A p \in Places : committed[p] <= pos[p] /\ pos[p] <= Len(log[p])
    /\ seen \subseteq Events /\ IsFiniteSet(seen) /\ Cardinality(seen) <= MaxSeen
    /\ at \in Places \cup {None}
    /\ at # None => pos[at] < Len(log[at])
    /\ acted \in BOOLEAN /\ (acted => at # None)
    /\ effects \in [Events -> Nat]
    /\ gaveUp \subseteq Places \X Nat
    /\ prunes \in Nat
    /\ hiccups \in 0 .. MaxHiccups
    /\ faults \in 0 .. MaxFaults

\* At-least-once: a message behind the committed offset has had its effect, or
\* its own handler has thrown.  A crash loses none, and a second copy of an
\* event whose first copy failed is another chance.
NoneSkipped ==
    \A p \in Places : \A i \in 1 .. committed[p] :
        effects[log[p][i]] > 0 \/ <<p, i>> \in gaveUp

\* The deduplication holds: copies of an event and rebalances have no second
\* effect.  Only a crash, a handler that threw half way or an emptied set of
\* ids allows one more.
RepeatsNeedAFault ==
    \A e \in Events : effects[e] <= 1 + faults + prunes

\* No poison pill: what is stored is in the end handled or given up.
Settled(e) ==
    \/ effects[e] > 0
    \/ \E p \in Places : \E i \in DOMAIN log[p] : log[p][i] = e /\ <<p, i>> \in gaveUp
StoredEventsAreSettled ==
    \A e \in Events :
        (\E p \in Places : \E i \in DOMAIN log[p] : log[p][i] = e) ~> Settled(e)

-----------------------------------------------------------------------------
(* The parts of an inductive invariant: EventProofs.                       *)

\* What is remembered, or has just been handled, has had its effect.
SeenHadEffect ==
    /\ \A e \in seen : effects[e] > 0
    /\ acted => effects[Message(at)] > 0 /\ Message(at) \notin Poison

\* As NoneSkipped, up to what the consumer is done with.
NoneDropped ==
    \A p \in Places : \A i \in 1 .. pos[p] :
        effects[log[p][i]] > 0 \/ <<p, i>> \in gaveUp

\* The message in hand is not one that was handled and is still remembered.
HandsAreNew == at # None => Message(at) \notin seen

\* An event beyond its first effects is remembered, in hand, or excused.
Accounted(e) == e \in seen \/ (acted /\ Message(at) = e)
EffectsAccounted ==
    \A e \in Events : effects[e] <= faults + prunes + (IF Accounted(e) THEN 1 ELSE 0)

PipelineInv ==
    /\ TypeOK
    /\ SeenHadEffect
    /\ NoneDropped
    /\ HandsAreNew
    /\ EffectsAccounted

=============================================================================
