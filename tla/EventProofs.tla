----------------------------- MODULE EventProofs -----------------------------
(***************************************************************************)
(* Theorems about EventPipeline, for any number of events, topics and      *)
(* partitions, any set of handlers that throw and any number of faults.    *)
(* All rest on PipelineInv being inductive.                                *)
(***************************************************************************)
EXTENDS EventPipeline, FiniteSetTheorems, SequenceTheorems, TLAPS

USE SeenIsBounded, HiccupsAreCounted, FaultsAreCounted, NoneIsNoPlace

-----------------------------------------------------------------------------
(* Helpers                                                                 *)

\* What is stored stays where it is, and the logs keep their type.
LEMMA LogsGrow ==
  ASSUME TypeOK, NEW e \in Events, NEW c \in Seq({e}), Stored(e, c)
  PROVE  /\ log' \in [Places -> Seq(Events)]
         /\ \A p \in Places : Len(log[p]) <= Len(log'[p])
         /\ \A p \in Places : \A i \in 1 .. Len(log[p]) : log'[p][i] = log[p][i]
         /\ \A p \in Places : \A i \in DOMAIN log'[p] : Place(log'[p][i]) = p
<1>. DEFINE q == Place(e)
            s == log[q]
<1>1. q \in Places /\ log \in [Places -> Seq(Events)] /\ s \in Seq(Events)
  BY DEF TypeOK, Places
<1>2. c \in Seq(Events) /\ \A i \in 1 .. Len(c) : c[i] = e
  OBVIOUS
<1>3. /\ s \o c \in Seq(Events)
      /\ Len(s \o c) = Len(s) + Len(c)
      /\ \A i \in 1 .. Len(s) + Len(c) :
            (s \o c)[i] = IF i <= Len(s) THEN s[i] ELSE c[i - Len(s)]
  BY <1>1, <1>2, ConcatProperties
<1>4. log' = [log EXCEPT ![q] = s \o c]
  BY DEF Stored
<1>5. log' \in [Places -> Seq(Events)] /\ log'[q] = s \o c
      /\ \A p \in Places \ {q} : log'[p] = log[p]
  BY <1>1, <1>3, <1>4
<1>6. ASSUME NEW p \in Places
      PROVE  /\ Len(log[p]) <= Len(log'[p])
             /\ \A i \in 1 .. Len(log[p]) : log'[p][i] = log[p][i]
             /\ \A i \in DOMAIN log'[p] : Place(log'[p][i]) = p
  <2>1. \A i \in DOMAIN log[p] : Place(log[p][i]) = p
    BY DEF TypeOK
  <2>2. CASE p # q
    BY <1>1, <1>5, <2>1, <2>2
  <2>3. CASE p = q
    <3>. Len(s) \in Nat /\ Len(c) \in Nat
      BY <1>1, <1>2
    <3>1. Len(log[p]) <= Len(log'[p])
      BY <1>3, <1>5, <2>3
    <3>2. \A i \in 1 .. Len(log[p]) : log'[p][i] = log[p][i]
      BY <1>3, <1>5, <2>3
    <3>3. ASSUME NEW i \in DOMAIN log'[p]
          PROVE  Place(log'[p][i]) = p
      <4>1. i \in 1 .. Len(s) + Len(c)
        BY <1>3, <1>5, <2>3
      <4>2. CASE i <= Len(s)
        <5>1. i \in DOMAIN log[p] /\ log'[p][i] = log[p][i]
          BY <1>1, <4>1, <4>2, <3>2, <2>3
        <5>. QED
          BY <5>1, <2>1
      <4>3. CASE i > Len(s)
        <5>1. i - Len(s) \in 1 .. Len(c)
          BY <4>1, <4>3
        <5>2. log'[p][i] = c[i - Len(s)]
          BY <1>3, <1>5, <2>3, <4>1, <4>3
        <5>. QED
          BY <5>1, <5>2, <1>2, <2>3
      <4>. QED
        BY <4>1, <4>2, <4>3
    <3>. QED
      BY <3>1, <3>2, <3>3
  <2>. QED
    BY <2>2, <2>3
<1>. QED
  BY <1>5, <1>6

\* The next message of a log that holds one is an event.
LEMMA MessageIsEvent ==
  ASSUME TypeOK, NEW p \in Places, pos[p] < Len(log[p])
  PROVE  /\ Message(p) \in Events
         /\ pos[p] + 1 \in 1 .. Len(log[p])
         /\ log[p] \in Seq(Events) /\ pos[p] \in Nat
<1>1. log[p] \in Seq(Events) /\ pos[p] \in Nat
  BY DEF TypeOK
<1>. QED
  BY <1>1 DEF Message

\* One more id is within the limit, or the set is emptied.
LEMMA PruneKeepsTheLimit ==
  ASSUME NEW ids, IsFiniteSet(ids), prunes \in Nat, Prune(ids)
  PROVE  /\ IsFiniteSet(seen') /\ Cardinality(seen') <= MaxSeen
         /\ prunes' \in Nat
         /\ seen' \subseteq ids
         /\ (seen' = ids /\ prunes' = prunes) \/ prunes' = prunes + 1
<1>1. Cardinality(ids) \in Nat
  BY FS_CardinalityType
<1>. QED
  BY <1>1, FS_EmptySet DEF Prune

LEMMA StepCases ==
  ASSUME [Next]_vars
  PROVE  \/ \E e \in Events : Publish(e)
         \/ \E p \in Places : Receive(p)
         \/ \E p \in Places : CommitOffset(p)
         \/ Act
         \/ Remember
         \/ GiveUp
         \/ Rebalance
         \/ Crash
         \/ UNCHANGED vars
BY DEF Next

-----------------------------------------------------------------------------
(* PipelineInv is inductive                                                *)

LEMMA PipelineInvInit ==
  ASSUME Init
  PROVE  PipelineInv
<1>1. IsFiniteSet({}) /\ Cardinality({}) = 0
  BY FS_EmptySet
<1>2. /\ log \in [Places -> Seq(Events)]
      /\ \A p \in Places : log[p] = << >> /\ pos[p] = 0 /\ committed[p] = 0
  BY DEF Init
<1>3. \A p \in Places : \A i \in DOMAIN log[p] : Place(log[p][i]) = p
  BY <1>2
<1>4. \A p \in Places : committed[p] <= pos[p] /\ pos[p] <= Len(log[p])
  BY <1>2
<1>5. pos \in [Places -> Nat] /\ committed \in [Places -> Nat] /\ effects \in [Events -> Nat]
  BY DEF Init
<1>6. seen \subseteq Events /\ IsFiniteSet(seen) /\ Cardinality(seen) <= MaxSeen
  BY <1>1 DEF Init
<1>7. TypeOK
  <2>1. /\ sent \in Seq(Events)
        /\ at = None /\ acted = FALSE /\ gaveUp = {}
        /\ prunes \in Nat /\ hiccups \in 0 .. MaxHiccups /\ faults \in 0 .. MaxFaults
    BY DEF Init
  <2>. QED
    BY <1>2, <1>3, <1>4, <1>5, <1>6, <2>1 DEF TypeOK
<1>8. SeenHadEffect /\ NoneDropped /\ HandsAreNew /\ EffectsAccounted
  BY DEF Init, SeenHadEffect, NoneDropped, HandsAreNew, EffectsAccounted, Accounted
<1>. QED
  BY <1>7, <1>8 DEF PipelineInv

LEMMA PublishStep ==
  ASSUME PipelineInv, NEW e \in Events, Publish(e)
  PROVE  PipelineInv'
<1>. USE DEF PipelineInv
<1>1. PICK c \in Seq({e}) : Stored(e, c) \/ UNCHANGED log
  <2>1. <<e>> \in Seq({e}) /\ <<e, e>> \in Seq({e})
    OBVIOUS
  <2>2. Stored(e, <<e>>) \/ Stored(e, <<e, e>>) \/ UNCHANGED log
    BY DEF Publish
  <2>. QED
    BY <2>1, <2>2
<1>2. UNCHANGED <<committed, pos, seen, at, acted, effects, gaveUp, prunes, faults>>
  BY DEF Publish, consumerVars, resultVars
<1>3. /\ log' \in [Places -> Seq(Events)]
      /\ \A p \in Places : Len(log[p]) <= Len(log'[p])
      /\ \A p \in Places : \A i \in 1 .. Len(log[p]) : log'[p][i] = log[p][i]
      /\ \A p \in Places : \A i \in DOMAIN log'[p] : Place(log'[p][i]) = p
  <2>1. CASE Stored(e, c)
    BY <2>1, LogsGrow
  <2>2. CASE UNCHANGED log
    BY <2>2 DEF TypeOK
  <2>. QED
    BY <1>1, <2>1, <2>2
<1>4. at # None => Message(at)' = Message(at)
  BY <1>2, <1>3, MessageIsEvent DEF TypeOK, Message
<1>5. sent' \in Seq(Events) /\ hiccups' \in 0 .. MaxHiccups
  BY DEF Publish, TypeOK, Hiccup
<1>6. \A p \in Places : Len(log[p]) \in Nat /\ Len(log'[p]) \in Nat
  BY <1>3 DEF TypeOK
<1>7. \A p \in Places : committed[p] <= pos[p] /\ pos[p] <= Len(log'[p])
  BY <1>3, <1>6 DEF TypeOK
<1>8. at # None => pos[at] < Len(log'[at])
  BY <1>3, <1>6 DEF TypeOK
<1>9. TypeOK'
  BY <1>2, <1>3, <1>5, <1>7, <1>8 DEF TypeOK
<1>10. SeenHadEffect' /\ HandsAreNew' /\ EffectsAccounted'
  BY <1>2, <1>4 DEF SeenHadEffect, HandsAreNew, EffectsAccounted, Accounted, TypeOK
<1>11. NoneDropped'
  <2>1. ASSUME NEW p \in Places, NEW i \in 1 .. pos[p]
        PROVE  effects[log'[p][i]] > 0 \/ <<p, i>> \in gaveUp
    <3>1. pos[p] \in Nat /\ pos[p] <= Len(log[p]) /\ Len(log[p]) \in Nat
      BY <1>6 DEF TypeOK
    <3>2. log'[p][i] = log[p][i]
      BY <1>3, <3>1
    <3>. QED
      BY <3>2 DEF NoneDropped
  <2>. QED
    BY <1>2, <2>1 DEF NoneDropped
<1>. QED
  BY <1>9, <1>10, <1>11

\* From the committed offsets on there is less that can have been dropped.
LEMMA GoingBack ==
  ASSUME TypeOK, NoneDropped, pos' = committed, UNCHANGED <<log, effects, gaveUp>>
  PROVE  NoneDropped'
<1>1. ASSUME NEW p \in Places, NEW i \in 1 .. committed[p]
      PROVE  effects[log[p][i]] > 0 \/ <<p, i>> \in gaveUp
  <2>1. pos[p] \in Nat /\ committed[p] \in Nat /\ committed[p] <= pos[p]
    BY DEF TypeOK
  <2>2. i \in 1 .. pos[p]
    BY <2>1
  <2>. QED
    BY <2>2 DEF NoneDropped
<1>. QED
  BY <1>1 DEF NoneDropped

\* The group's offsets go up to what the consumer is done with, or the consumer
\* goes back to them; no event is handled.
LEMMA OffsetStep ==
  ASSUME PipelineInv,
         Rebalance \/ Crash \/ \E p \in Places : CommitOffset(p)
  PROVE  PipelineInv'
<1>. USE DEF PipelineInv, brokerVars, consumerVars, resultVars
<1>1. CASE \E p \in Places : CommitOffset(p)
  <2>. PICK p \in Places : CommitOffset(p)
    BY <1>1
  <2>1. /\ committed' = [committed EXCEPT ![p] = pos[p]]
        /\ UNCHANGED <<sent, log, pos, seen, at, acted, effects, gaveUp, prunes, hiccups, faults>>
    BY DEF CommitOffset
  <2>2. committed' \in [Places -> Nat] /\ \A q \in Places : committed'[q] <= pos[q]
    BY <2>1 DEF TypeOK
  <2>3. TypeOK'
    BY <2>1, <2>2 DEF TypeOK
  <2>. QED
    BY <2>1, <2>3 DEF SeenHadEffect, NoneDropped, HandsAreNew, EffectsAccounted,
                      Accounted, Message
<1>2. CASE Rebalance
  <2>1. /\ pos' = committed /\ at = None /\ hiccups' \in 0 .. MaxHiccups
        /\ UNCHANGED <<sent, log, committed, seen, at, acted, effects, gaveUp, prunes, faults>>
    BY <1>2 DEF Rebalance, Hiccup, TypeOK
  <2>2. \A p \in Places : pos[p] \in Nat /\ committed[p] \in Nat /\ Len(log[p]) \in Nat
    BY DEF TypeOK
  <2>3. TypeOK'
    <3>1. pos' \in [Places -> Nat] /\ \A q \in Places : pos'[q] <= Len(log[q])
      BY <2>1, <2>2 DEF TypeOK
    <3>2. \A q \in Places : committed[q] <= pos'[q]
      BY <2>1, <2>2
    <3>. QED
      BY <2>1, <3>1, <3>2 DEF TypeOK
  <2>4. ~acted
    BY <2>1 DEF TypeOK
  <2>5. SeenHadEffect' /\ HandsAreNew' /\ EffectsAccounted'
    BY <2>1, <2>4 DEF SeenHadEffect, HandsAreNew, EffectsAccounted, Accounted, TypeOK
  <2>6. NoneDropped'
    BY <2>1, GoingBack
  <2>. QED
    BY <2>3, <2>5, <2>6
<1>3. CASE Crash
  <2>1. /\ pos' = committed /\ seen' = {} /\ at' = None /\ acted' = FALSE
        /\ faults' = faults + 1 /\ faults' \in 0 .. MaxFaults
        /\ UNCHANGED <<sent, log, committed, effects, gaveUp, prunes, hiccups>>
    BY <1>3 DEF Crash, Fault, TypeOK
  <2>2. \A p \in Places : pos[p] \in Nat /\ committed[p] \in Nat /\ Len(log[p]) \in Nat
    BY DEF TypeOK
  <2>3. IsFiniteSet(seen') /\ Cardinality(seen') <= MaxSeen
    BY <2>1, FS_EmptySet
  <2>4. TypeOK'
    <3>1. pos' \in [Places -> Nat] /\ \A q \in Places : pos'[q] <= Len(log[q])
      BY <2>1, <2>2 DEF TypeOK
    <3>2. \A q \in Places : committed[q] <= pos'[q]
      BY <2>1, <2>2
    <3>. QED
      BY <2>1, <2>3, <3>1, <3>2 DEF TypeOK
  <2>5. SeenHadEffect' /\ HandsAreNew'
    BY <2>1 DEF SeenHadEffect, HandsAreNew
  <2>6. NoneDropped'
    BY <2>1, GoingBack
  <2>7. EffectsAccounted'
    BY <2>1 DEF EffectsAccounted, Accounted, TypeOK
  <2>. QED
    BY <2>4, <2>5, <2>6, <2>7
<1>. QED
  BY <1>1, <1>2, <1>3

\* A step that handles nothing and leaves the logs alone is done with a message
\* that had its effect, or whose handler has thrown.
LEMMA OneMoreDone ==
  ASSUME TypeOK, NoneDropped, NEW p \in Places, pos[p] < Len(log[p]), DoneWith(p),
         UNCHANGED <<log, effects>>, gaveUp \subseteq gaveUp',
         effects[Message(p)] > 0 \/ <<p, pos[p] + 1>> \in gaveUp'
  PROVE  /\ NoneDropped'
         /\ pos' \in [Places -> Nat]
         /\ \A q \in Places : committed[q] <= pos'[q] /\ pos'[q] <= Len(log[q])
<1>. \A q \in Places : pos[q] \in Nat /\ committed[q] \in Nat /\ Len(log[q]) \in Nat
  BY DEF TypeOK
<1>1. /\ pos' \in [Places -> Nat] /\ pos'[p] = pos[p] + 1
      /\ \A q \in Places \ {p} : pos'[q] = pos[q]
  BY DEF TypeOK, DoneWith
<1>2. ASSUME NEW q \in Places
      PROVE  committed[q] <= pos'[q] /\ pos'[q] <= Len(log[q])
  <2>1. committed[q] <= pos[q] /\ pos[q] <= Len(log[q])
    BY DEF TypeOK
  <2>. QED
    BY <1>1, <2>1
<1>3. ASSUME NEW q \in Places, NEW i \in 1 .. pos'[q]
      PROVE  effects[log[q][i]] > 0 \/ <<q, i>> \in gaveUp'
  <2>1. CASE i \in 1 .. pos[q]
    BY <2>1 DEF NoneDropped
  <2>2. CASE i \notin 1 .. pos[q]
    <3>1. q = p /\ i = pos[p] + 1
      BY <1>1, <2>2
    <3>. QED
      BY <3>1 DEF Message
  <2>. QED
    BY <2>1, <2>2
<1>. QED
  BY <1>1, <1>2, <1>3 DEF NoneDropped

LEMMA ReceiveStep ==
  ASSUME PipelineInv, NEW p \in Places, Receive(p)
  PROVE  PipelineInv'
<1>. USE DEF PipelineInv, brokerVars, consumerVars, resultVars
<1>1. /\ at = None /\ pos[p] < Len(log[p])
      /\ UNCHANGED <<sent, log, committed, seen, acted, effects, gaveUp, prunes, hiccups, faults>>
  BY DEF Receive
<1>2. ~acted
  BY <1>1 DEF TypeOK
<1>3. CASE Message(p) \in seen
  <2>1. DoneWith(p) /\ at' = None
    BY <1>1, <1>3 DEF Receive
  <2>2. effects[Message(p)] > 0
    BY <1>3 DEF SeenHadEffect
  <2>3. /\ NoneDropped'
        /\ pos' \in [Places -> Nat]
        /\ \A q \in Places : committed[q] <= pos'[q] /\ pos'[q] <= Len(log[q])
    BY <1>1, <2>1, <2>2, OneMoreDone
  <2>4. TypeOK'
    BY <1>1, <2>1, <2>3 DEF TypeOK
  <2>5. SeenHadEffect' /\ HandsAreNew' /\ EffectsAccounted'
    BY <1>1, <1>2, <2>1 DEF SeenHadEffect, HandsAreNew, EffectsAccounted, Accounted
  <2>. QED
    BY <2>3, <2>4, <2>5
<1>4. CASE Message(p) \notin seen
  <2>1. at' = p /\ UNCHANGED pos
    BY <1>4 DEF Receive
  <2>2. TypeOK'
    BY <1>1, <1>2, <2>1 DEF TypeOK
  <2>3. Message(at)' = Message(p)
    BY <1>1, <2>1 DEF Message
  <2>4. SeenHadEffect' /\ HandsAreNew' /\ EffectsAccounted' /\ NoneDropped'
    BY <1>1, <1>2, <1>4, <2>1, <2>3
    DEF SeenHadEffect, HandsAreNew, EffectsAccounted, Accounted, NoneDropped
  <2>. QED
    BY <2>2, <2>4
<1>. QED
  BY <1>3, <1>4

LEMMA ActStep ==
  ASSUME PipelineInv, Act
  PROVE  PipelineInv'
<1>. USE DEF PipelineInv, brokerVars, consumerVars, resultVars
<1>. PICK m : m = Message(at)
  OBVIOUS
<1>1. /\ at \in Places /\ ~acted /\ m \notin Poison /\ acted' = TRUE
      /\ effects' = [effects EXCEPT ![m] = @ + 1]
      /\ UNCHANGED <<sent, log, committed, pos, seen, at, gaveUp, prunes, hiccups, faults>>
  BY DEF Act, TypeOK
<1>2. m \in Events /\ m \notin seen /\ Message(at)' = m
  BY <1>1, MessageIsEvent DEF TypeOK, HandsAreNew, Message
<1>3. /\ effects' \in [Events -> Nat]
      /\ effects'[m] = effects[m] + 1 /\ effects[m] \in Nat
      /\ \A e \in Events \ {m} : effects'[e] = effects[e]
  BY <1>1, <1>2 DEF TypeOK
<1>4. TypeOK'
  BY <1>1, <1>3 DEF TypeOK
<1>5. \A e \in Events : effects[e] > 0 => effects'[e] > 0
  BY <1>3
<1>6. SeenHadEffect' /\ HandsAreNew'
  BY <1>1, <1>2, <1>3, <1>5 DEF SeenHadEffect, HandsAreNew, TypeOK
<1>7. NoneDropped'
  <2>1. ASSUME NEW p \in Places, NEW i \in 1 .. pos[p]
        PROVE  effects'[log[p][i]] > 0 \/ <<p, i>> \in gaveUp
    <3>1. log[p][i] \in Events
      <4>1. log[p] \in Seq(Events) /\ pos[p] \in Nat /\ pos[p] <= Len(log[p])
        BY DEF TypeOK
      <4>. QED
        BY <4>1
    <3>. QED
      BY <3>1, <1>5 DEF NoneDropped
  <2>. QED
    BY <1>1, <2>1 DEF NoneDropped
<1>8. EffectsAccounted'
  <2>1. ASSUME NEW e \in Events
        PROVE  effects'[e] <= faults + prunes + (IF Accounted(e)' THEN 1 ELSE 0)
    <3>1. CASE e = m
      <4>1. effects[m] <= faults + prunes + 0
        BY <1>1, <1>2 DEF EffectsAccounted, Accounted
      <4>2. Accounted(m)'
        BY <1>1, <1>2 DEF Accounted
      <4>3. faults' = faults /\ prunes' = prunes /\ faults \in Nat /\ prunes \in Nat
        BY <1>1 DEF TypeOK
      <4>. QED
        BY <3>1, <4>1, <4>2, <4>3, <1>3
    <3>2. CASE e # m
      BY <1>1, <1>2, <1>3, <3>2 DEF EffectsAccounted, Accounted
    <3>. QED
      BY <3>1, <3>2
  <2>. QED
    BY <1>1, <2>1 DEF EffectsAccounted
<1>. QED
  BY <1>4, <1>6, <1>7, <1>8

LEMMA RememberStep ==
  ASSUME PipelineInv, Remember
  PROVE  PipelineInv'
<1>. USE DEF PipelineInv, brokerVars, consumerVars, resultVars
<1>. PICK m : m = Message(at)
  OBVIOUS
<1>1. /\ at \in Places /\ acted /\ at' = None /\ acted' = FALSE
      /\ Prune(seen \cup {m}) /\ DoneWith(at)
      /\ UNCHANGED <<sent, log, committed, effects, gaveUp, hiccups, faults>>
  BY DEF Remember, TypeOK
<1>2. m \in Events /\ effects[m] > 0 /\ pos[at] < Len(log[at])
  BY <1>1, MessageIsEvent DEF TypeOK, SeenHadEffect
<1>3. /\ IsFiniteSet(seen') /\ Cardinality(seen') <= MaxSeen
      /\ prunes' \in Nat /\ prunes \in Nat
      /\ seen' \subseteq seen \cup {m}
      /\ (seen' = seen \cup {m} /\ prunes' = prunes) \/ prunes' = prunes + 1
  <2>1. IsFiniteSet(seen \cup {m}) /\ prunes \in Nat
    BY FS_AddElement DEF TypeOK
  <2>. QED
    BY <1>1, <2>1, PruneKeepsTheLimit
<1>4. /\ NoneDropped'
      /\ pos' \in [Places -> Nat]
      /\ \A q \in Places : committed[q] <= pos'[q] /\ pos'[q] <= Len(log[q])
  BY <1>1, <1>2, OneMoreDone
<1>5. TypeOK'
  BY <1>1, <1>2, <1>3, <1>4 DEF TypeOK
<1>6. SeenHadEffect' /\ HandsAreNew'
  BY <1>1, <1>2, <1>3 DEF SeenHadEffect, HandsAreNew
<1>7. EffectsAccounted'
  <2>1. ASSUME NEW e \in Events
        PROVE  effects[e] <= faults + prunes' + (IF e \in seen' THEN 1 ELSE 0)
    <3>1. effects[e] \in Nat /\ faults \in Nat
      BY DEF TypeOK
    <3>2. effects[e] <= faults + prunes + (IF e \in seen \/ e = m THEN 1 ELSE 0)
      BY <1>1 DEF EffectsAccounted, Accounted
    <3>. QED
      BY <1>3, <3>1, <3>2
  <2>. QED
    BY <1>1, <2>1 DEF EffectsAccounted, Accounted
<1>. QED
  BY <1>4, <1>5, <1>6, <1>7

LEMMA GiveUpStep ==
  ASSUME PipelineInv, GiveUp
  PROVE  PipelineInv'
<1>. USE DEF PipelineInv, brokerVars, consumerVars, resultVars
<1>1. /\ at \in Places /\ at' = None /\ acted' = FALSE /\ DoneWith(at)
      /\ gaveUp' = gaveUp \cup {<<at, pos[at] + 1>>}
      /\ UNCHANGED <<sent, log, committed, seen, effects, prunes, hiccups>>
  BY DEF GiveUp, TypeOK
<1>2. /\ faults' \in 0 .. MaxFaults /\ faults \in Nat
      /\ (Message(at) \in Poison /\ faults' = faults) \/ faults' = faults + 1
  BY DEF GiveUp, Fault, TypeOK
<1>3. pos[at] < Len(log[at]) /\ pos[at] \in Nat
  BY <1>1, MessageIsEvent DEF TypeOK
<1>4. /\ NoneDropped'
      /\ pos' \in [Places -> Nat]
      /\ \A q \in Places : committed[q] <= pos'[q] /\ pos'[q] <= Len(log[q])
  BY <1>1, <1>3, OneMoreDone
<1>5. gaveUp' \subseteq Places \X Nat
  BY <1>1, <1>3 DEF TypeOK
<1>6. TypeOK'
  BY <1>1, <1>2, <1>4, <1>5 DEF TypeOK
<1>7. SeenHadEffect' /\ HandsAreNew'
  BY <1>1 DEF SeenHadEffect, HandsAreNew
<1>8. EffectsAccounted'
  <2>1. ASSUME NEW e \in Events
        PROVE  effects[e] <= faults' + prunes + (IF e \in seen THEN 1 ELSE 0)
    <3>1. effects[e] \in Nat /\ prunes \in Nat
      BY DEF TypeOK
    <3>2. effects[e] <= faults + prunes + (IF Accounted(e) THEN 1 ELSE 0)
      BY DEF EffectsAccounted
    <3>3. CASE Message(at) \in Poison /\ faults' = faults
      <4>1. ~acted
        BY <3>3 DEF SeenHadEffect
      <4>. QED
        BY <3>2, <3>3, <4>1 DEF Accounted
    <3>4. CASE faults' = faults + 1
      BY <1>2, <3>1, <3>2, <3>4
    <3>. QED
      BY <1>2, <3>3, <3>4
  <2>. QED
    BY <1>1, <2>1 DEF EffectsAccounted, Accounted
<1>. QED
  BY <1>4, <1>6, <1>7, <1>8

LEMMA PipelineInvStep ==
  ASSUME PipelineInv, [Next]_vars
  PROVE  PipelineInv'
<1>1. CASE UNCHANGED vars
  BY <1>1 DEF vars, brokerVars, consumerVars, resultVars, PipelineInv, TypeOK, SeenHadEffect,
              NoneDropped, HandsAreNew, EffectsAccounted, Accounted, Message
<1>. QED
  BY <1>1, StepCases, PublishStep, ReceiveStep, ActStep, RememberStep, GiveUpStep, OffsetStep

-----------------------------------------------------------------------------
(* Theorems                                                                *)

\* PipelineInv, what is known of the logs, the offsets and the remembered ids,
\* holds in every reachable state.
THEOREM PipelineInvHolds == Spec => []PipelineInv
<1>1. Init => PipelineInv
  BY PipelineInvInit
<1>2. PipelineInv /\ [Next]_vars => PipelineInv'
  BY PipelineInvStep
<1>. QED
  BY <1>1, <1>2, PTL DEF Spec

\* Every variable keeps its type; offsets are in order and the set of ids is
\* within its limit.
THEOREM PipelineTypes == Spec => []TypeOK
<1>1. PipelineInv => TypeOK
  BY DEF PipelineInv
<1>. QED
  BY <1>1, PipelineInvHolds, PTL

\* At-least-once: no message behind the committed offset was passed over
\* without its effect, unless its own handler threw.
THEOREM NoEventIsSkipped == Spec => []NoneSkipped
<1>1. PipelineInv => NoneSkipped
  <2>1. ASSUME PipelineInv, NEW p \in Places, NEW i \in 1 .. committed[p]
        PROVE  effects[log[p][i]] > 0 \/ <<p, i>> \in gaveUp
    <3>1. committed[p] \in Nat /\ pos[p] \in Nat /\ committed[p] <= pos[p]
      BY <2>1 DEF PipelineInv, TypeOK
    <3>2. i \in 1 .. pos[p]
      BY <3>1
    <3>. QED
      BY <2>1, <3>2 DEF PipelineInv, NoneDropped
  <2>. QED
    BY <2>1 DEF NoneSkipped
<1>. QED
  BY <1>1, PipelineInvHolds, PTL

\* An event has a second effect only after a crash, a handler that threw, or an
\* emptied set of ids; copies and rebalances alone never cause one.
THEOREM RepeatsAreExcused == Spec => []RepeatsNeedAFault
<1>1. PipelineInv => RepeatsNeedAFault
  <2>1. ASSUME PipelineInv, NEW e \in Events
        PROVE  effects[e] <= 1 + faults + prunes
    <3>1. effects[e] \in Nat /\ faults \in Nat /\ prunes \in Nat
      BY <2>1 DEF PipelineInv, TypeOK
    <3>2. effects[e] <= faults + prunes + (IF Accounted(e) THEN 1 ELSE 0)
      BY <2>1 DEF PipelineInv, EffectsAccounted
    <3>. QED
      BY <3>1, <3>2
  <2>. QED
    BY <2>1 DEF RepeatsNeedAFault
<1>. QED
  BY <1>1, PipelineInvHolds, PTL

=============================================================================
