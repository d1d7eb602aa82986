------------------------------ MODULE ReadProofs ------------------------------
(***************************************************************************)
(* Theorems about AccountReads, for any number of payments, readers and    *)
(* rows on a page.  What the caches hold rests on CacheInv, of which the   *)
(* types are a part; what a reader is shown on WalkInv, of which it is one.*)
(***************************************************************************)
EXTENDS AccountReads, FiniteSetTheorems, TLAPS

USE OldOnesAreNumbered, FlaggedArePayments, PaymentsAreFinite, LimitIsPositive,
    ReviewsAreCounted

LEMMA StepCases ==
  ASSUME [Next]_vars
  PROVE  \/ \E p \in Payments : Begin(p)
         \/ \E p \in Payments : Commit(p)
         \/ \E p \in Flagged : Review(p)
         \/ \E p \in Payments : DeleteKey(p)
         \/ \E r \in Readers : Hit(r)
         \/ \E r \in Readers : Miss(r)
         \/ \E r \in Readers : Refuse(r)
         \/ \E r \in Readers : \E part \in toRead[r] : Read(r, part)
         \/ \E r \in Readers : AnswerFromCache(r)
         \/ \E r \in Readers : AnswerFromTable(r)
         \/ \E n \in Pages : Expire(n)
         \/ UNCHANGED vars
BY DEF Next, Reader

-----------------------------------------------------------------------------
(* Sets of payments and places in them                                     *)

LEMMA Finite ==
  ASSUME NEW S \in SUBSET Payments
  PROVE  IsFiniteSet(S) /\ Cardinality(S) \in Nat /\ Cardinality(S) <= Cardinality(Payments)
BY FS_Subset, FS_CardinalityType

LEMMA CountType == Cardinality(Payments) \in Nat /\ MaxPages \in Nat /\ 1 \in Pages
BY FS_CardinalityType DEF MaxPages, Pages

LEMMA RowsHoldTheCommitted == PaymentsIn(Rows) = Committed
<1>1. \A p \in Committed : <<p, status[p]>> \in Rows /\ <<p, status[p]>>[1] = p
  BY DEF Rows
<1>2. \A x \in Rows : x[1] \in Committed
  BY DEF Rows
<1>. QED
  BY <1>1, <1>2, Zenon DEF PaymentsIn

LEMMA FoundAreTheCommitted ==
  ASSUME NEW part
  PROVE  PaymentsIn(Found(part)) = Committed
<1>1. CASE part = "count"
  <2>. DEFINE C == {<<p, None>> : p \in Committed}
  <2>1. \A p \in Committed : <<p, None>> \in C /\ <<p, None>>[1] = p
    OBVIOUS
  <2>2. \A x \in C : x[1] \in Committed
    OBVIOUS
  <2>3. Found(part) = C
    BY <1>1 DEF Found
  <2>. HIDE DEF C
  <2>. QED
    BY <2>1, <2>2, <2>3, Zenon DEF PaymentsIn
<1>. QED
  BY <1>1, RowsHoldTheCommitted DEF Found

LEMMA PaymentsInType ==
  ASSUME NEW d \in Entries, NEW part \in AllParts
  PROVE  PaymentsIn(d[part]) \subseteq Payments
BY DEF Entries, PaymentsIn

LEMMA NothingInNoData ==
  ASSUME NEW part \in AllParts
  PROVE  PaymentsIn(NoData[part]) = {}
BY DEF PaymentsIn, NoData

LEMMA PlaceType ==
  ASSUME NEW S \in SUBSET Payments, NEW p
  PROVE  Place(p, S) \in Nat /\ Place(p, S) <= Cardinality(S)
<1>1. {q \in S : created[q] >= created[p]} \subseteq S
  OBVIOUS
<1>. QED
  BY <1>1, Finite, FS_Subset, FS_CardinalityType DEF Place

LEMMA PlaceIsPositive ==
  ASSUME NEW S \in SUBSET Payments, NEW p \in S, created[p] \in Nat
  PROVE  Place(p, S) >= 1
<1>. DEFINE A == {q \in S : created[q] >= created[p]}
<1>1. p \in A /\ A \subseteq S
  OBVIOUS
<1>2. IsFiniteSet(A) /\ Cardinality(A) \in Nat
  BY <1>1, Finite, FS_Subset, FS_CardinalityType
<1>3. Cardinality(A) # 0
  BY <1>1, <1>2, FS_EmptySet
<1>. QED
  BY <1>2, <1>3 DEF Place

LEMMA PlaceGrows ==
  ASSUME NEW T \in SUBSET Payments, NEW S \in SUBSET T, NEW p
  PROVE  Place(p, S) <= Place(p, T)
<1>. DEFINE A == {q \in S : created[q] >= created[p]}
            B == {q \in T : created[q] >= created[p]}
<1>1. A \subseteq B /\ B \subseteq T
  OBVIOUS
<1>2. IsFiniteSet(B)
  BY <1>1, Finite, FS_Subset
<1>3. Cardinality(A) <= Cardinality(B)
  BY <1>1, <1>2, FS_Subset
<1>. QED
  BY <1>3 DEF Place

-----------------------------------------------------------------------------
(* Types                                                                   *)

LEMMA PageStaysInRange ==
  ASSUME NEW S \in SUBSET Payments, NEW n \in Pages, HasMore(Cardinality(S), n)
  PROVE  n + 1 \in Pages
<1>1. n \in Nat /\ n * Limit >= n
  BY CountType DEF Pages
<1>2. n < Cardinality(Payments)
  BY <1>1, Finite, CountType DEF HasMore
<1>. QED
  BY <1>1, <1>2, CountType DEF Pages, MaxPages

LEMMA InitTypes == Init => TypeOK
BY CountType DEF Init, TypeOK, Deleted, Views, Parts, NoData, Entries, AllParts

LEMMA LeaveTypes ==
  ASSUME TypeOK, NEW r \in Readers, NEW s \in {"idle", "done"}, Leave(r, s)
  PROVE  /\ step' \in [Readers -> {"idle", "hit", "read", "done"}]
         /\ data' \in [Readers -> Entries]
         /\ since' \in [Readers -> SUBSET Payments]
<1>1. NoData \in Entries
  BY DEF NoData, Entries, AllParts
<1>. QED
  BY <1>1 DEF TypeOK, Leave, To

LEMMA ShowTypes ==
  ASSUME TypeOK, NEW r \in Readers, Show(r)
  PROVE  /\ step' \in [Readers -> {"idle", "hit", "read", "done"}]
         /\ data' \in [Readers -> Entries]
         /\ since' \in [Readers -> SUBSET Payments]
         /\ page' \in [Readers -> Pages]
         /\ unseen' \in [Readers -> SUBSET Payments]
         /\ hidden' \in [Readers -> SUBSET Payments]
<1>1. /\ Counted \in AllParts /\ "rows" \in AllParts
      /\ data[r] \in Entries
  BY DEF TypeOK, Counted, AllParts
<1>2. /\ PaymentsIn(data[r]["rows"]) \subseteq Payments
      /\ PaymentsIn(data[r][Counted]) \subseteq Payments
  BY <1>1, PaymentsInType
<1>3. unseen' \in [Readers -> SUBSET Payments] /\ hidden' \in [Readers -> SUBSET Payments]
  BY <1>2 DEF Show, TypeOK
<1>4. CASE /\ view \in Lists /\ HasMore(Cardinality(PaymentsIn(data[r][Counted])), page[r])
           /\ Leave(r, "idle") /\ page' = [page EXCEPT ![r] = @ + 1]
  <2>1. page[r] + 1 \in Pages
    BY <1>2, <1>4, PageStaysInRange DEF TypeOK
  <2>2. page' \in [Readers -> Pages]
    BY <1>4, <2>1 DEF TypeOK
  <2>. QED
    BY <1>3, <1>4, <2>2, LeaveTypes
<1>5. CASE Leave(r, "done") /\ UNCHANGED page
  BY <1>3, <1>5, LeaveTypes DEF TypeOK
<1>. QED
  BY <1>4, <1>5 DEF Show

LEMMA StepTypes == TypeOK /\ [Next]_vars => TypeOK'
<1>. SUFFICES ASSUME TypeOK, [Next]_vars
              PROVE  TypeOK'
  OBVIOUS
<1>. USE DEF tableVars, readerVars, Empty
<1>1. ASSUME NEW p \in Payments, Begin(p)  PROVE TypeOK'
  <2>1. 1 + Cardinality({q \in Payments : created[q] # 0}) \in Nat
    BY Finite
  <2>. QED
    BY <1>1, <2>1 DEF Begin, TypeOK
<1>2. ASSUME NEW p \in Payments, Commit(p)  PROVE TypeOK'
  BY <1>2 DEF Commit, TypeOK, HalfRead
<1>3. ASSUME NEW p \in Flagged, Review(p)  PROVE TypeOK'
  BY <1>3 DEF Review, Judged, TypeOK
<1>4. ASSUME NEW p \in Payments, DeleteKey(p)  PROVE TypeOK'
  BY <1>4 DEF DeleteKey, TypeOK
<1>b. Committed \subseteq Payments
  BY DEF Committed
<1>5. ASSUME NEW r \in Readers, Hit(r)  PROVE TypeOK'
  <2>1. Begun(r) \subseteq Payments /\ Keeps(page[r], r) \subseteq Payments
    BY <1>b DEF Begun, Keeps, Lacked, TypeOK
  <2>2. unseen' \in [Readers -> SUBSET Payments] /\ hidden' \in [Readers -> SUBSET Payments]
    BY <1>5, <2>1 DEF Hit, TypeOK
  <2>3. data' \in [Readers -> Entries] /\ torn' \in [Readers -> BOOLEAN]
    BY <1>5 DEF Hit, TypeOK
  <2>. QED
    BY <1>5, <2>2, <2>3 DEF Hit, To, TypeOK
<1>6. ASSUME NEW r \in Readers, Miss(r)  PROVE TypeOK'
  <2>1. Begun(r) \subseteq Payments
    BY <1>b DEF Begun, TypeOK
  <2>. QED
    BY <1>6, <2>1 DEF Miss, To, TypeOK
<1>7. ASSUME NEW r \in Readers, Refuse(r)  PROVE TypeOK'
  BY <1>7, LeaveTypes DEF Refuse, TypeOK
<1>8. ASSUME NEW r \in Readers, NEW part \in toRead[r], Read(r, part)  PROVE TypeOK'
  <2>1. Found(part) \subseteq Payments \X {"completed", "failed", None}
    BY DEF Found, Rows, Committed, TypeOK
  <2>2. data[r] \in Entries /\ [data[r] EXCEPT ![part] = Found(part)] \in Entries
    BY <2>1 DEF TypeOK, Entries
  <2>3. data' = [data EXCEPT ![r] = [data[r] EXCEPT ![part] = Found(part)]]
    BY <1>8 DEF Read, TypeOK
  <2>. QED
    BY <1>8, <2>2, <2>3 DEF Read, TypeOK
<1>9. ASSUME NEW r \in Readers, AnswerFromCache(r)  PROVE TypeOK'
  BY <1>9, ShowTypes DEF AnswerFromCache, TypeOK
<1>10. ASSUME NEW r \in Readers, AnswerFromTable(r)  PROVE TypeOK'
  <2>1. /\ cache' \in [Pages -> Entries \cup {None}]
        /\ excuse' \in [Pages -> SUBSET Payments]
    <3>1. page[r] \in Pages /\ data[r] \in Entries /\ since[r] \in SUBSET Payments
      BY DEF TypeOK
    <3>2. CASE /\ cache' = [cache EXCEPT ![page[r]] = data[r]]
               /\ excuse' = [excuse EXCEPT ![page[r]] = since[r]]
      BY <3>1, <3>2 DEF TypeOK
    <3>3. CASE UNCHANGED <<cache, excuse>>
      BY <3>3 DEF TypeOK
    <3>. QED
      BY <1>10, <3>2, <3>3 DEF AnswerFromTable, Store
  <2>2. UNCHANGED <<tableVars, toRead, torn>> /\ Show(r)
    BY <1>10 DEF AnswerFromTable
  <2>. QED
    BY <2>1, <2>2, ShowTypes DEF TypeOK
<1>11. ASSUME NEW n \in Pages, Expire(n)  PROVE TypeOK'
  BY <1>11 DEF Expire, TypeOK
<1>12. CASE UNCHANGED vars
  BY <1>12 DEF vars, TypeOK
<1>. QED
  BY <1>1, <1>2, <1>3, <1>4, <1>5, <1>6, <1>7, <1>8, <1>9, <1>10, <1>11, <1>12,
     StepCases

\* Type correctness of the table, the cache and the readers.
THEOREM ReadTypes == Spec => []TypeOK
BY InitTypes, StepTypes, PTL DEF Spec

-----------------------------------------------------------------------------
(* What the cache holds                                                    *)

DeletedAreCommitted == deleted \subseteq Committed

\* What a reader of a page that is cached has read so far has every payment that
\* has deleted it, or the DEL came after the reader had missed the cache.
ReadOrRaced ==
    \A r \in Readers : step[r] = "read" /\ IsCached(page[r]) =>
        \A p \in deleted, part \in Parts(view) \ toRead[r] :
            p \in PaymentsIn(data[r][part]) \cup since[r]

OnlyCached == \A n \in Pages : cache[n] # None => IsCached(n)

CacheInv == TypeOK /\ DeletedAreCommitted /\ ReadOrRaced /\ OnlyCached /\ StaleIsRaced

\* Nothing that was committed is undone.
LEMMA CommittedGrow == TypeOK /\ [Next]_vars => Committed \subseteq Committed'
<1>. SUFFICES ASSUME TypeOK, [Next]_vars
              PROVE  Committed \subseteq Committed'
  OBVIOUS
<1>1. ASSUME NEW p \in Payments, Commit(p)  PROVE Committed \subseteq Committed'
  BY <1>1 DEF Commit, Committed, TypeOK
<1>2. ASSUME NEW p \in Flagged, Review(p)  PROVE Committed \subseteq Committed'
  BY <1>2 DEF Review, Judged, Committed, TypeOK
<1>3. ASSUME UNCHANGED status  PROVE Committed \subseteq Committed'
  BY <1>3 DEF Committed
<1>. QED
  BY <1>1, <1>2, <1>3, StepCases
  DEF Begin, DeleteKey, Hit, Miss, Refuse, Read, AnswerFromCache, AnswerFromTable,
      Expire, tableVars, vars

LEMMA InitCache == Init => CacheInv
BY InitTypes DEF Init, CacheInv, DeletedAreCommitted, Committed, ReadOrRaced, OnlyCached,
                 StaleIsRaced

\* What a payment deletes is all that is cached.
LEMMA ClearsTheCached ==
  ASSUME view \in Deleted, NEW n \in Pages, IsCached(n)
  PROVE  n \in Cleared
BY DEF Deleted, IsCached, Cleared

LEMMA StepCache == CacheInv /\ [Next]_vars => CacheInv'
<1>. SUFFICES ASSUME CacheInv, [Next]_vars
              PROVE  CacheInv'
  OBVIOUS
<1>. USE DEF tableVars, readerVars
<1>0. TypeOK /\ TypeOK' /\ Committed \subseteq Committed'
  BY StepTypes, CommittedGrow DEF CacheInv
<1>. DEFINE Goal == DeletedAreCommitted' /\ ReadOrRaced' /\ OnlyCached' /\ StaleIsRaced'
<1>a. ASSUME UNCHANGED <<view, cache, excuse, deleted>>
      PROVE  DeletedAreCommitted' /\ OnlyCached' /\ StaleIsRaced'
  BY <1>0, <1>a DEF CacheInv, DeletedAreCommitted, OnlyCached, IsCached, StaleIsRaced, PaymentsIn
<1>1. ASSUME UNCHANGED <<view, deleted, step, page, toRead, data, since, cache, excuse>>
      PROVE  Goal
  BY <1>a, <1>1 DEF CacheInv, ReadOrRaced, IsCached, PaymentsIn
<1>2. ASSUME NEW p \in Payments, DeleteKey(p)  PROVE Goal
  <2>1. DeletedAreCommitted'
    BY <1>0, <1>2 DEF DeleteKey, MayDelete, CacheInv, DeletedAreCommitted, Committed
  <2>2. ASSUME NEW r \in Readers, step[r] = "read", IsCached(page[r]),
               NEW q \in deleted', NEW part \in Parts(view) \ toRead[r]
        PROVE  q \in PaymentsIn(data[r][part]) \cup since'[r]
    <3>1. since'[r] = since[r] \cup {p}
      BY <1>0, <1>2, <2>2, ClearsTheCached DEF DeleteKey, TypeOK
    <3>2. q \in deleted \/ q = p
      BY <1>2 DEF DeleteKey
    <3>. QED
      BY <2>2, <3>1, <3>2 DEF CacheInv, ReadOrRaced
  <2>3. ReadOrRaced'
    BY <1>2, <2>2 DEF DeleteKey, ReadOrRaced, IsCached, PaymentsIn
  <2>4. \A n \in Pages : cache'[n] = None
    <3>. SUFFICES ASSUME NEW n \in Pages
                  PROVE  cache'[n] = None
      OBVIOUS
    <3>1. cache[n] = None \/ n \in Cleared
      BY <1>2, ClearsTheCached DEF DeleteKey, CacheInv, OnlyCached
    <3>. QED
      BY <1>2, <3>1 DEF DeleteKey, Empty
  <2>. QED
    BY <2>1, <2>3, <2>4 DEF OnlyCached, StaleIsRaced
<1>3. ASSUME NEW r \in Readers, Hit(r)  PROVE Goal
  <2>1. ReadOrRaced'
    BY <1>0, <1>3 DEF Hit, To, CacheInv, ReadOrRaced, TypeOK, IsCached, PaymentsIn
  <2>. QED
    BY <1>a, <1>3, <2>1 DEF Hit
<1>4. ASSUME NEW r \in Readers, Miss(r)  PROVE Goal
  <2>1. ReadOrRaced'
    BY <1>0, <1>4 DEF Miss, To, CacheInv, ReadOrRaced, TypeOK, IsCached, PaymentsIn
  <2>. QED
    BY <1>a, <1>4, <2>1 DEF Miss
<1>5. ASSUME NEW r \in Readers, NEW part \in toRead[r], Read(r, part)  PROVE Goal
  <2>2. ASSUME NEW q \in Readers, step[q] = "read", IsCached(page[q]),
               NEW p \in deleted, NEW part2 \in Parts(view) \ toRead'[q]
        PROVE  p \in PaymentsIn(data'[q][part2]) \cup since[q]
    <3>1. CASE q = r /\ part2 = part
      <4>1. data'[q][part2] = Found(part)
        BY <1>0, <1>5, <3>1 DEF Read, TypeOK, Entries, AllParts, Parts
      <4>. QED
        BY <4>1, FoundAreTheCommitted DEF CacheInv, DeletedAreCommitted
    <3>2. CASE ~(q = r /\ part2 = part)
      <4>1. data'[q][part2] = data[q][part2]
        BY <1>0, <1>5, <3>2 DEF Read, TypeOK, Entries
      <4>2. part2 \notin toRead[q]
        BY <1>0, <1>5, <2>2, <3>2 DEF Read, TypeOK
      <4>. QED
        BY <2>2, <4>1, <4>2 DEF CacheInv, ReadOrRaced
    <3>. QED
      BY <3>1, <3>2
  <2>3. ReadOrRaced'
    BY <1>5, <2>2 DEF Read, ReadOrRaced, IsCached, PaymentsIn
  <2>. QED
    BY <1>a, <1>5, <2>3 DEF Read
<1>6. ASSUME NEW r \in Readers, NEW s \in {"idle", "done"}, Leave(r, s),
             UNCHANGED <<view, deleted, toRead>>,
             \A q \in Readers : q # r => page'[q] = page[q]
      PROVE  ReadOrRaced'
  BY <1>0, <1>6 DEF Leave, To, CacheInv, ReadOrRaced, TypeOK, IsCached, PaymentsIn
<1>7. ASSUME NEW r \in Readers, Refuse(r)  PROVE Goal
  BY <1>a, <1>6, <1>7 DEF Refuse
<1>8. ASSUME NEW r \in Readers, Show(r), UNCHANGED <<view, deleted, toRead>>
      PROVE  ReadOrRaced'
  BY <1>0, <1>6, <1>8 DEF Show, TypeOK
<1>9. ASSUME NEW r \in Readers, AnswerFromCache(r)  PROVE Goal
  BY <1>a, <1>8, <1>9 DEF AnswerFromCache
<1>10. ASSUME NEW r \in Readers, AnswerFromTable(r)  PROVE Goal
  <2>1. ReadOrRaced'
    BY <1>8, <1>10 DEF AnswerFromTable
  <2>2. CASE UNCHANGED <<cache, excuse>>
    BY <1>a, <1>10, <2>1, <2>2 DEF AnswerFromTable
  <2>3. CASE /\ IsCached(page[r])
             /\ cache' = [cache EXCEPT ![page[r]] = data[r]]
             /\ excuse' = [excuse EXCEPT ![page[r]] = since[r]]
    <3>1. /\ cache'[page[r]] = data[r] /\ excuse'[page[r]] = since[r]
          /\ UNCHANGED <<view, deleted>>
          /\ \A n \in Pages \ {page[r]} : cache'[n] = cache[n] /\ excuse'[n] = excuse[n]
      BY <1>0, <1>10, <2>3 DEF AnswerFromTable, TypeOK
    <3>2. \A p \in deleted, part \in Parts(view) :
              p \in PaymentsIn(data[r][part]) \cup since[r]
      BY <1>10, <2>3 DEF AnswerFromTable, CacheInv, ReadOrRaced
    <3>3. StaleIsRaced'
      <4>. SUFFICES ASSUME NEW n \in Pages, cache'[n] # None,
                           NEW p \in deleted, NEW part \in Parts(view)
                    PROVE  p \in PaymentsIn(cache'[n][part]) \cup excuse'[n]
        BY <3>1 DEF StaleIsRaced, PaymentsIn
      <4>1. CASE n = page[r]
        BY <3>1, <3>2, <4>1
      <4>2. CASE n # page[r]
        <5>1. cache'[n] = cache[n] /\ excuse'[n] = excuse[n]
          BY <3>1, <4>2
        <5>. QED
          BY <5>1 DEF CacheInv, StaleIsRaced
      <4>. QED
        BY <4>1, <4>2
    <3>4. OnlyCached'
      BY <2>3, <3>1 DEF CacheInv, OnlyCached, IsCached
    <3>5. DeletedAreCommitted'
      BY <1>0, <3>1 DEF CacheInv, DeletedAreCommitted
    <3>. QED
      BY <2>1, <3>3, <3>4, <3>5
  <2>. QED
    BY <1>10, <2>2, <2>3 DEF AnswerFromTable, Store
<1>11. ASSUME NEW n \in Pages, Expire(n)  PROVE Goal
  <2>1. ReadOrRaced' /\ DeletedAreCommitted'
    BY <1>0, <1>11 DEF Expire, CacheInv, DeletedAreCommitted, ReadOrRaced, IsCached, PaymentsIn
  <2>2. \A k \in Pages : cache'[k] = None \/ (cache'[k] = cache[k] /\ excuse'[k] = excuse[k])
    BY <1>11 DEF Expire, Empty
  <2>3. UNCHANGED <<view, deleted>>
    BY <1>11 DEF Expire
  <2>. QED
    BY <2>1, <2>2, <2>3 DEF CacheInv, OnlyCached, StaleIsRaced, IsCached, PaymentsIn
<1>. QED
  BY <1>0, <1>1, <1>2, <1>3, <1>4, <1>5, <1>7, <1>9, <1>10, <1>11, StepCases
  DEF CacheInv, Begin, Commit, Review, vars

LEMMA CacheInvariance == Spec => []CacheInv
BY InitCache, StepCache, PTL DEF Spec

\* After its DEL a payment is in every entry that is kept, of Redis or of the
\* browser, except those of readers that had already missed the cache.
THEOREM StaleOnlyWhenRaced == Spec => []StaleIsRaced
<1>1. CacheInv => StaleIsRaced
  BY DEF CacheInv
<1>. QED
  BY <1>1, CacheInvariance, PTL

-----------------------------------------------------------------------------
(* What a reader is shown                                                  *)

CreatedWhenCommitted == \A p \in Committed : created[p] # 0

CachedAreCommitted ==
    \A n \in Pages : cache[n] # None =>
        \A part \in AllParts : PaymentsIn(cache[n][part]) \subseteq Committed

\* Whatever a reader has read has been committed.
KnowsCommitted(r) == \A part \in AllParts : PaymentsIn(data[r][part]) \subseteq Committed

ListsHavePages(r) == page[r] > 1 => view \in Lists

CountsFirst(r) == "count" \in toRead[r] => "rows" \in toRead[r]

\* What it has still to be shown, but for what an old entry keeps from it.
Owed(r) == unseen[r] \ hidden[r]

\* That is in the table, beyond the pages the reader has had.
OwedBeyond(r) ==
    step[r] # "done" =>
        \A p \in Owed(r) : p \in Committed /\ Place(p, Committed) > (page[r] - 1) * Limit

\* So it is in the rows it has read, or was given.
HasRows(r) == step[r] = "hit" \/ (step[r] = "read" /\ "rows" \notin toRead[r])
OwedInRows(r) ==
    HasRows(r) /\ view \in Lists =>
        \A p \in Owed(r) :
            /\ p \in PaymentsIn(data[r]["rows"])
            /\ Place(p, PaymentsIn(data[r]["rows"])) > (page[r] - 1) * Limit

\* Unless a payment was committed in between, the count is that of the rows.
CountMatches(r) ==
    view = "payments" /\ ~torn[r] =>
        /\ step[r] = "hit" => PaymentsIn(data[r]["count"]) = PaymentsIn(data[r]["rows"])
        /\ step[r] = "read" /\ "count" \notin toRead[r] =>
              PaymentsIn(data[r]["count"]) =
                  IF "rows" \in toRead[r] THEN Committed ELSE PaymentsIn(data[r]["rows"])

ShownAll(r) == step[r] = "done" /\ view \in Lists => Owed(r) = {} \/ torn[r]

ReaderInv(r) ==
    /\ KnowsCommitted(r) /\ ListsHavePages(r) /\ CountsFirst(r)
    /\ OwedBeyond(r) /\ OwedInRows(r) /\ CountMatches(r)
    /\ ShownAll(r)

WalkInv ==
    /\ CacheInv
    /\ CreatedWhenCommitted
    /\ CachedAreCommitted
    /\ \A r \in Readers : ReaderInv(r)

LEMMA InitWalk == Init => WalkInv
<1>. SUFFICES ASSUME Init
              PROVE  WalkInv
  OBVIOUS
<1>1. CreatedWhenCommitted
  BY DEF Init, CreatedWhenCommitted, Committed
<1>2. CachedAreCommitted
  BY DEF Init, CachedAreCommitted
<1>3. ASSUME NEW r \in Readers  PROVE ReaderInv(r)
  <2>1. Owed(r) = {} /\ page[r] = 1 /\ step[r] = "idle" /\ toRead[r] = {} /\ data[r] = NoData
    BY DEF Init, Owed
  <2>2. KnowsCommitted(r)
    BY <2>1, NothingInNoData DEF KnowsCommitted
  <2>. QED
    BY <2>1, <2>2
    DEF ReaderInv, ListsHavePages, CountsFirst, OwedBeyond, HasRows, OwedInRows,
        CountMatches, ShownAll
<1>. QED
  BY <1>1, <1>2, <1>3, InitCache DEF WalkInv

\* The payments that are there keep their times, and their places only grow.
LEMMA TimesStay ==
  ASSUME TypeOK, CreatedWhenCommitted, [Next]_vars
  PROVE  \A p \in Committed : created'[p] = created[p]
<1>1. ASSUME NEW p \in Payments, Begin(p)
      PROVE  \A q \in Committed : created'[q] = created[q]
  BY <1>1 DEF Begin, CreatedWhenCommitted, Committed, TypeOK
<1>2. ASSUME UNCHANGED created  PROVE \A q \in Committed : created'[q] = created[q]
  BY <1>2
<1>. QED
  BY <1>1, <1>2, StepCases
  DEF Commit, Review, DeleteKey, Hit, Miss, Refuse, Read, AnswerFromCache,
      AnswerFromTable, Expire, tableVars, vars

LEMMA PlacesStay ==
  ASSUME TypeOK, CreatedWhenCommitted, [Next]_vars
  PROVE  \A S \in SUBSET Committed : \A p \in S :
             Cardinality({q \in S : created'[q] >= created'[p]}) = Place(p, S)
<1>. SUFFICES ASSUME NEW S \in SUBSET Committed, NEW p \in S
              PROVE  Cardinality({q \in S : created'[q] >= created'[p]}) = Place(p, S)
  OBVIOUS
<1>1. {q \in S : created'[q] >= created'[p]} = {q \in S : created[q] >= created[p]}
  BY TimesStay
<1>. QED
  BY <1>1 DEF Place

LEMMA PlacesGrow ==
  ASSUME TypeOK, CreatedWhenCommitted, [Next]_vars, NEW p \in Committed
  PROVE  p \in Committed' /\ Place(p, Committed)' >= Place(p, Committed)
<1>. DEFINE A == {q \in Committed : created[q] >= created[p]}
            B == {q \in Committed' : created'[q] >= created'[p]}
<1>1. Committed \subseteq Committed' /\ Committed' \subseteq Payments
  BY CommittedGrow DEF Committed
<1>2. A \subseteq B /\ B \subseteq Payments
  BY <1>1, TimesStay
<1>3. IsFiniteSet(B) /\ Cardinality(A) <= Cardinality(B)
  BY <1>2, Finite, FS_Subset
<1>4. Cardinality(A) \in Nat /\ Cardinality(B) \in Nat
  BY <1>2, <1>3, Finite, FS_Subset, FS_CardinalityType
<1>. QED
  BY <1>1, <1>3, <1>4 DEF Place

\* Where a row is when page n has been cut from the rows, and it was not on it.
LEMMA NotOnThisPage ==
  ASSUME TypeOK, NEW S \in SUBSET Payments, NEW n \in Pages, NEW p \in S \ Slice(S, n),
         Place(p, S) > (n - 1) * Limit
  PROVE  Place(p, S) > n * Limit
<1>1. n \in Nat /\ n * Limit \in Nat
  BY CountType DEF Pages
<1>2. Place(p, S) \in Nat
  BY PlaceType
<1>3. ~(Place(p, S) <= n * Limit)
  BY DEF Slice
<1>. QED
  BY <1>1, <1>2, <1>3

\* Showing a page takes the reader on, and only shows it what was there.
LEMMA ShowKeeps ==
  ASSUME WalkInv, NEW r \in Readers, Show(r), UNCHANGED <<tableVars, toRead, torn>>,
         \/ step[r] = "hit"
         \/ step[r] = "read" /\ toRead[r] = {}
  PROVE  /\ step'[r] \in {"idle", "done"}
         /\ step'[r] # "done" =>
               \A p \in Owed(r)' : p \in Committed /\ Place(p, Committed) > (page'[r] - 1) * Limit
         /\ step'[r] = "done" /\ view \in Lists => Owed(r)' = {} \/ torn[r]
<1>. DEFINE S == PaymentsIn(data[r]["rows"])
            n == page[r]
            total == Cardinality(PaymentsIn(data[r][Counted]))
<1>1. TypeOK /\ S \subseteq Committed /\ S \subseteq Payments /\ n \in Pages
  BY DEF WalkInv, CacheInv, ReaderInv, KnowsCommitted, TypeOK, Committed, AllParts
<1>2. ASSUME view \in Lists
      PROVE  \A p \in Owed(r)' : p \in S /\ Place(p, S) > n * Limit
  <2>1. \A p \in Owed(r) : p \in S /\ Place(p, S) > (n - 1) * Limit
    BY <1>2 DEF WalkInv, ReaderInv, HasRows, OwedInRows
  <2>2. Owed(r)' = Owed(r) \ Slice(S, n)
    BY <1>1 DEF Show, TypeOK, Owed
  <2>. QED
    BY <1>1, <2>1, <2>2, NotOnThisPage
<1>3. \A p \in S : Place(p, S) <= Place(p, Committed) /\ Place(p, Committed) \in Nat
                   /\ Place(p, S) \in Nat /\ Place(p, S) <= Cardinality(S)
  BY <1>1, PlaceGrows, PlaceType DEF Committed
<1>4. n \in Nat /\ n * Limit \in Nat
  BY <1>1, CountType DEF Pages
<1>5. CASE view \in Lists /\ HasMore(total, n) /\ Leave(r, "idle")
           /\ page' = [page EXCEPT ![r] = @ + 1]
  <2>1. step'[r] = "idle" /\ page'[r] = n + 1
    BY <1>1, <1>5 DEF Leave, To, TypeOK
  <2>2. ASSUME NEW p \in Owed(r)'
        PROVE  p \in Committed /\ Place(p, Committed) > n * Limit
    <3>1. p \in S /\ Place(p, S) > n * Limit
      BY <1>2, <1>5
    <3>. QED
      BY <1>1, <1>3, <1>4, <3>1
  <2>. QED
    BY <1>4, <2>1, <2>2
<1>6. CASE ~(view \in Lists /\ HasMore(total, n)) /\ Leave(r, "done")
  <2>1. step'[r] = "done"
    BY <1>1, <1>6 DEF Leave, To, TypeOK
  <2>2. ASSUME view \in Lists, ~torn[r]
        PROVE  Owed(r)' = {}
    <3>1. PaymentsIn(data[r][Counted]) = S
      <4>1. CASE view = "payments"
        BY <2>2, <4>1 DEF WalkInv, ReaderInv, CountMatches, Counted
      <4>2. CASE view # "payments"
        BY <4>2 DEF Counted
      <4>. QED
        BY <4>1, <4>2
    <3>2. Cardinality(S) \in Nat /\ Cardinality(S) <= n * Limit
      BY <1>1, <1>4, <1>6, <2>2, <3>1, Finite DEF HasMore
    <3>3. \A p \in S : ~(Place(p, S) > n * Limit)
      BY <1>3, <1>4, <3>2
    <3>4. \A p \in Owed(r)' : p \in S /\ Place(p, S) > n * Limit
      BY <1>2, <2>2
    <3>. QED
      BY <3>3, <3>4
  <2>. QED
    BY <2>1, <2>2
<1>. QED
  BY <1>5, <1>6 DEF Show

LEMMA TimesExist == WalkInv /\ [Next]_vars => CreatedWhenCommitted'
<1>. SUFFICES ASSUME WalkInv, [Next]_vars
              PROVE  CreatedWhenCommitted'
  OBVIOUS
<1>. USE DEF tableVars, readerVars
<1>0. TypeOK /\ CreatedWhenCommitted
  BY DEF WalkInv, CacheInv
<1>1. ASSUME NEW p \in Payments, Begin(p)  PROVE CreatedWhenCommitted'
  BY <1>0, <1>1, TimesStay DEF Begin, CreatedWhenCommitted, Committed
<1>2. ASSUME NEW p \in Payments, Commit(p)  PROVE CreatedWhenCommitted'
  BY <1>0, <1>2 DEF Commit, CreatedWhenCommitted, Committed, TypeOK
<1>3. ASSUME NEW p \in Flagged, Review(p)  PROVE CreatedWhenCommitted'
  BY <1>0, <1>3 DEF Review, CreatedWhenCommitted, Committed, TypeOK
<1>4. ASSUME UNCHANGED <<created, status>>  PROVE CreatedWhenCommitted'
  BY <1>0, <1>4 DEF CreatedWhenCommitted, Committed
<1>. QED
  BY <1>1, <1>2, <1>3, <1>4, StepCases
  DEF DeleteKey, Hit, Miss, Refuse, Read, AnswerFromCache, AnswerFromTable, Expire, vars

LEMMA CacheKnown == WalkInv /\ [Next]_vars => CachedAreCommitted'
<1>. SUFFICES ASSUME WalkInv, [Next]_vars
              PROVE  CachedAreCommitted'
  OBVIOUS
<1>0. TypeOK /\ CachedAreCommitted /\ Committed \subseteq Committed'
  BY CommittedGrow DEF WalkInv, CacheInv
<1>1. ASSUME \A n \in Pages : cache'[n] \in {cache[n], None}  PROVE CachedAreCommitted'
  BY <1>0, <1>1 DEF CachedAreCommitted, PaymentsIn
<1>2. ASSUME NEW N, Empty(N)  PROVE CachedAreCommitted'
  <2>1. \A k \in Pages : cache'[k] \in {cache[k], None}
    BY <1>2 DEF Empty
  <2>. QED
    BY <1>1, <2>1
<1>3. ASSUME NEW r \in Readers, AnswerFromTable(r)  PROVE CachedAreCommitted'
  <2>1. CASE UNCHANGED cache
    BY <1>1, <2>1
  <2>2. CASE cache' = [cache EXCEPT ![page[r]] = data[r]]
    <3>1. \A part \in AllParts : PaymentsIn(data[r][part]) \subseteq Committed
      BY DEF WalkInv, ReaderInv, KnowsCommitted
    <3>2. \A n \in Pages : cache'[n] \in {cache[n], data[r]}
      BY <1>0, <2>2 DEF TypeOK
    <3>. QED
      BY <1>0, <3>1, <3>2 DEF CachedAreCommitted, PaymentsIn
  <2>. QED
    BY <1>3, <2>1, <2>2 DEF AnswerFromTable, Store
<1>4. UNCHANGED cache => CachedAreCommitted'
  BY <1>1
<1>. QED
  BY <1>2, <1>3, <1>4, CountType, StepCases
  DEF Begin, Commit, Review, DeleteKey, Hit, Miss, Refuse, Read, AnswerFromCache, Expire,
      vars

\* A step that a reader has no part in keeps what is true of it.
LEMMA OthersKeep ==
  ASSUME WalkInv, [Next]_vars, NEW r \in Readers, view' = view,
         step'[r] = step[r], page'[r] = page[r], toRead'[r] = toRead[r],
         data'[r] = data[r], unseen'[r] = unseen[r], hidden'[r] = hidden[r],
         torn[r] => torn'[r],
         Committed' # Committed /\ HalfRead(r) => torn'[r]
  PROVE  ReaderInv(r)'
<1>0. /\ TypeOK /\ CreatedWhenCommitted /\ ReaderInv(r) /\ Committed \subseteq Committed'
      /\ page[r] \in Nat /\ (page[r] - 1) * Limit \in Int
  <2>1. page[r] \in Nat /\ page[r] - 1 \in Int
    BY CountType DEF WalkInv, CacheInv, TypeOK, Pages
  <2>. QED
    BY <2>1, CommittedGrow DEF WalkInv, CacheInv
<1>. DEFINE O == Owed(r)
<1>o. Owed(r)' = O
  BY DEF Owed
<1>1. KnowsCommitted(r)'
  BY <1>0 DEF ReaderInv, KnowsCommitted, PaymentsIn
<1>2. OwedBeyond(r)'
  <2>. SUFFICES ASSUME step[r] # "done", NEW p \in O
                PROVE  p \in Committed' /\ Place(p, Committed)' > (page[r] - 1) * Limit
    BY <1>o DEF OwedBeyond
  <2>1. p \in Committed /\ Place(p, Committed) > (page[r] - 1) * Limit
    BY <1>0 DEF ReaderInv, OwedBeyond
  <2>2. p \in Committed' /\ Place(p, Committed)' >= Place(p, Committed)
    BY <1>0, <2>1, PlacesGrow
  <2>3. Place(p, Committed) \in Nat /\ Place(p, Committed)' \in Nat
    BY <1>0, <2>2, PlaceType, StepTypes, Finite DEF Committed, Place
  <2>. QED
    BY <1>0, <2>1, <2>2, <2>3
<1>3. OwedInRows(r)'
  <2>. DEFINE S == PaymentsIn(data[r]["rows"])
  <2>. SUFFICES ASSUME HasRows(r), view \in Lists, NEW p \in O
                PROVE  p \in S' /\ Place(p, S)' > (page[r] - 1) * Limit
    BY <1>o DEF OwedInRows, HasRows
  <2>1. p \in S /\ Place(p, S) > (page[r] - 1) * Limit /\ S \subseteq Committed
    BY <1>0 DEF ReaderInv, OwedInRows, KnowsCommitted, AllParts
  <2>2. S' = S
    BY DEF PaymentsIn
  <2>3. Place(p, S)' = Cardinality({q \in S : created'[q] >= created'[p]})
    BY <2>2 DEF Place
  <2>4. Place(p, S)' = Place(p, S)
    <3>. HIDE DEF S
    <3>. QED
      BY <1>0, <2>1, <2>3, PlacesStay
  <2>. QED
    BY <2>1, <2>2, <2>4
<1>4. CountMatches(r)'
  <2>. DEFINE Count == PaymentsIn(data[r]["count"])
              S == PaymentsIn(data[r]["rows"])
  <2>. SUFFICES ASSUME view = "payments", ~torn'[r]
                PROVE  /\ step[r] = "hit" => Count = S
                       /\ step[r] = "read" /\ "count" \notin toRead[r] =>
                             Count = IF "rows" \in toRead[r] THEN Committed' ELSE S
    BY DEF CountMatches, PaymentsIn
  <2>1. /\ step[r] = "hit" => Count = S
        /\ step[r] = "read" /\ "count" \notin toRead[r] =>
              Count = IF "rows" \in toRead[r] THEN Committed ELSE S
    BY <1>0 DEF ReaderInv, CountMatches
  <2>2. "rows" \in toRead[r] /\ "count" \notin toRead[r] => Committed' = Committed
    <3>1. toRead[r] \subseteq {"count", "rows"}
      BY <1>0 DEF TypeOK, Parts
    <3>. QED
      BY <3>1 DEF HalfRead
  <2>. QED
    BY <2>1, <2>2
<1>. QED
  BY <1>0, <1>1, <1>2, <1>3, <1>4, <1>o
  DEF ReaderInv, ListsHavePages, CountsFirst, ShownAll

\* What an entry lacks it may lack, so that what a hit leaves to be shown is in it.
LEMMA HitKeeps ==
  ASSUME WalkInv, NEW r \in Readers, Hit(r), view \in Lists
  PROVE  \A p \in Owed(r)' :
            /\ p \in PaymentsIn(cache[page[r]]["rows"])
            /\ Place(p, PaymentsIn(cache[page[r]]["rows"])) > (page[r] - 1) * Limit
<1>. DEFINE n == page[r]
            S == PaymentsIn(cache[n]["rows"])
<1>1. TypeOK /\ n \in Pages /\ cache[n] # None /\ S \subseteq Committed /\ S \in SUBSET Payments
  BY DEF WalkInv, CacheInv, TypeOK, Hit, CachedAreCommitted, AllParts, Committed
<1>2. Lacked(n) \cap MayLack(n) = Lacked(n)
  <2>1. "rows" \in Parts(view)
    BY DEF Parts, Lists
  <2>2. \A p \in deleted : p \in S \cup excuse[n]
    BY <1>1, <2>1 DEF WalkInv, CacheInv, StaleIsRaced
  <2>. QED
    BY <2>2 DEF Lacked, MayLack
<1>3. Owed(r)' = Begun(r) \ (hidden[r] \cup Keeps(n, r))
  BY <1>1 DEF Hit, Owed, TypeOK
<1>4. CASE n = 1
  <2>1. Owed(r)' \subseteq S
    BY <1>2, <1>3, <1>4 DEF Begun, Keeps, Lacked
  <2>2. \A p \in S : created[p] \in Nat
    BY <1>1 DEF TypeOK
  <2>3. \A p \in S : Place(p, S) >= 1 /\ Place(p, S) \in Nat
    BY <1>1, <2>2, PlaceIsPositive, PlaceType
  <2>4. (n - 1) * Limit = 0
    BY <1>4
  <2>. QED
    BY <2>1, <2>3, <2>4
<1>5. CASE n # 1 /\ Lacked(n) # {}
  <2>1. Keeps(n, r) = unseen[r] /\ Begun(r) = unseen[r]
    BY <1>2, <1>5 DEF Keeps, Begun
  <2>. QED
    BY <1>3, <2>1
<1>6. CASE n # 1 /\ Lacked(n) = {}
  <2>1. S = Committed
    BY <1>1, <1>6 DEF Lacked
  <2>2. Owed(r)' \subseteq Owed(r)
    BY <1>3, <1>6 DEF Begun, Owed
  <2>3. \A p \in Owed(r) : p \in Committed /\ Place(p, Committed) > (n - 1) * Limit
    BY DEF WalkInv, ReaderInv, OwedBeyond, Hit
  <2>. QED
    BY <2>1, <2>2, <2>3
<1>. QED
  BY <1>4, <1>5, <1>6

\* What a reader does keeps what is true of it.
LEMMA OwnStepKeeps ==
  ASSUME WalkInv, [Next]_vars, NEW r \in Readers, Reader(r)
  PROVE  ReaderInv(r)'
<1>. USE DEF tableVars, readerVars
<1>0. /\ TypeOK /\ CachedAreCommitted /\ ReaderInv(r)
      /\ page[r] \in Pages /\ 1 \in Pages
  BY CountType DEF WalkInv, CacheInv, TypeOK
<1>1. CASE Hit(r)
  <2>1. UNCHANGED <<view, page, toRead, status, created>> /\ Committed' = Committed
    BY <1>1 DEF Hit, Committed
  <2>2. /\ data'[r] = cache[page[r]] /\ cache[page[r]] # None /\ step'[r] = "hit"
        /\ torn'[r] = (PaymentsIn(cache[page[r]][Counted])
                          # PaymentsIn(cache[page[r]]["rows"]))
    BY <1>0, <1>1, <2>1 DEF Hit, To, TypeOK
  <2>3. KnowsCommitted(r)'
    BY <1>0, <2>1, <2>2 DEF KnowsCommitted, CachedAreCommitted, PaymentsIn
  <2>4. OwedInRows(r)'
    BY <1>1, <2>1, <2>2, HitKeeps DEF OwedInRows, HasRows, PaymentsIn, Place
  <2>5. OwedBeyond(r)'
    <3>1. CASE view \in Lists
      <4>1. PaymentsIn(cache[page[r]]["rows"]) \subseteq Committed
        BY <1>0, <2>2 DEF CachedAreCommitted, AllParts
      <4>2. (page[r] - 1) * Limit \in Int
        BY <1>0, CountType DEF Pages
      <4>3. ASSUME NEW p \in Owed(r)'
            PROVE  p \in Committed /\ Place(p, Committed) > (page[r] - 1) * Limit
        <5>1. /\ p \in PaymentsIn(cache[page[r]]["rows"])
              /\ Place(p, PaymentsIn(cache[page[r]]["rows"])) > (page[r] - 1) * Limit
          BY <1>1, <3>1, <4>3, HitKeeps
        <5>2. Committed \in SUBSET Payments
          BY DEF Committed
        <5>3. /\ Place(p, PaymentsIn(cache[page[r]]["rows"])) <= Place(p, Committed)
              /\ Place(p, PaymentsIn(cache[page[r]]["rows"])) \in Nat
              /\ Place(p, Committed) \in Nat
          BY <4>1, <5>2, PlaceGrows, PlaceType
        <5>. QED
          BY <4>1, <4>2, <5>1, <5>3
      <4>. QED
        BY <2>1, <4>3 DEF OwedBeyond, Place
    <3>2. CASE view \notin Lists
      <4>1. Owed(r)' \subseteq Owed(r) /\ step[r] # "done"
        BY <1>0, <1>1, <3>2 DEF Hit, Owed, Begun, TypeOK
      <4>. QED
        BY <1>0, <2>1, <4>1 DEF ReaderInv, OwedBeyond, Place
    <3>. QED
      BY <3>1, <3>2
  <2>6. CountMatches(r)'
    BY <2>1, <2>2 DEF CountMatches, Counted, PaymentsIn
  <2>. QED
    BY <1>0, <2>1, <2>2, <2>3, <2>4, <2>5, <2>6
    DEF ReaderInv, ListsHavePages, CountsFirst, ShownAll
<1>2. CASE Miss(r)
  <2>1. /\ UNCHANGED <<view, page, data, hidden, status, created>>
        /\ step[r] = "idle" /\ step'[r] = "read" /\ toRead'[r] = Parts(view)
        /\ unseen'[r] = Begun(r) /\ Committed' = Committed
    BY <1>0, <1>2 DEF Miss, To, TypeOK, Committed
  <2>2. OwedBeyond(r)'
    <3>1. CASE view \in Lists /\ page[r] = 1
      <4>1. Owed(r)' \subseteq Committed /\ Committed \in SUBSET Payments
        BY <2>1, <3>1 DEF Owed, Begun, Committed
      <4>2. \A p \in Committed : Place(p, Committed) >= 1 /\ Place(p, Committed) \in Nat
        BY <1>0, <4>1, PlaceIsPositive, PlaceType DEF TypeOK
      <4>3. (page[r] - 1) * Limit = 0
        BY <3>1
      <4>. QED
        BY <2>1, <4>1, <4>2, <4>3 DEF OwedBeyond, Place
    <3>2. CASE ~(view \in Lists /\ page[r] = 1)
      <4>1. Owed(r)' = Owed(r)
        BY <2>1, <3>2 DEF Owed, Begun
      <4>. QED
        BY <1>0, <2>1, <4>1 DEF ReaderInv, OwedBeyond, Place
    <3>. QED
      BY <3>1, <3>2
  <2>3. KnowsCommitted(r)'
    BY <1>0, <2>1 DEF ReaderInv, KnowsCommitted, PaymentsIn
  <2>4. OwedInRows(r)' /\ CountMatches(r)'
    BY <2>1 DEF OwedInRows, HasRows, CountMatches, Lists, Parts
  <2>. QED
    BY <1>0, <2>1, <2>2, <2>3, <2>4
    DEF ReaderInv, ListsHavePages, CountsFirst, ShownAll, Parts
<1>3. CASE Refuse(r)
  <2>1. /\ UNCHANGED <<view, page, toRead>> /\ Committed' = Committed
        /\ data'[r] = NoData /\ step'[r] = "done" /\ Owed(r)' = {}
    BY <1>0, <1>3 DEF Refuse, Leave, To, TypeOK, Committed, Owed
  <2>. QED
    BY <1>0, <2>1, NothingInNoData
    DEF ReaderInv, KnowsCommitted, ListsHavePages, CountsFirst, OwedBeyond,
        HasRows, OwedInRows, CountMatches, ShownAll, PaymentsIn
<1>4. ASSUME NEW part \in toRead[r], Read(r, part)  PROVE ReaderInv(r)'
  <2>1. /\ UNCHANGED <<view, page, unseen, hidden, torn, status, created>>
        /\ step[r] = "read" /\ step'[r] = "read"
        /\ part = "rows" => "count" \notin toRead[r]
        /\ toRead'[r] = toRead[r] \ {part}
        /\ data'[r] = [data[r] EXCEPT ![part] = Found(part)]
    BY <1>0, <1>4 DEF Read, TypeOK
  <2>2. /\ part \in AllParts
        /\ \A k \in AllParts : data'[r][k] = IF k = part THEN Found(part) ELSE data[r][k]
    BY <1>0, <2>1 DEF TypeOK, Parts, AllParts, Entries
  <2>3. Committed' = Committed
    BY <2>1 DEF Committed
  <2>4. \A k \in AllParts : PaymentsIn(data[r][k])' =
            IF k = part THEN Committed ELSE PaymentsIn(data[r][k])
    BY <2>2, FoundAreTheCommitted DEF PaymentsIn
  <2>5. KnowsCommitted(r)'
    BY <1>0, <2>3, <2>4 DEF ReaderInv, KnowsCommitted
  <2>6. OwedBeyond(r)'
    BY <1>0, <2>1 DEF ReaderInv, OwedBeyond, Owed, Committed, Place
  <2>7. OwedInRows(r)'
    <3>1. CASE part = "rows"
      <4>1. PaymentsIn(data[r]["rows"])' = Committed'
        BY <2>3, <2>4, <3>1 DEF AllParts
      <4>. QED
        BY <2>1, <2>6, <4>1 DEF OwedInRows, OwedBeyond, Place
    <3>2. CASE part # "rows"
      <4>1. PaymentsIn(data[r]["rows"])' = PaymentsIn(data[r]["rows"])
        BY <2>4, <3>2 DEF AllParts
      <4>2. HasRows(r)' = HasRows(r) /\ Owed(r)' = Owed(r)
        BY <2>1, <3>2 DEF HasRows, Owed
      <4>. QED
        BY <1>0, <2>1, <4>1, <4>2 DEF ReaderInv, OwedInRows, Place
    <3>. QED
      BY <3>1, <3>2
  <2>8. CountMatches(r)'
    BY <1>0, <2>1, <2>3, <2>4 DEF ReaderInv, CountMatches, CountsFirst, AllParts, Parts, TypeOK
  <2>. QED
    BY <1>0, <2>1, <2>5, <2>6, <2>7, <2>8
    DEF ReaderInv, ListsHavePages, CountsFirst, ShownAll
<1>5. ASSUME AnswerFromCache(r) \/ AnswerFromTable(r)  PROVE ReaderInv(r)'
  <2>1. /\ UNCHANGED <<tableVars, toRead, torn>> /\ Show(r)
        /\ \/ step[r] = "hit"
           \/ step[r] = "read" /\ toRead[r] = {}
    BY <1>5 DEF AnswerFromCache, AnswerFromTable
  <2>2. /\ step'[r] \in {"idle", "done"}
        /\ step'[r] # "done" =>
              \A p \in Owed(r)' :
                  p \in Committed /\ Place(p, Committed) > (page'[r] - 1) * Limit
        /\ step'[r] = "done" /\ view \in Lists => Owed(r)' = {} \/ torn[r]
    BY <2>1, ShowKeeps
  <2>3. data'[r] = NoData /\ (page'[r] = page[r] \/ view \in Lists)
    BY <1>0, <2>1 DEF Show, Leave, TypeOK
  <2>4. Committed' = Committed /\ \A p : Place(p, Committed)' = Place(p, Committed)
    BY <2>1 DEF Committed, Place
  <2>5. OwedBeyond(r)'
    BY <2>1, <2>2, <2>4 DEF OwedBeyond
  <2>6. KnowsCommitted(r)'
    BY <2>3, <2>4, NothingInNoData DEF KnowsCommitted, PaymentsIn
  <2>. QED
    BY <1>0, <2>1, <2>2, <2>3, <2>5, <2>6
    DEF ReaderInv, ListsHavePages, CountsFirst, HasRows, OwedInRows, CountMatches, ShownAll
<1>. QED
  BY <1>1, <1>2, <1>3, <1>4, <1>5 DEF Reader

LEMMA StepWalk == WalkInv /\ [Next]_vars => WalkInv'
<1>. SUFFICES ASSUME WalkInv, [Next]_vars, NEW r \in Readers
              PROVE  ReaderInv(r)'
  BY StepCache, TimesExist, CacheKnown DEF WalkInv
<1>. USE DEF tableVars, readerVars
<1>0. TypeOK
  BY DEF WalkInv, CacheInv
<1>1. ASSUME NEW q \in Readers, Reader(q), q # r  PROVE ReaderInv(r)'
  <2>1. /\ step'[r] = step[r] /\ page'[r] = page[r] /\ toRead'[r] = toRead[r]
        /\ data'[r] = data[r] /\ unseen'[r] = unseen[r] /\ hidden'[r] = hidden[r]
        /\ torn'[r] = torn[r] /\ UNCHANGED tableVars
    BY <1>0, <1>1
    DEF Reader, Hit, Miss, Refuse, Read, AnswerFromCache, AnswerFromTable, Show, Leave, To,
        TypeOK
  <2>. QED
    BY <2>1, OthersKeep DEF Committed
<1>2. ASSUME UNCHANGED <<view, status, readerVars>>  PROVE ReaderInv(r)'
  BY <1>2, OthersKeep DEF Committed
<1>3. ASSUME NEW p \in Payments, Commit(p)  PROVE ReaderInv(r)'
  BY <1>0, <1>3, OthersKeep DEF Commit, TypeOK
<1>4. ASSUME NEW p \in Flagged, Review(p)  PROVE ReaderInv(r)'
  <2>1. Committed' = Committed
    BY <1>0, <1>4 DEF Review, Judged, Committed, TypeOK
  <2>. QED
    BY <1>4, <2>1, OthersKeep DEF Review
<1>. QED
  BY <1>1, <1>2, <1>3, <1>4, OwnStepKeeps
  DEF Next, Begin, DeleteKey, Expire, vars

LEMMA WalkInvariance == Spec => []WalkInv
BY InitWalk, StepWalk, PTL DEF Spec

\* A reader that has gone through the pages has been shown all that was there when
\* it asked for the first, except what WalkShowsAll says old entries and the count
\* may keep from it; for any page length and however many payments were made
\* meanwhile.
THEOREM WalksAreComplete == Spec => []WalkShowsAll
<1>1. WalkInv => WalkShowsAll
  BY DEF WalkInv, ReaderInv, ShownAll, Owed, WalkShowsAll
<1>. QED
  BY <1>1, WalkInvariance, PTL

=============================================================================
