--------------------------- MODULE ScreeningProofs ---------------------------
(***************************************************************************)
(* Theorems about Screening: the rate limiter, for any window, limit and   *)
(* number of requests, whatever Redis does; the velocity rule, for any     *)
(* number of checks; and what the score of the six rules can come to.      *)
(***************************************************************************)
EXTENDS Screening, FiniteSums, SequenceTheorems

-----------------------------------------------------------------------------
(* Sequences without repetitions                                           *)

\* Where an element is, that is in the sequence.
LEMMA PlaceOf ==
  ASSUME NEW s \in Seq(Nat), NEW e, \E i \in 1 .. Len(s) : s[i] = e
  PROVE  \E k \in 1 .. Len(s) : s[k] = e /\ RemoveFirst(s, e) = RemoveAt(s, k)
<1>. DEFINE I == {i \in 1 .. Len(s) : s[i] = e}
<1>1. I \in SUBSET Nat /\ I # {} /\ I \subseteq 1 .. Len(s)
  OBVIOUS
<1>2. PICK k \in I : \A m \in I : k <= m
  <2>. HIDE DEF I
  <2>. QED
    BY <1>1, LeastNumber
<1>3. Min(I) \in I
  BY <1>2 DEF Min
<1>4. RemoveFirst(s, e) = RemoveAt(s, Min(I))
  BY <1>1 DEF RemoveFirst, SelectInSeq
<1>. QED
  BY <1>3, <1>4

\* No amount is in the sequence twice.
Distinct(s) == \A i, j \in 1 .. Len(s) : s[i] = s[j] => i = j

LEMMA DistinctIsInjective ==
  ASSUME NEW s \in Seq(Nat)
  PROVE  IsInjective(s) <=> Distinct(s)
BY DEF IsInjective, Distinct

LEMMA Joined ==
  ASSUME NEW a \in Seq(Nat), NEW b \in Seq(Nat)
  PROVE  /\ a \o b \in Seq(Nat) /\ Len(a \o b) = Len(a) + Len(b)
         /\ \A i \in 1 .. Len(a) : (a \o b)[i] = a[i]
         /\ \A i \in 1 .. Len(b) : (a \o b)[Len(a) + i] = b[i]
<1>1. /\ a \o b \in Seq(Nat) /\ Len(a \o b) = Len(a) + Len(b)
      /\ \A i \in 1 .. Len(a) + Len(b) :
            (a \o b)[i] = IF i <= Len(a) THEN a[i] ELSE b[i - Len(a)]
  BY ConcatProperties
<1>2. ASSUME NEW i \in 1 .. Len(a)
      PROVE  (a \o b)[i] = a[i]
  BY <1>1
<1>3. ASSUME NEW i \in 1 .. Len(b)
      PROVE  (a \o b)[Len(a) + i] = b[i]
  <2>1. /\ Len(a) + i \in 1 .. Len(a) + Len(b) /\ ~(Len(a) + i <= Len(a))
        /\ (Len(a) + i) - Len(a) = i
    OBVIOUS
  <2>2. (a \o b)[Len(a) + i] = b[(Len(a) + i) - Len(a)]
    BY <1>1, <2>1
  <2>. QED
    BY <2>1, <2>2
<1>. QED
  BY <1>1, <1>2, <1>3

LEMMA StartOf ==
  ASSUME NEW s \in Seq(Nat), NEW k \in Nat, k <= Len(s)
  PROVE  /\ SubSeq(s, 1, k) \in Seq(Nat) /\ Len(SubSeq(s, 1, k)) = k
         /\ \A i \in 1 .. k : SubSeq(s, 1, k)[i] = s[i]
OBVIOUS

LEMMA EndOf ==
  ASSUME NEW s \in Seq(Nat), NEW d \in Nat, d <= Len(s)
  PROVE  /\ SubSeq(s, d + 1, Len(s)) \in Seq(Nat)
         /\ Len(SubSeq(s, d + 1, Len(s))) = Len(s) - d
         /\ \A i \in 1 .. Len(s) - d : SubSeq(s, d + 1, Len(s))[i] = s[d + i]
OBVIOUS

\* One element taken out: the others are there, in order.
LEMMA TakenOut ==
  ASSUME NEW s \in Seq(Nat), NEW k \in 1 .. Len(s)
  PROVE  /\ RemoveAt(s, k) \in Seq(Nat)
         /\ Len(RemoveAt(s, k)) = Len(s) - 1
         /\ \A i \in 1 .. Len(s) - 1 : RemoveAt(s, k)[i] = IF i < k THEN s[i] ELSE s[i + 1]
<1>1. /\ Len(s) \in Nat /\ k \in Nat /\ 1 <= k /\ k <= Len(s) /\ k - 1 \in Nat /\ k - 1 <= Len(s)
  OBVIOUS
<1>. DEFINE a == SubSeq(s, 1, k - 1)
            b == SubSeq(s, k + 1, Len(s))
<1>2. a \in Seq(Nat) /\ Len(a) = k - 1 /\ \A i \in 1 .. k - 1 : a[i] = s[i]
  BY <1>1, StartOf, Zenon
<1>3. b \in Seq(Nat) /\ Len(b) = Len(s) - k /\ \A i \in 1 .. Len(s) - k : b[i] = s[k + i]
  BY <1>1, EndOf, Zenon
<1>4. RemoveAt(s, k) = a \o b
  BY DEF RemoveAt
<1>. HIDE DEF a, b
<1>5. /\ a \o b \in Seq(Nat) /\ Len(a \o b) = Len(a) + Len(b)
      /\ \A i \in 1 .. Len(a) : (a \o b)[i] = a[i]
      /\ \A i \in 1 .. Len(b) : (a \o b)[Len(a) + i] = b[i]
  BY <1>2, <1>3, Joined, Zenon
<1>6. Len(a) + Len(b) = Len(s) - 1
  BY <1>1, <1>2, <1>3
<1>7. ASSUME NEW i \in 1 .. Len(s) - 1
      PROVE  (a \o b)[i] = IF i < k THEN s[i] ELSE s[i + 1]
  <2>1. CASE i < k
    <3>1. i \in 1 .. k - 1 /\ i \in 1 .. Len(a)
      BY <1>1, <1>2, <2>1
    <3>2. (a \o b)[i] = a[i] /\ a[i] = s[i]
      BY <1>2, <1>5, <3>1, Zenon
    <3>. QED
      BY <2>1, <3>2
  <2>2. CASE ~(i < k)
    <3>. DEFINE m == i - (k - 1)
    <3>1. m \in 1 .. Len(s) - k /\ m \in 1 .. Len(b)
      BY <1>1, <1>3, <2>2
    <3>2. Len(a) + m = i /\ k + m = i + 1
      BY <1>1, <1>2
    <3>. HIDE DEF m
    <3>3. (a \o b)[Len(a) + m] = b[m] /\ b[m] = s[k + m]
      BY <1>3, <1>5, <3>1, Zenon
    <3>. QED
      BY <2>2, <3>2, <3>3
  <2>. QED
    BY <2>1, <2>2
<1>. QED
  BY <1>4, <1>5, <1>6, <1>7, Zenon

\* Places after the one that is left out move up by one.
LEMMA Places ==
  ASSUME NEW i \in Int, NEW j \in Int, NEW k \in Int,
         (IF i < k THEN i ELSE i + 1) = (IF j < k THEN j ELSE j + 1)
  PROVE  i = j
OBVIOUS

LEMMA Rest ==
  ASSUME NEW n \in Nat, NEW k \in Nat, n > k
  PROVE  \E d \in Nat : d = n - k /\ d <= n /\ n - d = k /\ d + k = n
<1>1. /\ n - k \in Nat /\ n - k <= n /\ n - (n - k) = k /\ (n - k) + k = n
  OBVIOUS
<1>. QED
  BY <1>1, Zenon

LEMMA StaysDistinct ==
  ASSUME NEW s \in Seq(Nat), NEW k \in 1 .. Len(s), Distinct(s),
         NEW r \in Seq(Nat), Len(r) = Len(s) - 1,
         \A i \in 1 .. Len(s) - 1 : r[i] = IF i < k THEN s[i] ELSE s[i + 1]
  PROVE  /\ Distinct(r)
         /\ \A i \in 1 .. Len(r) : r[i] # s[k]
         /\ \A i \in 1 .. Len(s) : s[i] = s[k] \/ \E j \in 1 .. Len(r) : r[j] = s[i]
<1>1. Len(s) \in Nat /\ k \in Nat /\ 1 <= k /\ k <= Len(s) /\ 1 .. Len(r) = 1 .. Len(s) - 1
  OBVIOUS
<1>2. ASSUME NEW i \in 1 .. Len(r)
      PROVE  \E p \in 1 .. Len(s) : p = (IF i < k THEN i ELSE i + 1) /\ r[i] = s[p]
  <2>1. (IF i < k THEN i ELSE i + 1) \in 1 .. Len(s) /\ i \in 1 .. Len(s) - 1
    <3>1. i \in 1 .. Len(s) - 1
      BY <1>1, Zenon
    <3>2. \A l, m, q \in Nat : q \in 1 .. l - 1 /\ m <= l
             => (IF q < m THEN q ELSE q + 1) \in 1 .. l
      OBVIOUS
    <3>3. i \in Nat
      BY <3>1, <1>1
    <3>. QED
      BY <1>1, <3>1, <3>2, <3>3, Zenon
  <2>2. r[i] = IF i < k THEN s[i] ELSE s[i + 1]
    BY <2>1, Zenon
  <2>. QED
    BY <2>1, <2>2, Zenon
<1>3. Distinct(r)
  <2>. SUFFICES ASSUME NEW i \in 1 .. Len(r), NEW j \in 1 .. Len(r), r[i] = r[j]
                PROVE  i = j
    BY DEF Distinct
  <2>1. PICK p \in 1 .. Len(s) : p = (IF i < k THEN i ELSE i + 1) /\ r[i] = s[p]
    BY <1>2, Zenon
  <2>2. PICK q \in 1 .. Len(s) : q = (IF j < k THEN j ELSE j + 1) /\ r[j] = s[q]
    BY <1>2, Zenon
  <2>3. p = q
    BY <2>1, <2>2, Zenon DEF Distinct
  <2>4. p = (IF i < k THEN i ELSE i + 1) /\ q = (IF j < k THEN j ELSE j + 1)
    BY <2>1, <2>2, Zenon
  <2>5. i \in Int /\ j \in Int /\ k \in Int
    OBVIOUS
  <2>. QED
    BY <2>3, <2>4, <2>5, Places, Zenon
<1>4. ASSUME NEW i \in 1 .. Len(r), r[i] = s[k]
      PROVE  FALSE
  <2>1. PICK p \in 1 .. Len(s) : p = (IF i < k THEN i ELSE i + 1) /\ r[i] = s[p]
    BY <1>2, Zenon
  <2>2. p = k
    BY <1>4, <2>1, Zenon DEF Distinct
  <2>3. p = IF i < k THEN i ELSE i + 1
    BY <2>1, Zenon
  <2>. QED
    BY <1>1, <2>2, <2>3
<1>5. ASSUME NEW i \in 1 .. Len(s), i # k
      PROVE  \E j \in 1 .. Len(r) : r[j] = s[i]
  <2>. DEFINE j == IF i < k THEN i ELSE i - 1
  <2>1. j \in 1 .. Len(r) /\ j \in 1 .. Len(s) - 1 /\ i = (IF j < k THEN j ELSE j + 1)
    BY <1>1, <1>5
  <2>. HIDE DEF j
  <2>2. r[j] = IF j < k THEN s[j] ELSE s[j + 1]
    BY <2>1, Zenon
  <2>3. r[j] = s[i]
    BY <2>1, <2>2, Zenon
  <2>. QED
    BY <2>1, <2>3, Zenon
<1>. QED
  BY <1>3, <1>4, <1>5, Zenon

\* The amounts on record: none of them is there twice.
IsRecord(s) == s \in Seq(Nat) /\ Distinct(s)

\* An amount taken out of a sequence without repetitions is gone from it.
LEMMA FirstRemoved ==
  ASSUME NEW s \in Seq(Nat), Distinct(s), NEW e
  PROVE  /\ RemoveFirst(s, e) \in Seq(Nat) /\ Distinct(RemoveFirst(s, e))
         /\ Len(RemoveFirst(s, e)) \in {Len(s), Len(s) - 1}
         /\ \A i \in 1 .. Len(RemoveFirst(s, e)) : RemoveFirst(s, e)[i] # e
         /\ \A i \in 1 .. Len(s) :
               s[i] = e \/ \E j \in 1 .. Len(RemoveFirst(s, e)) : RemoveFirst(s, e)[j] = s[i]
<1>1. CASE \E i \in 1 .. Len(s) : s[i] = e
  <2>1. PICK k \in 1 .. Len(s) : s[k] = e /\ RemoveFirst(s, e) = RemoveAt(s, k)
    BY <1>1, PlaceOf, Zenon
  <2>. DEFINE r == RemoveAt(s, k)
  <2>2. /\ r \in Seq(Nat) /\ Len(r) = Len(s) - 1
        /\ \A i \in 1 .. Len(s) - 1 : r[i] = IF i < k THEN s[i] ELSE s[i + 1]
    BY TakenOut, Zenon
  <2>. HIDE DEF r
  <2>3. /\ Distinct(r)
        /\ \A i \in 1 .. Len(r) : r[i] # s[k]
        /\ \A i \in 1 .. Len(s) : s[i] = s[k] \/ \E j \in 1 .. Len(r) : r[j] = s[i]
    BY <2>2, StaysDistinct, Zenon
  <2>4. RemoveFirst(s, e) = r /\ s[k] = e
    BY <2>1, Zenon DEF r
  <2>. QED
    BY <2>2, <2>3, <2>4, Zenon
<1>2. CASE ~\E i \in 1 .. Len(s) : s[i] = e
  <2>1. RemoveFirst(s, e) = s
    BY <1>2, Zenon DEF RemoveFirst
  <2>. QED
    BY <1>2, <2>1, Zenon
<1>. QED
  BY <1>1, <1>2

\* What is kept of a sequence when there is too much of it: its end.
LEMMA Trimmed ==
  ASSUME NEW s, IsRecord(s)
  PROVE  /\ IsRecord(LastFew(s))
         /\ Len(LastFew(s)) = IF Len(s) > KeptAmounts THEN KeptAmounts ELSE Len(s)
         /\ Len(s) > KeptAmounts \/ LastFew(s) = s
<1>0. s \in Seq(Nat) /\ Distinct(s)
  BY Zenon DEF IsRecord
<1>1. CASE Len(s) > KeptAmounts
  <2>1. PICK d \in Nat : /\ d = Len(s) - KeptAmounts /\ d <= Len(s)
                         /\ Len(s) - d = KeptAmounts /\ d + KeptAmounts = Len(s)
    <3>1. Len(s) \in Nat
      BY <1>0
    <3>. QED
      BY <1>1, <3>1, KeptIsNumber, Rest, Zenon
  <2>. DEFINE f == SubSeq(s, d + 1, Len(s))
  <2>2. /\ f \in Seq(Nat) /\ Len(f) = Len(s) - d
        /\ \A i \in 1 .. Len(s) - d : f[i] = s[d + i]
    BY <1>0, <2>1, EndOf, Zenon
  <2>3. LastFew(s) = f
    BY <1>1, <2>1 DEF LastFew
  <2>. HIDE DEF f
  <2>4. Len(f) = KeptAmounts /\ \A i \in 1 .. KeptAmounts : f[i] = s[d + i]
    BY <2>1, <2>2, Zenon
  <2>5. Distinct(f)
    <3>. SUFFICES ASSUME NEW i \in 1 .. KeptAmounts, NEW j \in 1 .. KeptAmounts, f[i] = f[j]
                  PROVE  i = j
      BY <2>4, Zenon DEF Distinct
    <3>1. d + i \in 1 .. Len(s) /\ d + j \in 1 .. Len(s)
      BY <2>1, KeptIsNumber
    <3>2. s[d + i] = s[d + j]
      BY <2>4, Zenon
    <3>3. d + i = d + j
      BY <1>0, <3>1, <3>2, Zenon DEF Distinct
    <3>. QED
      BY <2>1, <3>3
  <2>. QED
    BY <1>1, <2>2, <2>3, <2>4, <2>5, Zenon DEF IsRecord
<1>2. CASE ~(Len(s) > KeptAmounts)
  BY <1>0, <1>2, Zenon DEF LastFew, IsRecord
<1>. QED
  BY <1>1, <1>2

\* The record of a sender after one more amount: longer by one at most, and with the
\* amount in it.
IsOn(s, x) == \E i \in 1 .. Len(s) : s[i] = x

LEMMA Recorded ==
  ASSUME IsRecord(amounts), NEW a \in Nat
  PROVE  /\ IsRecord(WithAmount(a))
         /\ Len(WithAmount(a)) \in {Len(amounts), Len(amounts) + 1}
         /\ IsOn(WithAmount(a), a)
         /\ \A x : IsOn(amounts, x) => IsOn(WithAmount(a), x)
<1>. DEFINE r == RemoveFirst(amounts, a)
            s == r \o <<a>>
<1>0. amounts \in Seq(Nat) /\ Distinct(amounts)
  BY Zenon DEF IsRecord
<1>1. /\ r \in Seq(Nat) /\ Distinct(r)
      /\ Len(r) \in {Len(amounts), Len(amounts) - 1}
      /\ \A i \in 1 .. Len(r) : r[i] # a
      /\ \A i \in 1 .. Len(amounts) : amounts[i] = a \/ \E j \in 1 .. Len(r) : r[j] = amounts[i]
  BY <1>0, FirstRemoved, Zenon
<1>2. WithAmount(a) = s
  BY DEF WithAmount
<1>. HIDE DEF r
<1>3. /\ s \in Seq(Nat) /\ Len(s) = Len(r) + 1 /\ s[Len(r) + 1] = a
      /\ \A i \in 1 .. Len(r) : s[i] = r[i]
  <2>1. r \in Seq(Nat)
    BY <1>1, Zenon
  <2>. QED
    BY <2>1
<1>. HIDE DEF s
<1>4. /\ Len(r) \in Nat /\ Len(s) \in Nat
      /\ Len(s) = Len(r) + 1 /\ Len(s) \in {Len(amounts), Len(amounts) + 1}
  <2>1. r \in Seq(Nat) /\ Len(s) = Len(r) + 1 /\ Len(r) \in {Len(amounts), Len(amounts) - 1}
    BY <1>1, <1>3, Zenon
  <2>. QED
    BY <1>0, <2>1
<1>5. Distinct(s)
  <2>. SUFFICES ASSUME NEW i \in 1 .. Len(s), NEW j \in 1 .. Len(s), s[i] = s[j]
                PROVE  i = j
    BY Zenon DEF Distinct
  <2>1. /\ i \in 1 .. Len(r) \/ i = Len(r) + 1
        /\ j \in 1 .. Len(r) \/ j = Len(r) + 1
    BY <1>4
  <2>. QED
    BY <1>1, <1>3, <2>1, Zenon DEF Distinct
<1>6. 1 .. Len(r) \subseteq 1 .. Len(s) /\ Len(r) + 1 \in 1 .. Len(s)
  BY <1>4
<1>7. ASSUME NEW x, IsOn(amounts, x)
      PROVE  IsOn(s, x)
  BY <1>1, <1>3, <1>6, <1>7, Zenon DEF IsOn
<1>8. IsOn(s, a)
  BY <1>3, <1>6, Zenon DEF IsOn
<1>. QED
  BY <1>2, <1>3, <1>4, <1>5, <1>7, <1>8, Zenon DEF IsRecord

-----------------------------------------------------------------------------
USE ClockIsBounded, WindowIsPositive, RequestsAreFinite, LimitIsNumber, FaultsAreCounted

-----------------------------------------------------------------------------
(* Windows                                                                 *)

LEMMA Division ==
  ASSUME NEW a \in Nat
  PROVE  /\ a \div Window \in Nat
         /\ (a \div Window) * Window <= a
         /\ a < (a \div Window + 1) * Window
OBVIOUS

LEMMA DivisionGrows ==
  ASSUME NEW a \in Nat, NEW b \in Nat, a <= b
  PROVE  a \div Window <= b \div Window
OBVIOUS

\* A window ends before a key could live that is kept for ever.
LEMMA WindowsEnd ==
  ASSUME NEW w \in Windows
  PROVE  Ends(w) \in Nat /\ Ends(w) <= MaxNow + Window
<1>1. w \in Nat /\ w <= MaxNow \div Window
  BY Division DEF Windows
<1>2. (MaxNow \div Window) * Window <= MaxNow
  BY Division
<1>3. w * Window <= (MaxNow \div Window) * Window
  BY <1>1, Division
<1>. QED
  BY <1>1, <1>2, <1>3, Division DEF Ends

LEMMA NeverType == Never \in Nat /\ Never > MaxNow + Window
BY DEF Never

LimiterTypes == now \in 0 .. MaxNow /\ LimiterTypeOK

\* The window of a request, and the time it came at.
LEMMA WindowType ==
  ASSUME LimiterTypes, NEW r \in Requests
  PROVE  /\ WindowOf(r) \in Windows
         /\ now + Window >= Ends(WindowOf(r))
<1>1. arrivedAt[r] \in Nat /\ arrivedAt[r] <= now /\ now <= MaxNow /\ now \in Nat
  BY DEF LimiterTypes, LimiterTypeOK
<1>2. arrivedAt[r] \div Window <= MaxNow \div Window
  BY <1>1, DivisionGrows
<1>3. /\ arrivedAt[r] \div Window \in Nat
      /\ (arrivedAt[r] \div Window) * Window <= arrivedAt[r]
      /\ MaxNow \div Window \in Nat
  BY <1>1, Division
<1>4. (arrivedAt[r] \div Window + 1) * Window = (arrivedAt[r] \div Window) * Window + Window
  BY <1>3
<1>. QED
  BY <1>1, <1>2, <1>3, <1>4 DEF WindowOf, Windows, Ends

-----------------------------------------------------------------------------
(* Types of the limiter                                                    *)

LEMMA StepCases ==
  ASSUME [Next]_vars
  PROVE  \/ Tick
         \/ \E r \in Requests : UNCHANGED now /\ (Arrive(r) \/ LimiterStep(r))
         \/ UNCHANGED <<now, limiterVars>>
BY DEF Next, AtGateway, AtFraudService, vars

LEMMA InitLimiter == Init => LimiterTypes
BY NeverType, Division DEF Init, LimiterInit, LimiterTypes, LimiterTypeOK, Windows

\* A PEXPIRE gives the key until after the end of its window, and not for ever.
LEMMA KeyLives ==
  ASSUME LimiterTypes, NEW r \in Requests, Lives(WindowOf(r))
  PROVE  /\ expiry' \in [Windows -> 0 .. Never]
         /\ \A w \in Windows :
               \/ expiry'[w] = expiry[w] /\ (w = WindowOf(r) => count[w] = 0)
               \/ expiry'[w] # Never /\ expiry'[w] >= Ends(w)
<1>1. WindowOf(r) \in Windows /\ now + Window >= Ends(WindowOf(r))
  BY WindowType
<1>2. now + Window \in 0 .. Never /\ now + Window # Never
  BY NeverType DEF LimiterTypes, Never
<1>3. expiry \in [Windows -> 0 .. Never]
  BY DEF LimiterTypes, LimiterTypeOK
<1>. QED
  BY <1>1, <1>2, <1>3 DEF Lives, Ttl

LEMMA StepLimiter == LimiterTypes /\ [Next]_vars => LimiterTypes'
<1>. SUFFICES ASSUME LimiterTypes, [Next]_vars
              PROVE  LimiterTypes'
  OBVIOUS
<1>. USE DEF LimiterTypes, LimiterTypeOK, To
<1>1. CASE Tick
  BY <1>1, NeverType DEF Tick, LimiterTick
<1>2. ASSUME NEW r \in Requests, Arrive(r), UNCHANGED now  PROVE LimiterTypes'
  BY <1>2 DEF Arrive, Awaits
<1>3. ASSUME NEW r \in Requests, Increment(r), UNCHANGED now  PROVE LimiterTypes'
  BY <1>3, WindowType DEF Increment, Incremented, NotesLate, Awaits, Verdicts
<1>4. ASSUME NEW r \in Requests, SetTtl(r), UNCHANGED now  PROVE LimiterTypes'
  <2>1. expiry' \in [Windows -> 0 .. Never]
    BY <1>4, KeyLives DEF SetTtl
  <2>. QED
    BY <1>4, <2>1 DEF SetTtl, Awaits, Verdicts
<1>5. ASSUME NEW r \in Requests, TurnAway(r), UNCHANGED now  PROVE LimiterTypes'
  BY <1>5 DEF TurnAway, Awaits, Verdicts
<1>6. ASSUME NEW r \in Requests, FailOpen(r), UNCHANGED now  PROVE LimiterTypes'
  <2>1. Lives(WindowOf(r)) => expiry' \in [Windows -> 0 .. Never]
    BY KeyLives
  <2>2. Incremented(WindowOf(r)) => count' \in [Windows -> Nat]
    BY WindowType DEF Incremented
  <2>. QED
    BY <1>6, <2>1, <2>2 DEF FailOpen, NotesLate, Awaits, Verdicts
<1>7. ASSUME NEW r \in Requests, IncrementResent(r), UNCHANGED now  PROVE LimiterTypes'
  BY <1>7, WindowType DEF IncrementResent, Incremented, NotesLate
<1>8. CASE UNCHANGED <<now, limiterVars>>
  BY <1>8 DEF limiterVars
<1>. QED
  BY <1>1, <1>2, <1>3, <1>4, <1>5, <1>6, <1>7, <1>8, StepCases DEF LimiterStep

LEMMA LimiterTypesHold == Spec => []LimiterTypes
BY InitLimiter, StepLimiter, PTL DEF Spec

-----------------------------------------------------------------------------
(* Counters                                                                *)

\* Nothing has happened to a request that has not come.
NothingBefore == \A r \in Requests : limit[r] = "idle" => r \notin failedOpen \cup resent \cup late

LEMMA StepNothing == LimiterTypes /\ NothingBefore /\ [Next]_vars => NothingBefore'
BY StepCases
DEF LimiterTypes, LimiterTypeOK, NothingBefore, LimiterStep, Tick, LimiterTick, Arrive,
    Increment, NotesLate, SetTtl, TurnAway, FailOpen, IncrementResent, To, Awaits,
    limiterVars

\* The request that will set the TTL of w, or that was hindered.
Answers(r, w) ==
    WindowOf(r) = w /\ (limit[r] = "pexpire" \/ r \in failedOpen \cup resent)

LEMMA StepCounters ==
    LimiterTypes /\ NothingBefore /\ CountersWillGo /\ [Next]_vars => CountersWillGo'
<1>. SUFFICES ASSUME LimiterTypes, NothingBefore, CountersWillGo, [Next]_vars,
                     NEW w \in Windows, count'[w] > 0, expiry'[w] = Never
              PROVE  \E r \in Requests : Answers(r, w)'
  BY DEF CountersWillGo, Answers
<1>. USE DEF LimiterTypes, LimiterTypeOK, To
<1>1. CASE Tick
  <2>1. count[w] > 0 /\ expiry[w] = Never
    BY <1>1, NeverType DEF Tick, LimiterTick
  <2>. QED
    BY <1>1, <2>1 DEF Tick, LimiterTick, CountersWillGo, Answers, WindowOf
<1>2. ASSUME NEW q \in Requests, Arrive(q)  PROVE \E r \in Requests : Answers(r, w)'
  <2>1. PICK r \in Requests : Answers(r, w)
    BY <1>2 DEF Arrive, CountersWillGo, Answers
  <2>2. r # q
    BY <1>2, <2>1 DEF Arrive, NothingBefore, Answers
  <2>. QED
    BY <1>2, <2>1, <2>2 DEF Arrive, Answers, WindowOf
<1>3. ASSUME NEW q \in Requests, Increment(q)  PROVE \E r \in Requests : Answers(r, w)'
  <2>0. WindowOf(q)' = WindowOf(q) /\ UNCHANGED <<arrivedAt, expiry, failedOpen, resent>>
    BY <1>3 DEF Increment, WindowOf
  <2>1. CASE WindowOf(q) = w /\ count[w] = 0
    <3>1. limit'[q] = "pexpire"
      BY <1>3, <2>1 DEF Increment, SetsTtl
    <3>. QED
      BY <2>0, <2>1, <3>1 DEF Answers
  <2>2. CASE ~(WindowOf(q) = w /\ count[w] = 0)
    <3>1. count[w] > 0 /\ expiry[w] = Never
      BY <1>3, <2>2, WindowType DEF Increment, Incremented
    <3>2. PICK r \in Requests : Answers(r, w)
      BY <3>1 DEF CountersWillGo, Answers
    <3>. QED
      BY <1>3, <2>0, <3>2 DEF Increment, Answers, WindowOf
  <2>. QED
    BY <2>1, <2>2
<1>4. ASSUME NEW q \in Requests, SetTtl(q)  PROVE \E r \in Requests : Answers(r, w)'
  <2>1. expiry[w] = Never /\ count[w] > 0 /\ WindowOf(q) # w
    BY <1>4, KeyLives DEF SetTtl
  <2>2. PICK r \in Requests : Answers(r, w)
    BY <2>1 DEF CountersWillGo, Answers
  <2>. QED
    BY <1>4, <2>1, <2>2 DEF SetTtl, Answers, WindowOf
<1>5. ASSUME NEW q \in Requests, TurnAway(q)  PROVE \E r \in Requests : Answers(r, w)'
  <2>1. PICK r \in Requests : Answers(r, w)
    BY <1>5 DEF TurnAway, CountersWillGo, Answers
  <2>. QED
    BY <1>5, <2>1 DEF TurnAway, Answers, WindowOf
<1>6. ASSUME NEW q \in Requests, FailOpen(q) \/ IncrementResent(q)
      PROVE  \E r \in Requests : Answers(r, w)'
  <2>1. /\ UNCHANGED arrivedAt /\ q \in failedOpen' \cup resent'
        /\ failedOpen \cup resent \subseteq failedOpen' \cup resent'
        /\ \A r \in Requests : r # q => limit'[r] = limit[r]
    BY <1>6 DEF FailOpen, IncrementResent
  <2>2. CASE WindowOf(q) = w
    BY <2>1, <2>2 DEF Answers, WindowOf
  <2>3. CASE WindowOf(q) # w
    <3>1. count[w] > 0 /\ expiry[w] = Never
      BY <1>6, <2>3, WindowType DEF FailOpen, IncrementResent, Incremented, Lives
    <3>2. PICK r \in Requests : Answers(r, w)
      BY <3>1 DEF CountersWillGo, Answers
    <3>. QED
      BY <2>1, <2>3, <3>2 DEF Answers, WindowOf
  <2>. QED
    BY <2>2, <2>3
<1>7. CASE UNCHANGED <<now, limiterVars>>
  BY <1>7 DEF limiterVars, CountersWillGo, Answers, WindowOf
<1>. QED
  BY <1>1, <1>2, <1>3, <1>4, <1>5, <1>6, <1>7, StepCases DEF LimiterStep

\* No counter is kept for ever, but by a fault of Redis.
THEOREM CountersExpire == Spec => []CountersWillGo
<1>. DEFINE Inv == LimiterTypes /\ NothingBefore /\ CountersWillGo
<1>1. Init => Inv
  BY InitLimiter DEF Init, LimiterInit, NothingBefore, CountersWillGo
<1>2. Inv /\ [Next]_vars => Inv'
  BY StepLimiter, StepNothing, StepCounters
<1>. QED
  BY <1>1, <1>2, PTL DEF Spec

-----------------------------------------------------------------------------
(* The limit                                                               *)

\* Requests that have passed in time, or will.
Counted(w) ==
    {r \in Requests :
        /\ limit[r] = "passed" \/ (limit[r] = "pexpire" /\ ~IsOver(1))
        /\ r \notin failedOpen \cup late
        /\ WindowOf(r) = w}

\* The key outlives its window, so that until then each of them is counted.
LimitInv ==
    \A w \in Windows :
        /\ expiry[w] >= Ends(w)
        /\ now < Ends(w) => Cardinality(Counted(w)) <= count[w]
        /\ Cardinality(Counted(w)) <= MaxRequests

LEMMA CountedIsFinite ==
  ASSUME NEW S \in SUBSET Requests
  PROVE  IsFiniteSet(S) /\ Cardinality(S) \in Nat
BY FS_Subset, FS_CardinalityType

LEMMA InitLimit == Init => LimitInv
<1>. SUFFICES ASSUME Init, NEW w \in Windows
              PROVE  /\ expiry[w] >= Ends(w)
                     /\ Cardinality(Counted(w)) = 0
                     /\ count[w] = 0
  BY LimitIsNumber DEF LimitInv
<1>1. Counted(w) = {}
  BY DEF Init, LimiterInit, Counted
<1>2. expiry[w] = Never /\ count[w] = 0
  BY DEF Init, LimiterInit
<1>3. Never >= Ends(w)
  BY WindowsEnd, NeverType
<1>. QED
  BY <1>1, <1>2, <1>3, FS_EmptySet

\* A step that counts nobody more, loses no count in a window, and no time of a key.
LEMMA NobodyMore ==
  ASSUME LimiterTypes, LimitInv, LimiterTypes', NEW w \in Windows,
         Counted(w)' \subseteq Counted(w), now' >= now,
         expiry'[w] >= Ends(w),
         now' < Ends(w) => count'[w] >= count[w]
  PROVE  /\ expiry'[w] >= Ends(w)
         /\ now' < Ends(w) => Cardinality(Counted(w))' <= count'[w]
         /\ Cardinality(Counted(w))' <= MaxRequests
<1>1. Counted(w) \subseteq Requests /\ Counted(w)' \subseteq Requests
  BY DEF Counted
<1>2. /\ Cardinality(Counted(w)') <= Cardinality(Counted(w))
      /\ Cardinality(Counted(w)') \in Nat /\ Cardinality(Counted(w)) \in Nat
  BY <1>1, CountedIsFinite, FS_Subset
<1>3. Cardinality(Counted(w))' = Cardinality(Counted(w)')
  OBVIOUS
<1>4. /\ now < Ends(w) => Cardinality(Counted(w)) <= count[w]
      /\ Cardinality(Counted(w)) <= MaxRequests
  BY DEF LimitInv
<1>5. now \in Nat /\ now' \in Nat /\ Ends(w) \in Nat /\ count[w] \in Nat /\ count'[w] \in Nat
  BY WindowsEnd DEF LimiterTypes, LimiterTypeOK
<1>. QED
  BY <1>2, <1>3, <1>4, <1>5

LEMMA StepLimit == LimiterTypes /\ NothingBefore /\ LimitInv /\ [Next]_vars => LimitInv'
<1>. SUFFICES ASSUME LimiterTypes, NothingBefore, LimitInv, [Next]_vars, NEW w \in Windows
              PROVE  /\ expiry'[w] >= Ends(w)
                     /\ now' < Ends(w) => Cardinality(Counted(w))' <= count'[w]
                     /\ Cardinality(Counted(w))' <= MaxRequests
  BY DEF LimitInv, Ends
<1>0. /\ LimiterTypes' /\ now \in Nat /\ expiry[w] >= Ends(w) /\ Ends(w) \in Nat
      /\ Never >= Ends(w) /\ count[w] \in Nat
  BY StepLimiter, WindowsEnd, NeverType DEF LimitInv, LimiterTypes, LimiterTypeOK
<1>. DEFINE Goal == /\ expiry'[w] >= Ends(w)
                    /\ now' < Ends(w) => Cardinality(Counted(w))' <= count'[w]
                    /\ Cardinality(Counted(w))' <= MaxRequests
<1>1. CASE Tick
  <2>1. Counted(w)' = Counted(w)
    BY <1>1 DEF Tick, LimiterTick, Counted, WindowOf
  <2>2. now' >= now /\ expiry'[w] >= Ends(w) /\ (now' < Ends(w) => count'[w] >= count[w])
    BY <1>0, <1>1 DEF Tick, LimiterTick, LimiterTypes, LimiterTypeOK
  <2>. QED
    BY <1>0, <2>1, <2>2, NobodyMore
<1>2. ASSUME NEW q \in Requests, UNCHANGED now, Arrive(q)  PROVE Goal
  <2>1. Counted(w)' \subseteq Counted(w)
    BY <1>2 DEF Arrive, To, Counted, WindowOf, LimiterTypes, LimiterTypeOK
  <2>. QED
    BY <1>0, <1>2, <2>1, NobodyMore DEF Arrive
<1>3. ASSUME NEW q \in Requests, UNCHANGED now, Increment(q)  PROVE Goal
  <2>0. /\ UNCHANGED <<arrivedAt, expiry, failedOpen>> /\ count'[w] >= count[w]
        /\ \A r \in Requests : WindowOf(r)' = WindowOf(r)
        /\ \A r \in Requests : r # q => limit'[r] = limit[r]
    BY <1>0, <1>3, WindowType
    DEF Increment, Incremented, To, WindowOf, LimiterTypes, LimiterTypeOK
  <2>1. CASE \/ WindowOf(q) # w
             \/ q \in late'
             \/ count[w] + 1 > MaxRequests
    <3>1. q \notin Counted(w)'
      <4>1. CASE WindowOf(q) # w \/ q \in late'
        BY <2>0, <4>1 DEF Counted
      <4>2. CASE WindowOf(q) = w /\ count[w] + 1 > MaxRequests
        <5>1. \/ limit'[q] = "pexpire" /\ count[w] = 0
              \/ limit'[q] = "pttl"
          BY <1>0, <1>3, <4>2 DEF Increment, To, SetsTtl, IsOver, LimiterTypes, LimiterTypeOK
        <5>. QED
          BY <4>2, <5>1 DEF Counted, IsOver
      <4>. QED
        BY <2>1, <4>1, <4>2
    <3>2. Counted(w)' \subseteq Counted(w)
      BY <1>3, <2>0, <3>1 DEF Increment, NotesLate, Counted
    <3>. QED
      BY <1>0, <1>3, <2>0, <3>2, NobodyMore
  <2>2. CASE WindowOf(q) = w /\ q \notin late' /\ count[w] + 1 <= MaxRequests
    <3>1. now < Ends(w) /\ count'[w] = count[w] + 1
      BY <1>0, <1>3, <2>2 DEF Increment, Incremented, NotesLate, LimiterTypes, LimiterTypeOK
    <3>2. Counted(w)' \subseteq Counted(w) \cup {q}
      BY <1>3, <2>0 DEF Increment, NotesLate, Counted
    <3>3. /\ Counted(w) \subseteq Requests /\ IsFiniteSet(Counted(w))
          /\ Cardinality(Counted(w)) \in Nat
      BY CountedIsFinite DEF Counted
    <3>4. q \notin Counted(w)
      BY <1>3 DEF Increment, Counted
    <3>5. /\ IsFiniteSet(Counted(w) \cup {q})
          /\ Cardinality(Counted(w) \cup {q}) = Cardinality(Counted(w)) + 1
      BY <3>3, <3>4, FS_AddElement
    <3>6. /\ Cardinality(Counted(w)') <= Cardinality(Counted(w)) + 1
          /\ Cardinality(Counted(w)') \in Nat
      BY <3>2, <3>5, FS_Subset, FS_CardinalityType
    <3>7. Cardinality(Counted(w)) <= count[w]
      BY <3>1 DEF LimitInv
    <3>8. Cardinality(Counted(w))' = Cardinality(Counted(w)')
      OBVIOUS
    <3>. QED
      BY <1>0, <1>3, <2>0, <2>2, <3>1, <3>3, <3>6, <3>7, <3>8
  <2>. QED
    BY <1>0, <2>1, <2>2
<1>4. ASSUME NEW q \in Requests, UNCHANGED now, SetTtl(q)  PROVE Goal
  <2>1. Counted(w)' \subseteq Counted(w)
    BY <1>4 DEF SetTtl, To, Counted, WindowOf, LimiterTypes, LimiterTypeOK
  <2>2. expiry'[w] >= Ends(w)
    BY <1>0, <1>4, KeyLives DEF SetTtl
  <2>. QED
    BY <1>0, <1>4, <2>1, <2>2, NobodyMore DEF SetTtl
<1>5. ASSUME NEW q \in Requests, UNCHANGED now, TurnAway(q)  PROVE Goal
  <2>1. Counted(w)' \subseteq Counted(w)
    BY <1>5 DEF TurnAway, To, Counted, WindowOf, LimiterTypes, LimiterTypeOK
  <2>. QED
    BY <1>0, <1>5, <2>1, NobodyMore DEF TurnAway
<1>6. ASSUME NEW q \in Requests, UNCHANGED now, FailOpen(q) \/ IncrementResent(q)  PROVE Goal
  <2>1. Counted(w)' \subseteq Counted(w)
    BY <1>6
    DEF FailOpen, IncrementResent, NotesLate, To, Counted, WindowOf, LimiterTypes,
        LimiterTypeOK
  <2>2. expiry'[w] >= Ends(w)
    BY <1>0, <1>6, KeyLives DEF FailOpen, IncrementResent
  <2>3. count'[w] >= count[w]
    BY <1>0, <1>6, WindowType
    DEF FailOpen, IncrementResent, Incremented, LimiterTypes, LimiterTypeOK
  <2>. QED
    BY <1>0, <1>6, <2>1, <2>2, <2>3, NobodyMore
<1>7. CASE UNCHANGED <<now, limiterVars>>
  <2>1. Counted(w)' \subseteq Counted(w)
    BY <1>7 DEF limiterVars, Counted, WindowOf
  <2>. QED
    BY <1>0, <1>7, <2>1, NobodyMore DEF limiterVars
<1>. QED
  BY <1>1, <1>2, <1>3, <1>4, <1>5, <1>6, <1>7, StepCases DEF LimiterStep

\* The limiter lets at most MaxRequests through in a window, but for the faults
\* and the latecomers it cannot count.
THEOREM LimitIsKept == Spec => []LimitHolds
<1>. DEFINE Inv == LimiterTypes /\ NothingBefore /\ LimitInv
<1>1. Init => Inv
  BY InitLimiter, InitLimit DEF Init, LimiterInit, NothingBefore
<1>2. Inv /\ [Next]_vars => Inv'
  BY StepLimiter, StepNothing, StepLimit
<1>3. Inv => LimitHolds
  <2>. SUFFICES ASSUME Inv, NEW w \in Windows
                PROVE  Cardinality(Granted(w)) <= MaxRequests
    BY DEF LimitHolds
  <2>1. Granted(w) \subseteq Counted(w) /\ Counted(w) \subseteq Requests
    BY DEF Granted, Counted
  <2>2. /\ Cardinality(Granted(w)) <= Cardinality(Counted(w))
        /\ Cardinality(Granted(w)) \in Nat /\ Cardinality(Counted(w)) \in Nat
    BY <2>1, CountedIsFinite, FS_Subset
  <2>. QED
    BY <2>2 DEF LimitInv
<1>. QED
  BY <1>1, <1>2, <1>3, PTL DEF Spec

-----------------------------------------------------------------------------
(* The velocity rule                                                       *)

Stages == {"idle", "incr", "expire", "record", "trim", "judge", "done"}

CheckTypes ==
    /\ now \in 0 .. MaxNow
    /\ stage \in [Checks -> Stages]
    /\ signals \in [Checks -> SUBSET Rules]
    /\ velocity \in Nat
    /\ velocityExpiry \in Nat
    /\ hurt \in BOOLEAN
    /\ repeated \in Nat

\* Each INCR has its time, and one for its EXPIRE.
TimesInv ==
    /\ checkedAt \in Seq(Nat) /\ extendedAt \in Seq(Nat)
    /\ Len(extendedAt) = Len(checkedAt)
    /\ \A i \in 1 .. Len(checkedAt) :
          checkedAt[i] <= now /\ (extendedAt[i] <= now \/ extendedAt[i] = Open)

\* A check has its place from its INCR on, and no other has the same while its EXPIRE
\* is to come.
PlacesInv ==
    /\ place \in [Checks -> Nat]
    /\ \A c \in Checks :
          /\ place[c] <= Len(checkedAt)
          /\ stage[c] \in {"idle", "incr"} => place[c] = 0
          /\ stage[c] = "expire" => place[c] # 0 /\ extendedAt[place[c]] = Open
    /\ \A c, d \in Checks : c # d /\ place[c] = place[d] => place[c] = 0

RenewalsInv ==
    \A e \in renewals :
        /\ e \in [at : Nat, count : Nat \ {0}, counted : Nat]
        /\ e.at <= now
        /\ e.counted <= Len(checkedAt)

VelocityTypes == CheckTypes /\ TimesInv /\ PlacesInv /\ RenewalsInv

LEMMA ChecksHave ==
  ASSUME [Next]_vars
  PROVE  \/ Tick
         \/ \E c \in Checks : UNCHANGED now /\ (StartCheck(c) \/ EngineStep(c))
         \/ UNCHANGED <<now, engineVars>>
BY DEF Next, AtGateway, AtFraudService, vars

\* What a step does to the counter and its histories: nothing, or one of these.
Counts(c) == UNCHANGED now /\ CountCheck(c)
Extends(c) == UNCHANGED now /\ ExtendVelocity(c)

\* A check that goes on, fails or repeats a command: it has no new place.
Same ==
    /\ UNCHANGED <<now, checkedAt, extendedAt, place>>
    /\ \A c \in Checks :
          /\ stage'[c] \in {"idle", "incr"} => stage[c] \in {"idle", "incr"}
          /\ stage'[c] = "expire" => stage[c] = "expire"
          /\ signals[c] \subseteq signals'[c] \/ stage[c] = "idle"

\* The counter meanwhile stays; or goes up, and the rule is said to be hurt; or is
\* given its time again, while a check waits to do so or the rule is hurt.
Stays == UNCHANGED <<velocity, velocityExpiry, renewals, hurt>>
GoesUp ==
    velocity' = velocity + 1 /\ hurt' = TRUE /\ UNCHANGED <<velocityExpiry, renewals>>
Renewed ==
    /\ Extend /\ NotesRenewal /\ velocity' = velocity
    /\ hurt' = TRUE \/ (hurt' = hurt /\ \E c \in Checks : stage[c] = "expire")
Hurts == UNCHANGED <<velocity, velocityExpiry, renewals>> /\ hurt' = TRUE

LEMMA VelocitySteps ==
  ASSUME CheckTypes, [Next]_vars
  PROVE  \/ Tick
         \/ \E c \in Checks : Counts(c) \/ Extends(c)
         \/ Same /\ (Stays \/ GoesUp \/ Renewed \/ Hurts)
<1>. USE DEF At
<1>1. ASSUME UNCHANGED <<now, engineVars>>  PROVE Same /\ Stays
  BY <1>1 DEF engineVars, counting, Same, Stays
<1>2. ASSUME NEW c \in Checks, UNCHANGED now, StartCheck(c)  PROVE Same /\ Stays
  <2>1. /\ stage[c] = "idle" /\ stage' = [stage EXCEPT ![c] = "incr"]
        /\ UNCHANGED counting /\ UNCHANGED hurt
        /\ \A d \in Checks : d # c => signals'[d] = signals[d]
    BY <1>2 DEF StartCheck, CheckTypes
  <2>. QED
    BY <1>2, <2>1 DEF Same, Stays, counting, CheckTypes
<1>3. ASSUME NEW c \in Checks, UNCHANGED now, RecordAmount(c) \/ TrimAmounts(c) \/ FailAmount(c)
      PROVE  Same /\ Stays
  <2>1. /\ \E l \in {"trim", "judge", "done"} : stage' = [stage EXCEPT ![c] = l]
        /\ UNCHANGED counting /\ UNCHANGED hurt /\ signals' = signals
    BY <1>3 DEF RecordAmount, TrimAmounts, FailAmount
  <2>. QED
    BY <1>3, <2>1 DEF Same, Stays, counting, CheckTypes
<1>4. ASSUME NEW c \in Checks, UNCHANGED now, Judge(c)  PROVE Same /\ Stays
  <2>1. /\ stage' = [stage EXCEPT ![c] = "done"]
        /\ UNCHANGED counting /\ UNCHANGED hurt
        /\ \A d \in Checks : signals[d] \subseteq signals'[d]
    BY <1>4 DEF Judge, CheckTypes
  <2>. QED
    BY <1>4, <2>1 DEF Same, Stays, counting, CheckTypes
<1>5. ASSUME NEW c \in Checks, UNCHANGED now, FailVelocity(c)
      PROVE  Same /\ (GoesUp \/ Renewed \/ Hurts)
  <2>1. Same
    BY <1>5 DEF FailVelocity, Same, CheckTypes
  <2>. QED
    BY <1>5, <2>1 DEF FailVelocity, GoesUp, Renewed, Hurts
<1>6. ASSUME NEW c \in Checks, UNCHANGED now, RepeatVelocity(c)
      PROVE  Same /\ (GoesUp \/ Renewed)
  <2>1. Same
    BY <1>6 DEF RepeatVelocity, Same, CheckTypes
  <2>. QED
    BY <1>6, <2>1 DEF RepeatVelocity, GoesUp, Renewed
<1>. QED
  BY <1>1, <1>2, <1>3, <1>4, <1>5, <1>6, ChecksHave DEF EngineStep, Counts, Extends

LEMMA StepCheckTypes == CheckTypes /\ [Next]_vars => CheckTypes'
<1>. SUFFICES ASSUME CheckTypes, [Next]_vars
              PROVE  CheckTypes'
  OBVIOUS
<1>. USE DEF CheckTypes, At, Stages
<1>1. CASE Tick
  BY <1>1 DEF Tick, EngineTick
<1>2. ASSUME NEW c \in Checks, UNCHANGED now, StartCheck(c)  PROVE CheckTypes'
  <2>1. PICK a \in Amounts, S \in Elsewhere :
           signals' = [signals EXCEPT ![c] =
                          S \cup (IF RoundFires(a) THEN {"roundAmount"} ELSE {})]
    BY <1>2 DEF StartCheck
  <2>2. signals' \in [Checks -> SUBSET Rules]
    BY <2>1, RulesElsewhere DEF Rules
  <2>. QED
    BY <1>2, <2>2 DEF StartCheck, counting
<1>3. ASSUME NEW c \in Checks, UNCHANGED now, CountCheck(c)  PROVE CheckTypes'
  <2>1. signals' \in [Checks -> SUBSET Rules]
    BY <1>3 DEF CountCheck, Rules
  <2>. QED
    BY <1>3, <2>1 DEF CountCheck
<1>4. ASSUME Extend  PROVE velocityExpiry' \in Nat
  BY <1>4, TtlIsPositive DEF Extend
<1>5. ASSUME NEW c \in Checks, UNCHANGED now,
             ExtendVelocity(c) \/ FailVelocity(c) \/ RepeatVelocity(c)
      PROVE  CheckTypes'
  <2>1. /\ Extend \/ velocityExpiry' = velocityExpiry
        /\ velocity' \in {velocity, velocity + 1}
        /\ repeated' \in {repeated, repeated + 1}
        /\ hurt' \in {hurt, TRUE}
        /\ signals' = signals
        /\ stage' = stage \/ stage' = [stage EXCEPT ![c] = "record"]
    BY <1>5 DEF ExtendVelocity, FailVelocity, RepeatVelocity
  <2>2. velocityExpiry' \in Nat
    BY <1>4, <2>1
  <2>3. stage' \in [Checks -> Stages]
    BY <2>1
  <2>4. velocity' \in {velocity, velocity + 1} /\ repeated' \in {repeated, repeated + 1}
        /\ hurt' \in {hurt, TRUE} /\ signals' = signals /\ now' = now
    BY <1>5, <2>1, Zenon
  <2>5. velocity' \in Nat
    BY <2>4
  <2>6. repeated' \in Nat
    BY <2>4
  <2>7. hurt' \in BOOLEAN
    BY <2>4
  <2>. QED
    BY <2>2, <2>3, <2>4, <2>5, <2>6, <2>7
<1>6. ASSUME NEW c \in Checks, UNCHANGED now, Judge(c)  PROVE CheckTypes'
  <2>1. signals' \in [Checks -> SUBSET Rules]
    BY <1>6 DEF Judge, Rules
  <2>. QED
    BY <1>6, <2>1 DEF Judge, counting
<1>7. ASSUME NEW c \in Checks, UNCHANGED now,
             RecordAmount(c) \/ TrimAmounts(c) \/ FailAmount(c)
      PROVE  CheckTypes'
  BY <1>7 DEF RecordAmount, TrimAmounts, FailAmount, counting
<1>8. CASE UNCHANGED <<now, engineVars>>
  BY <1>8 DEF engineVars, counting
<1>. QED
  BY <1>1, <1>2, <1>3, <1>5, <1>6, <1>7, <1>8, ChecksHave DEF EngineStep

\* What one INCR adds to the histories.
LEMMA CountAdds ==
  ASSUME VelocityTypes, NEW c \in Checks, Counts(c)
  PROVE  LET n == Len(checkedAt) IN
         /\ now' = now /\ velocity' = velocity + 1
         /\ n \in Nat /\ stage[c] = "incr" /\ stage'[c] = "expire"
         /\ \A d \in Checks : d # c => stage'[d] = stage[d] /\ place'[d] = place[d]
         /\ place' \in [Checks -> Nat] /\ place'[c] = n + 1
         /\ checkedAt' \in Seq(Nat) /\ Len(checkedAt') = n + 1 /\ checkedAt'[n + 1] = now
         /\ extendedAt' \in Seq(Nat) /\ Len(extendedAt') = n + 1 /\ extendedAt'[n + 1] = Open
         /\ \A i \in 1 .. n : checkedAt'[i] = checkedAt[i] /\ extendedAt'[i] = extendedAt[i]
         /\ UNCHANGED <<velocityExpiry, renewals, hurt>>
<1>1. /\ checkedAt \in Seq(Nat) /\ extendedAt \in Seq(Nat) /\ now \in Nat /\ Open \in Nat
      /\ Len(extendedAt) = Len(checkedAt) /\ Len(checkedAt) \in Nat
      /\ place \in [Checks -> Nat] /\ stage \in [Checks -> Stages]
  BY DEF VelocityTypes, CheckTypes, TimesInv, PlacesInv, Open
<1>2. /\ checkedAt' = Append(checkedAt, now) /\ extendedAt' = Append(extendedAt, Open)
      /\ place' = [place EXCEPT ![c] = Len(checkedAt) + 1]
      /\ stage' = [stage EXCEPT ![c] = "expire"] /\ stage[c] = "incr"
      /\ now' = now /\ velocity' = velocity + 1 /\ UNCHANGED <<velocityExpiry, renewals, hurt>>
  BY DEF Counts, CountCheck, At
<1>3. /\ checkedAt' \in Seq(Nat) /\ Len(checkedAt') = Len(checkedAt) + 1
      /\ checkedAt'[Len(checkedAt) + 1] = now
      /\ \A i \in 1 .. Len(checkedAt) : checkedAt'[i] = checkedAt[i]
  BY <1>1, <1>2
<1>4. /\ extendedAt' \in Seq(Nat) /\ Len(extendedAt') = Len(checkedAt) + 1
      /\ extendedAt'[Len(checkedAt) + 1] = Open
      /\ \A i \in 1 .. Len(checkedAt) : extendedAt'[i] = extendedAt[i]
  BY <1>1, <1>2
<1>5. /\ place' \in [Checks -> Nat] /\ place'[c] = Len(checkedAt) + 1 /\ stage'[c] = "expire"
      /\ \A d \in Checks : d # c => stage'[d] = stage[d] /\ place'[d] = place[d]
  BY <1>1, <1>2
<1>. QED
  BY <1>1, <1>2, <1>3, <1>4, <1>5

\* What one EXPIRE changes in them.
LEMMA ExtendSets ==
  ASSUME VelocityTypes, NEW c \in Checks, Extends(c)
  PROVE  /\ now' = now /\ Extend /\ NotesRenewal /\ velocity' = velocity /\ hurt' = hurt
         /\ checkedAt' = checkedAt /\ place' = place /\ signals' = signals
         /\ stage[c] = "expire" /\ stage'[c] = "record"
         /\ \A d \in Checks : d # c => stage'[d] = stage[d]
         /\ place[c] \in 1 .. Len(checkedAt) /\ extendedAt[place[c]] = Open
         /\ extendedAt' \in Seq(Nat) /\ Len(extendedAt') = Len(checkedAt)
         /\ extendedAt'[place[c]] = now
         /\ \A i \in 1 .. Len(checkedAt) : i # place[c] => extendedAt'[i] = extendedAt[i]
<1>1. /\ extendedAt \in Seq(Nat) /\ now \in Nat /\ Len(extendedAt) = Len(checkedAt)
      /\ Len(checkedAt) \in Nat /\ stage \in [Checks -> Stages]
  BY DEF VelocityTypes, CheckTypes, TimesInv
<1>2. /\ stage[c] = "expire" /\ stage' = [stage EXCEPT ![c] = "record"]
      /\ extendedAt' = [extendedAt EXCEPT ![place[c]] = now]
      /\ now' = now /\ Extend /\ NotesRenewal /\ velocity' = velocity /\ hurt' = hurt
      /\ checkedAt' = checkedAt /\ place' = place /\ signals' = signals
  BY DEF Extends, ExtendVelocity, At
<1>3. place[c] \in 1 .. Len(checkedAt) /\ extendedAt[place[c]] = Open
  BY <1>1, <1>2 DEF VelocityTypes, PlacesInv
<1>4. /\ extendedAt' \in Seq(Nat) /\ Len(extendedAt') = Len(checkedAt)
      /\ extendedAt'[place[c]] = now
      /\ \A i \in 1 .. Len(checkedAt) : i # place[c] => extendedAt'[i] = extendedAt[i]
  BY <1>1, <1>2, <1>3
<1>. QED
  BY <1>1, <1>2, <1>3, <1>4

LEMMA InitVelocityTypes == Init => VelocityTypes
<1>. SUFFICES ASSUME Init
              PROVE  VelocityTypes
  OBVIOUS
<1>1. /\ velocity \in Nat /\ checkedAt = [i \in 1 .. velocity |-> 0] /\ now = 0
      /\ extendedAt = checkedAt
  BY EarlierIsNumber DEF Init, EngineInit
<1>2. checkedAt \in Seq(Nat) /\ Len(checkedAt) = velocity
  BY <1>1
<1>3. TimesInv
  BY <1>1, <1>2 DEF TimesInv
<1>4. CheckTypes
  <2>1. velocityExpiry \in Nat /\ now \in 0 .. MaxNow
    BY <1>1, TtlIsPositive DEF Init, EngineInit
  <2>. QED
    BY <1>1, <2>1 DEF Init, EngineInit, CheckTypes, Stages
<1>5. PlacesInv
  BY <1>1, <1>2 DEF Init, EngineInit, PlacesInv
<1>6. RenewalsInv
  <2>1. \A e \in renewals :
           velocity # 0 /\ e = [at |-> 0, count |-> velocity, counted |-> velocity]
    BY DEF Init, EngineInit
  <2>. QED
    BY <1>1, <1>2, <2>1 DEF RenewalsInv
<1>. QED
  BY <1>3, <1>4, <1>5, <1>6 DEF VelocityTypes

\* A renewal that is noted is of now, and of a key that is there.
LEMMA RenewalsGrow ==
  ASSUME VelocityTypes, UNCHANGED <<now, checkedAt>>, NotesRenewal \/ UNCHANGED renewals
  PROVE  RenewalsInv'
<1>1. /\ now \in Nat /\ velocity \in Nat /\ Len(checkedAt) \in Nat
  BY DEF VelocityTypes, CheckTypes, TimesInv
<1>2. ASSUME NEW e \in renewals'
      PROVE  /\ e \in [at : Nat, count : Nat \ {0}, counted : Nat]
             /\ e.at <= now /\ e.counted <= Len(checkedAt)
  <2>1. CASE e \in renewals
    BY <2>1 DEF VelocityTypes, RenewalsInv
  <2>2. CASE e \notin renewals
    <3>1. /\ velocity # 0
          /\ e = [at |-> now, count |-> velocity, counted |-> Len(checkedAt)]
      BY <2>2 DEF NotesRenewal
    <3>. QED
      BY <1>1, <3>1
  <2>. QED
    BY <2>1, <2>2
<1>. QED
  BY <1>2 DEF RenewalsInv

LEMMA StepVelocityTypes == VelocityTypes /\ [Next]_vars => VelocityTypes'
<1>. SUFFICES ASSUME VelocityTypes, [Next]_vars
              PROVE  VelocityTypes'
  OBVIOUS
<1>0. CheckTypes /\ CheckTypes'
  BY StepCheckTypes DEF VelocityTypes
<1>1. CASE Tick
  <2>1. /\ now' = now + 1 /\ now < MaxNow
        /\ UNCHANGED <<stage, checkedAt, extendedAt, place, renewals>>
    BY <1>1 DEF Tick, EngineTick
  <2>2. TimesInv' /\ PlacesInv' /\ RenewalsInv'
    <3>1. now \in Nat
      BY DEF VelocityTypes, CheckTypes
    <3>2. TimesInv'
      BY <2>1, <3>1 DEF VelocityTypes, TimesInv, Open
    <3>3. PlacesInv'
      BY <2>1 DEF VelocityTypes, PlacesInv, Open
    <3>4. RenewalsInv'
      BY <2>1, <3>1 DEF VelocityTypes, RenewalsInv
    <3>. QED
      BY <3>2, <3>3, <3>4
  <2>. QED
    BY <1>0, <2>2 DEF VelocityTypes
<1>2. ASSUME NEW c \in Checks, Counts(c)  PROVE VelocityTypes'
  <2>. DEFINE n == Len(checkedAt)
  <2>1. /\ now' = now /\ n \in Nat /\ stage'[c] = "expire"
        /\ \A d \in Checks : d # c => stage'[d] = stage[d] /\ place'[d] = place[d]
        /\ place' \in [Checks -> Nat] /\ place'[c] = n + 1
        /\ checkedAt' \in Seq(Nat) /\ Len(checkedAt') = n + 1 /\ checkedAt'[n + 1] = now
        /\ extendedAt' \in Seq(Nat) /\ Len(extendedAt') = n + 1 /\ extendedAt'[n + 1] = Open
        /\ \A i \in 1 .. n : checkedAt'[i] = checkedAt[i] /\ extendedAt'[i] = extendedAt[i]
        /\ renewals' = renewals
    BY <1>2, CountAdds
  <2>2. now \in Nat
    BY <1>0 DEF CheckTypes
  <2>. HIDE DEF n
  <2>3. /\ \A i \in 1 .. n : checkedAt[i] <= now /\ (extendedAt[i] <= now \/ extendedAt[i] = Open)
        /\ \A d \in Checks :
              /\ place[d] \in Nat /\ place[d] <= n
              /\ stage[d] \in {"idle", "incr"} => place[d] = 0
              /\ stage[d] = "expire" => place[d] # 0 /\ extendedAt[place[d]] = Open
        /\ \A d, b \in Checks : d # b /\ place[d] = place[b] => place[d] = 0
        /\ \A e \in renewals : e \in [at : Nat, count : Nat \ {0}, counted : Nat]
                               /\ e.at <= now /\ e.counted <= n
    BY DEF VelocityTypes, TimesInv, PlacesInv, RenewalsInv, n
  <2>4. TimesInv'
    <3>1. \A i \in 1 .. n + 1 : i = n + 1 \/ i \in 1 .. n
      BY <2>1
    <3>2. Open' = Open
      BY DEF Open
    <3>3. ASSUME NEW i \in 1 .. n + 1
          PROVE  checkedAt'[i] <= now' /\ (extendedAt'[i] <= now' \/ extendedAt'[i] = Open')
      <4>1. CASE i = n + 1
        <5>1. checkedAt'[i] = now /\ extendedAt'[i] = Open /\ now' = now
          BY <2>1, <4>1, Zenon
        <5>. QED
          BY <2>2, <3>2, <5>1
      <4>2. CASE i \in 1 .. n
        <5>1. checkedAt'[i] = checkedAt[i] /\ extendedAt'[i] = extendedAt[i] /\ now' = now
          BY <2>1, <4>2, Zenon
        <5>2. checkedAt[i] <= now /\ (extendedAt[i] <= now \/ extendedAt[i] = Open)
          BY <2>3, <4>2, Zenon
        <5>. QED
          BY <3>2, <5>1, <5>2
      <4>. QED
        BY <3>1, <4>1, <4>2
    <3>. QED
      BY <2>1, <3>3 DEF TimesInv
  <2>5. PlacesInv'
    <3>1. ASSUME NEW d \in Checks
          PROVE  /\ place'[d] <= n + 1
                 /\ stage'[d] \in {"idle", "incr"} => place'[d] = 0
                 /\ stage'[d] = "expire" => place'[d] # 0 /\ extendedAt'[place'[d]] = Open
      <4>1. CASE d = c
        BY <2>1, <4>1
      <4>2. CASE d # c
        <5>1. stage[d] = "expire" => place[d] \in 1 .. n
          BY <2>1, <2>3
        <5>. QED
          BY <2>1, <2>3, <4>2, <5>1
      <4>. QED
        BY <4>1, <4>2
    <3>2. ASSUME NEW d \in Checks, NEW b \in Checks, d # b, place'[d] = place'[b]
          PROVE  place'[d] = 0
      <4>1. ASSUME NEW a \in Checks, a # c  PROVE place'[a] # n + 1
        <5>1. place'[a] = place[a] /\ place[a] \in Nat /\ place[a] <= n
          BY <2>1, <2>3, <4>1
        <5>. QED
          BY <2>1, <5>1
      <4>. QED
        BY <2>1, <2>3, <3>2, <4>1
    <3>. QED
      BY <2>1, <3>1, <3>2 DEF PlacesInv, Open
  <2>6. RenewalsInv'
    BY <2>1, <2>3 DEF RenewalsInv
  <2>. QED
    BY <1>0, <2>4, <2>5, <2>6 DEF VelocityTypes
<1>3. ASSUME NEW c \in Checks, Extends(c)  PROVE VelocityTypes'
  <2>. DEFINE n == Len(checkedAt)
  <2>1. /\ now' = now /\ NotesRenewal /\ checkedAt' = checkedAt /\ place' = place
        /\ stage'[c] = "record" /\ \A d \in Checks : d # c => stage'[d] = stage[d]
        /\ place[c] \in 1 .. n
        /\ extendedAt' \in Seq(Nat) /\ Len(extendedAt') = n
        /\ extendedAt'[place[c]] = now
        /\ \A i \in 1 .. n : i # place[c] => extendedAt'[i] = extendedAt[i]
    BY <1>3, ExtendSets
  <2>2. now \in Nat
    BY <1>0 DEF CheckTypes
  <2>3. TimesInv'
    <3>1. ASSUME NEW i \in 1 .. n
          PROVE  extendedAt'[i] <= now \/ extendedAt'[i] = Open
      <4>1. CASE i = place[c]
        BY <2>1, <2>2, <4>1
      <4>2. CASE i # place[c]
        BY <2>1, <4>2 DEF VelocityTypes, TimesInv
      <4>. QED
        BY <4>1, <4>2
    <3>. QED
      BY <2>1, <3>1 DEF VelocityTypes, TimesInv, Open
  <2>4. PlacesInv'
    <3>1. ASSUME NEW d \in Checks, stage'[d] = "expire"
          PROVE  place[d] # 0 /\ extendedAt'[place[d]] = Open
      <4>1. d # c /\ stage[d] = "expire"
        BY <2>1, <3>1
      <4>2. /\ place[d] # 0 /\ extendedAt[place[d]] = Open /\ place[d] \in Nat /\ place[d] <= n
            /\ place[d] # place[c] /\ n \in Nat
        BY <2>1, <4>1 DEF VelocityTypes, PlacesInv, TimesInv
      <4>3. place[d] \in 1 .. n
        BY <4>2
      <4>. QED
        BY <2>1, <4>2, <4>3
    <3>2. ASSUME NEW d \in Checks, stage'[d] \in {"idle", "incr"}
          PROVE  place[d] = 0
      BY <2>1, <3>2 DEF VelocityTypes, PlacesInv
    <3>. QED
      BY <2>1, <3>1, <3>2 DEF VelocityTypes, PlacesInv, Open
  <2>5. RenewalsInv'
    BY <2>1, RenewalsGrow
  <2>. QED
    BY <1>0, <2>3, <2>4, <2>5 DEF VelocityTypes
<1>4. CASE Same /\ (Stays \/ GoesUp \/ Renewed \/ Hurts)
  <2>1. UNCHANGED <<now, checkedAt>> /\ (NotesRenewal \/ UNCHANGED renewals)
    BY <1>4 DEF Same, Stays, GoesUp, Renewed, Hurts
  <2>2. RenewalsInv'
    BY <2>1, RenewalsGrow
  <2>3. TimesInv' /\ PlacesInv'
    <3>1. Open' = Open
      BY DEF Open
    <3>2. TimesInv'
      BY <1>4, <3>1 DEF Same, VelocityTypes, TimesInv
    <3>3. PlacesInv'
      BY <1>4, <3>1, Zenon DEF Same, VelocityTypes, PlacesInv
    <3>. QED
      BY <3>2, <3>3
  <2>. QED
    BY <1>0, <2>2, <2>3 DEF VelocityTypes
<1>. QED
  BY <1>0, <1>1, <1>2, <1>3, <1>4, VelocitySteps

-----------------------------------------------------------------------------
(* No check is forgotten for as long as an EXPIRE lasts                    *)

\* While a renewal lasts the key stays, and has counted all checks since.
Lasts(e) == now - e.at < VelocityTtl

LastingInv ==
    \A e \in renewals :
        Lasts(e) => /\ velocityExpiry >= e.at + VelocityTtl
                    /\ velocity >= e.count + (Len(checkedAt) - e.counted)

BurstInv == VelocityTypes /\ LastingInv /\ BurstsAreNoticed

LEMMA InitBurst == Init => BurstInv
<1>. SUFFICES ASSUME Init
              PROVE  BurstInv
  OBVIOUS
<1>1. /\ velocity \in Nat /\ checkedAt = [i \in 1 .. velocity |-> 0] /\ now = 0
      /\ velocity # 0 => velocityExpiry = VelocityTtl
  BY EarlierIsNumber DEF Init, EngineInit
<1>2. Len(checkedAt) = velocity
  BY <1>1
<1>3. \A e \in renewals :
         velocity # 0 /\ e = [at |-> 0, count |-> velocity, counted |-> velocity]
  BY DEF Init, EngineInit
<1>4. LastingInv
  BY <1>1, <1>2, <1>3, TtlIsPositive DEF LastingInv, Lasts
<1>5. BurstsAreNoticed
  BY <1>1, <1>3 DEF Init, EngineInit, BurstsAreNoticed
<1>. QED
  BY <1>4, <1>5, InitVelocityTypes DEF BurstInv

\* The types of a renewal, as numbers.
LEMMA RenewalNumbers ==
  ASSUME VelocityTypes, NEW e \in renewals
  PROVE  /\ e.at \in Nat /\ e.count \in Nat /\ e.count > 0 /\ e.counted \in Nat
         /\ e.at <= now /\ e.counted <= Len(checkedAt)
         /\ now \in Nat /\ velocity \in Nat /\ velocityExpiry \in Nat /\ Len(checkedAt) \in Nat
BY DEF VelocityTypes, RenewalsInv, CheckTypes, TimesInv

\* EXPIRE and what it notes: the new renewal is of the counter as it is.
LEMMA RenewalLasts ==
  ASSUME BurstInv, UNCHANGED <<now, checkedAt, velocity>>, Extend, NotesRenewal
  PROVE  LastingInv'
<1>. SUFFICES ASSUME NEW e \in renewals', Lasts(e)'
              PROVE  /\ velocityExpiry' >= e.at + VelocityTtl
                     /\ velocity >= e.count + (Len(checkedAt) - e.counted)
  BY DEF LastingInv
<1>1. now \in Nat /\ velocity \in Nat /\ Len(checkedAt) \in Nat /\ VelocityTypes
  BY DEF BurstInv, VelocityTypes, CheckTypes, TimesInv
<1>2. CASE e \in renewals
  <2>1. /\ velocityExpiry >= e.at + VelocityTtl
        /\ velocity >= e.count + (Len(checkedAt) - e.counted)
    BY <1>2 DEF BurstInv, LastingInv, Lasts
  <2>2. /\ e.at \in Nat /\ e.count \in Nat /\ e.count > 0 /\ e.counted \in Nat
        /\ e.at <= now /\ e.counted <= Len(checkedAt) /\ velocityExpiry \in Nat
    BY <1>1, <1>2, RenewalNumbers
  <2>3. velocity # 0
    BY <1>1, <2>1, <2>2
  <2>. QED
    BY <1>1, <2>1, <2>2, <2>3, TtlIsPositive DEF Extend
<1>3. CASE e \notin renewals
  <2>1. velocity # 0 /\ e = [at |-> now, count |-> velocity, counted |-> Len(checkedAt)]
    BY <1>3 DEF NotesRenewal
  <2>. QED
    BY <1>1, <2>1, TtlIsPositive DEF Extend
<1>. QED
  BY <1>2, <1>3

\* A step that gives no check a place leaves no burst unnoticed.
LEMMA NoticedStays ==
  ASSUME BurstInv, VelocityTypes', UNCHANGED <<checkedAt, place>>,
         NotesRenewal \/ UNCHANGED renewals,
         \A c \in Checks : signals[c] \subseteq signals'[c] \/ place[c] = 0
  PROVE  BurstsAreNoticed'
<1>. SUFFICES ASSUME NEW c \in Checks, NEW e \in renewals',
                     place[c] > e.counted, checkedAt[place[c]] - e.at < VelocityTtl,
                     VelocityFires(e.count + place[c] - e.counted)
              PROVE  "velocity" \in signals'[c]
  BY DEF BurstsAreNoticed, VelocityFires
<1>1. place[c] \in Nat /\ place[c] <= Len(checkedAt) /\ Len(checkedAt) \in Nat
  BY DEF BurstInv, VelocityTypes, PlacesInv, TimesInv
<1>2. e \in renewals
  <2>1. e \notin renewals => e.counted = Len(checkedAt)
    BY DEF NotesRenewal
  <2>. QED
    BY <1>1, <2>1
<1>3. place[c] # 0
  BY <1>1, <1>2, RenewalNumbers DEF BurstInv
<1>4. "velocity" \in signals[c]
  BY <1>2 DEF BurstInv, BurstsAreNoticed
<1>. QED
  BY <1>3, <1>4

LEMMA StepBurst == BurstInv /\ [Next]_vars => BurstInv'
<1>. SUFFICES ASSUME BurstInv, [Next]_vars
              PROVE  BurstInv'
  OBVIOUS
<1>0. VelocityTypes /\ VelocityTypes' /\ CheckTypes
  BY StepVelocityTypes DEF BurstInv, VelocityTypes
<1>1. CASE Tick
  <2>1. /\ now' = now + 1 /\ UNCHANGED <<signals, checkedAt, place, renewals>>
        /\ velocity' = IF velocityExpiry # 0 /\ velocityExpiry <= now' THEN 0 ELSE velocity
        /\ velocityExpiry' =
              IF velocityExpiry # 0 /\ velocityExpiry <= now' THEN 0 ELSE velocityExpiry
    BY <1>1 DEF Tick, EngineTick
  <2>2. LastingInv'
    <3>. SUFFICES ASSUME NEW e \in renewals, now' - e.at < VelocityTtl
                  PROVE  /\ velocityExpiry' >= e.at + VelocityTtl
                         /\ velocity' >= e.count + (Len(checkedAt) - e.counted)
      BY <2>1 DEF LastingInv, Lasts
    <3>1. /\ e.at \in Nat /\ now \in Nat /\ velocityExpiry \in Nat
      BY <1>0, RenewalNumbers
    <3>2. Lasts(e)
      BY <2>1, <3>1, TtlIsPositive DEF Lasts
    <3>3. /\ velocityExpiry >= e.at + VelocityTtl
          /\ velocity >= e.count + (Len(checkedAt) - e.counted)
      BY <3>2 DEF BurstInv, LastingInv
    <3>4. ~(velocityExpiry <= now')
      BY <2>1, <3>1, <3>3, TtlIsPositive
    <3>. QED
      BY <2>1, <3>3, <3>4
  <2>3. BurstsAreNoticed'
    BY <1>0, <2>1, NoticedStays
  <2>. QED
    BY <1>0, <2>2, <2>3 DEF BurstInv
<1>2. ASSUME NEW c \in Checks, Counts(c)  PROVE BurstInv'
  <2>. DEFINE n == Len(checkedAt)
  <2>1. /\ now' = now /\ velocity' = velocity + 1 /\ n \in Nat
        /\ \A d \in Checks : d # c => place'[d] = place[d]
        /\ place'[c] = n + 1
        /\ Len(checkedAt') = n + 1 /\ checkedAt'[n + 1] = now
        /\ \A i \in 1 .. n : checkedAt'[i] = checkedAt[i]
        /\ UNCHANGED <<velocityExpiry, renewals>>
    BY <1>0, <1>2, CountAdds
  <2>2. /\ \A d \in Checks : d # c => signals'[d] = signals[d]
        /\ VelocityFires(velocity + 1) => "velocity" \in signals'[c]
    BY <1>0, <1>2 DEF Counts, CountCheck, CheckTypes
  <2>3. LastingInv'
    <3>. SUFFICES ASSUME NEW e \in renewals, Lasts(e)
                  PROVE  /\ velocityExpiry >= e.at + VelocityTtl
                         /\ velocity + 1 >= e.count + ((n + 1) - e.counted)
      BY <2>1 DEF LastingInv, Lasts
    <3>1. /\ velocityExpiry >= e.at + VelocityTtl
          /\ velocity >= e.count + (n - e.counted)
      BY DEF BurstInv, LastingInv
    <3>. QED
      BY <1>0, <2>1, <3>1, RenewalNumbers
  <2>4. BurstsAreNoticed'
    <3>. SUFFICES ASSUME NEW d \in Checks, NEW e \in renewals,
                         place'[d] > e.counted, checkedAt'[place'[d]] - e.at < VelocityTtl,
                         VelocityFires(e.count + place'[d] - e.counted)
                  PROVE  "velocity" \in signals'[d]
      BY <2>1 DEF BurstsAreNoticed, VelocityFires
    <3>1. /\ e.at \in Nat /\ e.count \in Nat /\ e.counted \in Nat /\ velocity \in Nat
          /\ e.counted <= n
      BY <1>0, RenewalNumbers
    <3>2. CASE d = c
      <4>1. Lasts(e)
        BY <2>1, <3>2 DEF Lasts
      <4>2. velocity >= e.count + (n - e.counted)
        BY <4>1 DEF BurstInv, LastingInv
      <4>3. VelocityFires(velocity + 1)
        BY <2>1, <3>1, <3>2, <4>2 DEF VelocityFires
      <4>. QED
        BY <2>2, <3>2, <4>3
    <3>3. CASE d # c
      <4>1. place'[d] = place[d] /\ place[d] \in Nat /\ place[d] <= n
        BY <1>0, <2>1, <3>3 DEF VelocityTypes, PlacesInv
      <4>2. place[d] \in 1 .. n
        BY <2>1, <3>1, <4>1
      <4>3. checkedAt'[place'[d]] = checkedAt[place[d]]
        BY <2>1, <4>1, <4>2
      <4>4. "velocity" \in signals[d]
        BY <4>1, <4>3 DEF BurstInv, BurstsAreNoticed
      <4>. QED
        BY <2>2, <3>3, <4>4
    <3>. QED
      BY <3>2, <3>3
  <2>. QED
    BY <1>0, <2>3, <2>4 DEF BurstInv
<1>3. ASSUME NEW c \in Checks, Extends(c)  PROVE BurstInv'
  <2>1. /\ UNCHANGED <<now, checkedAt, velocity, place, signals>> /\ Extend /\ NotesRenewal
    BY <1>0, <1>3, ExtendSets
  <2>2. LastingInv'
    BY <2>1, RenewalLasts
  <2>3. BurstsAreNoticed'
    BY <1>0, <2>1, NoticedStays
  <2>. QED
    BY <1>0, <2>2, <2>3 DEF BurstInv
<1>4. CASE Same /\ (Stays \/ GoesUp \/ Renewed \/ Hurts)
  <2>1. /\ UNCHANGED <<now, checkedAt, extendedAt, place>>
        /\ \A c \in Checks : signals[c] \subseteq signals'[c] \/ place[c] = 0
    BY <1>0, <1>4 DEF Same, VelocityTypes, PlacesInv
  <2>2. CASE Renewed
    <3>1. Extend /\ NotesRenewal /\ velocity' = velocity
      BY <2>2 DEF Renewed
    <3>2. LastingInv'
      BY <2>1, <3>1, RenewalLasts
    <3>3. BurstsAreNoticed'
      BY <1>0, <2>1, <3>1, NoticedStays
    <3>. QED
      BY <1>0, <3>2, <3>3 DEF BurstInv
  <2>3. CASE Stays \/ GoesUp \/ Hurts
    <3>1. /\ UNCHANGED <<velocityExpiry, renewals>>
          /\ velocity' = velocity \/ velocity' = velocity + 1
      BY <2>3 DEF Stays, GoesUp, Hurts
    <3>2. LastingInv'
      <4>. SUFFICES ASSUME NEW e \in renewals, Lasts(e)
                    PROVE  /\ velocityExpiry >= e.at + VelocityTtl
                           /\ velocity' >= e.count + (Len(checkedAt) - e.counted)
        BY <2>1, <3>1 DEF LastingInv, Lasts
      <4>1. /\ velocityExpiry >= e.at + VelocityTtl
            /\ velocity >= e.count + (Len(checkedAt) - e.counted)
        BY DEF BurstInv, LastingInv
      <4>. QED
        BY <1>0, <3>1, <4>1, RenewalNumbers
    <3>3. BurstsAreNoticed'
      BY <1>0, <2>1, <3>1, NoticedStays
    <3>. QED
      BY <1>0, <3>2, <3>3 DEF BurstInv
  <2>. QED
    BY <1>4, <2>2, <2>3
<1>. QED
  BY <1>0, <1>1, <1>2, <1>3, <1>4, VelocitySteps

\* For as long as an EXPIRE lasts the counter goes on from where it found it, whatever
\* fails or is sent twice, and the check that makes it four raises the signal.
THEOREM BurstsNoticed == Spec => []BurstsAreNoticed
<1>1. BurstInv => BurstsAreNoticed
  BY DEF BurstInv
<1>. QED
  BY <1>1, InitBurst, StepBurst, PTL DEF Spec

-----------------------------------------------------------------------------
(* No check is counted beyond its chain                                    *)

\* The checks from which on the chain to check i is unbroken.
Run(i) == {h \in 1 .. i : \A j \in h .. i - 1 : Linked(j)}

LEMMA RunIsFinite ==
  ASSUME NEW i \in Nat
  PROVE  /\ IsFiniteSet(Run(i)) /\ Cardinality(Run(i)) \in Nat /\ RunTo(i) = Cardinality(Run(i))
<1>1. Run(i) \subseteq 1 .. i /\ IsFiniteSet(1 .. i)
  BY FS_Interval DEF Run
<1>. QED
  BY <1>1, FS_Subset, FS_CardinalityType DEF Run, RunTo

LEMMA RunToPrimed ==
  ASSUME NEW i \in Nat
  PROVE  /\ IsFiniteSet(Run(i)') /\ Cardinality(Run(i)') \in Nat
         /\ RunTo(i)' \in Nat /\ RunTo(i)' = Cardinality(Run(i)')
<1>1. Run(i)' \subseteq 1 .. i /\ IsFiniteSet(1 .. i)
  BY FS_Interval DEF Run
<1>2. RunTo(i)' = Cardinality(Run(i)')
  BY DEF Run, RunTo
<1>. QED
  BY <1>1, <1>2, FS_Subset, FS_CardinalityType

\* A link, once there, stays: times that are known do not change, and an EXPIRE that
\* comes after a check that it did not come before is later than it.
LEMMA LinksStay ==
  ASSUME VelocityTypes, [Next]_vars, NEW j \in Nat, j >= 1, j + 1 <= Len(checkedAt), Linked(j)
  PROVE  Linked(j)'
<1>0. CheckTypes /\ Len(checkedAt) \in Nat /\ now \in Nat
  BY DEF VelocityTypes, CheckTypes, TimesInv
<1>1. PICK k \in 1 .. j : checkedAt[j + 1] - extendedAt[k] < VelocityTtl
  BY DEF Linked
<1>2. /\ k \in 1 .. Len(checkedAt) /\ j + 1 \in 1 .. Len(checkedAt)
      /\ checkedAt[j + 1] \in Nat /\ checkedAt[j + 1] <= now
  BY <1>0 DEF VelocityTypes, TimesInv
<1>3. CASE UNCHANGED <<checkedAt, extendedAt>>
  BY <1>1, <1>3 DEF Linked
<1>4. ASSUME NEW c \in Checks, Counts(c)  PROVE Linked(j)'
  <2>1. \A i \in 1 .. Len(checkedAt) : checkedAt'[i] = checkedAt[i] /\ extendedAt'[i] = extendedAt[i]
    BY <1>4, CountAdds
  <2>. QED
    BY <1>1, <1>2, <2>1 DEF Linked
<1>5. ASSUME NEW c \in Checks, Extends(c)  PROVE Linked(j)'
  <2>1. /\ checkedAt' = checkedAt /\ extendedAt'[place[c]] = now
        /\ \A i \in 1 .. Len(checkedAt) : i # place[c] => extendedAt'[i] = extendedAt[i]
    BY <1>5, ExtendSets
  <2>2. checkedAt'[j + 1] - extendedAt'[k] < VelocityTtl
    BY <1>0, <1>1, <1>2, <2>1, TtlIsPositive
  <2>. QED
    BY <2>2 DEF Linked
<1>6. Tick \/ Same => UNCHANGED <<checkedAt, extendedAt>>
  BY DEF Tick, EngineTick, Same
<1>. QED
  BY <1>0, <1>3, <1>4, <1>5, <1>6, VelocitySteps

LEMMA RunsGrow ==
  ASSUME VelocityTypes, [Next]_vars, NEW i \in Nat, i <= Len(checkedAt)
  PROVE  Run(i) \subseteq Run(i)' /\ RunTo(i) <= RunTo(i)'
<1>1. Run(i) \subseteq Run(i)'
  <2>. SUFFICES ASSUME NEW h \in 1 .. i, NEW j \in h .. i - 1, Linked(j)
                PROVE  Linked(j)'
    BY DEF Run
  <2>1. j \in Nat /\ j >= 1 /\ j + 1 <= Len(checkedAt)
    BY DEF VelocityTypes, TimesInv
  <2>. QED
    BY <2>1, LinksStay
<1>2. /\ IsFiniteSet(Run(i)') /\ Cardinality(Run(i)') \in Nat /\ RunTo(i)' = Cardinality(Run(i)')
  BY RunToPrimed
<1>3. Cardinality(Run(i)) <= Cardinality(Run(i)')
  BY <1>1, <1>2, FS_Subset
<1>. QED
  BY <1>1, <1>2, <1>3, RunIsFinite

\* Who keeps the key: a check whose EXPIRE is to come, or was not long ago.
Keeps(k) ==
    \/ extendedAt[k] = Open
    \/ velocityExpiry # 0 /\ velocityExpiry <= extendedAt[k] + VelocityTtl

\* A counter that nobody has hurt is kept by some check, and is not ahead of the chain.
ChainInv ==
    /\ velocityExpiry # 0 => velocityExpiry > now
    /\ ~hurt /\ velocity # 0 =>
          /\ \E k \in 1 .. Len(checkedAt) : Keeps(k)
          /\ velocity <= RunTo(Len(checkedAt))

LEMMA InitChain == Init => ChainInv
<1>. SUFFICES ASSUME Init
              PROVE  ChainInv
  OBVIOUS
<1>1. /\ velocity \in Nat /\ checkedAt = [i \in 1 .. velocity |-> 0] /\ now = 0
      /\ extendedAt = checkedAt /\ velocityExpiry = IF velocity = 0 THEN 0 ELSE VelocityTtl
  BY EarlierIsNumber DEF Init, EngineInit
<1>2. Len(checkedAt) = velocity
  BY <1>1
<1>3. velocityExpiry # 0 => velocityExpiry > now
  BY <1>1, TtlIsPositive
<1>4. ASSUME velocity # 0
      PROVE  \E k \in 1 .. Len(checkedAt) : Keeps(k)
  <2>1. 1 \in 1 .. velocity /\ extendedAt[1] = 0
    BY <1>1, <1>4
  <2>. QED
    BY <1>1, <1>2, <1>4, <2>1, TtlIsPositive DEF Keeps
<1>5. velocity <= RunTo(velocity)
  <2>1. ASSUME NEW j \in 1 .. velocity - 1  PROVE Linked(j)
    <3>1. checkedAt[j + 1] = 0 /\ extendedAt[1] = 0 /\ 1 \in 1 .. j
      BY <1>1
    <3>. QED
      BY <3>1, TtlIsPositive DEF Linked
  <2>2. Run(velocity) = 1 .. velocity
    BY <1>1, <2>1 DEF Run
  <2>3. Cardinality(1 .. velocity) = IF 1 > velocity THEN 0 ELSE (velocity - 1) + 1
    BY <1>1, FS_Interval
  <2>4. velocity <= Cardinality(1 .. velocity)
    BY <1>1, <2>3
  <2>. QED
    BY <1>1, <2>2, <2>4, RunIsFinite
<1>. QED
  BY <1>2, <1>3, <1>4, <1>5 DEF ChainInv

\* EXPIRE, by a check that then keeps the key.
LEMMA KeptByExtend ==
  ASSUME VelocityTypes, Extend, NEW k \in 1 .. Len(checkedAt),
         extendedAt'[k] = Open \/ extendedAt'[k] = now, velocity # 0
  PROVE  Keeps(k)'
<1>1. now \in Nat /\ velocityExpiry' = now + VelocityTtl
  BY DEF VelocityTypes, CheckTypes, Extend
<1>. QED
  BY <1>1, TtlIsPositive DEF Keeps, Open

LEMMA StepChain == VelocityTypes /\ ChainInv /\ [Next]_vars => ChainInv'
<1>. SUFFICES ASSUME VelocityTypes, ChainInv, [Next]_vars
              PROVE  ChainInv'
  OBVIOUS
<1>n. PICK n \in Nat : n = Len(checkedAt)
  BY DEF VelocityTypes, TimesInv
<1>0. /\ CheckTypes /\ n = Len(checkedAt) /\ n \in Nat /\ now \in Nat /\ now <= MaxNow
      /\ velocity \in Nat /\ velocityExpiry \in Nat
  BY <1>n DEF VelocityTypes, CheckTypes
<1>1. RunTo(n) <= RunTo(n)'
  BY <1>0, RunsGrow
<1>2. CASE Tick
  <2>1. /\ now' = now + 1 /\ UNCHANGED <<checkedAt, extendedAt, hurt>>
        /\ velocity' = IF velocityExpiry # 0 /\ velocityExpiry <= now' THEN 0 ELSE velocity
        /\ velocityExpiry' =
              IF velocityExpiry # 0 /\ velocityExpiry <= now' THEN 0 ELSE velocityExpiry
    BY <1>2 DEF Tick, EngineTick
  <2>2. velocityExpiry' # 0 => velocityExpiry' > now'
    BY <1>0, <2>1
  <2>3. ASSUME ~hurt', velocity' # 0
        PROVE  /\ \E k \in 1 .. Len(checkedAt') : Keeps(k)'
               /\ velocity' <= RunTo(n)'
    <3>1. velocity' = velocity /\ velocityExpiry' = velocityExpiry /\ velocity # 0 /\ ~hurt
      BY <2>1, <2>3
    <3>2. PICK k \in 1 .. n : Keeps(k)
      BY <1>0, <3>1 DEF ChainInv
    <3>3. Keeps(k)'
      BY <2>1, <3>1, <3>2 DEF Keeps, Open
    <3>4. velocity <= RunTo(n) /\ RunTo(n)' = RunTo(n)
      BY <1>0, <2>1, <3>1 DEF ChainInv, RunTo, Linked
    <3>. QED
      BY <1>0, <2>1, <3>1, <3>3, <3>4
  <2>. QED
    BY <1>0, <2>1, <2>2, <2>3 DEF ChainInv
<1>3. ASSUME NEW c \in Checks, Counts(c)  PROVE ChainInv'
  <2>1. /\ now' = now /\ velocity' = velocity + 1
        /\ Len(checkedAt') = n + 1 /\ checkedAt'[n + 1] = now /\ extendedAt'[n + 1] = Open
        /\ \A i \in 1 .. n : checkedAt'[i] = checkedAt[i] /\ extendedAt'[i] = extendedAt[i]
        /\ UNCHANGED <<velocityExpiry, hurt>>
    BY <1>0, <1>3, CountAdds
  <2>2. Keeps(n + 1)' /\ n + 1 \in 1 .. Len(checkedAt')
    BY <1>0, <2>1 DEF Keeps, Open
  <2>3. /\ IsFiniteSet(Run(n + 1)') /\ Cardinality(Run(n + 1)') \in Nat
        /\ RunTo(n + 1)' = Cardinality(Run(n + 1)')
    <3>1. n + 1 \in Nat
      BY <1>0
    <3>. QED
      BY <3>1, RunToPrimed
  <2>4. n + 1 \in Run(n + 1)'
    BY <1>0 DEF Run
  <2>5. ASSUME ~hurt
        PROVE  velocity + 1 <= Cardinality(Run(n + 1)')
    <3>1. CASE velocity = 0
      <4>1. Cardinality(Run(n + 1)') # 0
        BY <2>3, <2>4, FS_EmptySet
      <4>. QED
        BY <2>3, <3>1, <4>1
    <3>2. CASE velocity # 0
      <4>1. PICK k \in 1 .. n : Keeps(k)
        BY <1>0, <2>5, <3>2 DEF ChainInv
      <4>2. now - extendedAt[k] < VelocityTtl
        <5>1. extendedAt[k] \in Nat
          BY <1>0 DEF VelocityTypes, TimesInv
        <5>. QED
          BY <1>0, <4>1, <5>1, TtlIsPositive DEF Keeps, ChainInv, Open
      <4>3. Linked(n)'
        BY <1>0, <2>1, <4>2 DEF Linked
      <4>4. Run(n) \cup {n + 1} \subseteq Run(n + 1)'
        <5>1. ASSUME NEW h \in Run(n)  PROVE h \in Run(n + 1)'
          <6>1. h \in Run(n)'
            BY <1>0, RunsGrow
          <6>2. h \in 1 .. n /\ \A j \in h .. n - 1 : Linked(j)'
            BY <6>1 DEF Run
          <6>3. h \in 1 .. n + 1 /\ (n + 1) - 1 = n /\ h .. n = (h .. n - 1) \cup {n}
            BY <1>0, <6>2
          <6>4. \A j \in h .. (n + 1) - 1 : Linked(j)'
            BY <4>3, <6>2, <6>3
          <6>. QED
            BY <6>3, <6>4 DEF Run
        <5>. QED
          BY <2>4, <5>1
      <4>5. /\ IsFiniteSet(Run(n)) /\ Cardinality(Run(n)) \in Nat /\ RunTo(n) = Cardinality(Run(n))
        BY <1>0, RunIsFinite
      <4>6. n + 1 \notin Run(n)
        BY <1>0 DEF Run
      <4>7. Cardinality(Run(n) \cup {n + 1}) = Cardinality(Run(n)) + 1
        BY <4>5, <4>6, FS_AddElement
      <4>8. Cardinality(Run(n) \cup {n + 1}) <= Cardinality(Run(n + 1)')
        BY <2>3, <4>4, FS_Subset
      <4>9. velocity <= RunTo(n)
        BY <1>0, <2>5, <3>2 DEF ChainInv
      <4>. QED
        BY <1>0, <2>3, <4>5, <4>7, <4>8, <4>9
    <3>. QED
      BY <3>1, <3>2
  <2>6. velocityExpiry' # 0 => velocityExpiry' > now'
    BY <2>1 DEF ChainInv
  <2>7. ASSUME ~hurt'
        PROVE  velocity' <= RunTo(n + 1)'
    BY <1>0, <2>1, <2>3, <2>5, <2>7
  <2>. QED
    BY <1>0, <2>1, <2>2, <2>6, <2>7 DEF ChainInv
<1>4. ASSUME NEW c \in Checks, Extends(c)  PROVE ChainInv'
  <2>1. /\ now' = now /\ Extend /\ velocity' = velocity /\ hurt' = hurt /\ checkedAt' = checkedAt
        /\ place[c] \in 1 .. n /\ extendedAt'[place[c]] = now
    BY <1>0, <1>4, ExtendSets
  <2>2. velocityExpiry' # 0 => velocityExpiry' > now'
    <3>1. velocityExpiry # 0 => velocityExpiry > now
      BY DEF ChainInv
    <3>. QED
      BY <1>0, <2>1, <3>1, TtlIsPositive DEF Extend
  <2>3. velocity # 0 => \E k \in 1 .. n : Keeps(k)'
    <3>1. PICK k \in 1 .. Len(checkedAt) : k = place[c]
      BY <1>0, <2>1
    <3>. QED
      BY <1>0, <2>1, <3>1, KeptByExtend
  <2>4. ~hurt /\ velocity # 0 => velocity <= RunTo(n)'
    BY <1>0, <1>1, RunIsFinite, RunToPrimed DEF ChainInv
  <2>. QED
    BY <1>0, <2>1, <2>2, <2>3, <2>4 DEF ChainInv
<1>5. CASE Same /\ (Stays \/ GoesUp \/ Renewed \/ Hurts)
  <2>1. UNCHANGED <<now, checkedAt, extendedAt>>
    BY <1>5 DEF Same
  <2>2. velocityExpiry' # 0 => velocityExpiry' > now'
    BY <1>0, <1>5, <2>1, TtlIsPositive
    DEF Stays, GoesUp, Renewed, Hurts, Extend, ChainInv
  <2>3. RunTo(n)' = RunTo(n)
    BY <2>1 DEF RunTo, Linked
  <2>4. CASE hurt' = TRUE
    BY <2>2, <2>4 DEF ChainInv
  <2>5. CASE Stays
    <3>1. \A k \in 1 .. n : Keeps(k)' <=> Keeps(k)
      BY <2>1, <2>5 DEF Stays, Keeps, Open
    <3>. QED
      BY <1>0, <2>1, <2>2, <2>3, <2>5, <3>1 DEF Stays, ChainInv
  <2>6. CASE Renewed /\ hurt' = hurt /\ \E c \in Checks : stage[c] = "expire"
    <3>1. PICK c \in Checks : stage[c] = "expire"
      BY <2>6
    <3>2. place[c] \in 1 .. n /\ extendedAt[place[c]] = Open
      BY <1>0, <3>1 DEF VelocityTypes, PlacesInv
    <3>3. Extend /\ velocity' = velocity
      BY <2>6 DEF Renewed
    <3>4. velocity # 0 => \E k \in 1 .. n : Keeps(k)'
      <4>1. PICK k \in 1 .. Len(checkedAt) : k = place[c]
        BY <1>0, <3>2
      <4>2. extendedAt'[k] = Open
        BY <2>1, <3>2, <4>1
      <4>. QED
        BY <1>0, <3>3, <4>1, <4>2, KeptByExtend
    <3>. QED
      BY <1>0, <2>1, <2>2, <2>3, <2>6, <3>3, <3>4 DEF ChainInv
  <2>. QED
    BY <1>5, <2>4, <2>5, <2>6 DEF GoesUp, Renewed, Hurts
<1>. QED
  BY <1>0, <1>2, <1>3, <1>4, <1>5, VelocitySteps

VelocityInv == VelocityTypes /\ ChainInv

LEMMA InitVelocity == Init => VelocityInv
BY InitVelocityTypes, InitChain DEF VelocityInv

LEMMA StepVelocity == VelocityInv /\ [Next]_vars => VelocityInv'
BY StepVelocityTypes, StepChain DEF VelocityInv

\* The counter of the velocity rule counts no check outside the chain of checks, for as
\* long as the rule does not fail and no INCR is sent twice.
THEOREM CounterWithinChain == Spec => []CountedInAChain
<1>1. VelocityInv => CountedInAChain
  <2>. SUFFICES ASSUME VelocityInv, ~hurt
                PROVE  velocity <= Chain
    BY DEF CountedInAChain
  <2>. DEFINE n == Len(checkedAt)
  <2>1. /\ n \in Nat /\ now \in Nat /\ now <= MaxNow /\ velocity \in Nat /\ velocityExpiry \in Nat
    BY DEF VelocityInv, VelocityTypes, CheckTypes, TimesInv
  <2>2. /\ RunTo(n) \in Nat
    BY <2>1, RunIsFinite
  <2>3. CASE velocity = 0
    BY <2>1, <2>2, <2>3 DEF Chain
  <2>4. CASE velocity # 0
    <3>1. PICK k \in 1 .. n : Keeps(k)
      BY <2>4 DEF VelocityInv, ChainInv
    <3>2. extendedAt[k] \in Nat
      BY DEF VelocityInv, VelocityTypes, TimesInv
    <3>3. now - extendedAt[k] < VelocityTtl
      BY <2>1, <3>1, <3>2, TtlIsPositive DEF Keeps, VelocityInv, ChainInv, Open
    <3>. QED
      BY <2>4, <3>3 DEF Chain, VelocityInv, ChainInv
  <2>. QED
    BY <2>3, <2>4
<1>. QED
  BY <1>1, InitVelocity, StepVelocity, PTL DEF Spec

-----------------------------------------------------------------------------
(* The score                                                               *)

\* The rules that look at nothing of the sender's cannot block a payment between
\* them: 10 + 15 + 5 + 20 is less than 60.
THEOREM OthersCannotBlock ==
    \A S \in SUBSET Rules :
        Blocks(ScoreToAction(Score(S))) => "velocity" \in S \/ "amountAnomaly" \in S
BY DEF Blocks, ScoreToAction, Score, Points, Capped, Rules

\* An amount far beyond the average of n amounts, it being one of them, needs six:
\* the sum is at least the amount itself.
THEOREM SixAmountsAtLeast ==
  ASSUME NEW a \in Nat \ {0}, NEW total \in Nat, NEW n \in Nat,
         total >= a, IsAnomaly(a, total, n)
  PROVE  n >= 6
<1>. SUFFICES ASSUME n <= 5
              PROVE  FALSE
  OBVIOUS
<1>1. a * n <= a * 5
  OBVIOUS
<1>. QED
  BY <1>1 DEF IsAnomaly

-----------------------------------------------------------------------------
(* Types of the engine                                                     *)

EngineTypes ==
    /\ stage \in [Checks -> Stages]
    /\ amount \in [Checks -> Amounts \cup {0}]
    /\ signals \in [Checks -> SUBSET Rules]
    /\ verdict \in [Checks -> Actions]
    /\ IsRecord(amounts)
    /\ Len(amounts) <= KeptAmounts + Cardinality(Untrimmed)

LEMMA UntrimmedAreFinite ==
  ASSUME NEW S \in SUBSET Checks
  PROVE  IsFiniteSet(S) /\ Cardinality(S) \in Nat
<1>1. IsFiniteSet(Checks)
  BY ChecksAreRequests, RequestsAreFinite, FS_Subset
<1>. QED
  BY <1>1, FS_Subset, FS_CardinalityType

LEMMA InitEngine == Init => EngineTypes
<1>. SUFFICES ASSUME Init
              PROVE  EngineTypes
  OBVIOUS
<1>1. IsRecord(amounts) /\ Len(amounts) <= KeptAmounts /\ Len(amounts) \in Nat
  BY KnownAreAmounts, DistinctIsInjective DEF Init, EngineInit, IsRecord
<1>2. Cardinality(Untrimmed) \in Nat
  BY UntrimmedAreFinite DEF Untrimmed
<1>3. Len(amounts) <= KeptAmounts + Cardinality(Untrimmed)
  BY <1>1, <1>2, KeptIsNumber
<1>. QED
  BY <1>1, <1>3 DEF Init, EngineInit, EngineTypes, Actions, Stages

\* Whatever the score, there is an action for it.
LEMMA ScoreHasAction ==
  ASSUME NEW S \in SUBSET Rules
  PROVE  ScoreToAction(Score(S)) \in {"approve", "review", "challenge", "decline"}
<1>1. Score(S) \in Nat
  BY DEF Score, Points, Capped
<1>. HIDE DEF Score
<1>. QED
  BY <1>1 DEF ScoreToAction

\* An amount that is recorded is one of the amounts the checks are about.
LEMMA AmountIsNumber ==
  ASSUME EngineTypes, NEW c \in Checks
  PROVE  amount[c] \in Nat
<1>1. amount[c] \in Amounts \cup {0}
  BY Zenon DEF EngineTypes
<1>2. Amounts \subseteq Nat /\ 0 \in Nat
  BY AmountsAreNumber
<1>. QED
  BY <1>1, <1>2, Zenon

\* What a step may do to the amounts: nothing, one more, or a trim.
Adds(c) == amounts' = WithAmount(amount[c])
Trims == amounts' = LastFew(amounts)

\* The record stays one; it is trimmed, or not more beyond KeptAmounts than before.
LEMMA RecordStays ==
  ASSUME EngineTypes, NEW c \in Checks, Adds(c) \/ Trims \/ UNCHANGED amounts
  PROVE  /\ IsRecord(amounts')
         /\ Len(amounts) \in Nat /\ Len(amounts') \in Nat
         /\ Adds(c) => Len(amounts') <= Len(amounts) + 1
         /\ Trims => Len(amounts') <= KeptAmounts
<1>1. IsRecord(amounts) /\ Len(amounts) \in Nat
  BY DEF EngineTypes, IsRecord
<1>2. CASE Adds(c)
  <2>1. /\ IsRecord(WithAmount(amount[c]))
        /\ Len(WithAmount(amount[c])) \in {Len(amounts), Len(amounts) + 1}
    BY <1>1, AmountIsNumber, Recorded, Zenon
  <2>2. IsRecord(amounts') /\ Len(amounts') \in {Len(amounts), Len(amounts) + 1}
    BY <1>2, <2>1, Zenon DEF Adds
  <2>3. Trims => Len(amounts') <= KeptAmounts
    <3>1. Len(LastFew(amounts)) = IF Len(amounts) > KeptAmounts THEN KeptAmounts ELSE Len(amounts)
      BY <1>1, Trimmed, Zenon
    <3>. QED
      BY <1>1, <3>1, KeptIsNumber DEF Trims
  <2>. QED
    BY <1>1, <2>2, <2>3
<1>3. CASE ~Adds(c)
  <2>1. /\ IsRecord(LastFew(amounts))
        /\ Len(LastFew(amounts)) = IF Len(amounts) > KeptAmounts THEN KeptAmounts ELSE Len(amounts)
    BY <1>1, Trimmed, Zenon
  <2>2. IsRecord(amounts') /\ (Trims => Len(amounts') = Len(LastFew(amounts)))
    BY <1>1, <1>3, <2>1, Zenon DEF Trims
  <2>3. Len(amounts') \in Nat
    BY <2>2 DEF IsRecord
  <2>. QED
    BY <1>1, <1>3, <2>1, <2>2, <2>3, KeptIsNumber
<1>. QED
  BY <1>2, <1>3

\* Whoever may not have trimmed goes on being one who may not.
LEMMA UntrimmedBound ==
  ASSUME EngineTypes, Len(amounts') \in Nat, NEW U \in SUBSET Checks, Untrimmed \subseteq U,
         \/ Len(amounts') <= Len(amounts)
         \/ Len(amounts') <= KeptAmounts
         \/ Len(amounts') <= Len(amounts) + 1 /\ \E c \in U : c \notin Untrimmed
  PROVE  Len(amounts') <= KeptAmounts + Cardinality(U)
<1>1. /\ Untrimmed \in SUBSET Checks /\ Len(amounts) \in Nat /\ KeptAmounts \in Nat
      /\ Len(amounts) <= KeptAmounts + Cardinality(Untrimmed)
  BY KeptIsNumber DEF Untrimmed, EngineTypes, IsRecord
<1>2. /\ IsFiniteSet(U) /\ Cardinality(U) \in Nat
      /\ IsFiniteSet(Untrimmed) /\ Cardinality(Untrimmed) \in Nat
  BY <1>1, UntrimmedAreFinite
<1>3. Cardinality(Untrimmed) <= Cardinality(U)
  BY <1>2, FS_Subset
<1>4. ASSUME NEW c \in U, c \notin Untrimmed
      PROVE  Cardinality(Untrimmed) + 1 <= Cardinality(U)
  <2>1. Cardinality(Untrimmed \cup {c}) = Cardinality(Untrimmed) + 1
    BY <1>2, <1>4, FS_AddElement
  <2>2. Untrimmed \cup {c} \subseteq U
    BY <1>4
  <2>3. Cardinality(Untrimmed \cup {c}) <= Cardinality(U)
    BY <1>2, <2>2, FS_Subset
  <2>. QED
    BY <2>1, <2>3
<1>. QED
  BY <1>1, <1>2, <1>3, <1>4

LEMMA StepEngine == EngineTypes /\ [Next]_vars => EngineTypes'
<1>. SUFFICES ASSUME EngineTypes, [Next]_vars
              PROVE  EngineTypes'
  OBVIOUS
<1>. DEFINE Simple == /\ stage' \in [Checks -> Stages]
                      /\ amount' \in [Checks -> Amounts \cup {0}]
                      /\ signals' \in [Checks -> SUBSET Rules]
                      /\ verdict' \in [Checks -> Actions]
<1>0. Untrimmed' \in SUBSET Checks /\ Len(amounts) \in Nat
  BY DEF Untrimmed, EngineTypes, IsRecord
\* A step that leaves the amounts and takes nobody out of Untrimmed.
<1>1. ASSUME Simple, amounts' = amounts, Untrimmed \subseteq Untrimmed'
      PROVE  EngineTypes'
  <2>1. Len(amounts') <= KeptAmounts + Cardinality(Untrimmed')
    BY <1>0, <1>1, UntrimmedBound
  <2>. QED
    BY <1>1, <2>1 DEF EngineTypes, Untrimmed
<1>2. CASE Tick
  <2>1. UNCHANGED <<stage, amount, signals, verdict, amounts>>
    BY <1>2 DEF Tick, EngineTick
  <2>. QED
    BY <2>1 DEF EngineTypes, Untrimmed
<1>3. CASE UNCHANGED <<now, engineVars>>
  BY <1>3 DEF engineVars, EngineTypes, Untrimmed
<1>4. ASSUME NEW c \in Checks, StartCheck(c)  PROVE EngineTypes'
  <2>1. PICK a \in Amounts, S \in Elsewhere :
           /\ amount' = [amount EXCEPT ![c] = a]
           /\ signals' = [signals EXCEPT ![c] =
                             S \cup (IF RoundFires(a) THEN {"roundAmount"} ELSE {})]
    BY <1>4 DEF StartCheck
  <2>2. S \in SUBSET Rules
    BY RulesElsewhere DEF Rules
  <2>3. Simple
    BY <1>4, <2>1, <2>2 DEF StartCheck, At, EngineTypes, Rules, Stages
  <2>4. amounts' = amounts /\ Untrimmed \subseteq Untrimmed'
    BY <1>4 DEF StartCheck, At, EngineTypes, Untrimmed
  <2>. QED
    BY <1>1, <2>3, <2>4
<1>5. ASSUME NEW c \in Checks, CountCheck(c) \/ ExtendVelocity(c) \/ RepeatVelocity(c)
      PROVE  EngineTypes'
  <2>1. Simple
    BY <1>5 DEF CountCheck, ExtendVelocity, RepeatVelocity, At, EngineTypes, Rules, Stages
  <2>2. amounts' = amounts /\ Untrimmed \subseteq Untrimmed'
    BY <1>5 DEF CountCheck, ExtendVelocity, RepeatVelocity, At, EngineTypes, Untrimmed
  <2>. QED
    BY <1>1, <2>1, <2>2
<1>6. ASSUME NEW c \in Checks, FailVelocity(c)  PROVE EngineTypes'
  <2>1. Simple
    BY <1>6 DEF FailVelocity, Fails, At, EngineTypes, Actions, Stages
  <2>2. amounts' = amounts /\ Untrimmed \subseteq Untrimmed'
    BY <1>6 DEF FailVelocity, Fails, At, EngineTypes, Untrimmed
  <2>. QED
    BY <1>1, <2>1, <2>2
<1>7. ASSUME NEW c \in Checks, RecordAmount(c)  PROVE EngineTypes'
  <2>1. /\ stage[c] = "record" /\ stage' = [stage EXCEPT ![c] = "trim"] /\ Adds(c)
        /\ UNCHANGED <<amount, signals, verdict>>
    BY <1>7 DEF RecordAmount, At, Adds
  <2>2. IsRecord(amounts') /\ Len(amounts') \in Nat /\ Len(amounts') <= Len(amounts) + 1
    BY <2>1, RecordStays
  <2>3. c \in Untrimmed' /\ c \notin Untrimmed /\ Untrimmed \subseteq Untrimmed'
    BY <2>1 DEF Untrimmed, EngineTypes
  <2>4. Len(amounts') <= KeptAmounts + Cardinality(Untrimmed')
    BY <1>0, <2>2, <2>3, UntrimmedBound
  <2>. QED
    BY <2>1, <2>2, <2>4 DEF EngineTypes, Stages, Untrimmed
<1>8. ASSUME NEW c \in Checks, TrimAmounts(c)  PROVE EngineTypes'
  <2>1. /\ stage' = [stage EXCEPT ![c] = "judge"] /\ Trims
        /\ UNCHANGED <<amount, signals, verdict>>
    BY <1>8 DEF TrimAmounts, At, Trims
  <2>2. IsRecord(amounts') /\ Len(amounts') \in Nat /\ Len(amounts') <= KeptAmounts
    BY <1>8, <2>1, RecordStays
  <2>3. Cardinality(Untrimmed') \in Nat
    BY <1>0, UntrimmedAreFinite
  <2>4. Len(amounts') <= KeptAmounts + Cardinality(Untrimmed')
    BY <2>2, <2>3, KeptIsNumber
  <2>. QED
    BY <2>1, <2>2, <2>4 DEF EngineTypes, Stages, Untrimmed
<1>9. ASSUME NEW c \in Checks, Judge(c)  PROVE EngineTypes'
  <2>1. signals' \in [Checks -> SUBSET Rules]
    BY <1>9 DEF Judge, Rules, EngineTypes
  <2>2. ScoreToAction(Score(signals'[c])) \in Actions
    BY <2>1, ScoreHasAction DEF Actions
  <2>3. Simple
    BY <1>9, <2>1, <2>2 DEF Judge, At, EngineTypes, Stages
  <2>4. amounts' = amounts /\ Untrimmed \subseteq Untrimmed'
    BY <1>9 DEF Judge, At, EngineTypes, Untrimmed
  <2>. QED
    BY <1>1, <2>3, <2>4
<1>10. ASSUME NEW c \in Checks, FailAmount(c)  PROVE EngineTypes'
  <2>1. /\ stage' = [stage EXCEPT ![c] = "done"] /\ stage[c] # "done"
        /\ verdict' = [verdict EXCEPT ![c] = "error"] /\ UNCHANGED <<amount, signals>>
        /\ amounts' = amounts \/ (stage[c] = "record" /\ Adds(c)) \/ Trims
    BY <1>10 DEF FailAmount, Fails, At, Adds, Trims
  <2>2. /\ IsRecord(amounts') /\ Len(amounts') \in Nat
        /\ Adds(c) => Len(amounts') <= Len(amounts) + 1
        /\ Trims => Len(amounts') <= KeptAmounts
    BY <2>1, RecordStays
  <2>3. /\ c \in Untrimmed' /\ Untrimmed \subseteq Untrimmed'
        /\ stage[c] = "record" => c \notin Untrimmed
    BY <2>1 DEF Untrimmed, EngineTypes
  <2>4. Len(amounts') <= KeptAmounts + Cardinality(Untrimmed')
    <3>1. \/ Len(amounts') <= Len(amounts)
          \/ Len(amounts') <= KeptAmounts
          \/ Len(amounts') <= Len(amounts) + 1 /\ \E d \in Untrimmed' : d \notin Untrimmed
      BY <1>0, <2>1, <2>2, <2>3
    <3>. QED
      BY <1>0, <2>2, <2>3, <3>1, UntrimmedBound
  <2>5. Simple
    BY <2>1 DEF EngineTypes, Stages, Actions
  <2>. QED
    BY <2>2, <2>4, <2>5 DEF EngineTypes, Untrimmed
<1>. QED
  BY <1>2, <1>3, <1>4, <1>5, <1>6, <1>7, <1>8, <1>9, <1>10, ChecksHave DEF EngineStep

\* Every variable of the gateway and of the fraud engine keeps its type.  No amount is on
\* record twice, and there are more than KeptAmounts by no more than the checks that are
\* between ZADD and ZREMRANGEBYRANK or have failed there.
THEOREM ScreeningTypes == Spec => []TypeOK
<1>1. LimiterTypes /\ EngineTypes /\ VelocityTypes => TypeOK
  <2>. SUFFICES ASSUME LimiterTypes, EngineTypes, VelocityTypes
                PROVE  TypeOK
    OBVIOUS
  <2>1. IsInjective(amounts) /\ amounts \in Seq(Nat)
    BY DistinctIsInjective DEF EngineTypes, IsRecord
  <2>. DEFINE n == Len(checkedAt)
  <2>2. /\ checkedAt \in Seq(Nat) /\ extendedAt \in Seq(Nat) /\ now \in Nat
        /\ n \in Nat /\ Len(extendedAt) = n
        /\ \A i \in 1 .. n :
              checkedAt[i] <= now /\ (extendedAt[i] <= now \/ extendedAt[i] = Open)
    BY DEF VelocityTypes, CheckTypes, TimesInv
  <2>3. checkedAt \in Seq(0 .. now)
    <3>1. \A i \in 1 .. n : checkedAt[i] \in 0 .. now
      BY <2>2
    <3>. QED
      BY <2>2, <3>1
  <2>4. extendedAt \in Seq((0 .. now) \cup {Open})
    <3>1. \A i \in 1 .. Len(extendedAt) : extendedAt[i] \in (0 .. now) \cup {Open}
      BY <2>2
    <3>. QED
      BY <2>2, <3>1
  <2>5. place \in [Checks -> 0 .. n]
    BY <2>2 DEF VelocityTypes, PlacesInv
  <2>6. renewals \subseteq [at : 0 .. now, count : Nat \ {0}, counted : 0 .. n]
    <3>. SUFFICES ASSUME NEW e \in renewals
                  PROVE  e \in [at : 0 .. now, count : Nat \ {0}, counted : 0 .. n]
      OBVIOUS
    <3>1. /\ e \in [at : Nat, count : Nat \ {0}, counted : Nat]
          /\ e.at <= now /\ e.counted <= n
      BY DEF VelocityTypes, RenewalsInv
    <3>2. e = [at |-> e.at, count |-> e.count, counted |-> e.counted]
      BY <3>1
    <3>3. e.at \in 0 .. now /\ e.count \in Nat \ {0} /\ e.counted \in 0 .. n
      BY <2>2, <3>1
    <3>. QED
      BY <3>2, <3>3
  <2>7. EngineTypeOK
    BY <2>1, <2>2, <2>3, <2>4, <2>5, <2>6
    DEF EngineTypeOK, EngineTypes, VelocityTypes, CheckTypes, Stages
  <2>. QED
    BY <2>7 DEF TypeOK, LimiterTypes
<1>2. Init => LimiterTypes /\ EngineTypes /\ VelocityTypes
  BY InitLimiter, InitEngine, InitVelocityTypes
<1>3. LimiterTypes /\ EngineTypes /\ VelocityTypes /\ [Next]_vars
         => (LimiterTypes /\ EngineTypes /\ VelocityTypes)'
  BY StepLimiter, StepEngine, StepVelocityTypes
<1>. QED
  BY <1>1, <1>2, <1>3, PTL DEF Spec

-----------------------------------------------------------------------------
(* What a payment is blocked for                                           *)

\* A sum over a record is at least each of the amounts on it.
LEMMA SumOfRecord ==
  ASSUME NEW s \in Seq(Nat), NEW x, IsOn(s, x)
  PROVE  SumFunction(s) \in Nat /\ SumFunction(s) >= x
<1>1. PICK i \in 1 .. Len(s) : s[i] = x
  BY DEF IsOn
<1>2. SumFunction(s) = SumFunctionOnSet(s, 1 .. Len(s))
  <2>1. DOMAIN s = 1 .. Len(s)
    OBVIOUS
  <2>. QED
    BY <2>1, Zenon DEF SumFunction
<1>3. IsFiniteSet(1 .. Len(s)) /\ \A j \in 1 .. Len(s) : s[j] \in Nat
  <2>1. 1 \in Int /\ Len(s) \in Int /\ \A j \in 1 .. Len(s) : s[j] \in Nat
    OBVIOUS
  <2>. QED
    BY <2>1, FS_Interval, Zenon
<1>4. \A S \in SUBSET (1 .. Len(s)) :
         SumFunctionOnSet(s, S) \in Nat /\ \A j \in S : SumFunctionOnSet(s, S) >= s[j]
  BY <1>3, SumIsAtLeast, Zenon
<1>. QED
  BY <1>1, <1>2, <1>4, Zenon

\* The amounts only get more, but for what a trim takes of too many: what is there stays,
\* or there are as many as are kept.
GrowsFrom(new, old) ==
    /\ Len(new) >= Len(old) \/ Len(new) >= KeptAmounts
    /\ \A x : IsOn(old, x) => Len(new) >= KeptAmounts \/ IsOn(new, x)

LEMMA AmountsGrow ==
  ASSUME EngineTypes, NEW c \in Checks, Adds(c) \/ Trims \/ UNCHANGED amounts
  PROVE  GrowsFrom(amounts', amounts)
<1>1. IsRecord(amounts) /\ Len(amounts) \in Nat /\ KeptAmounts \in Nat
  BY KeptIsNumber DEF EngineTypes, IsRecord
<1>2. CASE Adds(c)
  <2>1. /\ Len(WithAmount(amount[c])) \in {Len(amounts), Len(amounts) + 1}
        /\ \A x : IsOn(amounts, x) => IsOn(WithAmount(amount[c]), x)
    BY <1>1, AmountIsNumber, Recorded, Zenon
  <2>2. /\ Len(amounts') \in {Len(amounts), Len(amounts) + 1}
        /\ \A x : IsOn(amounts, x) => IsOn(amounts', x)
    BY <1>2, <2>1, Zenon DEF Adds
  <2>3. Len(amounts') >= Len(amounts)
    BY <1>1, <2>2
  <2>. QED
    BY <2>2, <2>3, Zenon DEF GrowsFrom
<1>3. CASE Trims
  <2>1. /\ Len(LastFew(amounts)) = IF Len(amounts) > KeptAmounts THEN KeptAmounts ELSE Len(amounts)
        /\ Len(amounts) > KeptAmounts \/ LastFew(amounts) = amounts
    BY <1>1, Trimmed, Zenon
  <2>2. Len(amounts') >= KeptAmounts \/ amounts' = amounts
    BY <1>1, <1>3, <2>1 DEF Trims
  <2>. QED
    BY <1>1, <2>2 DEF GrowsFrom
<1>4. CASE UNCHANGED amounts
  BY <1>1, <1>4 DEF GrowsFrom
<1>. QED
  BY <1>2, <1>3, <1>4

\* The rules that look at the sender's record have each their reason: a place in a chain
\* of checks, or amounts on record.  A check judges after its own amount was recorded,
\* which is there still unless as many as are kept have come since.
FourthInChain(c) == place[c] # 0 /\ RunTo(place[c]) > 3

HasReason(c) ==
    /\ stage[c] # "idle" => amount[c] \in Amounts
    /\ stage[c] # "done" => verdict[c] \in {"none", "error"}
    /\ stage[c] \in {"trim", "judge"} => Len(amounts) >= KeptAmounts \/ IsOn(amounts, amount[c])
    /\ "velocity" \in signals[c] => FourthInChain(c) \/ hurt
    /\ "amountAnomaly" \in signals[c] => Len(amounts) >= 6
    /\ Blocks(verdict[c]) => "velocity" \in signals[c] \/ "amountAnomaly" \in signals[c]

RecordInv == \A c \in Checks : HasReason(c)

\* What stays of the reasons in any step: a place in a chain, a rule that was hurt.
LEMMA ReasonsStay ==
  ASSUME VelocityInv, EngineTypes, EngineTypes', KeptAmounts >= 6, [Next]_vars,
         GrowsFrom(amounts', amounts), NEW c \in Checks, place'[c] = place[c]
  PROVE  /\ FourthInChain(c) => FourthInChain(c)'
         /\ Len(amounts) >= 6 => Len(amounts') >= 6
         /\ Len(amounts) >= KeptAmounts => Len(amounts') >= KeptAmounts
<1>1. /\ Len(amounts) \in Nat /\ Len(amounts') \in Nat /\ KeptAmounts \in Nat
      /\ Len(amounts') >= Len(amounts) \/ Len(amounts') >= KeptAmounts
  BY KeptIsNumber DEF EngineTypes, IsRecord, GrowsFrom
<1>2. PICK i \in Nat : i = place[c] /\ i <= Len(checkedAt)
  BY DEF VelocityInv, VelocityTypes, PlacesInv
<1>3. RunTo(i) <= RunTo(i)' /\ RunTo(i) \in Nat /\ RunTo(i)' \in Nat
  BY <1>2, RunsGrow, RunIsFinite, RunToPrimed DEF VelocityInv
<1>4. FourthInChain(c) => FourthInChain(c)'
  BY <1>2, <1>3 DEF FourthInChain
<1>. QED
  BY <1>1, <1>4

\* A step that is none of c's own leaves it its reason.
LEMMA OthersKeepReason ==
  ASSUME VelocityInv, EngineTypes, EngineTypes', KeptAmounts >= 6, [Next]_vars,
         GrowsFrom(amounts', amounts), NEW c \in Checks, HasReason(c), hurt => hurt',
         stage'[c] = stage[c], amount'[c] = amount[c], signals'[c] = signals[c],
         verdict'[c] = verdict[c], place'[c] = place[c]
  PROVE  HasReason(c)'
<1>1. /\ FourthInChain(c) => FourthInChain(c)'
      /\ Len(amounts) >= 6 => Len(amounts') >= 6
      /\ Len(amounts) >= KeptAmounts => Len(amounts') >= KeptAmounts
  BY ReasonsStay
<1>2. \A x : IsOn(amounts, x) => Len(amounts') >= KeptAmounts \/ IsOn(amounts', x)
  BY Zenon DEF GrowsFrom
<1>3. Blocks(verdict'[c]) <=> Blocks(verdict[c])
  BY Zenon
<1>4. IsOn(amounts, amount[c])' <=> IsOn(amounts', amount'[c])
  BY DEF IsOn
<1>5. /\ stage'[c] # "idle" => amount'[c] \in Amounts
      /\ stage'[c] # "done" => verdict'[c] \in {"none", "error"}
      /\ stage'[c] \in {"trim", "judge"} =>
            Len(amounts') >= KeptAmounts \/ IsOn(amounts', amount'[c])
      /\ "velocity" \in signals'[c] => FourthInChain(c)' \/ hurt'
      /\ "amountAnomaly" \in signals'[c] => Len(amounts') >= 6
      /\ Blocks(verdict'[c]) => "velocity" \in signals'[c] \/ "amountAnomaly" \in signals'[c]
  BY <1>1, <1>2, <1>3, Zenon DEF HasReason
<1>. QED
  BY <1>4, <1>5, Zenon DEF HasReason, Blocks

\* A check's own steps: each signal comes with its reason, and the verdict with them.
LEMMA OwnSteps ==
  ASSUME EngineTypes, VelocityInv, VelocityInv', RecordInv, KeptAmounts >= 6, [Next]_vars,
         EngineTypes', NEW c \in Checks, UNCHANGED now,
         StartCheck(c) \/ EngineStep(c)
  PROVE  HasReason(c)'
<1>0. /\ HasReason(c) /\ KeptAmounts \in Nat /\ VelocityTypes
      /\ Len(amounts) \in Nat /\ Len(amounts') \in Nat
      /\ stage \in [Checks -> Stages] /\ signals \in [Checks -> SUBSET Rules]
      /\ verdict \in [Checks -> Actions] /\ amount \in [Checks -> Amounts \cup {0}]
  BY KeptIsNumber DEF RecordInv, EngineTypes, VelocityInv, IsRecord
<1>k. ASSUME GrowsFrom(amounts', amounts), place'[c] = place[c]
      PROVE  /\ FourthInChain(c) => FourthInChain(c)'
             /\ Len(amounts) >= 6 => Len(amounts') >= 6
             /\ Len(amounts) >= KeptAmounts => Len(amounts') >= KeptAmounts
  BY <1>k, ReasonsStay
<1>s. UNCHANGED amounts => GrowsFrom(amounts', amounts)
  BY AmountsGrow
\* A step to a stage before the judgement that changes no amount and no signal.
<1>u. ASSUME stage'[c] \in {"expire", "record"}, stage[c] # "idle", stage[c] # "done",
             UNCHANGED <<amount, amounts, signals, place>>, hurt => hurt',
             verdict'[c] = verdict[c] \/ verdict'[c] = "error"
      PROVE  HasReason(c)'
  <2>1. FourthInChain(c) => FourthInChain(c)'
    BY <1>k, <1>s, <1>u
  <2>. QED
    BY <1>0, <1>u, <2>1 DEF HasReason, Blocks
<1>1. CASE StartCheck(c)
  <2>1. PICK a \in Amounts, S \in Elsewhere :
           /\ amount' = [amount EXCEPT ![c] = a]
           /\ signals' = [signals EXCEPT ![c] =
                             S \cup (IF RoundFires(a) THEN {"roundAmount"} ELSE {})]
    BY <1>1 DEF StartCheck
  <2>2. amount'[c] \in Amounts /\ "velocity" \notin signals'[c] /\ "amountAnomaly" \notin signals'[c]
    BY <1>0, <2>1, RulesElsewhere
  <2>3. /\ stage'[c] = "incr" /\ verdict' = verdict /\ stage[c] = "idle"
    BY <1>0, <1>1 DEF StartCheck, At
  <2>4. verdict[c] \in {"none", "error"} /\ ~Blocks(verdict[c])
    BY <1>0, <2>3 DEF HasReason, Blocks
  <2>. QED
    BY <2>2, <2>3, <2>4 DEF HasReason
<1>2. CASE CountCheck(c)
  <2>1. /\ stage[c] = "incr" /\ stage'[c] = "expire" /\ amount' = amount
        /\ verdict' = verdict /\ amounts' = amounts /\ hurt' = hurt
        /\ signals'[c] = signals[c] \cup (IF VelocityFires(velocity + 1) THEN {"velocity"} ELSE {})
    BY <1>0, <1>2 DEF CountCheck, At
  <2>2. /\ velocity' = velocity + 1 /\ place'[c] = Len(checkedAt) + 1
        /\ Len(checkedAt') = Len(checkedAt) + 1 /\ Len(checkedAt) \in Nat /\ velocity \in Nat
    <3>1. Counts(c) /\ velocity \in Nat
      BY <1>0, <1>2 DEF Counts, VelocityTypes, CheckTypes
    <3>. QED
      BY <1>0, <3>1, CountAdds
  <2>3. VelocityFires(velocity + 1) => FourthInChain(c)' \/ hurt'
    <3>. SUFFICES ASSUME velocity + 1 > 3, ~hurt'
                  PROVE  FourthInChain(c)'
      BY DEF VelocityFires
    <3>1. velocity' <= RunTo(Len(checkedAt))' /\ velocity' # 0
      BY <2>2 DEF VelocityInv, ChainInv
    <3>2. PICK i \in Nat : i = Len(checkedAt')
      BY <2>2
    <3>3. velocity' <= RunTo(i)'
      BY <3>1, <3>2
    <3>4. RunTo(i)' \in Nat
      BY <3>2, RunIsFinite, RunToPrimed
    <3>. QED
      BY <2>2, <3>2, <3>3, <3>4 DEF FourthInChain
  <2>4. "velocity" \in signals[c] => hurt
    <3>1. place[c] = 0
      BY <1>0, <2>1 DEF VelocityTypes, PlacesInv
    <3>. QED
      BY <1>0, <3>1 DEF HasReason, FourthInChain
  <2>5. verdict'[c] \in {"none", "error"} /\ ~Blocks(verdict'[c])
    BY <1>0, <2>1 DEF HasReason, Blocks
  <2>. QED
    BY <1>0, <2>1, <2>3, <2>4, <2>5 DEF HasReason
<1>3. CASE ExtendVelocity(c)
  BY <1>0, <1>3, <1>u DEF ExtendVelocity, At
<1>4. CASE FailVelocity(c)
  BY <1>0, <1>4, <1>u DEF FailVelocity, Fails, At
<1>5. CASE RepeatVelocity(c)
  <2>1. /\ stage' = stage /\ verdict' = verdict /\ stage[c] \in {"incr", "expire"}
        /\ UNCHANGED <<amount, amounts, signals, place>> /\ (hurt => hurt')
    BY <1>5 DEF RepeatVelocity
  <2>2. FourthInChain(c) => FourthInChain(c)'
    BY <1>k, <1>s, <2>1
  <2>. QED
    BY <1>0, <2>1, <2>2 DEF HasReason, Blocks
<1>6. CASE RecordAmount(c)
  <2>1. /\ stage[c] = "record" /\ stage'[c] = "trim" /\ amount' = amount
        /\ signals' = signals /\ verdict' = verdict /\ hurt' = hurt /\ place' = place
        /\ Adds(c)
    BY <1>0, <1>6 DEF RecordAmount, At, Adds, counting
  <2>2. IsOn(amounts', amount[c])
    BY <2>1, AmountIsNumber, Recorded DEF EngineTypes, Adds
  <2>3. /\ FourthInChain(c) => FourthInChain(c)'
        /\ Len(amounts) >= 6 => Len(amounts') >= 6
    BY <1>k, <2>1, AmountsGrow
  <2>4. verdict[c] \in {"none", "error"} /\ ~Blocks(verdict[c])
    BY <1>0, <2>1 DEF HasReason, Blocks
  <2>. QED
    BY <1>0, <2>1, <2>2, <2>3, <2>4 DEF HasReason, IsOn
<1>7. CASE TrimAmounts(c)
  <2>1. /\ stage[c] = "trim" /\ stage'[c] = "judge" /\ amount' = amount
        /\ signals' = signals /\ verdict' = verdict /\ hurt' = hurt /\ place' = place
        /\ Trims
    BY <1>0, <1>7 DEF TrimAmounts, At, Trims, counting
  <2>2. GrowsFrom(amounts', amounts)
    BY <2>1, AmountsGrow
  <2>3. /\ FourthInChain(c) => FourthInChain(c)'
        /\ Len(amounts) >= 6 => Len(amounts') >= 6
        /\ Len(amounts) >= KeptAmounts => Len(amounts') >= KeptAmounts
    BY <1>k, <2>1, <2>2
  <2>4. Len(amounts') >= KeptAmounts \/ IsOn(amounts', amount[c])
    BY <1>0, <2>1, <2>2, <2>3 DEF HasReason, GrowsFrom
  <2>5. verdict[c] \in {"none", "error"} /\ ~Blocks(verdict[c])
    BY <1>0, <2>1 DEF HasReason, Blocks
  <2>. QED
    BY <1>0, <2>1, <2>3, <2>4, <2>5 DEF HasReason, IsOn
<1>8. CASE Judge(c)
  <2>1. /\ stage[c] = "judge" /\ stage'[c] = "done" /\ amount' = amount
        /\ hurt' = hurt /\ place' = place /\ amounts' = amounts
        /\ signals'[c] = signals[c] \cup (IF AmountFires(c) THEN {"amountAnomaly"} ELSE {})
        /\ verdict'[c] = IF verdict[c] = "error" THEN "error" ELSE ScoreToAction(Score(signals'[c]))
    BY <1>0, <1>8 DEF Judge, At, counting
  <2>2. AmountFires(c) => Len(amounts) >= 6
    <3>1. CASE Len(amounts) >= KeptAmounts
      BY <1>0, <3>1
    <3>2. CASE IsOn(amounts, amount[c])
      <4>1. SumFunction(amounts) \in Nat /\ SumFunction(amounts) >= amount[c]
        BY <3>2, SumOfRecord DEF EngineTypes, IsRecord
      <4>2. amount[c] \in Nat \ {0}
        BY <1>0, <2>1, AmountsAreNumber DEF HasReason
      <4>. QED
        BY <1>0, <4>1, <4>2, SixAmountsAtLeast DEF AmountFires
    <3>. QED
      BY <1>0, <2>1, <3>1, <3>2 DEF HasReason
  <2>3. signals'[c] \in SUBSET Rules
    BY DEF EngineTypes
  <2>4. Blocks(verdict'[c]) => "velocity" \in signals'[c] \/ "amountAnomaly" \in signals'[c]
    BY <2>1, <2>3, OthersCannotBlock DEF Blocks
  <2>5. FourthInChain(c) => FourthInChain(c)'
    BY <1>k, <1>s, <2>1
  <2>. QED
    BY <1>0, <2>1, <2>2, <2>4, <2>5 DEF HasReason
<1>9. CASE FailAmount(c)
  <2>1. /\ stage'[c] = "done" /\ stage[c] # "idle" /\ verdict'[c] = "error" /\ amount' = amount
        /\ signals' = signals /\ hurt' = hurt /\ place' = place
        /\ Adds(c) \/ Trims \/ UNCHANGED amounts
    BY <1>0, <1>9 DEF FailAmount, Fails, At, Adds, Trims, counting
  <2>2. /\ FourthInChain(c) => FourthInChain(c)'
        /\ Len(amounts) >= 6 => Len(amounts') >= 6
    BY <1>k, <2>1, AmountsGrow
  <2>. QED
    BY <1>0, <2>1, <2>2 DEF HasReason, Blocks
<1>. QED
  BY <1>1, <1>2, <1>3, <1>4, <1>5, <1>6, <1>7, <1>8, <1>9 DEF EngineStep

LEMMA StepRecord ==
  ASSUME EngineTypes, VelocityInv, RecordInv, KeptAmounts >= 6, [Next]_vars
  PROVE  RecordInv'
<1>0. VelocityTypes /\ VelocityInv' /\ EngineTypes'
  BY StepVelocity, StepEngine DEF VelocityInv
<1>1. ASSUME UNCHANGED engineVars
      PROVE  RecordInv'
  BY <1>1 DEF engineVars, counting, RecordInv, HasReason, FourthInChain, RunTo, Linked, IsOn
<1>2. CASE Tick
  BY <1>2 DEF Tick, EngineTick, RecordInv, HasReason, FourthInChain, RunTo, Linked, IsOn
<1>3. ASSUME NEW d \in Checks, UNCHANGED now, StartCheck(d) \/ EngineStep(d), NEW c \in Checks
      PROVE  HasReason(c)'
  <2>1. CASE c = d
    BY <1>0, <1>3, <2>1, OwnSteps
  <2>2. CASE c # d
    <3>1. /\ stage'[c] = stage[c] /\ amount'[c] = amount[c]
          /\ signals'[c] = signals[c] /\ verdict'[c] = verdict[c] /\ place'[c] = place[c]
      BY <1>0, <1>3, <2>2
      DEF EngineTypes, VelocityTypes, PlacesInv, At, EngineStep, StartCheck, CountCheck,
          ExtendVelocity, FailVelocity, RepeatVelocity, Fails, RecordAmount, TrimAmounts,
          Judge, FailAmount, counting
    <3>2. hurt => hurt'
      BY <1>3
      DEF EngineStep, StartCheck, CountCheck, ExtendVelocity, FailVelocity, RepeatVelocity,
          RecordAmount, TrimAmounts, Judge, FailAmount
    <3>3. Adds(d) \/ Trims \/ UNCHANGED amounts
      BY <1>3
      DEF EngineStep, StartCheck, CountCheck, ExtendVelocity, FailVelocity, RepeatVelocity,
          RecordAmount, TrimAmounts, Judge, FailAmount, Adds, Trims
    <3>4. GrowsFrom(amounts', amounts)
      BY <1>3, <3>3, AmountsGrow
    <3>. QED
      BY <1>0, <3>1, <3>2, <3>4, OthersKeepReason, Zenon DEF RecordInv
  <2>. QED
    BY <2>1, <2>2
<1>. QED
  BY <1>1, <1>2, <1>3, ChecksHave DEF RecordInv

\* A payment is blocked for the sender's own record, and for no less: as the fourth check
\* of a chain, or with six amounts.  The code keeps twenty; fewer than six would not do.
THEOREM BlockedForReason ==
  ASSUME KeptAmounts >= 6
  PROVE  Spec => []BlockedForARecord
<1>. DEFINE Inv == EngineTypes /\ VelocityInv /\ RecordInv
<1>1. Init => Inv
  <2>1. Init => RecordInv
    BY DEF Init, EngineInit, RecordInv, HasReason, Blocks
  <2>2. Init => RecordInv /\ VelocityInv
    BY <2>1, InitVelocity
  <2>. QED
    BY <2>2, InitEngine
<1>2. Inv /\ [Next]_vars => Inv'
  BY StepEngine, StepVelocity, StepRecord
<1>3. Inv => BlockedForARecord
  BY DEF RecordInv, HasReason, FourthInChain, BlockedForARecord
<1>. QED
  BY <1>1, <1>2, <1>3, PTL DEF Spec

=============================================================================
