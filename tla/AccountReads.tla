----------------------------- MODULE AccountReads -----------------------------
(***************************************************************************)
(* account-service: the history, the ledger, the statistics and the charts *)
(* of one account, read through Redis while payment-service commits        *)
(* payments and deletes the keys it knows of; and payment-service's own    *)
(* list of payments, which counts its rows in a query before the one that  *)
(* reads them, and each page of which the browser keeps for 10 seconds.    *)
(*                                                                         *)
(* What a query reads is a snapshot of the table; what is cached is what a *)
(* query has read, so an entry is a snapshot too, and a page is a slice of *)
(* one.  Transactions and ledger entries are listed in the same way, one   *)
(* row per payment and account; the chart of 7 days is cached and deleted  *)
(* as page 1 is, and the chart of another length as page 1 of another      *)
(* limit.  The statistics are put together from several queries.           *)
(*                                                                         *)
(* All readers of a behaviour want one view: readers of others use other   *)
(* keys, and do not meet them.  Those of payment-service's list are walks  *)
(* through it in one browser: other browsers have caches of their own.     *)
(***************************************************************************)
EXTENDS Naturals, FiniteSets

CONSTANTS
    Payments,       \* payments to or from the account
    Old,            \* the numbers, by age, of those made long ago
    Flagged,        \* those an administrator is shown, and may judge
    Readers,        \* requests for the view; a list is read page by page
    Limit,          \* rows on a page
    MaxReviews,     \* bound: how often an administrator judges a payment
    None

ASSUME OldOnesAreNumbered ==
    DOMAIN Old \subseteq Payments /\ \A p \in DOMAIN Old : Old[p] \in Nat \ {0}
ASSUME FlaggedArePayments == Flagged \subseteq Payments
ASSUME PaymentsAreFinite == IsFiniteSet(Payments)
ASSUME LimitIsPositive  == Limit \in Nat \ {0}
ASSUME ReviewsAreCounted == MaxReviews \in Nat

\* "usual" is a list with the default limit of 20, "other" one with any other,
\* "payments" is GET /payments without a filter.
Views == {"usual", "other", "payments", "stats"}
AllParts == {"rows", "count", "balance", "totals"}
Lists == {"usual", "other", "payments"}

\* What a payment has deleted: the keys of page 1 of the usual length and of the
\* statistics, and in the browser that sent or heard of it all of the list.
Deleted == {"usual", "stats", "payments"}

\* The queries behind a view.
Parts(v) == CASE v = "stats"    -> {"balance", "totals"}
              [] v = "payments" -> {"count", "rows"}
              [] OTHER          -> {"rows"}

VARIABLES
    view,           \* what the readers want
    created,        \* created_at: rank of the payment's BEGIN, 0 before it
    status,         \* "none" until COMMIT
    deleted,        \* payments that have deleted the view's keys
    reviews,        \* how often an administrator has judged one
    cache,          \* the entry of each page, or None
    \* --- readers
    step, page,
    toRead,         \* parts it has yet to read
    data,           \* what each query has read for this page
    \* --- history
    torn,           \* whether a payment was committed between its two queries
    unseen,         \* payments that were there when it asked for page 1, and
                    \* that it has not been shown yet
    hidden,         \* those of them that an old entry keeps from it
    since,          \* payments that deleted the key since it missed the cache
    excuse          \* of each entry: `since` of the reader that stored it

tableVars  == <<view, created, status, deleted, reviews>>
readerVars == <<step, page, toRead, data, torn, unseen, hidden>>
vars == <<tableVars, cache, readerVars, since, excuse>>

Committed == {p \in Payments : status[p] # "none"}

MaxPages == Cardinality(Payments) + 1   \* bound: no walk is longer
Pages == 1 .. MaxPages

NoData == [part \in AllParts |-> {}]

Init ==
    /\ view \in Views
    /\ created = [p \in Payments |-> IF p \in DOMAIN Old THEN Old[p] ELSE 0]
    /\ status = [p \in Payments |-> IF p \in DOMAIN Old THEN "completed" ELSE "none"]
    /\ deleted = DOMAIN Old
    /\ reviews = 0
    /\ cache = [n \in Pages |-> None]
    /\ step = [r \in Readers |-> "idle"]
    /\ page = [r \in Readers |-> 1]
    /\ toRead = [r \in Readers |-> {}]
    /\ data = [r \in Readers |-> NoData]
    /\ torn = [r \in Readers |-> FALSE]
    /\ unseen = [r \in Readers |-> {}]
    /\ hidden = [r \in Readers |-> {}]
    /\ since = [r \in Readers |-> {}]
    /\ excuse = [n \in Pages |-> {}]

\* Its rows have been counted, and not read.
HalfRead(r) == view = "payments" /\ toRead[r] = {"rows"}

\* The entries of these pages go.
Empty(N) ==
    /\ cache' = [n \in Pages |-> IF n \in N THEN None ELSE cache[n]]
    /\ excuse' = [n \in Pages |-> IF n \in N THEN {} ELSE excuse[n]]

-----------------------------------------------------------------------------
(* payment-service and the administrator                                   *)

\* created_at is now(): the time of BEGIN.
Begin(p) ==
    /\ created[p] = 0
    /\ created' = [created EXCEPT ![p] =
                      1 + Cardinality({q \in Payments : created[q] # 0})]
    /\ UNCHANGED <<view, status, deleted, reviews, cache, readerVars, since, excuse>>

Commit(p) ==
    /\ created[p] # 0
    /\ status[p] = "none"
    /\ status' = [status EXCEPT ![p] = "completed"]
    /\ torn' = [r \in Readers |-> torn[r] \/ HalfRead(r)]
    /\ UNCHANGED <<view, created, deleted, reviews, cache, step, page, toRead, data,
                   unseen, hidden, since, excuse>>

\* mutant: the keys are deleted before COMMIT
OnceBegun(p) == created[p] # 0

\* The keys are deleted once the payment is committed.
MayDelete(p) == status[p] # "none"

\* The pages a payment deletes: the key names the first, the browser's are all
\* invalidated at once.
Cleared == IF view = "payments" THEN Pages ELSE {1}

\* The DEL of this view's key: it may fail, and is not sent if an await before it
\* fails.  Or the answer to the payment, or word of it, reaches the browser.
DeleteKey(p) ==
    /\ view \in Deleted
    /\ p \notin deleted
    /\ MayDelete(p)
    /\ deleted' = deleted \cup {p}
    /\ Empty(Cleared)
    /\ since' = [r \in Readers |-> IF step[r] = "read" /\ page[r] \in Cleared
                                   THEN since[r] \cup {p} ELSE since[r]]
    /\ UNCHANGED <<view, created, status, reviews, readerVars>>

Judged(s) == IF s = "completed" THEN "failed" ELSE "completed"

\* POST /fraud/flagged/:id/block and .../approve: the row, and no cache.
Review(p) ==
    /\ reviews < MaxReviews
    /\ status[p] # "none"
    /\ status' = [status EXCEPT ![p] = Judged(@)]
    /\ reviews' = reviews + 1
    /\ UNCHANGED <<view, created, deleted, cache, readerVars, since, excuse>>

-----------------------------------------------------------------------------
(* Reading                                                                 *)

Rows == {<<p, status[p]>> : p \in Committed}
PaymentsIn(rows) == {x[1] : x \in rows}

\* What a query finds.  The one that counts looks at nothing but the rows' number.
Found(part) == IF part = "count" THEN {<<p, None>> : p \in Committed} ELSE Rows

\* mutant: account-service caches every page, and the DEL names the first
EveryPage(n) == TRUE

\* Redis has page 1 of a view, the browser every page of its list.
IsCached(n) == view = "payments" \/ n = 1

\* Place of a row, counted from the newest.
Place(p, S) == Cardinality({q \in S : created[q] >= created[p]})

Slice(S, n) == {p \in S : Place(p, S) > (n - 1) * Limit /\ Place(p, S) <= n * Limit}

HasMore(total, n) == n * Limit < total

\* Where the total comes from: COUNT over the same snapshot, or a query before.
Counted == IF view = "payments" THEN "count" ELSE "rows"

To(r, s) == step' = [step EXCEPT ![r] = s]

\* What the entry of a page lacks, and what it may lack: payments whose DEL has not
\* come, or came while the entry was read.
Lacked(n) == Committed \ PaymentsIn(cache[n]["rows"])
MayLack(n) == (Committed \ deleted) \cup excuse[n]

\* What there is when a reader of a list begins.
Begun(r) == IF view \in Lists /\ page[r] = 1 THEN Committed ELSE unseen[r]

\* What an entry keeps from it: of page 1, the payments that it lacks; of a later
\* page, whatever is to be shown yet, as rows may have moved past that page.
Keeps(n, r) == CASE n = 1 -> Lacked(1) \cap MayLack(1)
                 [] n # 1 /\ Lacked(n) \cap MayLack(n) # {} -> unseen[r]
                 [] OTHER -> {}

\* GET of the key, where there is one.
Hit(r) ==
    /\ step[r] = "idle"
    /\ IsCached(page[r])
    /\ cache[page[r]] # None
    /\ To(r, "hit")
    /\ data' = [data EXCEPT ![r] = cache[page[r]]]
    /\ torn' = [torn EXCEPT ![r] = PaymentsIn(cache[page[r]][Counted])
                                     # PaymentsIn(cache[page[r]]["rows"])]
    /\ unseen' = [unseen EXCEPT ![r] = Begun(r)]
    /\ hidden' = [hidden EXCEPT ![r] = @ \cup Keeps(page[r], r)]
    /\ UNCHANGED <<tableVars, cache, page, toRead, since, excuse>>

\* The browser asks once for a page: who else wants it waits for the answer.
Asked(n) == view = "payments" /\ \E q \in Readers : step[q] = "read" /\ page[q] = n

Miss(r) ==
    /\ step[r] = "idle"
    /\ IsCached(page[r]) => cache[page[r]] = None
    /\ ~Asked(page[r])
    /\ To(r, "read")
    /\ toRead' = [toRead EXCEPT ![r] = Parts(view)]
    /\ torn' = [torn EXCEPT ![r] = FALSE]
    /\ unseen' = [unseen EXCEPT ![r] = Begun(r)]
    /\ UNCHANGED <<tableVars, cache, page, data, hidden, since, excuse>>

\* One query, at its snapshot; the count comes first.
Read(r, part) ==
    /\ step[r] = "read"
    /\ part \in toRead[r]
    /\ part = "rows" => "count" \notin toRead[r]
    /\ data' = [data EXCEPT ![r][part] = Found(part)]
    /\ toRead' = [toRead EXCEPT ![r] = @ \ {part}]
    /\ UNCHANGED <<tableVars, cache, step, page, torn, unseen, hidden, since, excuse>>

\* What was read is given up, and the reader goes on to step s.
Leave(r, s) ==
    /\ To(r, s)
    /\ data' = [data EXCEPT ![r] = NoData]
    /\ since' = [since EXCEPT ![r] = {}]

\* The account turns out not to be the caller's: what was read is discarded.
Refuse(r) ==
    /\ view # "payments"
    /\ step[r] \in {"hit", "read"}
    /\ toRead[r] = {}
    /\ Leave(r, "done")
    /\ unseen' = [unseen EXCEPT ![r] = {}]
    /\ hidden' = [hidden EXCEPT ![r] = {}]
    /\ UNCHANGED <<tableVars, cache, page, toRead, torn, excuse>>

\* SETEX, if it gets through.  The list does not wait for it; what the reader
\* does next, though, has no part in its own entry.  The browser stores what it
\* gets; a client that keeps nothing is one whose entries expire at once.
Store(r) ==
    \/ /\ IsCached(page[r])
       /\ cache' = [cache EXCEPT ![page[r]] = data[r]]
       /\ excuse' = [excuse EXCEPT ![page[r]] = since[r]]
    \/ view # "payments" /\ UNCHANGED <<cache, excuse>>

\* The page is shown, and the next one asked for if there is one.
Show(r) ==
    LET S == PaymentsIn(data[r]["rows"])
        total == Cardinality(PaymentsIn(data[r][Counted]))
    IN
    /\ unseen' = [unseen EXCEPT ![r] = @ \ Slice(S, page[r])]
    /\ hidden' = [hidden EXCEPT ![r] = @ \ Slice(S, page[r])]
    /\ IF view \in Lists /\ HasMore(total, page[r])
       THEN Leave(r, "idle") /\ page' = [page EXCEPT ![r] = @ + 1]
       ELSE Leave(r, "done") /\ UNCHANGED page

AnswerFromCache(r) ==
    /\ step[r] = "hit"
    /\ Show(r)
    /\ UNCHANGED <<tableVars, cache, toRead, torn, excuse>>

AnswerFromTable(r) ==
    /\ step[r] = "read"
    /\ toRead[r] = {}
    /\ Store(r)
    /\ Show(r)
    /\ UNCHANGED <<tableVars, toRead, torn>>

\* mutant: SET, and not SETEX
NeverExpires(n) == FALSE

\* 5 seconds for a list, 60 for the statistics, 300 for a chart; 10 in the browser,
\* which then asks again before it goes by what it has.
Expires(n) == cache[n] # None

Expire(n) ==
    /\ Expires(n)
    /\ Empty({n})
    /\ UNCHANGED <<tableVars, readerVars, since>>

Reader(r) ==
    \/ Hit(r) \/ Miss(r) \/ Refuse(r)
    \/ \E part \in toRead[r] : Read(r, part)
    \/ AnswerFromCache(r) \/ AnswerFromTable(r)

Next ==
    \/ \E p \in Payments : Begin(p) \/ Commit(p) \/ DeleteKey(p)
    \/ \E p \in Flagged : Review(p)
    \/ \E r \in Readers : Reader(r)
    \/ \E n \in Pages : Expire(n)

Spec == Init /\ [][Next]_vars

\* While there are requests one goes on, and while there are entries the TTL of one
\* runs out.  Nothing else need happen: a payment may be rolled back, and its
\* process may die before the DELs.
FairSpec ==
    /\ Spec
    /\ WF_vars(\E r \in Readers : Reader(r))
    /\ WF_vars(\E n \in Pages : Expire(n))

-----------------------------------------------------------------------------
(* Properties                                                              *)

Entries == [AllParts -> SUBSET (Payments \X {"completed", "failed", None})]

TypeOK ==
    /\ view \in Views
    /\ created \in [Payments -> Nat]
    /\ status \in [Payments -> {"none", "completed", "failed"}]
    /\ deleted \subseteq Payments
    /\ reviews \in 0 .. MaxReviews
    /\ cache \in [Pages -> Entries \cup {None}]
    /\ step \in [Readers -> {"idle", "hit", "read", "done"}]
    /\ page \in [Readers -> Pages]
    /\ toRead \in [Readers -> SUBSET Parts(view)]
    /\ data \in [Readers -> Entries]
    /\ torn \in [Readers -> BOOLEAN]
    /\ unseen \in [Readers -> SUBSET Payments]
    /\ hidden \in [Readers -> SUBSET Payments]
    /\ since \in [Readers -> SUBSET Payments]
    /\ excuse \in [Pages -> SUBSET Payments]

\* A payment that has deleted a key is in every later entry of that key, in each
\* of its parts, but for the entries of readers that had missed the cache before
\* the DEL and stored what they had read after it.  For them the promise that
\* both sides "see the new transaction immediately" (payment.service.ts:261) is
\* not kept, until the TTL is over.  Likewise for what the browser keeps of the
\* list, each page of it.
StaleIsRaced ==
    \A n \in Pages : cache[n] # None =>
        \A p \in deleted, part \in Parts(view) :
            p \in PaymentsIn(cache[n][part]) \cup excuse[n]

\* A reader that goes from page to page while payments are made sees every
\* payment that was there when it asked for page 1: rows only move to later pages,
\* where they are met again.  An old entry may keep some from it, though, that
\* lacks a payment whose DEL has not come, or came while the entry was read: if of
\* page 1, that payment; if of a later page, which the browser alone has, any that
\* was to be shown yet.  And in payment-service's list it may miss one when a
\* payment is committed between the count and the rows of its last page
\* (payment.handler.ts:183): what is pushed off that page is on none.
WalkShowsAll ==
    \A r \in Readers :
        step[r] = "done" /\ view \in Lists => unseen[r] \subseteq hidden[r] \/ torn[r]

\* In the end no entry tells of another state than the table's, whatever keys
\* were never deleted: other limits, a review by an administrator, lost DELs.
StaleEntriesGo ==
    <>[](\A n \in Pages :
            \/ cache[n] = None
            \/ cache[n] = [part \in AllParts |-> IF part \in Parts(view) THEN Found(part) ELSE {}])

=============================================================================
