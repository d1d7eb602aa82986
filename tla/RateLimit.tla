------------------------------ MODULE RateLimit ------------------------------
(***************************************************************************)
(* packages/redis slidingWindowRateLimit and the gateway's middleware, for *)
(* the requests of one user.  The counter of a window is the Redis key     *)
(* ratelimit:<user>:<window>; INCR, PEXPIRE and PTTL are three awaits, and *)
(* requests interleave between them.                                       *)
(*                                                                         *)
(* Time is counted in ticks; a key with a TTL is gone when `now` reaches   *)
(* its expiry.  The gateway lets a request through when Redis fails.       *)
(***************************************************************************)
EXTENDS Clock, FiniteSets

CONSTANTS
    Requests,       \* requests of one user that reach the gateway
    Window,         \* config.rateLimitWindowMs, in ticks
    MaxRequests,    \* config.rateLimitMaxRequests
    MaxRedisFaults  \* bound: how often a Redis command fails or is resent

ASSUME WindowIsPositive == Window \in Nat \ {0}
ASSUME RequestsAreFinite == IsFiniteSet(Requests)
ASSUME LimitIsNumber == MaxRequests \in Nat
ASSUME FaultsAreCounted == MaxRedisFaults \in Nat

VARIABLES
    limit,          \* the await the request's middleware is at, or its verdict
    arrivedAt,      \* Date.now() when it came
    count,          \* the counter of each window, 0 when there is no key
    expiry,         \* when the key goes
    \* --- history
    late,           \* requests whose INCR came after their window had ended
    failedOpen,     \* requests let through because Redis failed
    resent          \* requests whose INCR was applied and then sent again

limiterVars == <<limit, arrivedAt, count, expiry, late, failedOpen, resent>>

Never == MaxNow + Window + 1            \* the expiry of a key without a TTL
Windows == 0 .. (MaxNow \div Window)
WindowOf(r) == arrivedAt[r] \div Window
Ends(w) == (w + 1) * Window

Verdicts == {"passed", "limited"}
Awaits == {"incr", "pexpire", "pttl"}

LimiterInit ==
    /\ limit = [r \in Requests |-> "idle"]
    /\ arrivedAt = [r \in Requests |-> 0]
    /\ count = [w \in Windows |-> 0]
    /\ expiry = [w \in Windows |-> Never]
    /\ late = {}
    /\ failedOpen = {}
    /\ resent = {}

-----------------------------------------------------------------------------
To(r, l) == limit' = [limit EXCEPT ![r] = l]

Arrive(r) ==
    /\ limit[r] = "idle"
    /\ To(r, "incr")
    /\ arrivedAt' = [arrivedAt EXCEPT ![r] = now]
    /\ UNCHANGED <<count, expiry, late, failedOpen, resent>>

\* A count beyond the limit is turned away, once PTTL has told for how long.
IsOver(n) == n > MaxRequests

\* INCR makes the key if it is not there, and then without a TTL.
Incremented(w) == count' = [count EXCEPT ![w] = @ + 1]

NotesLate(r) ==
    late' = IF now >= Ends(WindowOf(r)) THEN late \cup {r} ELSE late

SetsNone(n) == FALSE                    \* mutant: PEXPIRE is left out

\* PEXPIRE is left to the request that made the key.
SetsTtl(n) == n = 1

Increment(r) ==
    /\ limit[r] = "incr"
    /\ Incremented(WindowOf(r))
    /\ LET n == count[WindowOf(r)] + 1 IN
          To(r, IF SetsTtl(n) THEN "pexpire"
                ELSE IF IsOver(n) THEN "pttl" ELSE "passed")
    /\ NotesLate(r)
    /\ UNCHANGED <<arrivedAt, expiry, failedOpen, resent>>

TooShort == Window - 1                  \* mutant: a TTL that ends in the window

Ttl == Window

\* The key may have gone since: then PEXPIRE sets nothing.
Lives(w) ==
    expiry' = IF count[w] = 0 THEN expiry ELSE [expiry EXCEPT ![w] = now + Ttl]

SetTtl(r) ==
    /\ limit[r] = "pexpire"
    /\ Lives(WindowOf(r))
    /\ To(r, IF IsOver(1) THEN "pttl" ELSE "passed")
    /\ UNCHANGED <<arrivedAt, count, late, failedOpen, resent>>

TurnAway(r) ==
    /\ limit[r] = "pttl"
    /\ To(r, "limited")
    /\ UNCHANGED <<arrivedAt, count, expiry, late, failedOpen, resent>>

MayFail == Cardinality(failedOpen) + Cardinality(resent) < MaxRedisFaults

\* A command that throws, applied or not: the request passes.  It passes even
\* when it was over the limit and only PTTL failed.
FailOpen(r) ==
    /\ MayFail
    /\ limit[r] \in Awaits
    /\ To(r, "passed")
    /\ failedOpen' = failedOpen \cup {r}
    /\ \/ UNCHANGED <<count, expiry, late>>
       \/ limit[r] = "incr" /\ Incremented(WindowOf(r)) /\ NotesLate(r) /\ UNCHANGED expiry
       \/ limit[r] = "pexpire" /\ Lives(WindowOf(r)) /\ UNCHANGED <<count, late>>
    /\ UNCHANGED <<arrivedAt, resent>>

\* The answer to INCR is lost and ioredis sends it again: the counter goes up
\* twice for one request, and nobody may see it at 1.
IncrementResent(r) ==
    /\ MayFail
    /\ limit[r] = "incr"
    /\ r \notin resent
    /\ Incremented(WindowOf(r))
    /\ NotesLate(r)
    /\ resent' = resent \cup {r}
    /\ UNCHANGED <<limit, arrivedAt, expiry, failedOpen>>

\* Keys whose time has come are gone.
LimiterTick ==
    /\ count' = [w \in Windows |-> IF expiry[w] <= now' THEN 0 ELSE count[w]]
    /\ expiry' = [w \in Windows |-> IF expiry[w] <= now' THEN Never ELSE expiry[w]]
    /\ UNCHANGED <<limit, arrivedAt, late, failedOpen, resent>>

LimiterStep(r) ==
    Increment(r) \/ SetTtl(r) \/ TurnAway(r) \/ FailOpen(r) \/ IncrementResent(r)

-----------------------------------------------------------------------------
(* Properties                                                              *)

LimiterTypeOK ==
    /\ limit \in [Requests -> Awaits \cup Verdicts \cup {"idle"}]
    /\ arrivedAt \in [Requests -> 0 .. now]
    /\ count \in [Windows -> Nat]
    /\ expiry \in [Windows -> 0 .. Never]
    /\ late \subseteq Requests
    /\ failedOpen \subseteq Requests
    /\ resent \subseteq Requests

\* Requests that the limiter itself let through, in time.
Granted(w) ==
    {r \in Requests : /\ limit[r] = "passed" /\ r \notin failedOpen \cup late
                      /\ WindowOf(r) = w}

\* No more than MaxRequests pass in a window (100 per minute), however their
\* INCRs and PEXPIREs interleave: the key outlives its window.  Not counted are
\* those that Redis failed on and those whose INCR came after the window's end,
\* when the key may have gone and the count starts again.  Windows are aligned to
\* the clock and do not slide: a minute that spans two of them lets twice the
\* limit through (redis/client.ts:205).
LimitHolds == \A w \in Windows : Cardinality(Granted(w)) <= MaxRequests

\* A counter without a TTL is kept for ever.  There is one only while the
\* request that made it is about to set the TTL, or when Redis failed it or its
\* INCR was sent twice.
CountersWillGo ==
    \A w \in Windows :
        count[w] > 0 /\ expiry[w] = Never =>
            \E r \in Requests : /\ WindowOf(r) = w
                                /\ limit[r] = "pexpire" \/ r \in failedOpen \cup resent

=============================================================================
