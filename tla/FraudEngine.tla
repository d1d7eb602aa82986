----------------------------- MODULE FraudEngine -----------------------------
(***************************************************************************)
(* fraud-service: POST /fraud/check for the payments of one sender.  Six   *)
(* rules run in parallel; the scores of those that fire are added up, and  *)
(* the sum decides.  Two rules keep state in Redis: how many checks the    *)
(* sender has had of late, and its last amounts.  Their commands are taken *)
(* in one order for each check, as they touch different keys.  The rules   *)
(* on the hour, on the age of the account and on the recipient depend on   *)
(* others, and may fire or not.                                            *)
(***************************************************************************)
EXTENDS Clock, Integers, Sequences, FiniteSets, SequencesExt

CONSTANTS
    Checks,         \* requests to POST /fraud/check, of one sender
    Amounts,        \* amounts a check may be about
    Known,          \* the amounts its earlier checks may have left
    Earlier,        \* how many checks it may have had just before
    Elsewhere,      \* which rules that look at others may fire together
    RoundAmounts,   \* SUSPICIOUS_AMOUNTS
    VelocityTtl,    \* 60 seconds, in ticks
    KeptAmounts,    \* how many amounts are kept: 20
    MaxRuleFaults   \* bound: checks that fail in a rule, and commands sent again

ASSUME RulesElsewhere   ==
    Elsewhere \subseteq SUBSET {"unusualHour", "newAccount", "recipientRisk"}
ASSUME KeptIsNumber     == KeptAmounts \in Nat
ASSUME KnownAreAmounts  ==
    \A s \in Known : s \in Seq(Nat) /\ IsInjective(s) /\ Len(s) <= KeptAmounts
ASSUME TtlIsPositive    == VelocityTtl \in Nat \ {0}
ASSUME EarlierIsNumber  == Earlier \subseteq Nat
ASSUME FaultsAreNumber  == MaxRuleFaults \in Nat
ASSUME AmountsAreNumber == Amounts \subseteq Nat \ {0} /\ RoundAmounts \subseteq Nat

VARIABLES
    stage,          \* the command a check is at
    amount,         \* what it is about
    signals,        \* the rules that have fired for it
    verdict,        \* the answer to payment-service
    velocity,       \* counter fraud:velocity:<account>, 0 when there is no key
    velocityExpiry, \* when it goes, 0 when nothing ends it
    amounts,        \* fraud:amounts:<account>, the oldest first
    \* --- history
    checkedAt,      \* times of the INCRs of the checks that were counted
    extendedAt,     \* of each, the time of its EXPIRE, or Open before it
    place,          \* which of these INCRs was the check's, 0 before it
    renewals,       \* EXPIREs that found the key: when, and the counts then
    hurt,           \* whether some check has failed in the velocity rule, or
                    \* has been counted twice
    repeated        \* how many commands were sent again

counting == <<velocity, velocityExpiry, checkedAt, extendedAt, place, renewals>>
engineVars == <<stage, amount, signals, verdict, amounts, counting, hurt, repeated>>

Open == MaxNow + 1

-----------------------------------------------------------------------------
(* Score and action                                                        *)

Rules == {"velocity", "amountAnomaly", "unusualHour", "newAccount",
          "roundAmount", "recipientRisk"}

Points(rule, S, n) == IF rule \in S THEN n ELSE 0

Capped(n) == IF n > 100 THEN 100 ELSE n

\* The sum of what the signals add, at most 100.
Score(S) ==
    Capped(Points("velocity", S, 25) + Points("amountAnomaly", S, 30)
         + Points("unusualHour", S, 10) + Points("newAccount", S, 15)
         + Points("roundAmount", S, 5) + Points("recipientRisk", S, 20))

ScoreToAction(score) ==
    CASE score < 30 -> "approve"
      [] score >= 30 /\ score < 60 -> "review"
      [] score >= 60 /\ score < 80 -> "challenge"
      [] score >= 80 -> "decline"

\* What payment-service makes of it.
Blocks(action) == action \in {"challenge", "decline"}

-----------------------------------------------------------------------------
EngineInit ==
    /\ stage = [c \in Checks |-> "idle"]
    /\ amount = [c \in Checks |-> 0]
    /\ signals = [c \in Checks |-> {}]
    /\ verdict = [c \in Checks |-> "none"]
    /\ velocity \in Earlier
    /\ velocityExpiry = IF velocity = 0 THEN 0 ELSE VelocityTtl
    /\ amounts \in Known
    /\ checkedAt = [i \in 1 .. velocity |-> 0]
    /\ extendedAt = checkedAt
    /\ place = [c \in Checks |-> 0]
    /\ renewals = IF velocity = 0 THEN {}
                  ELSE {[at |-> 0, count |-> velocity, counted |-> velocity]}
    /\ hurt = FALSE
    /\ repeated = 0

\* Faults are bounded: checks that fail, and commands sent again.
MayErr == Cardinality({c \in Checks : verdict[c] = "error"}) + repeated < MaxRuleFaults

At(c, l) == stage' = [stage EXCEPT ![c] = l]

RoundFires(a) == a \in RoundAmounts

\* The rules that look at nothing in Redis that is the sender's.
StartCheck(c) ==
    /\ stage[c] = "idle"
    /\ At(c, "incr")
    /\ \E a \in Amounts, S \in Elsewhere :
          /\ amount' = [amount EXCEPT ![c] = a]
          /\ signals' = [signals EXCEPT ![c] =
                            S \cup (IF RoundFires(a) THEN {"roundAmount"} ELSE {})]
    /\ UNCHANGED <<verdict, amounts, counting, hurt, repeated>>

-----------------------------------------------------------------------------
(* checkVelocity                                                           *)

VelocityFires(n) == n > 3

\* INCR; the count it answers is the one the rule will judge.
CountCheck(c) ==
    /\ stage[c] = "incr"
    /\ velocity' = velocity + 1
    /\ checkedAt' = Append(checkedAt, now)
    /\ extendedAt' = Append(extendedAt, Open)
    /\ place' = [place EXCEPT ![c] = Len(checkedAt) + 1]
    /\ signals' = [signals EXCEPT ![c] = @ \cup
                      (IF VelocityFires(velocity + 1) THEN {"velocity"} ELSE {})]
    /\ At(c, "expire")
    /\ UNCHANGED <<amount, verdict, velocityExpiry, amounts, renewals, hurt, repeated>>

\* mutant: EXPIRE for the first check only, as the rate limiter does
ExtendOnce ==
    velocityExpiry' = IF velocity = 1 THEN now + VelocityTtl ELSE velocityExpiry

\* mutant: milliseconds, where EXPIRE takes seconds
ExtendFarTooLong ==
    velocityExpiry' = IF velocity = 0 THEN velocityExpiry ELSE now + 1000 * VelocityTtl

\* EXPIRE: every check gives the key its 60 seconds again.  The key may have
\* gone since the INCR: then EXPIRE does nothing.
Extend ==
    velocityExpiry' = IF velocity = 0 THEN velocityExpiry ELSE now + VelocityTtl

NotesRenewal ==
    renewals' = IF velocity = 0 THEN renewals ELSE renewals \cup
                    {[at |-> now, count |-> velocity, counted |-> Len(checkedAt)]}

ExtendVelocity(c) ==
    /\ stage[c] = "expire"
    /\ Extend
    /\ NotesRenewal
    /\ extendedAt' = [extendedAt EXCEPT ![place[c]] = now]
    /\ At(c, "record")
    /\ UNCHANGED <<amount, signals, verdict, velocity, amounts, checkedAt, place,
                   hurt, repeated>>

\* The answer to INCR or EXPIRE is lost and ioredis sends it again: one check may
\* be counted twice.
RepeatVelocity(c) ==
    /\ MayErr
    /\ repeated' = repeated + 1
    /\ \/ stage[c] = "incr" /\ velocity' = velocity + 1 /\ hurt' = TRUE
          /\ UNCHANGED <<velocityExpiry, renewals>>
       \/ stage[c] = "expire" /\ Extend /\ NotesRenewal /\ UNCHANGED <<velocity, hurt>>
    /\ UNCHANGED <<stage, amount, signals, verdict, amounts, checkedAt, extendedAt, place>>

-----------------------------------------------------------------------------
(* checkAmountAnomaly                                                      *)

LastFew(s) == IF Len(s) > KeptAmounts
              THEN SubSeq(s, Len(s) - KeptAmounts + 1, Len(s)) ELSE s

\* A sorted set: an amount that is there already moves to the end.  The order of
\* the ZADDs is taken for that of the times they carry.
WithAmount(a) == RemoveFirst(amounts, a) \o <<a>>

\* ZADD.
RecordAmount(c) ==
    /\ stage[c] = "record"
    /\ amounts' = WithAmount(amount[c])
    /\ At(c, "trim")
    /\ UNCHANGED <<amount, signals, verdict, counting, hurt, repeated>>

\* ZREMRANGEBYRANK; until it comes, other checks see an amount too many.
TrimAmounts(c) ==
    /\ stage[c] = "trim"
    /\ amounts' = LastFew(amounts)
    /\ At(c, "judge")
    /\ UNCHANGED <<amount, signals, verdict, counting, hurt, repeated>>

\* mutant: the average leaves the new amount out
AverageOfOthers(a, total, n) == n >= 3 /\ a * (n - 1) > 5 * (total - a)

\* More than five times the average of n amounts, itself one of them.
IsAnomaly(a, total, n) == n >= 3 /\ a * n > 5 * total

AmountFires(c) == IsAnomaly(amount[c], SumFunction(amounts), Len(amounts))

\* ZRANGE, which may see the amounts of later checks, and more of them than are
\* kept; and with it the last rule has answered, and the check does.  (The EXPIRE
\* of 30 days before it ends nothing here.)
Judge(c) ==
    /\ stage[c] = "judge"
    /\ signals' = [signals EXCEPT ![c] = @ \cup
                      (IF AmountFires(c) THEN {"amountAnomaly"} ELSE {})]
    /\ verdict' = [verdict EXCEPT ![c] =
                      IF @ = "error" THEN @ ELSE ScoreToAction(Score(signals'[c]))]
    /\ At(c, "done")
    /\ UNCHANGED <<amount, amounts, counting, hurt, repeated>>

-----------------------------------------------------------------------------
(* One rule fails and with it the check, which payment-service takes for   *)
(* an approval.  The other rules go on, and what they write stays.  The    *)
(* command that failed may have been applied.                              *)

Fails(c) ==
    /\ MayErr
    /\ verdict' = [verdict EXCEPT ![c] = "error"]

FailVelocity(c) ==
    /\ stage[c] \in {"incr", "expire"}
    /\ Fails(c)
    /\ At(c, "record")
    /\ hurt' = TRUE
    /\ \/ UNCHANGED <<velocity, velocityExpiry, renewals>>
       \/ stage[c] = "incr" /\ velocity' = velocity + 1
          /\ UNCHANGED <<velocityExpiry, renewals>>
       \/ stage[c] = "expire" /\ Extend /\ NotesRenewal /\ UNCHANGED velocity
    /\ UNCHANGED <<amount, signals, amounts, checkedAt, extendedAt, place, repeated>>

FailAmount(c) ==
    /\ stage[c] \in {"record", "trim", "judge"}
    /\ Fails(c)
    /\ At(c, "done")
    /\ \/ UNCHANGED amounts
       \/ stage[c] = "record" /\ amounts' = WithAmount(amount[c])
       \/ stage[c] = "trim" /\ amounts' = LastFew(amounts)
    /\ UNCHANGED <<amount, signals, counting, hurt, repeated>>

\* Time passes wherever the checks are: the key may go between the INCR and the
\* EXPIRE of one.
EngineTick ==
    /\ velocity' = IF velocityExpiry # 0 /\ velocityExpiry <= now' THEN 0 ELSE velocity
    /\ velocityExpiry' =
          IF velocityExpiry # 0 /\ velocityExpiry <= now' THEN 0 ELSE velocityExpiry
    /\ UNCHANGED <<stage, amount, signals, verdict, amounts, checkedAt, extendedAt,
                   place, renewals, hurt, repeated>>

EngineStep(c) ==
    \/ CountCheck(c) \/ ExtendVelocity(c) \/ FailVelocity(c) \/ RepeatVelocity(c)
    \/ RecordAmount(c) \/ TrimAmounts(c) \/ Judge(c) \/ FailAmount(c)

-----------------------------------------------------------------------------
(* Properties                                                              *)

Actions == {"none", "approve", "review", "challenge", "decline", "error"}

\* Checks that have added an amount and not trimmed the set, or may have failed to.
Untrimmed ==
    {c \in Checks : stage[c] = "trim" \/ (stage[c] = "done" /\ verdict[c] = "error")}

EngineTypeOK ==
    /\ stage \in [Checks -> {"idle", "incr", "expire", "record", "trim", "judge", "done"}]
    /\ amount \in [Checks -> Amounts \cup {0}]
    /\ signals \in [Checks -> SUBSET Rules]
    /\ verdict \in [Checks -> Actions]
    /\ velocity \in Nat
    /\ velocityExpiry \in Nat
    /\ amounts \in Seq(Nat) /\ IsInjective(amounts)
    /\ Len(amounts) <= KeptAmounts + Cardinality(Untrimmed)
    /\ checkedAt \in Seq(0 .. now)
    /\ extendedAt \in Seq((0 .. now) \cup {Open}) /\ Len(extendedAt) = Len(checkedAt)
    /\ place \in [Checks -> 0 .. Len(checkedAt)]
    /\ renewals \subseteq [at : 0 .. now, count : Nat \ {0}, counted : 0 .. Len(checkedAt)]
    /\ hurt \in BOOLEAN
    /\ repeated \in Nat

\* Within 60 seconds of an EXPIRE no check is forgotten, whatever fails: the
\* counter goes on from where that EXPIRE found it, and the check that makes it
\* four raises the signal.  So a fourth check is noticed if it comes within 60
\* seconds of the EXPIRE of the first.  (Between a first INCR and its EXPIRE it is
\* not so: an old key that goes there takes the first check with it.)
BurstsAreNoticed ==
    \A c \in Checks, e \in renewals :
        /\ place[c] > e.counted
        /\ checkedAt[place[c]] - e.at < VelocityTtl
        /\ VelocityFires(e.count + place[c] - e.counted)
        => "velocity" \in signals[c]

\* Check j + 1 was counted before the key could go: less than 60 seconds after
\* the EXPIRE of an earlier check, or before that EXPIRE.
Linked(j) == \E k \in 1 .. j : checkedAt[j + 1] - extendedAt[k] < VelocityTtl

\* How many checks there are in the chain that ends with check i.
RunTo(i) == Cardinality({h \in 1 .. i : \A j \in h .. i - 1 : Linked(j)})

\* The current chain is over once no EXPIRE is less than 60 seconds old.
Chain ==
    LET n == Len(checkedAt)
    IN IF \E k \in 1 .. n : now - extendedAt[k] < VelocityTtl THEN RunTo(n) ELSE 0

\* The counter counts no check outside the current chain of checks, each less
\* than 60 seconds after an EXPIRE before it, unless the rule failed or a check
\* was counted twice.  But it does count all the chain: four payments 50 seconds
\* apart are no "3 transactions in 60 seconds" (velocityRule.ts:1), and fire.
CountedInAChain == ~hurt => velocity <= Chain

\* A payment is blocked only on the sender's own record: as the fourth or later
\* check of a chain, or with six different amounts on record, one of them far
\* beyond the others.  The rules that look at nothing of the sender's cannot
\* block it, and the third data point the amount rule asks for is never enough
\* (amountAnomalyRule.ts:16).
BlockedForARecord ==
    \A c \in Checks :
        Blocks(verdict[c]) /\ ~hurt =>
            (place[c] # 0 /\ RunTo(place[c]) > 3) \/ Len(amounts) >= 6

=============================================================================
