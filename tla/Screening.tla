------------------------------ MODULE Screening ------------------------------
(***************************************************************************)
(* What the payments of one user meet on their way: the gateway's rate     *)
(* limiter, and then the fraud check that payment-service asks for.  Some  *)
(* requests never come to it (another path, a lock, a missing account).    *)
(***************************************************************************)
EXTENDS RateLimit, FraudEngine

ASSUME ChecksAreRequests == Checks \subseteq Requests

Init ==
    /\ now = 0
    /\ LimiterInit
    /\ EngineInit

vars == <<now, limiterVars, engineVars>>

AtGateway(r) ==
    /\ Arrive(r) \/ LimiterStep(r)
    /\ UNCHANGED <<now, engineVars>>

AtFraudService(c) ==
    /\ \/ limit[c] = "passed" /\ StartCheck(c)
       \/ EngineStep(c)
    /\ UNCHANGED <<now, limiterVars>>

Tick ==
    /\ now < MaxNow
    /\ now' = now + 1
    /\ LimiterTick
    /\ EngineTick

Next ==
    \/ Tick
    \/ \E r \in Requests : AtGateway(r)
    \/ \E c \in Checks : AtFraudService(c)

Spec == Init /\ [][Next]_vars

-----------------------------------------------------------------------------
(* Properties                                                              *)

TypeOK == now \in 0 .. MaxNow /\ LimiterTypeOK /\ EngineTypeOK

=============================================================================
