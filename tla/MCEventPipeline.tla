-------------------------- MODULE MCEventPipeline --------------------------
(***************************************************************************)
(* A small instance of EventPipeline for TLC: three events, two of them of *)
(* one payment that fraud-service has blocked.                             *)
(***************************************************************************)
EXTENDS EventPipeline, TLC

CONSTANTS blocked, failed, other, trace1, trace2

\* payment.service.ts publishes fraud_blocked, and then failed in its catch
\* block, with one traceId; the other event is of another payment.
MCTopic == (blocked :> "payment.fraud_blocked") @@ (failed :> "payment.failed")
            @@ (other :> "payment.failed")
MCTrace == (blocked :> trace1) @@ (failed :> trace1) @@ (other :> trace2)
OnePartition == [t \in {trace1, trace2} |-> 0]

=============================================================================
