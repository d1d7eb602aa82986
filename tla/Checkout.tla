------------------------------- MODULE Checkout -------------------------------
(***************************************************************************)
(* One user paying somebody once: the send-money page of settlr-ui, the    *)
(* gateway in front of payment-service, and payment-service as Bank        *)
(* promises it to be (Transfer implements Bank).                           *)
(*                                                                         *)
(* A visit is one mounting of ReviewAndConfirm, which draws one            *)
(* idempotency key.  Each time the user presses Confirm or Try Again a     *)
(* request is sent; the browser waits 10 seconds for its answer, the       *)
(* gateway 30 for payment-service.  A request that the browser has given   *)
(* up goes on.                                                             *)
(***************************************************************************)
EXTENDS Integers

CONSTANTS
    Requests,       \* the requests the browser may send
    MaxVisits,      \* bound: how often the user opens the review
    Accounts, Orders, Opening, OpenAccounts, None

ASSUME VisitsAreCounted == MaxVisits \in Nat
ASSUME NoneIsNoRequest  == None \notin Requests

VARIABLES
    order, balance, moved, answer,  \* payment-service, as in Bank
    passage,        \* how far a request has come
    \* --- in the browser
    screen,
    visit,          \* number of the mounted review
    current,        \* the request it waits for, or None
    \* --- history
    sentIn,         \* the visit a request was sent in
    seen            \* what the user was told of it

bankVars == <<order, balance, moved, answer>>
uiVars   == <<screen, visit, current, sentIn, seen>>
checkoutVars == <<bankVars, passage, uiVars>>

PaymentService == INSTANCE Bank

Rejections == {"rejected", "unauthorized"}

CheckoutInit ==
    /\ PaymentService!Init
    /\ passage = [r \in Requests |-> "unsent"]
    /\ screen = "amount"
    /\ visit = 0
    /\ current = None
    /\ sentIn = [r \in Requests |-> 0]
    /\ seen = [r \in Requests |-> "nothing"]

-----------------------------------------------------------------------------
(* The page                                                                *)

\* The amount was accepted: ReviewAndConfirm is mounted, useRef draws a key.
Review ==
    /\ screen = "amount"
    /\ visit < MaxVisits
    /\ visit' = visit + 1
    /\ screen' = "review"
    /\ UNCHANGED <<bankVars, passage, current, sentIn, seen>>

\* mutant: a key for each attempt, as in components/send/ConfirmStep.tsx
FreshKey(r) ==
    \A q \in Requests : passage[q] # "unsent" => order[q].key # order[r].key

\* The key of the mounted review.
IdempotencyKey(r) == order[r].key = visit

\* handleConfirm, from Confirm or from Try Again; both are disabled while a
\* request is pending.
HandleConfirm(r) ==
    /\ screen \in {"review", "error"}
    /\ passage[r] = "unsent"
    /\ IdempotencyKey(r)
    /\ screen' = "sending"
    /\ current' = r
    /\ passage' = [passage EXCEPT ![r] = "sent"]
    /\ sentIn' = [sentIn EXCEPT ![r] = visit]
    /\ UNCHANGED <<bankVars, visit, seen>>

\* Back to the amount, from the review or from the error.
GoBack ==
    /\ screen \in {"review", "error"}
    /\ screen' = "amount"
    /\ UNCHANGED <<bankVars, passage, visit, current, sentIn, seen>>

\* The arrow in the header leads away at any time, and unmounts the review: what
\* is answered then is seen by nobody.
Leave ==
    /\ screen = "sending"
    /\ screen' = "amount"
    /\ current' = None
    /\ seen' = [seen EXCEPT ![current] = "unknown"]
    /\ UNCHANGED <<bankVars, passage, visit, sentIn>>

\* mutant: a 5xx is taken for a refusal
ServerErrorRefuses(r) ==
    IF passage[r] = "bank" /\ answer[r] = "ok" THEN "ok" ELSE "refused"

\* What an answer tells the user: the gateway's are refusals, and a 5xx of
\* payment-service ("unknown") leaves it open.
Told(r) == IF passage[r] = "bank" THEN answer[r] ELSE "refused"

\* mutant: a conflict on a retried payment is taken for its success
ConflictIsFine(told) == IF told = "unknown" THEN "error" ELSE "success"

ScreenFor(told) == IF told = "ok" THEN "success" ELSE "error"

\* The answer arrives while it is awaited.  401 clears the login and leads away.
ShowAnswer(r) ==
    /\ current = r
    /\ passage[r] \in Rejections \cup {"bank"}
    /\ passage[r] = "bank" => answer[r] # "none"
    /\ seen' = [seen EXCEPT ![r] = Told(r)]
    /\ screen' = IF passage[r] = "unauthorized" THEN "amount" ELSE ScreenFor(Told(r))
    /\ current' = None
    /\ UNCHANGED <<bankVars, passage, visit, sentIn>>

\* 10 seconds in the browser, a connection that broke, or the gateway's 502 for
\* one of its own: wherever the request is.
GiveUpWaiting(r) ==
    /\ current = r
    /\ seen' = [seen EXCEPT ![r] = "unknown"]
    /\ screen' = "error"
    /\ current' = None
    /\ UNCHANGED <<bankVars, passage, visit, sentIn>>

-----------------------------------------------------------------------------
(* The gateway                                                             *)

AtGateway(r) == passage[r] = "sent"

\* Within the limit (module RateLimit), valid and with an access token, it is
\* proxied.
Forward(r) ==
    /\ AtGateway(r)
    /\ passage' = [passage EXCEPT ![r] = "bank"]
    /\ UNCHANGED <<bankVars, uiVars>>

\* 429, 400 or 401; whether it is the one or the other is not this module's.
Reject(r) ==
    /\ AtGateway(r)
    /\ \E p \in Rejections : passage' = [passage EXCEPT ![r] = p]
    /\ UNCHANGED <<bankVars, uiVars>>

\* payment-service works on a request whether or not anybody still waits.
Serve(r) ==
    /\ passage[r] = "bank"
    /\ \/ PaymentService!Move(r)
       \/ PaymentService!Confirm(r)
       \/ PaymentService!Refuse(r)
       \/ PaymentService!GiveUp(r)
    /\ UNCHANGED <<passage, uiVars>>

-----------------------------------------------------------------------------
CheckoutNext ==
    \/ Review \/ GoBack \/ Leave
    \/ \E r \in Requests :
          \/ HandleConfirm(r) \/ ShowAnswer(r) \/ GiveUpWaiting(r)
          \/ Forward(r) \/ Reject(r) \/ Serve(r)

CheckoutSpec == CheckoutInit /\ [][CheckoutNext]_checkoutVars

-----------------------------------------------------------------------------
(* Properties                                                              *)

CheckoutTypeOK ==
    /\ order \in [Requests -> Orders]
    /\ moved \subseteq Requests
    /\ answer \in [Requests -> {"none", "ok", "refused", "unknown"}]
    /\ passage \in [Requests -> {"unsent", "sent", "bank"} \cup Rejections]
    /\ screen \in {"amount", "review", "sending", "success", "error"}
    /\ screen = "sending" <=> current # None
    /\ visit \in 0 .. MaxVisits
    /\ current \in Requests \cup {None}
    /\ sentIn \in [Requests -> 0 .. MaxVisits]
    /\ seen \in [Requests -> {"nothing", "ok", "refused", "unknown"}]

PaidIn(v) == \E r \in moved : sentIn[r] = v

\* "Payment Successful!" is shown only of a payment that was made in this
\* review, were it by an earlier attempt whose answer was lost.
SuccessIsPaid == screen = "success" => PaidIn(visit)

\* However often Try Again is pressed, and whenever the attempts given up
\* arrive, one review pays once (ReviewAndConfirm.tsx:49).
PaidOncePerReview ==
    \A r, q \in moved : sentIn[r] = sentIn[q] => r = q

\* A user who reviews again after an error pays twice only if the payment of the
\* earlier review was an attempt without a definite answer: lost, timed out, 5xx.
\* After a 4xx nothing is paid on that attempt's account, and the user who has
\* been told of a success does not come back.  What the screen says of the LAST
\* attempt decides nothing (ReviewAndConfirm.tsx:89).
PaidTwiceOnlyAfterUnknown ==
    \A r \in moved : sentIn[r] < visit => seen[r] = "unknown"

=============================================================================
