------------------------- MODULE MCWebhookDelivery -------------------------
(***************************************************************************)
(* Small instances of WebhookDelivery for TLC.  The cfgs choose the sizes: *)
(* deliveries and endpoints, polls that overlap, retries and failures.     *)
(***************************************************************************)
EXTENDS WebhookDelivery, TLC

\* Rows and endpoints have no names the code could tell apart.  Used only
\* where there is no liveness property.
Symmetry == Permutations(Deliveries) \cup Permutations(Endpoints)

=============================================================================
