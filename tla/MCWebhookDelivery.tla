-------------------------- MODULE MCWebhookDelivery --------------------------
(* Instances of WebhookDelivery for TLC: two events for one webhook, or one  *)
(* event for two that differ in their retries.  The other webhook is not     *)
(* active; the other dispatch is over, as its lookup failed.                 *)
EXTENDS WebhookDelivery, TLC

OtherWebhook == CHOOSE w \in Webhook : TRUE
OtherEvent == CHOOSE e \in Event : TRUE

TwoEvents ==
  /\ Init /\ \A w \in Webhook : webhooks[w].active = (w # OtherWebhook)
  /\ webhooks[OtherWebhook] = [active |-> FALSE, retries |-> 0]

TwoWebhooks ==
  /\ disp = [e \in Event |-> IF e = OtherEvent THEN "over" ELSE "none"]
  /\ queued \in BOOLEAN /\ recurs = FALSE
  /\ webhooks = [w \in Webhook |->
       [active |-> TRUE, retries |-> IF w = OtherWebhook THEN 0 ELSE 2]]
  /\ dl = [e \in Event |-> [w \in Webhook |-> NoDelivery]]
  /\ seen = [w \in Webhook |-> {}]
  /\ processed = [w \in Webhook |-> [e \in Event |-> 0]]
  /\ restarted = FALSE

MCInit == TwoEvents \/ TwoWebhooks

MCSpec == MCInit /\ [][Next]_vars /\ Fairness
=============================================================================

