------------------------ MODULE WebhookDeliveryProofs ------------------------
(***************************************************************************)
(* Theorems about WebhookDelivery, for any webhooks, events and values of   *)
(* retryCount.                                                             *)
(***************************************************************************)
EXTENDS WebhookDelivery, TLAPS

\* What is true of a delivery by itself; dead tells whether the process has died.
\* Another attempt is only made while attempts are left, and webhook:error is run
\* when none is.
DeliveryOK(d, dead) ==
  /\ d \in Delivery
  /\ d.failures <= 1 \/ d.failures <= d.retries
  /\ d.at # "failed" => d.failures = 0 \/ d.failures < d.retries
  /\ d.at \in {"erring", "failed", "unqueued"} => d.told
  /\ d.told => d.at \in {"erring", "failed", "unqueued"} \/ dead
  /\ d.at = "erring" => d.failures + 1 >= d.retries

DeliveriesOK == \A e \in Event, w \in Webhook : DeliveryOK(dl[e][w], restarted)

TypeInv == TypeOK /\ DeliveriesOK

-----------------------------------------------------------------------------
(* One delivery.                                                           *)

\* The values of retryCount are numbers.
LEMMA RetriesAreNumbers == \A r \in Retries \cup {0} : r \in Int
<1>1. \A r \in Retries : r \in Nat
  BY WebhookAssumption
<1> QED BY <1>1

\* Moving a delivery on, without counting an attempt, keeps it in order.
LEMMA MoveOK ==
  ASSUME NEW d, NEW dead \in BOOLEAN, DeliveryOK(d, dead),
         d.at \notin {"erring", "failed", "unqueued"},
         NEW at \in At \ {"erring", "failed", "unqueued"}
  PROVE  DeliveryOK([d EXCEPT !.at = at], dead)
BY DEF DeliveryOK, Delivery

\* Changing one delivery, to one in order, keeps all of them in order.
LEMMA OneChanged ==
  ASSUME TypeInv, NEW e \in Event, NEW w \in Webhook, NEW d,
         dl' = [dl EXCEPT ![e][w] = d], DeliveryOK(d, restarted),
         UNCHANGED restarted
  PROVE  DeliveriesOK' /\ dl' \in [Event -> [Webhook -> Delivery]]
<1>1. d \in Delivery
  BY DEF DeliveryOK
<1>2. dl' \in [Event -> [Webhook -> Delivery]]
  BY <1>1 DEF TypeInv, TypeOK
<1>3. ASSUME NEW f \in Event, NEW v \in Webhook
      PROVE  DeliveryOK(dl'[f][v], restarted)
  <2>1. dl'[f][v] = IF f = e /\ v = w THEN d ELSE dl[f][v]
    BY DEF TypeInv, TypeOK
  <2> QED BY <2>1 DEF TypeInv, DeliveriesOK
<1> QED BY <1>2, <1>3 DEF DeliveriesOK

\* The types follow from the deliveries being in order.
LEMMA FromDeliveries ==
  ASSUME TypeInv, DeliveriesOK', dl' \in [Event -> [Webhook -> Delivery]],
         disp' \in [Event -> DispatchAt],
         UNCHANGED <<fixed, webhooks, receivers, restarted>>
  PROVE  TypeInv'
BY DEF TypeInv, TypeOK, DeliveriesOK, DeliveryOK, fixed, receivers

\* A step that only moves one delivery on.
LEMMA MoveStep ==
  ASSUME TypeInv, NEW e \in Event, NEW w \in Webhook,
         dl[e][w].at \notin {"erring", "failed", "unqueued"},
         NEW at \in At \ {"erring", "failed", "unqueued"}, Move(e, w, at),
         UNCHANGED <<fixed, webhooks, disp, restarted>>
  PROVE  DeliveriesOK' /\ dl' \in [Event -> [Webhook -> Delivery]]
<1> DEFINE d == [dl[e][w] EXCEPT !.at = at]
<1>1. dl' = [dl EXCEPT ![e][w] = d]
  BY DEF Move, TypeInv, TypeOK
<1>2. DeliveryOK(d, restarted)
  BY MoveOK DEF TypeInv, TypeOK, DeliveriesOK
<1> HIDE DEF d
<1> QED BY <1>1, <1>2, OneChanged

\* A failed attempt: either one more is left, or webhook:error is about to run.
LEMMA FailureOK ==
  ASSUME TypeInv, NEW e \in Event, NEW w \in Webhook, NEW late \in BOOLEAN,
         dl[e][w].at \in {"sent", "accepted", "marking"}, AttemptFails(e, w, late)
  PROVE  TypeInv'
<1> DEFINE d == dl[e][w]
           last == IF queued THEN IsFinalAttempt(d.failures, d.retries)
                             ELSE ~Retried(d.failures, d.retries)
           next == IF last THEN "erring"
                   ELSE IF queued /\ ~JobRetried(d.failures, d.retries) THEN "failed"
                   ELSE "waiting"
           new == [d EXCEPT !.at = next, !.told = @ \/ last, !.late = @ \/ late,
                            !.failures = IF last THEN @ ELSE @ + 1]
<1>1. dl' = [dl EXCEPT ![e][w] = new]
  BY DEF AttemptFails
<1>2. d \in Delivery /\ DeliveryOK(d, restarted) /\ restarted \in BOOLEAN
  BY DEF TypeInv, TypeOK, DeliveriesOK
<1>3. d.failures \in Nat /\ d.retries \in Int /\ d.told \in BOOLEAN /\ d.late \in BOOLEAN
  BY <1>2, WebhookAssumption DEF Delivery
<1>4. last <=> d.failures + 1 >= d.retries
  BY <1>3 DEF IsFinalAttempt, Retried
<1>8. d.at \notin {"erring", "failed", "unqueued"}
  OBVIOUS
<1>5. ASSUME last PROVE DeliveryOK(new, restarted)
  <2>1. new = [d EXCEPT !.at = "erring", !.told = TRUE, !.late = d.late \/ late]
    <3> HIDE DEF last
    <3>1. next = "erring"
      BY <1>5
    <3> HIDE DEF next
    <3>2. (d.told \/ last) = TRUE
      BY <1>5
    <3> QED BY <3>1, <3>2, <1>2, <1>5 DEF Delivery
  <2>2. (d.late \/ late) \in BOOLEAN /\ d.failures + 1 >= d.retries
    BY <1>4, <1>5
  <2>3. new \in Delivery /\ new.at = "erring" /\ new.told = TRUE
        /\ new.failures = d.failures /\ new.retries = d.retries
    <3> HIDE DEF new, last
    <3> QED BY <2>1, <2>2, <1>2 DEF Delivery, At
  <2> HIDE DEF new, d
  <2>4. DeliveryOK(new, restarted)
    BY <2>2, <2>3, <1>2, <1>3, <1>8 DEF DeliveryOK
  <2> QED BY <2>4
<1>6. ASSUME ~last PROVE DeliveryOK(new, restarted)
  <2>1. next = "waiting"
    BY <1>3, <1>4, <1>6 DEF JobRetried
  <2>2. d.failures + 1 \in Nat /\ d.failures + 1 < d.retries
        /\ (d.late \/ late) \in BOOLEAN
    BY <1>3, <1>4, <1>6
  <2>3. new = [d EXCEPT !.at = "waiting", !.late = d.late \/ late,
                        !.failures = d.failures + 1]
    <3>1. (d.told \/ last) = d.told
      BY <1>3, <1>6
    <3> HIDE DEF last, next
    <3> QED BY <3>1, <2>1, <1>2, <1>6 DEF Delivery
  <2>4. new \in Delivery /\ new.at = "waiting" /\ new.told = d.told
        /\ new.failures = d.failures + 1 /\ new.retries = d.retries
    BY <2>2, <2>3, <1>2 DEF Delivery, At
  <2> HIDE DEF new, d, next, last
  <2>5. DeliveryOK(new, restarted)
    BY <2>2, <2>4, <1>2, <1>3, <1>8 DEF DeliveryOK
  <2> QED BY <2>5
<1>7. UNCHANGED <<fixed, webhooks, disp, receivers, restarted>>
  BY DEF AttemptFails
<1>9. DeliveryOK(new, restarted)
  BY <1>5, <1>6
<1> HIDE DEF new, d, next, last
<1> QED BY <1>1, <1>9, <1>7, OneChanged, FromDeliveries DEF TypeInv, TypeOK

-----------------------------------------------------------------------------
(* Type correctness.                                                       *)

LEMMA TypeInit == Init => TypeInv
<1> SUFFICES ASSUME Init PROVE TypeInv
  OBVIOUS
<1>1. DeliveryOK(NoDelivery, FALSE)
  BY DEF DeliveryOK, NoDelivery, Delivery, At
<1>2. NoDelivery \in Delivery /\ NoDelivery.failures = 0
  BY DEF NoDelivery, Delivery, At
<1>3. /\ dl \in [Event -> [Webhook -> Delivery]] /\ restarted = FALSE
      /\ \A e \in Event, w \in Webhook : dl[e][w] = NoDelivery
  BY <1>2 DEF Init
<1>4. /\ seen \in [Webhook -> SUBSET SUBSET Event] /\ processed \in [Webhook -> [Event -> Nat]]
      /\ disp \in [Event -> DispatchAt]
  BY DEF Init, DispatchAt
<1>5. DeliveriesOK
  BY <1>1, <1>3 DEF DeliveriesOK
<1>6. queued \in BOOLEAN /\ recurs \in BOOLEAN
      /\ webhooks \in [Webhook -> [active : BOOLEAN, retries : Retries]]
  BY DEF Init
<1>7. \A e \in Event, w \in Webhook : dl[e][w].failures <= 1 \/ dl[e][w].failures <= dl[e][w].retries
  BY <1>5 DEF DeliveriesOK, DeliveryOK
<1>8. restarted \in BOOLEAN
  BY <1>3
<1> QED BY <1>3, <1>4, <1>5, <1>6, <1>7, <1>8 DEF TypeInv, TypeOK

LEMMA FoundOK == ASSUME TypeInv, NEW e \in Event, Found(e) PROVE TypeInv'
<1>1. PICK matching \in SUBSET {w \in Webhook : webhooks[w].active} :
        dl' = [dl EXCEPT ![e] = [w \in Webhook |->
                IF w \in matching
                THEN [NoDelivery EXCEPT !.at = "matched", !.retries = webhooks[w].retries]
                ELSE NoDelivery]]
  BY DEF Found
<1>2. DeliveryOK(NoDelivery, restarted)
  BY DEF TypeInv, TypeOK, DeliveryOK, NoDelivery, Delivery, At
<1>3. \A r \in Retries : DeliveryOK([NoDelivery EXCEPT !.at = "matched", !.retries = r], restarted)
  <2> TAKE r \in Retries
  <2> DEFINE d == [NoDelivery EXCEPT !.at = "matched", !.retries = r]
  <2>1. d \in Delivery
    BY <1>2 DEF DeliveryOK, Delivery, At
  <2>2. d.at = "matched" /\ d.failures = 0 /\ d.told = FALSE
    BY DEF NoDelivery
  <2>3. DeliveryOK(d, restarted)
    <3> HIDE DEF d
    <3> QED BY <2>1, <2>2 DEF DeliveryOK
  <2> QED BY <2>3
<1>4. \A w \in Webhook : webhooks[w].retries \in Retries
  BY DEF TypeInv, TypeOK
<1>5. \A w \in Webhook : DeliveryOK(dl'[e][w], restarted)
  BY <1>1, <1>2, <1>3, <1>4 DEF TypeInv, TypeOK
<1>6. \A f \in Event, w \in Webhook : f # e => dl'[f][w] = dl[f][w]
  BY <1>1 DEF TypeInv, TypeOK
<1>7. UNCHANGED <<fixed, webhooks, receivers, restarted>> /\ disp' \in [Event -> DispatchAt]
  BY DEF Found, TypeInv, TypeOK, DispatchAt
<1>8. DeliveriesOK'
  BY <1>5, <1>6, <1>7 DEF DeliveriesOK, TypeInv
<1>9. dl' \in [Event -> [Webhook -> Delivery]]
  <2>1. \A f \in Event, w \in Webhook : dl'[f][w] \in Delivery
    BY <1>8 DEF DeliveriesOK, DeliveryOK
  <2>2. dl' = [f \in Event |-> [w \in Webhook |-> dl'[f][w]]]
    BY <1>1 DEF TypeInv, TypeOK
  <2> QED BY <2>1, <2>2
<1> QED BY <1>7, <1>8, <1>9, FromDeliveries

LEMMA RestartOK == ASSUME TypeInv, Restart PROVE TypeInv'
<1> DEFINE After(d) == [d EXCEPT !.at = AfterDeath(@), !.late = @ \/ d.at = "sent"]
<1>1. dl' = [e \in Event |-> [w \in Webhook |-> After(dl[e][w])]]
  BY DEF Restart
<1>2. ASSUME NEW d, DeliveryOK(d, FALSE)
      PROVE  DeliveryOK(After(d), TRUE)
  <2>1. d \in Delivery /\ d.failures \in Nat /\ (d.late \/ d.at = "sent") \in BOOLEAN
    BY <1>2 DEF DeliveryOK, Delivery
  <2>2. /\ AfterDeath(d.at) \in At \ {"erring"}
        /\ AfterDeath(d.at) \in {"failed", "unqueued"} => AfterDeath(d.at) = d.at
        /\ d.at = "failed" => AfterDeath(d.at) = "failed"
    BY <2>1 DEF AfterDeath, Delivery, At
  <2>3. After(d) = [d EXCEPT !.at = AfterDeath(d.at), !.late = d.late \/ d.at = "sent"]
    BY <2>1 DEF Delivery
  <2>4. /\ After(d) \in Delivery /\ After(d).at = AfterDeath(d.at)
        /\ After(d).failures = d.failures /\ After(d).retries = d.retries
        /\ After(d).told = d.told
    <3> HIDE DEF After
    <3> QED BY <2>1, <2>2, <2>3 DEF Delivery
  <2> HIDE DEF After
  <2> QED BY <1>2, <2>2, <2>4 DEF DeliveryOK
<1>3. \A e \in Event, w \in Webhook : DeliveryOK(dl'[e][w], TRUE)
  <2> TAKE e \in Event, w \in Webhook
  <2>1. dl'[e][w] = After(dl[e][w])
    BY <1>1
  <2>2. DeliveryOK(dl[e][w], FALSE)
    BY DEF TypeInv, TypeOK, DeliveriesOK, Restart
  <2> HIDE DEF After
  <2> QED BY <1>2, <2>1, <2>2
<1>4. DeliveriesOK'
  BY <1>3 DEF DeliveriesOK, Restart
<1>5. dl' \in [Event -> [Webhook -> Delivery]]
  <2>1. \A e \in Event, w \in Webhook : dl'[e][w] \in Delivery
    BY <1>3 DEF DeliveryOK
  <2>2. dl' = [e \in Event |-> [w \in Webhook |-> dl'[e][w]]]
    BY <1>1
  <2> QED BY <2>1, <2>2
<1>6. /\ disp' \in [Event -> DispatchAt] /\ restarted' \in BOOLEAN
      /\ UNCHANGED <<fixed, webhooks, receivers>>
  BY DEF Restart, DispatchAt, TypeInv, TypeOK
<1>7. \A e \in Event, w \in Webhook :
        dl'[e][w].failures <= 1 \/ dl'[e][w].failures <= dl'[e][w].retries
  BY <1>3 DEF DeliveryOK
<1> QED BY <1>4, <1>5, <1>6, <1>7 DEF TypeInv, TypeOK, fixed, receivers

\* A receiver only ever adds a key and counts.
LEMMA ReceiveType ==
  ASSUME TypeInv, NEW e \in Event, NEW w \in Webhook, Receive(e, w)
  PROVE  seen' \in [Webhook -> SUBSET SUBSET Event] /\ processed' \in [Webhook -> [Event -> Nat]]
<1>1. IdempotencyKey(e) \in SUBSET Event
  BY DEF IdempotencyKey
<1> HIDE DEF TypeInv
<1>2. CASE IdempotencyKey(e) \in seen[w]
  BY <1>2 DEF Receive, receivers, TypeInv, TypeOK
<1>3. CASE IdempotencyKey(e) \notin seen[w]
  <2>1. /\ seen' = [seen EXCEPT ![w] = @ \cup {IdempotencyKey(e)}]
        /\ processed' = [processed EXCEPT ![w][e] = @ + 1]
    BY <1>3 DEF Receive
  <2>2. processed[w][e] + 1 \in Nat /\ seen[w] \cup {IdempotencyKey(e)} \in SUBSET SUBSET Event
    BY <1>1 DEF TypeInv, TypeOK
  <2> QED BY <2>1, <2>2 DEF TypeInv, TypeOK
<1> QED BY <1>2, <1>3

LEMMA AddOK ==
  ASSUME TypeInv, NEW e \in Event, NEW w \in Webhook, Add(e, w) PROVE TypeInv'
<1>1. PICK at \in {"waiting", "unqueued"} :
        dl' = [dl EXCEPT ![e][w].at = at, ![e][w].told = (at = "unqueued")]
  BY DEF Add
<1> DEFINE d == dl[e][w]
           new == [d EXCEPT !.at = at, !.told = (at = "unqueued")]
<1>2. dl' = [dl EXCEPT ![e][w] = new]
  BY <1>1 DEF TypeInv, TypeOK
<1>3. d \in Delivery /\ DeliveryOK(d, restarted) /\ d.at = "add"
  BY DEF Add, TypeInv, TypeOK, DeliveriesOK
<1>4. /\ new \in Delivery /\ new.at = at /\ new.told = (at = "unqueued")
      /\ new.failures = d.failures /\ new.retries = d.retries
  BY <1>3 DEF Delivery, At
<1>5. DeliveryOK(new, restarted)
  <2> HIDE DEF new, d
  <2> QED BY <1>3, <1>4 DEF DeliveryOK
<1>6. UNCHANGED <<fixed, webhooks, disp, receivers, restarted>>
  BY DEF Add
<1> HIDE DEF new, d
<1> QED BY <1>2, <1>5, <1>6, OneChanged, FromDeliveries DEF TypeInv, TypeOK

\* After webhook:error the delivery is over: BullMQ does not retry it either.
LEMMA ErrorToldOK ==
  ASSUME TypeInv, NEW e \in Event, NEW w \in Webhook, ErrorTold(e, w) PROVE TypeInv'
<1> DEFINE d == dl[e][w]
           new == [d EXCEPT !.at = "failed", !.failures = @ + 1]
<1>1. d \in Delivery /\ DeliveryOK(d, restarted) /\ d.at = "erring"
  BY DEF ErrorTold, TypeInv, TypeOK, DeliveriesOK
<1>2. d.failures \in Nat /\ d.retries \in Int /\ d.failures + 1 \in Nat
  <2> HIDE DEF new, d
  <2>1. d.failures \in Nat /\ d.retries \in Retries \cup {0}
    BY <1>1 DEF Delivery
  <2>2. d.retries \in Int
    BY <2>1, RetriesAreNumbers
  <2>3. d.failures + 1 \in Nat
    BY <2>1
  <2> QED BY <2>1, <2>2, <2>3
<1>3. ~JobRetried(d.failures, d.retries)
  BY <1>1, <1>2 DEF JobRetried, DeliveryOK
<1>4. dl' = [dl EXCEPT ![e][w] = new]
  BY <1>3 DEF ErrorTold
<1>5. /\ new \in Delivery /\ new.at = "failed" /\ new.told = d.told
      /\ new.failures = d.failures + 1 /\ new.retries = d.retries
  BY <1>1, <1>2 DEF Delivery, At
<1>6. DeliveryOK(new, restarted)
  <2> HIDE DEF new, d
  <2> QED BY <1>1, <1>2, <1>5 DEF DeliveryOK
<1>7. UNCHANGED <<fixed, webhooks, disp, receivers, restarted>>
  BY DEF ErrorTold, AfterError
<1> HIDE DEF new, d
<1> QED BY <1>4, <1>6, <1>7, OneChanged, FromDeliveries DEF TypeInv, TypeOK

LEMMA AcceptOK ==
  ASSUME TypeInv, NEW e \in Event, NEW w \in Webhook, Accept(e, w) PROVE TypeInv'
<1>1. DeliveriesOK' /\ dl' \in [Event -> [Webhook -> Delivery]]
  BY MoveStep DEF Accept, At
<1>2. seen' \in [Webhook -> SUBSET SUBSET Event] /\ processed' \in [Webhook -> [Event -> Nat]]
  BY ReceiveType DEF Accept
<1>3. UNCHANGED <<fixed, webhooks, disp, restarted>>
  BY DEF Accept
<1> QED BY <1>1, <1>2, <1>3 DEF TypeInv, TypeOK, DeliveriesOK, DeliveryOK, fixed

LEMMA AcceptLateOK ==
  ASSUME TypeInv, NEW e \in Event, NEW w \in Webhook, AcceptLate(e, w) PROVE TypeInv'
<1> DEFINE d == dl[e][w]
           new == [d EXCEPT !.late = FALSE]
<1>1. dl' = [dl EXCEPT ![e][w] = new]
  BY DEF AcceptLate, TypeInv, TypeOK
<1>2. d \in Delivery /\ DeliveryOK(d, restarted)
  BY DEF TypeInv, TypeOK, DeliveriesOK
<1>3. /\ new \in Delivery /\ new.at = d.at /\ new.told = d.told
      /\ new.failures = d.failures /\ new.retries = d.retries
  BY <1>2 DEF Delivery
<1>4. DeliveryOK(new, restarted)
  <2> HIDE DEF new, d
  <2> QED BY <1>2, <1>3 DEF DeliveryOK
<1>5. UNCHANGED <<fixed, webhooks, disp, restarted>>
  BY DEF AcceptLate
<1>6. DeliveriesOK' /\ dl' \in [Event -> [Webhook -> Delivery]]
  <2> HIDE DEF new, d
  <2> QED BY <1>1, <1>4, <1>5, OneChanged
<1>7. seen' \in [Webhook -> SUBSET SUBSET Event] /\ processed' \in [Webhook -> [Event -> Nat]]
  BY ReceiveType DEF AcceptLate
<1> QED BY <1>5, <1>6, <1>7 DEF TypeInv, TypeOK, DeliveriesOK, DeliveryOK, fixed

LEMMA TypeStep == TypeInv /\ [Next]_vars => TypeInv'
<1> SUFFICES ASSUME TypeInv, [Next]_vars PROVE TypeInv'
  OBVIOUS
<1>1. ASSUME NEW e \in Event, Dispatch(e) \/ LookupFails(e) PROVE TypeInv'
  <2>1. disp' \in [Event -> DispatchAt] /\ UNCHANGED <<fixed, webhooks, dl, receivers, restarted>>
    BY <1>1 DEF Dispatch, LookupFails, DispatchAt, TypeInv, TypeOK
  <2> QED BY <2>1 DEF TypeInv, TypeOK, DeliveriesOK, fixed, receivers
<1>2. ASSUME NEW e \in Event, NEW w \in Webhook,
             \/ Reach(e, w) \/ AfterHook(e, w)
             \/ Attempt(e, w) \/ Answered(e, w) \/ Marked(e, w) \/ Reported(e, w)
      PROVE  TypeInv'
  <2>1. PICK at \in At \ {"erring", "failed", "unqueued"} : Move(e, w, at)
    BY <1>2 DEF Reach, AfterHook, Attempt, Answered, Marked, Reported, At
  <2>2. UNCHANGED <<fixed, webhooks, disp, receivers, restarted>>
        /\ dl[e][w].at \notin {"erring", "failed", "unqueued"}
    BY <1>2 DEF Reach, AfterHook, Attempt, Answered, Marked, Reported
  <2>3. disp \in [Event -> DispatchAt]
    BY DEF TypeInv, TypeOK
  <2> QED BY <2>1, <2>2, <2>3, MoveStep, FromDeliveries
<1>3. ASSUME NEW e \in Event, NEW w \in Webhook,
             Refused(e, w) \/ TimesOut(e, w) \/ MarkFails(e, w)
      PROVE  TypeInv'
  BY <1>3, FailureOK DEF Refused, TimesOut, MarkFails
<1>4. ASSUME NEW w \in Webhook, TurnOff(w) PROVE TypeInv'
  <2>1. webhooks' \in [Webhook -> [active : BOOLEAN, retries : Retries]]
    <3>1. [webhooks[w] EXCEPT !.active = FALSE] \in [active : BOOLEAN, retries : Retries]
      <4>1. webhooks[w] \in [active : BOOLEAN, retries : Retries]
        BY DEF TypeInv, TypeOK
      <4> QED BY <4>1
    <3>2. webhooks' = [webhooks EXCEPT ![w] = [webhooks[w] EXCEPT !.active = FALSE]]
      BY <1>4 DEF TurnOff
    <3> QED BY <3>1, <3>2 DEF TypeInv, TypeOK
  <2>2. UNCHANGED <<fixed, disp, dl, receivers, restarted>>
    BY <1>4 DEF TurnOff
  <2> QED BY <2>1, <2>2 DEF TypeInv, TypeOK, DeliveriesOK, fixed, receivers
<1>5. CASE UNCHANGED vars
  BY <1>5 DEF vars, TypeInv, TypeOK, DeliveriesOK
<1> QED BY <1>1, <1>2, <1>3, <1>4, <1>5, FoundOK, AddOK, ErrorToldOK, AcceptOK, AcceptLateOK,
           RestartOK
        DEF Next, DispatchStep, DeliveryStep

\* Every variable keeps its type, and no delivery is attempted more often than
\* retryCount allows, in the queue or without it.
THEOREM TypeCorrect == Spec => []TypeOK
<1>1. TypeInv => TypeOK
  BY DEF TypeInv
<1> QED BY <1>1, TypeInit, TypeStep, PTL DEF Spec

\* webhook:error is run for exactly the deliveries that are over without success:
\* deliverWebhook(), the processor and BullMQ agree on the last attempt.
THEOREM ErrorsAreFinal == Spec => []ErrorMeansOver
<1>1. TypeInv => ErrorMeansOver
  BY DEF TypeInv, DeliveriesOK, DeliveryOK, ErrorMeansOver
<1> QED BY <1>1, TypeInit, TypeStep, PTL DEF Spec

-----------------------------------------------------------------------------
(* What the receivers process.                                             *)

\* Two dispatches share a key exactly if they tell of the same thing.
LEMMA KeysAreRight ==
  ASSUME NEW e \in Event, NEW f \in Event
  PROVE  IdempotencyKey(e) = IdempotencyKey(f) <=> f \in Same(e)
BY DEF IdempotencyKey, Same

LEMMA SameIsEquivalence ==
  ASSUME NEW e \in Event
  PROVE  /\ e \in Same(e) /\ Same(e) \subseteq Event
         /\ \A f \in Same(e) : Same(f) = Same(e)
BY DEF Same

\* A receiver has the key of a dispatch exactly if it has processed it, or one
\* that tells of the same, once.
KeysTell ==
  \A w \in Webhook, e \in Event :
    /\ processed[w][e] \in {0, 1}
    /\ processed[w][e] = 1 => IdempotencyKey(e) \in seen[w]
    /\ IdempotencyKey(e) \in seen[w] => \E f \in Same(e) : processed[w][f] = 1

Arrived == {"accepted", "marking", "reporting", "done"}

AcceptedIsSeen ==
  \A e \in Event, w \in Webhook :
    dl[e][w].at \in Arrived => IdempotencyKey(e) \in seen[w]

ReceiverInv == TypeInv /\ KeysTell /\ ProcessedOnce /\ AcceptedIsSeen

\* Receiving a request: what a receiver has processed is told by its keys again,
\* and no key is lost.
LEMMA ReceiveStep ==
  ASSUME TypeInv, KeysTell, ProcessedOnce, NEW e \in Event, NEW w \in Webhook,
         Receive(e, w), UNCHANGED fixed
  PROVE  /\ KeysTell' /\ ProcessedOnce'
         /\ \A v \in Webhook : seen[v] \subseteq seen'[v]
         /\ IdempotencyKey(e) \in seen'[w]
<1>k. \A f \in Event : IdempotencyKey(f)' = IdempotencyKey(f) /\ Same(f)' = Same(f)
  BY DEF IdempotencyKey, Same, fixed
<1>1. CASE IdempotencyKey(e) \in seen[w]
  <2>1. UNCHANGED <<seen, processed>>
    BY <1>1 DEF Receive, receivers
  <2> QED BY <1>1, <2>1, <1>k DEF KeysTell, ProcessedOnce
<1>2. CASE IdempotencyKey(e) \notin seen[w]
  <2>1. /\ seen' = [seen EXCEPT ![w] = @ \cup {IdempotencyKey(e)}]
        /\ processed' = [processed EXCEPT ![w][e] = @ + 1]
    BY <1>2 DEF Receive
  <2>2. \A v \in Webhook :
          seen'[v] = IF v = w THEN seen[v] \cup {IdempotencyKey(e)} ELSE seen[v]
    BY <2>1 DEF TypeInv, TypeOK
  <2>3. \A f \in Same(e) : processed[w][f] = 0
    <3>1. \A f \in Same(e) : IdempotencyKey(f) \notin seen[w]
      BY <1>2, KeysAreRight, SameIsEquivalence
    <3> QED BY <3>1, SameIsEquivalence DEF KeysTell
  <2>4. \A v \in Webhook, f \in Event :
          processed'[v][f] = IF v = w /\ f = e THEN 1 ELSE processed[v][f]
    BY <2>1, <2>3, SameIsEquivalence DEF TypeInv, TypeOK
  <2>5. ProcessedOnce'
    <3>1. ASSUME NEW v \in Webhook, NEW f \in Event, NEW g \in Event
          PROVE  /\ processed'[v][f] <= 1
                 /\ g \in Same(f) /\ g # f => processed'[v][f] = 0 \/ processed'[v][g] = 0
      <4>1. processed'[v][f] <= 1
        BY <2>4 DEF ProcessedOnce
      <4>2. ASSUME g \in Same(f), g # f
            PROVE  processed'[v][f] = 0 \/ processed'[v][g] = 0
        <5>1. processed[v][f] = 0 \/ processed[v][g] = 0
          BY <4>2 DEF ProcessedOnce
        <5>2. v = w /\ f = e => processed[v][g] = 0
          BY <4>2, <2>3
        <5>3. v = w /\ g = e => processed[v][f] = 0
          BY <4>2, <2>3, SameIsEquivalence
        <5> QED BY <4>2, <5>1, <5>2, <5>3, <2>4
      <4> QED BY <4>1, <4>2
    <3> QED BY <3>1, <1>k DEF ProcessedOnce
  <2>6. KeysTell'
    <3> SUFFICES ASSUME NEW v \in Webhook, NEW f \in Event
        PROVE  /\ processed'[v][f] \in {0, 1}
               /\ processed'[v][f] = 1 => IdempotencyKey(f) \in seen'[v]
               /\ IdempotencyKey(f) \in seen'[v] => \E g \in Same(f) : processed'[v][g] = 1
      BY <1>k DEF KeysTell
    <3>1. processed'[v][f] \in {0, 1}
      BY <2>4 DEF KeysTell
    <3>2. processed'[v][f] = 1 => IdempotencyKey(f) \in seen'[v]
      <4>1. CASE v = w /\ f = e
        BY <4>1, <2>2
      <4>2. CASE ~(v = w /\ f = e)
        <5>1. processed'[v][f] = 1 => IdempotencyKey(f) \in seen[v]
          BY <4>2, <2>4 DEF KeysTell
        <5> QED BY <5>1, <2>2
      <4> QED BY <4>1, <4>2
    <3>3. ASSUME IdempotencyKey(f) \in seen'[v] PROVE \E g \in Same(f) : processed'[v][g] = 1
      <4>1. CASE IdempotencyKey(f) \in seen[v]
        <5>1. PICK g \in Same(f) : processed[v][g] = 1
          BY <4>1 DEF KeysTell
        <5> QED BY <5>1, <2>4, SameIsEquivalence
      <4>2. CASE v = w /\ IdempotencyKey(f) = IdempotencyKey(e)
        <5>1. e \in Same(f)
          BY <4>2, KeysAreRight
        <5> QED BY <4>2, <5>1, <2>4
      <4> QED BY <3>3, <4>1, <4>2, <2>2
    <3> QED BY <3>1, <3>2, <3>3
  <2> QED BY <2>2, <2>5, <2>6
<1> QED BY <1>1, <1>2

LEMMA ReceiverInit == Init => ReceiverInv
<1> SUFFICES ASSUME Init PROVE ReceiverInv
  OBVIOUS
<1>1. \A w \in Webhook, e \in Event : processed[w][e] = 0 /\ seen[w] = {}
  BY DEF Init
<1>2. \A w \in Webhook, e \in Event : dl[e][w].at = "none"
  BY DEF Init, NoDelivery
<1>3. KeysTell /\ ProcessedOnce
  BY <1>1 DEF KeysTell, ProcessedOnce
<1>4. AcceptedIsSeen
  BY <1>2 DEF AcceptedIsSeen, Arrived
<1> QED BY <1>3, <1>4, TypeInit DEF ReceiverInv

\* Steps that reach no receiver: only an accepted delivery goes on to be done.
LEMMA Elsewhere ==
  ASSUME ReceiverInv, UNCHANGED <<fixed, receivers>>,
         \A e \in Event, w \in Webhook : dl'[e][w].at \in Arrived => dl[e][w].at \in Arrived
  PROVE  KeysTell' /\ ProcessedOnce' /\ AcceptedIsSeen'
<1>1. \A f \in Event : IdempotencyKey(f)' = IdempotencyKey(f) /\ Same(f)' = Same(f)
  BY DEF IdempotencyKey, Same, fixed
<1>2. UNCHANGED <<seen, processed>>
  BY DEF receivers
<1> QED BY <1>1, <1>2 DEF ReceiverInv, KeysTell, ProcessedOnce, AcceptedIsSeen

LEMMA ReceiverStep == ReceiverInv /\ [Next]_vars => ReceiverInv'
<1> SUFFICES ASSUME ReceiverInv, [Next]_vars PROVE ReceiverInv'
  OBVIOUS
<1>t. TypeInv /\ TypeInv' /\ dl \in [Event -> [Webhook -> Delivery]]
  BY TypeStep DEF ReceiverInv, TypeInv, TypeOK
<1>1. ASSUME NEW e \in Event, NEW w \in Webhook, Accept(e, w) \/ AcceptLate(e, w)
      PROVE  ReceiverInv'
  <2>1. Receive(e, w) /\ UNCHANGED fixed
    BY <1>1 DEF Accept, AcceptLate
  <2>2. /\ KeysTell' /\ ProcessedOnce'
        /\ \A v \in Webhook : seen[v] \subseteq seen'[v]
        /\ IdempotencyKey(e) \in seen'[w]
    BY <2>1, <1>t, ReceiveStep DEF ReceiverInv
  <2>3. \A f \in Event : IdempotencyKey(f)' = IdempotencyKey(f)
    BY <2>1 DEF IdempotencyKey, fixed
  <2>4. \A f \in Event, v \in Webhook :
          dl'[f][v].at \in Arrived => dl[f][v].at \in Arrived \/ (f = e /\ v = w)
    BY <1>1, <1>t DEF Accept, AcceptLate, Move
  <2>5. AcceptedIsSeen'
    BY <2>2, <2>3, <2>4 DEF ReceiverInv, AcceptedIsSeen
  <2> QED BY <2>2, <2>5, <1>t DEF ReceiverInv
<1>2. ASSUME UNCHANGED <<fixed, receivers>>,
             \A e \in Event, w \in Webhook :
               dl'[e][w].at \in Arrived => dl[e][w].at \in Arrived
      PROVE  ReceiverInv'
  BY <1>2, <1>t, Elsewhere DEF ReceiverInv
<1>3. ASSUME NEW e \in Event, Dispatch(e) \/ LookupFails(e) PROVE ReceiverInv'
  BY <1>3, <1>2 DEF Dispatch, LookupFails
<1>4. ASSUME NEW e \in Event, Found(e) PROVE ReceiverInv'
  <2>1. \A f \in Event, w \in Webhook : dl'[f][w].at \in Arrived => dl[f][w].at \in Arrived
    <3>1. PICK matching \in SUBSET {w \in Webhook : webhooks[w].active} :
            dl' = [dl EXCEPT ![e] = [w \in Webhook |->
                    IF w \in matching
                    THEN [NoDelivery EXCEPT !.at = "matched", !.retries = webhooks[w].retries]
                    ELSE NoDelivery]]
      BY <1>4 DEF Found
    <3>2. ASSUME NEW r
          PROVE  /\ [NoDelivery EXCEPT !.at = "matched", !.retries = r].at \notin Arrived
                 /\ NoDelivery.at \notin Arrived
      BY DEF NoDelivery, Arrived
    <3>3. \A w \in Webhook : dl'[e][w].at \notin Arrived
      BY <3>1, <3>2, <1>t
    <3>4. \A f \in Event, w \in Webhook : f # e => dl'[f][w] = dl[f][w]
      BY <3>1, <1>t
    <3> QED BY <3>3, <3>4
  <2> QED BY <1>2, <1>4, <2>1 DEF Found
<1>5. ASSUME NEW e \in Event, NEW w \in Webhook,
             \/ Reach(e, w) \/ AfterHook(e, w) \/ Add(e, w) \/ Attempt(e, w)
             \/ Answered(e, w) \/ Marked(e, w) \/ Reported(e, w)
      PROVE  ReceiverInv'
  <2>1. \A f \in Event, v \in Webhook : dl'[f][v].at \in Arrived => dl[f][v].at \in Arrived
    <3>1. CASE Reach(e, w) \/ AfterHook(e, w) \/ Attempt(e, w)
      <4>1. PICK at \in {"before", "skipped", "add", "sent"} : Move(e, w, at)
        BY <3>1 DEF Reach, AfterHook, Attempt
      <4> QED BY <4>1, <1>t DEF Move, Arrived
    <3>2. CASE Answered(e, w) \/ Marked(e, w) \/ Reported(e, w)
      BY <3>2, <1>t DEF Answered, Marked, Reported, Move, Arrived
    <3>3. CASE Add(e, w)
      BY <3>3, <1>t DEF Add, Arrived
    <3> QED BY <1>5, <3>1, <3>2, <3>3
  <2> QED BY <1>2, <1>5, <2>1 DEF Reach, AfterHook, Add, Attempt, Answered, Marked, Reported
<1>6. ASSUME NEW e \in Event, NEW w \in Webhook, NEW late \in BOOLEAN, AttemptFails(e, w, late)
      PROVE  ReceiverInv'
  <2>1. \A f \in Event, v \in Webhook : dl'[f][v].at \in Arrived => dl[f][v].at \in Arrived
    BY <1>6, <1>t DEF AttemptFails, Arrived
  <2> QED BY <1>2, <1>6, <2>1 DEF AttemptFails
<1>7. ASSUME NEW e \in Event, NEW w \in Webhook, ErrorTold(e, w) PROVE ReceiverInv'
  <2>1. \A f \in Event, v \in Webhook : dl'[f][v].at \in Arrived => dl[f][v].at \in Arrived
    BY <1>7, <1>t DEF ErrorTold, Arrived
  <2> QED BY <1>2, <1>7, <2>1 DEF ErrorTold
<1>8. CASE Restart
  <2>1. \A f \in Event, v \in Webhook : dl'[f][v].at \in Arrived => dl[f][v].at \in Arrived
    <3>1. \A at \in At : AfterDeath(at) \in Arrived => at \in Arrived
      BY DEF AfterDeath, Arrived, At
    <3>2. \A f \in Event, v \in Webhook :
            dl'[f][v].at = AfterDeath(dl[f][v].at) /\ dl[f][v].at \in At
      <4> TAKE f \in Event, v \in Webhook
      <4> DEFINE d == dl[f][v]
      <4>1. d \in Delivery /\ d.at \in At
        BY <1>t DEF Delivery
      <4>2. dl'[f][v] = [d EXCEPT !.at = AfterDeath(@), !.late = @ \/ d.at = "sent"]
        BY <1>8 DEF Restart
      <4> HIDE DEF d
      <4>3. [d EXCEPT !.at = AfterDeath(@), !.late = @ \/ d.at = "sent"].at = AfterDeath(d.at)
        BY <4>1 DEF Delivery
      <4>4. dl'[f][v].at = AfterDeath(d.at) /\ d.at \in At
        BY <4>1, <4>2, <4>3
      <4> QED BY <4>4 DEF d
    <3> QED BY <3>1, <3>2
  <2> QED BY <1>2, <1>8, <2>1 DEF Restart
<1>9. ASSUME NEW w \in Webhook, TurnOff(w) PROVE ReceiverInv'
  BY <1>2, <1>9 DEF TurnOff
<1>10. CASE UNCHANGED vars
  BY <1>2, <1>10 DEF vars, fixed, receivers
<1> QED BY <1>1, <1>3, <1>4, <1>5, <1>6, <1>7, <1>8, <1>9, <1>10
        DEF Next, DispatchStep, DeliveryStep, Refused, TimesOut, MarkFails

\* A receiver that drops the keys it has seen processes nothing twice, whatever
\* was retried, late, given up on, run again after a crash or dispatched twice.
THEOREM Deduplicated == Spec => []ProcessedOnce
<1>1. ReceiverInv => ProcessedOnce
  BY DEF ReceiverInv
<1> QED BY <1>1, ReceiverInit, ReceiverStep, PTL DEF Spec

\* A delivery reported as delivered was processed: no key stands for two things.
THEOREM NothingMistaken == Spec => []DeliveredIsProcessed
<1>1. ReceiverInv => DeliveredIsProcessed
  BY DEF ReceiverInv, AcceptedIsSeen, Arrived, KeysTell, DeliveredIsProcessed
<1> QED BY <1>1, ReceiverInit, ReceiverStep, PTL DEF Spec

-----------------------------------------------------------------------------
(* A dispatch serves its webhooks one after the other, and forgets none:     *)
(* whoever waits is ahead of a loop that runs, and a job stays one until it  *)
(* is delivered or given up on.                                            *)

InTurn ==
  \A e \in Event, w \in Webhook :
    /\ dl[e][w].at = "matched" => disp[e] = "loop"
    /\ disp[e] \in {"none", "lookup"} => dl[e][w].at = "none"
    /\ dl[e][w].at \in Awaited =>
         disp[e] = "loop" /\ \A v \in Webhook : dl[e][v].at \in Awaited => v = w

\* What BullMQ has of a delivery, from add() to the last answer.
Job == {"waiting", "sent", "accepted", "marking", "reporting", "erring"}

JobStays ==
  \A e \in Event, w \in Webhook :
    queued /\ dl[e][w].at \in Job => dl'[e][w].at \in Job \cup {"done", "failed"}

\* The steps of one delivery, past its turn.
StepOf(e, w) ==
  AfterHook(e, w) \/ Add(e, w) \/ DeliveryStep(e, w) \/ Accept(e, w) \/ AcceptLate(e, w)

\* They leave the others and the dispatch alone, and the loop has to wait for
\* nothing it did not wait for before.
LEMMA StepMoves ==
  ASSUME TypeInv, NEW e \in Event, NEW w \in Webhook, StepOf(e, w)
  PROVE  /\ UNCHANGED <<queued, disp>>
         /\ \A f \in Event, v \in Webhook : f # e \/ v # w => dl'[f][v] = dl[f][v]
         /\ \/ dl'[e][w].at = dl[e][w].at
            \/ {dl[e][w].at, dl'[e][w].at} \cap {"none", "matched"} = {}
         /\ dl'[e][w].at \in Awaited => dl[e][w].at \in Awaited
         /\ queued /\ dl[e][w].at \in Job => dl'[e][w].at \in Job \cup {"done", "failed"}
<1> USE DEF fixed
<1>t. dl \in [Event -> [Webhook -> Delivery]] /\ queued \in BOOLEAN
  BY DEF TypeInv, TypeOK
<1>1. CASE AfterHook(e, w) \/ Add(e, w)
  BY <1>1, <1>t DEF AfterHook, Add, Move, Awaited, Job
<1>2. CASE Attempt(e, w) \/ Accept(e, w) \/ Answered(e, w) \/ Marked(e, w) \/ Reported(e, w)
  <2>1. PICK at \in {"sent", "accepted", "marking", "reporting", "done"} : Move(e, w, at)
    BY <1>2 DEF Attempt, Accept, Answered, Marked, Reported
  <2>2. /\ UNCHANGED <<queued, disp>>
        /\ dl[e][w].at \in {"waiting", "sent", "accepted", "marking", "reporting"}
    BY <1>2 DEF Attempt, Accept, Answered, Marked, Reported
  <2>3. dl'[e][w].at = at /\ \A f \in Event, v \in Webhook : f # e \/ v # w => dl'[f][v] = dl[f][v]
    BY <2>1, <1>t DEF Move, Delivery
  <2> QED BY <2>2, <2>3 DEF Awaited, Job
<1>3. CASE AcceptLate(e, w)
  BY <1>3, <1>t DEF AcceptLate
<1>4. ASSUME NEW late \in BOOLEAN, AttemptFails(e, w, late),
             dl[e][w].at \in {"sent", "accepted", "marking"}
      PROVE  /\ UNCHANGED <<queued, disp>>
             /\ \A f \in Event, v \in Webhook : f # e \/ v # w => dl'[f][v] = dl[f][v]
             /\ dl'[e][w].at \in {"erring", "failed", "waiting"}
  BY <1>4, <1>t DEF AttemptFails
<1>5. CASE Refused(e, w) \/ TimesOut(e, w) \/ MarkFails(e, w)
  BY <1>4, <1>5, <1>t DEF Refused, TimesOut, MarkFails, Awaited, Job
<1>6. CASE ErrorTold(e, w)
  BY <1>6, <1>t DEF ErrorTold, AfterError, Awaited, Job
<1> QED BY <1>1, <1>2, <1>3, <1>5, <1>6 DEF StepOf, DeliveryStep

\* What is found is new, and what dies has had its turn.
LEMMA FoundMoves ==
  ASSUME TypeInv, NEW e \in Event, Found(e)
  PROVE  /\ disp[e] = "lookup" /\ disp'[e] = "loop"
         /\ \A f \in Event : f # e => disp'[f] = disp[f] /\ dl'[f] = dl[f]
         /\ \A w \in Webhook : dl'[e][w].at \in {"none", "matched"}
         /\ UNCHANGED queued
<1>t. dl \in [Event -> [Webhook -> Delivery]] /\ disp \in [Event -> DispatchAt]
  BY DEF TypeInv, TypeOK
<1>1. PICK matching \in SUBSET {w \in Webhook : webhooks[w].active} :
        dl' = [dl EXCEPT ![e] = [w \in Webhook |->
                IF w \in matching
                THEN [NoDelivery EXCEPT !.at = "matched", !.retries = webhooks[w].retries]
                ELSE NoDelivery]]
  BY DEF Found
<1>2. ASSUME NEW r PROVE [NoDelivery EXCEPT !.at = "matched", !.retries = r].at = "matched"
  BY DEF NoDelivery
<1>3. NoDelivery.at = "none"
  BY DEF NoDelivery
<1>4. \A w \in Webhook : dl'[e][w].at \in {"none", "matched"}
  BY <1>1, <1>2, <1>3, <1>t
<1>5. \A f \in Event : f # e => dl'[f] = dl[f]
  BY <1>1, <1>t
<1> QED BY <1>4, <1>5, <1>t DEF Found, fixed

LEMMA RestartMoves ==
  ASSUME TypeInv, Restart
  PROVE  /\ UNCHANGED queued
         /\ \A e \in Event : /\ disp[e] = "none" => disp'[e] = "none"
                             /\ disp[e] # "none" => disp'[e] = "over"
         /\ \A e \in Event, w \in Webhook : dl'[e][w].at = AfterDeath(dl[e][w].at)
<1>t. dl \in [Event -> [Webhook -> Delivery]] /\ disp \in [Event -> DispatchAt]
  BY DEF TypeInv, TypeOK
<1>1. ASSUME NEW e \in Event, NEW w \in Webhook
      PROVE  dl'[e][w].at = AfterDeath(dl[e][w].at)
  <2> DEFINE d == dl[e][w]
  <2>1. d \in Delivery
    BY <1>t
  <2>2. dl'[e][w] = [d EXCEPT !.at = AfterDeath(@), !.late = @ \/ d.at = "sent"]
    BY DEF Restart
  <2> HIDE DEF d
  <2>3. [d EXCEPT !.at = AfterDeath(@), !.late = @ \/ d.at = "sent"].at = AfterDeath(d.at)
    BY <2>1 DEF Delivery
  <2>4. dl'[e][w].at = AfterDeath(d.at)
    BY <2>2, <2>3
  <2> QED BY <2>4 DEF d
<1> QED BY <1>1, <1>t DEF Restart, fixed

LEMMA TurnStep == TypeInv /\ InTurn /\ [Next]_vars => InTurn'
<1> SUFFICES ASSUME TypeInv, InTurn, [Next]_vars PROVE InTurn'
  OBVIOUS
<1>t. /\ dl \in [Event -> [Webhook -> Delivery]] /\ disp \in [Event -> DispatchAt]
      /\ queued \in BOOLEAN
  BY DEF TypeInv, TypeOK
<1>q. UNCHANGED queued => Awaited' = Awaited
  BY DEF Awaited
<1>n. "none" \notin Awaited /\ "matched" \notin Awaited
  BY DEF Awaited
<1>1. ASSUME NEW e \in Event, Dispatch(e) \/ LookupFails(e) PROVE InTurn'
  <2>1. /\ disp[e] \in {"none", "lookup"} /\ UNCHANGED <<queued, dl>>
        /\ \A f \in Event : f # e => disp'[f] = disp[f]
    BY <1>1, <1>t DEF Dispatch, LookupFails, fixed
  <2>2. \A w \in Webhook : dl[e][w].at = "none"
    BY <2>1 DEF InTurn
  <2>3. Awaited' = Awaited
    BY <2>1, <1>q
  <2> QED BY <2>1, <2>2, <2>3, <1>n DEF InTurn
<1>2. ASSUME NEW e \in Event, Found(e) PROVE InTurn'
  <2>1. /\ disp'[e] = "loop" /\ UNCHANGED queued
        /\ \A f \in Event : f # e => disp'[f] = disp[f] /\ dl'[f] = dl[f]
        /\ \A w \in Webhook : dl'[e][w].at \in {"none", "matched"}
    BY <1>2, FoundMoves
  <2>2. Awaited' = Awaited
    BY <2>1, <1>q
  <2> QED BY <2>1, <2>2, <1>n DEF InTurn
<1>3. ASSUME NEW e \in Event, NEW w \in Webhook, Reach(e, w) PROVE InTurn'
  <2>1. /\ disp[e] = "loop" /\ dl'[e][w].at = "before" /\ UNCHANGED <<queued, disp>>
        /\ \A v \in Webhook : dl[e][v].at \notin Awaited
        /\ \A f \in Event, v \in Webhook : f # e \/ v # w => dl'[f][v] = dl[f][v]
    BY <1>3, <1>t DEF Reach, Busy, Move, fixed
  <2>2. Awaited' = Awaited
    BY <2>1, <1>q
  <2> QED BY <2>1, <2>2 DEF InTurn
<1>4. ASSUME NEW e \in Event, NEW w \in Webhook, StepOf(e, w) PROVE InTurn'
  <2>1. /\ UNCHANGED <<queued, disp>>
        /\ \A f \in Event, v \in Webhook : f # e \/ v # w => dl'[f][v] = dl[f][v]
        /\ \/ dl'[e][w].at = dl[e][w].at
           \/ {dl[e][w].at, dl'[e][w].at} \cap {"none", "matched"} = {}
        /\ dl'[e][w].at \in Awaited => dl[e][w].at \in Awaited
    BY <1>4, StepMoves
  <2>2. Awaited' = Awaited
    BY <2>1, <1>q
  <2>3. \A f \in Event, v \in Webhook :
          /\ dl'[f][v].at \in Awaited => dl[f][v].at \in Awaited
          /\ dl'[f][v].at = "matched" => dl[f][v].at = "matched"
          /\ dl[f][v].at = "none" => dl'[f][v].at = "none"
    BY <2>1
  <2> QED BY <2>1, <2>2, <2>3 DEF InTurn
<1>5. CASE Restart
  <2>1. /\ UNCHANGED queued
        /\ \A e \in Event : /\ disp[e] = "none" => disp'[e] = "none"
                            /\ disp[e] # "none" => disp'[e] = "over"
        /\ \A e \in Event, w \in Webhook : dl'[e][w].at = AfterDeath(dl[e][w].at)
    BY <1>5, RestartMoves
  <2>2. \A e \in Event, w \in Webhook : dl[e][w].at \in At
    BY <1>t DEF Delivery
  <2>3. \A at \in At : /\ AfterDeath(at) \notin Awaited \cup {"matched"}
                       /\ at = "none" => AfterDeath(at) = "none"
    BY <1>t DEF AfterDeath, Awaited, At
  <2>4. Awaited' = Awaited
    BY <2>1, <1>q
  <2>5. \A e \in Event, w \in Webhook :
          /\ dl'[e][w].at \notin Awaited \cup {"matched"}
          /\ dl[e][w].at = "none" => dl'[e][w].at = "none"
    BY <2>1, <2>2, <2>3
  <2>6. \A e \in Event : disp'[e] \in {"none", "lookup"} => disp[e] = "none"
    BY <2>1
  <2> QED BY <2>4, <2>5, <2>6 DEF InTurn
<1>6. CASE UNCHANGED vars \/ \E w \in Webhook : TurnOff(w)
  <2>1. UNCHANGED <<queued, disp, dl>>
    BY <1>6 DEF vars, TurnOff, fixed
  <2> QED BY <2>1, <1>q DEF InTurn
<1> QED BY <1>1, <1>2, <1>3, <1>4, <1>5, <1>6 DEF Next, DispatchStep, StepOf

LEMMA JobsStep == TypeInv /\ InTurn /\ [Next]_vars => [JobStays]_vars
<1> SUFFICES ASSUME TypeInv, InTurn, Next,
                    NEW e \in Event, NEW w \in Webhook, queued, dl[e][w].at \in Job
             PROVE  dl'[e][w].at \in Job \cup {"done", "failed"}
  BY DEF JobStays
<1>t. dl \in [Event -> [Webhook -> Delivery]] /\ disp \in [Event -> DispatchAt]
  BY DEF TypeInv, TypeOK
<1>k. CASE UNCHANGED dl
  BY <1>k
<1>1. ASSUME NEW f \in Event, Found(f) PROVE dl'[e][w] = dl[e][w]
  <2>1. e # f
    BY <1>1, FoundMoves DEF InTurn, Job
  <2> QED BY <1>1, <2>1, FoundMoves
<1>2. ASSUME NEW f \in Event, NEW v \in Webhook, Reach(f, v) PROVE dl'[e][w] = dl[e][w]
  BY <1>2, <1>t DEF Reach, Move, Job
<1>3. ASSUME NEW f \in Event, NEW v \in Webhook, StepOf(f, v)
      PROVE  dl'[e][w].at \in Job \cup {"done", "failed"}
  <2>1. CASE f = e /\ v = w
    BY <1>3, <2>1, StepMoves
  <2>2. CASE f # e \/ v # w
    <3>1. \A g \in Event, u \in Webhook : g # f \/ u # v => dl'[g][u] = dl[g][u]
      BY <1>3, StepMoves
    <3>2. dl'[e][w] = dl[e][w]
      BY <2>2, <3>1
    <3> QED BY <3>2
  <2> QED BY <2>1, <2>2
<1>4. CASE Restart
  BY <1>4, RestartMoves DEF AfterDeath, Job
<1>5. (\E v \in Webhook : TurnOff(v)) \/ (\E f \in Event : Dispatch(f) \/ LookupFails(f))
        => UNCHANGED dl
  BY DEF TurnOff, Dispatch, LookupFails
<1> QED BY <1>1, <1>2, <1>3, <1>4, <1>5, <1>k DEF Next, DispatchStep, StepOf

\* A dispatch has one delivery in hand at a time, and as long as a webhook waits
\* for its turn the loop that will come to it runs; a job that is in the queue
\* stays there, whatever fails or dies, until it is delivered or given up on.
\* That they then are is fairness (EveryoneServed, QueuedSurvives).
THEOREM ServedInTurn == Spec => []InTurn /\ [][JobStays]_vars
<1>1. Init => InTurn
  <2>1. NoDelivery.at = "none" /\ "none" \notin Awaited
    BY DEF NoDelivery, Awaited
  <2> QED BY <2>1 DEF Init, InTurn
<1> QED BY <1>1, TypeInit, TypeStep, TurnStep, JobsStep, PTL DEF Spec

=============================================================================
