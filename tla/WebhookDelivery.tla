-------------------------- MODULE WebhookDelivery --------------------------
(***************************************************************************)
(* Events of one session on their way to its webhooks: dispatch(), which   *)
(* walks over the webhooks and posts to each in turn, or leaves a job for  *)
(* each in the queue that WebhookProcessor works on; receivers that        *)
(* answer, refuse or are late and that drop what they have seen, as the    *)
(* documentation tells them to; and a restart of the process.              *)
(*                                                                         *)
(* All the events here have the same content: of events that differ in     *)
(* content neither the service nor a receiver ever takes one for the other. *)
(***************************************************************************)
EXTENDS Integers, FiniteSets

CONSTANTS
  Webhook,    \* webhooks of the session
  Event,      \* calls of dispatch()
  Retries,    \* the values of retryCount
  DbFails     \* the update of lastTriggeredAt may reject

ASSUME WebhookAssumption == Retries \subseteq Nat /\ DbFails \in BOOLEAN

VARIABLES
  queued,     \* queueEnabled
  recurs,     \* the events are of a kind that recurs (session.status, ...)
  webhooks,   \* the rows of the table webhooks
  disp,       \* how far each call of dispatch() is
  dl,         \* the delivery of each event to each webhook
  seen,       \* the idempotency keys each receiver has processed
  processed,  \* how often each receiver has processed each event
  restarted   \* the process died once

vars == <<queued, recurs, webhooks, disp, dl, seen, processed, restarted>>

-----------------------------------------------------------------------------
DispatchAt == {"none", "lookup", "loop", "over"}

At == {"none", "matched", "before", "add", "waiting", "sent", "accepted", "marking",
       "reporting", "erring", "skipped", "unqueued", "done", "failed", "lost"}

\* failures: attempts that failed (attempt - 1, job.attemptsMade); told: the
\* hook webhook:error has run; late: a request given up on is still under way.
Delivery == [at : At, failures : Nat, retries : Retries \cup {0}, told : BOOLEAN,
             late : BOOLEAN]

NoDelivery == [at |-> "none", failures |-> 0, retries |-> 0, told |-> FALSE, late |-> FALSE]

\* Mutants of IdempotencyKey: no time in it, or always the time.
IdempotencyKeyContent(e) == Event
IdempotencyKeyOccurrence(e) == {e}

\* generateIdempotencyKey(): a key stands for the set of dispatches that share
\* it.  A message has the key of its id; of a kind that recurs each dispatch
\* has its own, from the time that dispatch() takes once.
IdempotencyKey(e) == IF recurs THEN {e} ELSE Event

\* Mutant of IsFinalAttempt: off by one.
IsFinalAttemptLate(failures, retries) == failures >= retries

\* isFinalAttempt in the processor's catch block.
IsFinalAttempt(failures, retries) == failures + 1 >= retries

\* Mutant of JobRetried: retryCount taken for the attempts after the first.
JobRetriedMore(failures, retries) == failures < retries

\* The decision of BullMQ, from the option "attempts" of the job.
JobRetried(failures, retries) == failures + 1 < retries

\* The decision of deliverWebhook().
Retried(failures, retries) == failures + 1 < retries

\* What dispatch() awaits before it goes on to the next webhook.
Awaited == {"before", "add"} \cup
  (IF queued THEN {} ELSE {"waiting", "sent", "accepted", "marking", "reporting", "erring"})

Busy(e) == \E w \in Webhook : dl[e][w].at \in Awaited

-----------------------------------------------------------------------------
Init ==
  /\ queued \in BOOLEAN
  /\ recurs \in BOOLEAN
  /\ webhooks \in [Webhook -> [active : BOOLEAN, retries : Retries]]
  /\ disp = [e \in Event |-> "none"]
  /\ dl = [e \in Event |-> [w \in Webhook |-> NoDelivery]]
  /\ seen = [w \in Webhook |-> {}]
  /\ processed = [w \in Webhook |-> [e \in Event |-> 0]]
  /\ restarted = FALSE

fixed == <<queued, recurs>>
receivers == <<seen, processed>>

Move(e, w, at) == dl' = [dl EXCEPT ![e][w].at = at]

-----------------------------------------------------------------------------
(* dispatch()                                                              *)

Dispatch(e) ==
  /\ disp[e] = "none"
  /\ disp' = [disp EXCEPT ![e] = "lookup"]
  /\ UNCHANGED <<fixed, webhooks, dl, receivers, restarted>>

LookupFails(e) ==
  /\ disp[e] = "lookup"
  /\ disp' = [disp EXCEPT ![e] = "over"]
  /\ UNCHANGED <<fixed, webhooks, dl, receivers, restarted>>

\* The active webhooks that subscribe to the event and whose filters let it
\* pass, with the configuration they have now.
Found(e) ==
  /\ disp[e] = "lookup"
  /\ disp' = [disp EXCEPT ![e] = "loop"]
  /\ \E matching \in SUBSET {w \in Webhook : webhooks[w].active} :
       dl' = [dl EXCEPT ![e] = [w \in Webhook |->
               IF w \in matching
               THEN [NoDelivery EXCEPT !.at = "matched", !.retries = webhooks[w].retries]
               ELSE NoDelivery]]
  /\ UNCHANGED <<fixed, webhooks, receivers, restarted>>

\* The next webhook: the hook webhook:before runs.
Reach(e, w) ==
  /\ disp[e] = "loop" /\ ~Busy(e)
  /\ dl[e][w].at = "matched"
  /\ Move(e, w, "before")
  /\ UNCHANGED <<fixed, webhooks, disp, receivers, restarted>>

\* A plugin cancels, or the payload is posted or queued.
AfterHook(e, w) ==
  /\ dl[e][w].at = "before"
  /\ \/ Move(e, w, "skipped")
     \/ Move(e, w, IF queued THEN "add" ELSE "sent")
  /\ UNCHANGED <<fixed, webhooks, disp, receivers, restarted>>

\* webhookQueue.add() resolves, or rejects, which runs webhook:error.
Add(e, w) ==
  /\ dl[e][w].at = "add"
  /\ \E at \in {"waiting", "unqueued"} :
       dl' = [dl EXCEPT ![e][w].at = at, ![e][w].told = (at = "unqueued")]
  /\ UNCHANGED <<fixed, webhooks, disp, receivers, restarted>>

-----------------------------------------------------------------------------
(* An attempt: of deliverWebhook(), or of process() on a job.               *)

\* The delay is over, or the worker takes the job.
Attempt(e, w) ==
  /\ dl[e][w].at = "waiting"
  /\ Move(e, w, "sent")
  /\ UNCHANGED <<fixed, webhooks, disp, receivers, restarted>>

\* A request arrives: the receiver processes an event whose key it has not seen.
Receive(e, w) ==
  IF IdempotencyKey(e) \in seen[w]
  THEN UNCHANGED receivers
  ELSE /\ seen' = [seen EXCEPT ![w] = @ \cup {IdempotencyKey(e)}]
       /\ processed' = [processed EXCEPT ![w][e] = @ + 1]

Accept(e, w) ==
  /\ dl[e][w].at = "sent"
  /\ Receive(e, w)
  /\ Move(e, w, "accepted")
  /\ UNCHANGED <<fixed, webhooks, disp, restarted>>

\* A request that was given up on arrives after all.
AcceptLate(e, w) ==
  /\ dl[e][w].late
  /\ Receive(e, w)
  /\ dl' = [dl EXCEPT ![e][w].late = FALSE]
  /\ UNCHANGED <<fixed, webhooks, disp, restarted>>

\* The answer is a 2xx; lastTriggeredAt is updated.
Answered(e, w) ==
  /\ dl[e][w].at = "accepted"
  /\ Move(e, w, "marking")
  /\ UNCHANGED <<fixed, webhooks, disp, receivers, restarted>>

Marked(e, w) ==
  /\ dl[e][w].at = "marking"
  /\ Move(e, w, "reporting")
  /\ UNCHANGED <<fixed, webhooks, disp, receivers, restarted>>

\* The hook webhook:delivered is done.
Reported(e, w) ==
  /\ dl[e][w].at = "reporting"
  /\ Move(e, w, "done")
  /\ UNCHANGED <<fixed, webhooks, disp, receivers, restarted>>

\* The catch block: webhook:error is run if this was the last attempt; otherwise
\* it is repeated after a delay.  In the queue BullMQ decides about that.
AttemptFails(e, w, late) ==
  LET d == dl[e][w]
      last == IF queued THEN IsFinalAttempt(d.failures, d.retries)
                        ELSE ~Retried(d.failures, d.retries)
      next == IF last THEN "erring"
              ELSE IF queued /\ ~JobRetried(d.failures, d.retries) THEN "failed"
              ELSE "waiting" IN
  /\ dl' = [dl EXCEPT ![e][w] =
       [d EXCEPT !.at = next, !.told = @ \/ last, !.late = @ \/ late,
                 !.failures = IF last THEN @ ELSE @ + 1]]
  /\ UNCHANGED <<fixed, webhooks, disp, receivers, restarted>>

\* Refused, redirected, not connected...
Refused(e, w) == dl[e][w].at = "sent" /\ AttemptFails(e, w, FALSE)

\* AbortSignal.timeout(): what was sent may still arrive, or has arrived.
TimesOut(e, w) ==
  \/ dl[e][w].at = "sent" /\ AttemptFails(e, w, TRUE)
  \/ dl[e][w].at = "accepted" /\ AttemptFails(e, w, FALSE)

\* The update of lastTriggeredAt rejects in the try block of the request.
MarkFails(e, w) == DbFails /\ dl[e][w].at = "marking" /\ AttemptFails(e, w, FALSE)

\* Mutant of AfterError: the error ends the loop over the webhooks.
AfterErrorStop(e) == [disp EXCEPT ![e] = IF queued THEN @ ELSE "over"]

\* dispatch() catches the error of a delivery.
AfterError(e) == disp

\* The hook webhook:error is done: deliverWebhook() has thrown before it,
\* process() throws after it and BullMQ has its say.
ErrorTold(e, w) ==
  LET d == dl[e][w] IN
  /\ d.at = "erring"
  /\ dl' = [dl EXCEPT ![e][w] =
       [d EXCEPT !.at = IF queued /\ JobRetried(d.failures, d.retries)
                        THEN "waiting" ELSE "failed",
                 !.failures = @ + 1]]
  /\ disp' = AfterError(e)
  /\ UNCHANGED <<fixed, webhooks, receivers, restarted>>

-----------------------------------------------------------------------------
\* update() or delete() of a webhook: it is turned off.
TurnOff(w) ==
  /\ webhooks[w].active
  /\ webhooks' = [webhooks EXCEPT ![w].active = FALSE]
  /\ UNCHANGED <<fixed, disp, dl, receivers, restarted>>

\* Mutant of AfterDeath: a job that was being worked on is gone.
AfterDeathLost(at) ==
  IF at \in {"none", "waiting", "skipped", "unqueued", "done", "failed", "lost"}
  THEN at ELSE "lost"

\* What the death of the process makes of a delivery.  Jobs are in Redis: one
\* that was being worked on is found stalled and run again, its attempt not
\* counted.
AfterDeath(at) ==
  CASE at \in {"none", "skipped", "unqueued", "done", "failed", "lost"} -> at
    [] queued /\ at \in {"waiting", "sent", "accepted", "marking", "reporting", "erring"}
         -> "waiting"
    [] OTHER -> "lost"

Restart ==
  /\ ~restarted
  /\ restarted' = TRUE
  /\ disp' = [e \in Event |-> IF disp[e] = "none" THEN "none" ELSE "over"]
  /\ dl' = [e \in Event |-> [w \in Webhook |->
       [dl[e][w] EXCEPT !.at = AfterDeath(@),
                        !.late = @ \/ dl[e][w].at = "sent"]]]
  /\ UNCHANGED <<fixed, webhooks, receivers>>

-----------------------------------------------------------------------------
DispatchStep(e) ==
  \/ LookupFails(e) \/ Found(e)
  \/ \E w \in Webhook : Reach(e, w) \/ AfterHook(e, w) \/ Add(e, w)

DeliveryStep(e, w) ==
  \/ Attempt(e, w) \/ Answered(e, w) \/ Marked(e, w) \/ Reported(e, w)
  \/ Refused(e, w) \/ TimesOut(e, w) \/ MarkFails(e, w) \/ ErrorTold(e, w)

Next ==
  \/ \E e \in Event :
       \/ Dispatch(e) \/ DispatchStep(e)
       \/ \E w \in Webhook : DeliveryStep(e, w) \/ Accept(e, w) \/ AcceptLate(e, w)
  \/ \E w \in Webhook : TurnOff(w)
  \/ Restart

Spec == Init /\ [][Next]_vars

\* Hooks and statements settle, timers fire (a request settles by its timeout at
\* the latest), and BullMQ runs the jobs it has.  A receiver owes nothing.
Fairness ==
  \A e \in Event : /\ WF_vars(DispatchStep(e))
                   /\ \A w \in Webhook : WF_vars(DeliveryStep(e, w))

FairSpec == Spec /\ Fairness

-----------------------------------------------------------------------------
\* Types of the variables; a delivery is attempted once, or retryCount times at
\* most (attempts cut short by a crash apart).
TypeOK ==
  /\ queued \in BOOLEAN
  /\ recurs \in BOOLEAN
  /\ webhooks \in [Webhook -> [active : BOOLEAN, retries : Retries]]
  /\ disp \in [Event -> DispatchAt]
  /\ dl \in [Event -> [Webhook -> Delivery]]
  /\ \A e \in Event, w \in Webhook :
       dl[e][w].failures <= 1 \/ dl[e][w].failures <= dl[e][w].retries
  /\ seen \in [Webhook -> SUBSET SUBSET Event]
  /\ processed \in [Webhook -> [Event -> Nat]]
  /\ restarted \in BOOLEAN

\* The dispatches that tell of the same thing as e does: of one message, all;
\* of what recurs, e alone.
Same(e) == IF recurs THEN {e} ELSE Event

\* A receiver that drops the keys it has seen processes nothing twice, whatever
\* was retried, late, given up on, queued again after a crash or dispatched twice.
ProcessedOnce ==
  \A w \in Webhook, e, f \in Event :
    /\ processed[w][e] <= 1
    /\ f \in Same(e) /\ f # e => processed[w][e] = 0 \/ processed[w][f] = 0

\* A delivery that is reported as delivered was processed: no event is taken for
\* an earlier one and dropped.
DeliveredIsProcessed ==
  \A w \in Webhook, e \in Event :
    dl[e][w].at \in {"reporting", "done"} => \E f \in Same(e) : processed[w][f] = 1

\* webhook:error is run for exactly the deliveries that are over without success:
\* the three places that count attempts agree.  But for a crash between the hook
\* and the end of the job.
ErrorMeansOver ==
  \A e \in Event, w \in Webhook :
    /\ dl[e][w].at \in {"failed", "unqueued"} => dl[e][w].told
    /\ dl[e][w].told => dl[e][w].at \in {"erring", "failed", "unqueued"} \/ restarted

Settled == {"skipped", "unqueued", "done", "failed"}

\* No webhook of a dispatch waits forever for the ones before it, whether they
\* answer, fail or hang, unless the process dies.
EveryoneServed ==
  \A e \in Event, w \in Webhook :
    dl[e][w].at = "matched" ~> dl[e][w].at \in Settled \/ restarted

\* A job in the queue is delivered or given up on, whatever happens to the process.
QueuedSurvives ==
  \A e \in Event, w \in Webhook :
    queued /\ dl[e][w].at = "waiting" ~> dl[e][w].at \in {"done", "failed"}
=============================================================================
