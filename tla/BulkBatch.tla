------------------------------ MODULE BulkBatch ------------------------------
(***************************************************************************)
(* One bulk batch: createBatch() and the processBatch() it starts,         *)
(* cancelBatch() called on this or on another instance of the service, a   *)
(* restart of this one, and the row of message_batches that all of them    *)
(* read, hold a copy of, and save as a whole.                              *)
(***************************************************************************)
EXTENDS Integers, FiniteSets

CONSTANTS
  N,             \* messages in the batch
  Cadence,       \* progress is saved every Cadence messages (10 in the code)
  Cancel,        \* calls of cancelBatch()
  Remote,        \* those that another instance serves
  EarlyCancel    \* a cancel may overtake the first read of processBatch()

ASSUME BatchAssumption ==
  /\ N \in Nat \ {0}
  /\ Cadence \in Nat \ {0}
  /\ Remote \subseteq Cancel
  /\ EarlyCancel \in BOOLEAN

VARIABLES
  stopOnError,  \* an option of the batch
  row,          \* its row
  flag,         \* processingBatches.get(id): "on", "off", or "none"
  worker,       \* processBatch()
  cancels,      \* the calls of cancelBatch()
  outcome,      \* what became of each message
  attempts,     \* how often each was handed to the engine
  restarted     \* the process died once

vars == <<stopOnError, row, flag, worker, cancels, outcome, attempts, restarted>>

-----------------------------------------------------------------------------
Index == 0..(N - 1)

Status == {"absent", "pending", "processing", "completed", "cancelled", "failed"}

Batch == [status : Status, sent : Nat, failed : Nat, pending : Int,
          cancelled : Int, index : 0..N]

NoBatch == [status |-> "absent", sent |-> 0, failed |-> 0, pending |-> 0,
            cancelled |-> 0, index |-> 0]

NewBatch == [NoBatch EXCEPT !.status = "pending", !.pending = N]

WorkerAt == {"none", "load", "loaded", "start", "engine", "disengage", "next",
             "sending", "reread", "save", "final", "decide", "close", "forget",
             "end", "died", "boot"}

CancelAt == {"none", "found", "save", "done", "refused", "died"}

\* copy: the entity the call holds; i: the loop variable; cancelled: a re-read
\* of the row showed CANCELLED.
Idle == [at |-> "none", copy |-> NoBatch, i |-> 0, stopped |-> FALSE,
         cancelled |-> FALSE]

NoCancel == [at |-> "none", copy |-> NoBatch, found |-> "absent"]

\* Mutant of CancelRest: what was pending is counted twice.
CancelRestKeeps(b) == [b EXCEPT !.cancelled = b.pending]

\* The counters when a batch is cancelled: what was pending will not be sent.
CancelRest(b) == [b EXCEPT !.cancelled = b.pending, !.pending = 0]

\* Mutant of FinalStatus: an error that stopped the batch is not looked at.
FinalStatusUnstopped(cancelled, stopped, b) ==
  IF cancelled THEN "cancelled"
  ELSE IF b.failed > 0 /\ b.sent = 0 THEN "failed" ELSE "completed"

\* resolveFinalBatchStatus().
FinalStatus(cancelled, stopped, b) ==
  IF cancelled THEN "cancelled"
  ELSE IF stopped \/ (b.failed > 0 /\ b.sent = 0) THEN "failed" ELSE "completed"

-----------------------------------------------------------------------------
Init ==
  /\ stopOnError \in BOOLEAN
  /\ row = NoBatch
  /\ flag = "none"
  /\ worker = Idle
  /\ cancels = [c \in Cancel |-> NoCancel]
  /\ outcome = [i \in Index |-> "none"]
  /\ attempts = [i \in Index |-> 0]
  /\ restarted = FALSE

messages == <<outcome, attempts>>
rest == <<stopOnError, cancels, messages, restarted>>

\* createBatch() saves the row and starts processBatch() without awaiting it.
Create ==
  /\ worker.at = "none" /\ row.status = "absent"
  /\ row' = NewBatch
  /\ worker' = [worker EXCEPT !.at = "load"]
  /\ UNCHANGED <<flag, rest>>

-----------------------------------------------------------------------------
(* processBatch()                                                          *)

Goto(at) == worker' = [worker EXCEPT !.at = at]

Load ==
  /\ worker.at = "load"
  /\ worker' = [worker EXCEPT !.at = "loaded", !.copy = row]
  /\ UNCHANGED <<row, flag, rest>>

Begin ==
  /\ worker.at = "loaded"
  /\ flag' = "on"
  /\ worker' = [worker EXCEPT !.at = "start", !.copy.status = "processing"]
  /\ UNCHANGED <<row, rest>>

\* An awaited save of the entity.
Save(from, to) ==
  /\ worker.at = from
  /\ row' = worker.copy
  /\ Goto(to)
  /\ UNCHANGED <<flag, rest>>

\* Without an engine the batch is given up; the flag stays.
NoEngine ==
  /\ worker.at = "engine"
  /\ worker' = [worker EXCEPT !.at = "disengage", !.copy.status = "failed"]
  /\ UNCHANGED <<row, flag, rest>>

HasEngine ==
  /\ worker.at = "engine"
  /\ worker' = [worker EXCEPT !.at = "next", !.i = worker.copy.index]
  /\ UNCHANGED <<row, flag, rest>>

\* Mutant of Stopped: whether there is an entry, not what it says.
StoppedIfAbsent == flag = "none"

\* !processingBatches.get(id).
Stopped == flag # "on"

LeaveLoop ==
  /\ worker.at = "next"
  /\ worker.i = N \/ Stopped
  /\ Goto("final")
  /\ UNCHANGED <<row, flag, rest>>

SendNext ==
  /\ worker.at = "next"
  /\ worker.i < N /\ ~Stopped
  /\ Goto("sending")
  /\ attempts' = [attempts EXCEPT ![worker.i] = @ + 1]
  /\ UNCHANGED <<stopOnError, row, flag, cancels, outcome, restarted>>

\* The last message, and every Cadence-th, saves the progress.
SaveDue(i) == i % Cadence = 0 \/ i = N - 1

\* Mutant of Recorded: the index runs ahead of the messages.
RecordedAhead(b) ==
  worker' = [worker EXCEPT
    !.at = IF SaveDue(worker.i) THEN "reread" ELSE "next",
    !.i = IF SaveDue(worker.i) THEN @ ELSE @ + 1,
    !.copy = [b EXCEPT !.index = worker.i + 2]]

\* The result is recorded in the entity; b holds the new counters.
Recorded(b) ==
  worker' = [worker EXCEPT
    !.at = IF SaveDue(worker.i) THEN "reread" ELSE "next",
    !.i = IF SaveDue(worker.i) THEN @ ELSE @ + 1,
    !.copy = [b EXCEPT !.index = worker.i + 1]]

SendOk ==
  LET b == worker.copy IN
  /\ worker.at = "sending"
  /\ outcome' = [outcome EXCEPT ![worker.i] = "sent"]
  /\ Recorded([b EXCEPT !.sent = @ + 1, !.pending = @ - 1])
  /\ UNCHANGED <<stopOnError, row, flag, cancels, attempts, restarted>>

\* Mutant of BreaksLoop: the batch goes on after an error.
BreaksLoopNever == FALSE

BreaksLoop == stopOnError

SendFails ==
  LET b == [worker.copy EXCEPT !.failed = @ + 1, !.pending = @ - 1] IN
  /\ worker.at = "sending"
  /\ outcome' = [outcome EXCEPT ![worker.i] = "failed"]
  /\ IF BreaksLoop
     THEN worker' = [worker EXCEPT !.at = "final", !.stopped = TRUE,
                                   !.copy = [b EXCEPT !.status = "failed"]]
     ELSE Recorded(b)
  /\ UNCHANGED <<stopOnError, row, flag, cancels, attempts, restarted>>

\* Before it is saved, the row is read again: a CANCELLED of another instance
\* ends the loop.
Reread ==
  /\ worker.at = "reread"
  /\ worker' = IF row.status = "cancelled"
               THEN [worker EXCEPT !.at = "decide", !.cancelled = TRUE]
               ELSE [worker EXCEPT !.at = "save"]
  /\ UNCHANGED <<row, flag, rest>>

SaveProgress ==
  /\ worker.at = "save"
  /\ row' = worker.copy
  /\ worker' = [worker EXCEPT !.at = "next", !.i = @ + 1]
  /\ UNCHANGED <<flag, rest>>

FinalReread ==
  /\ worker.at = "final"
  /\ worker' = [worker EXCEPT !.at = "decide", !.cancelled = row.status = "cancelled"]
  /\ UNCHANGED <<row, flag, rest>>

Decide ==
  LET cancelled == worker.cancelled \/ Stopped
      b == worker.copy IN
  /\ worker.at = "decide"
  /\ worker' = [worker EXCEPT
       !.at = "close",
       !.copy = [(IF cancelled THEN CancelRest(b) ELSE b)
                   EXCEPT !.status = FinalStatus(cancelled, worker.stopped, b)]]
  /\ UNCHANGED <<row, flag, rest>>

Forget ==
  /\ worker.at = "forget"
  /\ flag' = "none"
  /\ Goto("end")
  /\ UNCHANGED <<row, rest>>

\* A statement rejects: the error is logged and that is all.
Dies ==
  /\ worker.at \in {"load", "start", "disengage", "reread", "save", "final", "close"}
  /\ Goto("died")
  /\ UNCHANGED <<row, flag, rest>>

-----------------------------------------------------------------------------
(* cancelBatch()                                                           *)

CancelFinds(c) ==
  /\ cancels[c].at = "none"
  /\ EarlyCancel \/ worker.at # "load"
  /\ cancels' = [cancels EXCEPT ![c] =
       IF row.status \in {"absent", "completed", "cancelled"}
       THEN [NoCancel EXCEPT !.at = "refused"]
       ELSE [at |-> "found", copy |-> row, found |-> row.status]]
  /\ UNCHANGED <<stopOnError, row, flag, worker, messages, restarted>>

\* The signal goes to the instance that serves the call.
CancelMarks(c) ==
  /\ cancels[c].at = "found"
  /\ flag' = IF c \in Remote THEN flag ELSE "off"
  /\ cancels' = [cancels EXCEPT
       ![c].at = "save",
       ![c].copy = [CancelRest(cancels[c].copy) EXCEPT !.status = "cancelled"]]
  /\ UNCHANGED <<stopOnError, row, worker, messages, restarted>>

CancelSaves(c) ==
  /\ cancels[c].at = "save"
  /\ row' = cancels[c].copy
  /\ cancels' = [cancels EXCEPT ![c].at = "done", ![c].copy = NoBatch]
  /\ UNCHANGED <<stopOnError, flag, worker, messages, restarted>>

\* The save rejects; the signal has been given all the same.
CancelRejected(c) ==
  /\ cancels[c].at = "save"
  /\ cancels' = [cancels EXCEPT ![c].at = "died", ![c].copy = NoBatch]
  /\ UNCHANGED <<stopOnError, row, flag, worker, messages, restarted>>

-----------------------------------------------------------------------------
(* The process dies; onApplicationBootstrap() fails what was being driven.   *)

\* Mutant of Orphaned: the wrong status is looked for.
OrphanedPending(r) == r.status = "pending"

Orphaned(r) == r.status = "processing"

Restart ==
  /\ ~restarted
  /\ restarted' = TRUE
  /\ flag' = "none"
  /\ worker' = IF Orphaned(row) THEN [Idle EXCEPT !.at = "boot", !.copy = row]
                                ELSE [Idle EXCEPT !.at = "died"]
  /\ cancels' = [c \in Cancel |->
       IF c \notin Remote /\ cancels[c].at \in {"found", "save"}
       THEN [NoCancel EXCEPT !.at = "died"] ELSE cancels[c]]
  /\ UNCHANGED <<stopOnError, row, messages>>

\* Mutant of AfterBoot: the batch is resumed where its row says it was.
AfterBootResume == "load"

AfterBoot == "died"

Boot ==
  /\ worker.at = "boot"
  /\ row' = [worker.copy EXCEPT !.status = "failed"]
  /\ worker' = [Idle EXCEPT !.at = AfterBoot]
  /\ UNCHANGED <<flag, rest>>

-----------------------------------------------------------------------------
Work ==
  \/ Load \/ Begin \/ Save("start", "engine")
  \/ NoEngine \/ Save("disengage", "end") \/ HasEngine
  \/ LeaveLoop \/ SendNext \/ SendOk \/ SendFails \/ Reread \/ SaveProgress
  \/ FinalReread \/ Decide \/ Save("close", "forget") \/ Forget
  \/ Boot

Next ==
  \/ Create \/ Work \/ Dies
  \/ \E c \in Cancel : 
       \/ CancelFinds(c) \/ CancelMarks(c) \/ CancelSaves(c) \/ CancelRejected(c)
  \/ Restart

Spec == Init /\ [][Next]_vars

\* The engine and the database answer: the promises processBatch() awaits settle.
FairSpec == Spec /\ WF_vars(Work)

-----------------------------------------------------------------------------
\* Types of the variables.
TypeOK ==
  /\ stopOnError \in BOOLEAN
  /\ row \in Batch
  /\ flag \in {"none", "on", "off"}
  /\ worker \in [at : WorkerAt, copy : Batch, i : 0..N, stopped : BOOLEAN,
                 cancelled : BOOLEAN]
  /\ cancels \in [Cancel -> [at : CancelAt, copy : Batch, found : Status]]
  /\ outcome \in [Index -> {"none", "sent", "failed"}]
  /\ attempts \in [Index -> Nat]
  /\ restarted \in BOOLEAN

\* In every saved state, whoever saved it, the counters account for each
\* message of the batch exactly once.
ProgressAddsUp ==
  row.status # "absent" => 
    /\ row.sent + row.failed + row.pending + row.cancelled = N
    /\ row.pending >= 0 /\ row.cancelled >= 0

\* No message is handed to the engine twice, restarts included: a batch that
\* was interrupted is not resumed, "resuming risks re-sending messages".
NeverResent == \A i \in Index : attempts[i] <= 1

\* With stopOnError nothing is sent after the first failure.
StopsOnError ==
  stopOnError =>
    \A i, j \in Index : i < j /\ outcome[i] = "failed" => attempts[j] = 0

\* A cancel of this instance that found the batch being processed has stopped
\* it by the time it answers: the engine is handed nothing any more.
CancelStopsSending ==
  [][(\E c \in Cancel \ Remote :
        cancels[c].at = "done" /\ cancels[c].found = "processing")
     => attempts' = attempts]_vars

Count(o) == Cardinality({i \in Index : outcome[i] = o})

\* When processBatch() is done, a status other than CANCELLED comes with exact
\* counters and is the truth: COMPLETED if every message was tried and one was
\* sent, FAILED if an error stopped the batch, none was sent, or none was tried.
ReportIsExact ==
  worker.at = "end" /\ row.status # "cancelled" =>
    /\ row.sent = Count("sent") /\ row.failed = Count("failed")
    /\ \/ row.status = "completed" /\ Count("none") = 0 /\ Count("sent") > 0
       \/ row.status = "failed" /\ \/ Count("sent") = 0
                                   \/ stopOnError /\ Count("failed") > 0

\* A cancel that was answered with success stays: the cancellation "must win over
\* the in-memory PROCESSING status", the batch is not COMPLETED in the end.
CancelWins ==
  worker.at = "end" /\ (\E c \in Cancel : cancels[c].at = "done")
    => row.status # "completed"

\* A batch does not stay PROCESSING, unless a statement of processBatch() itself
\* was rejected; after a restart it is FAILED, not "stuck in PROCESSING forever".
BatchSettles ==
  row.status = "processing" ~> row.status # "processing" \/ (worker.at = "died" /\ ~restarted)
=============================================================================
