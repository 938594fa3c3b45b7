--------------------------- MODULE BulkBatchProofs ---------------------------
(***************************************************************************)
(* Theorems about BulkBatch, for batches of any length, any cadence and any *)
(* set of cancellations.                                                   *)
(***************************************************************************)
EXTENDS BulkBatch, FiniteSetTheorems, TLAPS

WorkerType == [at : WorkerAt, copy : Batch, i : 0..N, stopped : BOOLEAN,
               cancelled : BOOLEAN]

CancelType == [at : CancelAt, copy : Batch, found : Status]

\* The loop variable points at a message while one is being sent or recorded.
InLoop == {"sending", "reread", "save"}

TypeInv == TypeOK /\ (worker.at \in InLoop => worker.i < N)

-----------------------------------------------------------------------------
(* The operators the actions are built from.                               *)

\* The entities that appear as literals are of type Batch.
LEMMA BatchLiterals == NoBatch \in Batch /\ NewBatch \in Batch
<1>1. 0 \in 0..N /\ N \in Int
  BY BatchAssumption
<1>2. NoBatch \in Batch
  BY <1>1 DEF NoBatch, Batch, Status
<1>4. NewBatch \in Batch
  BY <1>1, <1>2 DEF NewBatch, Batch, Status
<1> QED BY <1>2, <1>4

\* So are those of the worker and of a cancellation.
LEMMA IdleTypes == Idle \in WorkerType /\ NoCancel \in CancelType
<1>1. 0 \in 0..N
  BY BatchAssumption
<1> QED BY <1>1, BatchLiterals
        DEF Idle, WorkerType, WorkerAt, NoCancel, CancelType, CancelAt, Status

\* Changing the status of an entity, cancelling its rest and moving one message
\* from pending to sent or failed keep the type.
LEMMA BatchUpdates ==
  ASSUME NEW b \in Batch
  PROVE  /\ \A s \in Status : [b EXCEPT !.status = s] \in Batch
         /\ CancelRest(b) \in Batch
         /\ [b EXCEPT !.sent = @ + 1, !.pending = @ - 1] \in Batch
         /\ [b EXCEPT !.failed = @ + 1, !.pending = @ - 1] \in Batch
         /\ \A i \in 0..N : [b EXCEPT !.index = i] \in Batch
<1>1. /\ b.sent + 1 \in Nat /\ b.failed + 1 \in Nat
      /\ b.pending - 1 \in Int /\ b.pending \in Int /\ 0 \in Int
  BY DEF Batch
<1>2. \A s \in Status : [b EXCEPT !.status = s] \in Batch
  BY DEF Batch
<1>3. [b EXCEPT !.cancelled = b.pending, !.pending = 0] \in Batch
  BY <1>1 DEF Batch
<1>4. [b EXCEPT !.sent = @ + 1, !.pending = @ - 1] \in Batch
  BY <1>1 DEF Batch
<1>5. [b EXCEPT !.failed = @ + 1, !.pending = @ - 1] \in Batch
  BY <1>1 DEF Batch
<1>6. \A i \in 0..N : [b EXCEPT !.index = i] \in Batch
  BY DEF Batch
<1> QED BY <1>2, <1>3, <1>4, <1>5, <1>6 DEF CancelRest

\* resolveFinalBatchStatus() returns a status.
LEMMA FinalStatusType ==
  ASSUME NEW b \in Batch, NEW c \in BOOLEAN, NEW s \in BOOLEAN
  PROVE  FinalStatus(c, s, b) \in {"cancelled", "failed", "completed"}
BY DEF FinalStatus

\* Recording a result keeps the worker well-typed and in its loop.
LEMMA RecordedType ==
  ASSUME worker \in WorkerType, worker.i < N, NEW b \in Batch, Recorded(b)
  PROVE  /\ worker' \in WorkerType
         /\ worker'.at \in {"reread", "next"}
         /\ worker'.at = "reread" => worker'.i = worker.i
         /\ worker'.at = "next" => worker'.i = worker.i + 1
         /\ worker'.copy = [b EXCEPT !.index = worker.i + 1]
         /\ worker'.stopped = worker.stopped
<1>1. worker.i + 1 \in 0..N
  BY BatchAssumption DEF WorkerType
<1>2. [b EXCEPT !.index = worker.i + 1] \in Batch
  BY <1>1, BatchUpdates
<1> QED BY <1>1, <1>2 DEF Recorded, WorkerType, WorkerAt

-----------------------------------------------------------------------------
(* Type correctness.                                                       *)

LEMMA TypeInit == Init => TypeInv
<1> SUFFICES ASSUME Init PROVE TypeInv
  OBVIOUS
<1>1. worker \in WorkerType /\ worker.at \notin InLoop
  BY BatchLiterals, BatchAssumption DEF Init, Idle, WorkerType, WorkerAt, InLoop
<1>2. NoCancel \in CancelType
  BY IdleTypes
<1>3. cancels \in [Cancel -> CancelType]
  BY <1>2 DEF Init
<1>4. outcome \in [Index -> {"none", "sent", "failed"}] /\ attempts \in [Index -> Nat]
  BY DEF Init
<1> QED BY <1>1, <1>3, <1>4, BatchLiterals DEF Init, TypeInv, TypeOK, WorkerType, CancelType

LEMMA TypeWork == ASSUME TypeInv, Work PROVE TypeInv'
<1>t. worker \in WorkerType /\ row \in Batch /\ worker.copy \in Batch
  BY DEF TypeInv, TypeOK, WorkerType
<1>u. \A s \in Status : [worker.copy EXCEPT !.status = s] \in Batch
  BY <1>t, BatchUpdates
<1>w. TypeInv /\ worker' \in WorkerType /\ row' \in Batch /\ flag' \in {"none", "on", "off"}
      /\ (worker'.at \in InLoop => worker'.i < N) /\ UNCHANGED rest => TypeInv'
  BY DEF TypeInv, TypeOK, WorkerType, rest, messages
<1>1. CASE Load
  BY <1>1, <1>t, <1>w DEF Load, WorkerType, WorkerAt, InLoop, TypeInv, TypeOK
<1>2. CASE Begin
  <2>1. worker' \in WorkerType
    BY <1>2, <1>t, <1>u DEF Begin, WorkerType, WorkerAt, Status
  <2> QED BY <1>2, <1>t, <2>1, <1>w DEF Begin, WorkerType, InLoop
<1>3. ASSUME NEW from \in WorkerAt, NEW to \in {"engine", "end", "forget"}, Save(from, to)
      PROVE  TypeInv'
  BY <1>3, <1>t, <1>w DEF Save, Goto, WorkerType, WorkerAt, InLoop, TypeInv, TypeOK
<1>4. CASE NoEngine
  <2>1. worker' \in WorkerType
    BY <1>4, <1>t, <1>u DEF NoEngine, WorkerType, WorkerAt, Status
  <2> QED BY <1>4, <1>t, <2>1, <1>w DEF NoEngine, WorkerType, InLoop, TypeInv, TypeOK
<1>5. CASE HasEngine
  <2>1. worker.copy.index \in 0..N
    BY <1>t DEF Batch
  <2> QED BY <1>5, <1>t, <2>1, <1>w DEF HasEngine, WorkerType, WorkerAt, InLoop, TypeInv, TypeOK
<1>6. CASE LeaveLoop
  BY <1>6, <1>t, <1>w DEF LeaveLoop, Goto, WorkerType, WorkerAt, InLoop, TypeInv, TypeOK
<1>7. CASE SendNext
  <2>1. worker' \in WorkerType /\ worker'.i < N
    BY <1>7, <1>t DEF SendNext, Goto, WorkerType, WorkerAt
  <2>2. attempts' \in [Index -> Nat]
    <3>1. worker.i \in Index
      BY <1>7, <1>t, BatchAssumption DEF SendNext, WorkerType, Index
    <3> QED BY <1>7, <3>1 DEF SendNext, TypeInv, TypeOK
  <2> QED BY <1>7, <2>1, <2>2 DEF SendNext, TypeInv, TypeOK, WorkerType
<1>8. CASE SendOk
  <2>1. worker.i < N /\ worker.i \in Index
    BY <1>8, <1>t, BatchAssumption DEF SendOk, TypeInv, InLoop, WorkerType, Index
  <2>2. [worker.copy EXCEPT !.sent = @ + 1, !.pending = @ - 1] \in Batch
    BY <1>t, BatchUpdates
  <2>3. worker' \in WorkerType /\ (worker'.at \in InLoop => worker'.i < N)
    BY <1>8, <1>t, <2>1, <2>2, RecordedType DEF SendOk, InLoop
  <2> QED BY <1>8, <1>t, <2>1, <2>3 DEF SendOk, TypeInv, TypeOK, WorkerType
<1>9. CASE SendFails
  <2>1. worker.i < N /\ worker.i \in Index
    BY <1>9, <1>t, BatchAssumption DEF SendFails, TypeInv, InLoop, WorkerType, Index
  <2> DEFINE b == [worker.copy EXCEPT !.failed = @ + 1, !.pending = @ - 1]
  <2>2. b \in Batch /\ [b EXCEPT !.status = "failed"] \in Batch
    BY <1>t, BatchUpdates DEF Batch, Status
  <2>3. worker' \in WorkerType /\ (worker'.at \in InLoop => worker'.i < N)
    <3>1. CASE BreaksLoop
      BY <1>9, <3>1, <1>t, <2>2 DEF SendFails, InLoop, WorkerType, WorkerAt
    <3>2. CASE ~BreaksLoop
      BY <1>9, <3>2, <1>t, <2>1, <2>2, RecordedType DEF SendFails, InLoop
    <3> QED BY <3>1, <3>2
  <2> QED BY <1>9, <1>t, <2>1, <2>3 DEF SendFails, TypeInv, TypeOK, WorkerType
<1>10. CASE Reread
  BY <1>10, <1>t, <1>w DEF Reread, WorkerType, WorkerAt, InLoop, TypeInv, TypeOK
<1>11. CASE SaveProgress
  <2>1. worker.i + 1 \in 0..N
    BY <1>11, <1>t, BatchAssumption DEF SaveProgress, TypeInv, InLoop, WorkerType
  <2> QED BY <1>11, <1>t, <2>1, <1>w
          DEF SaveProgress, WorkerType, WorkerAt, InLoop, TypeInv, TypeOK
<1>12. CASE FinalReread
  BY <1>12, <1>t, <1>w DEF FinalReread, WorkerType, WorkerAt, InLoop, TypeInv, TypeOK
<1>13. CASE Decide
  <2> DEFINE c == worker.cancelled \/ Stopped
             b == worker.copy
             d == IF c THEN CancelRest(b) ELSE b
             s == FinalStatus(c, worker.stopped, b)
  <2>1. s \in Status
    BY FinalStatusType, <1>t DEF Status, WorkerType, Stopped
  <2>2. d \in Batch
    BY <1>t, BatchUpdates
  <2>3. [d EXCEPT !.status = s] \in Batch
    BY <2>1, <2>2, BatchUpdates
  <2>4. worker' = [worker EXCEPT !.at = "close", !.copy = [d EXCEPT !.status = s]]
    BY <1>13 DEF Decide
  <2>5. worker' \in WorkerType /\ worker'.at = "close"
    BY <2>3, <2>4, <1>t DEF WorkerType, WorkerAt
  <2> QED BY <1>13, <1>t, <2>5, <1>w DEF Decide, InLoop, TypeInv, TypeOK
<1>14. CASE Forget
  BY <1>14, <1>t, <1>w DEF Forget, Goto, WorkerType, WorkerAt, InLoop, TypeInv, TypeOK
<1>15. CASE Boot
  <2>1. row' \in Batch
    BY <1>15, <1>u DEF Boot, Status
  <2>2. worker' \in WorkerType /\ worker'.at = "died"
    BY <1>15, IdleTypes DEF Boot, AfterBoot, WorkerType, WorkerAt
  <2> QED BY <1>15, <2>1, <2>2, <1>w DEF Boot, InLoop, TypeInv, TypeOK
<1> QED
  BY <1>1, <1>2, <1>3, <1>4, <1>5, <1>6, <1>7, <1>8, <1>9, <1>10, <1>11, <1>12, <1>13,
     <1>14, <1>15 DEF Work, WorkerAt

\* A call of cancelBatch().
CancelStep(c) == CancelFinds(c) \/ CancelMarks(c) \/ CancelSaves(c) \/ CancelRejected(c)

LEMMA TypeCancel == ASSUME TypeInv, NEW c \in Cancel, CancelStep(c) PROVE TypeInv'
<1>t. cancels \in [Cancel -> CancelType] /\ row \in Batch /\ cancels[c] \in CancelType
      /\ cancels[c].copy \in Batch
  BY DEF TypeInv, TypeOK, CancelType
<1>w. TypeInv /\ cancels' \in [Cancel -> CancelType] /\ row' \in Batch
      /\ flag' \in {"none", "on", "off"} /\ UNCHANGED <<stopOnError, worker, messages, restarted>>
      => TypeInv'
  BY DEF TypeInv, TypeOK, CancelType, messages
<1>1. CASE CancelFinds(c)
  <2>1. row.status \in Status
    BY <1>t DEF Batch
  <2>2. [NoCancel EXCEPT !.at = "refused"] \in CancelType
    BY IdleTypes DEF CancelType, CancelAt
  <2>3. [at |-> "found", copy |-> row, found |-> row.status] \in CancelType
    BY <1>t, <2>1 DEF CancelType, CancelAt
  <2>4. cancels' \in [Cancel -> CancelType]
    BY <1>1, <1>t, <2>2, <2>3 DEF CancelFinds
  <2> QED BY <1>1, <1>t, <2>4, <1>w DEF CancelFinds, TypeInv, TypeOK
<1>2. CASE CancelMarks(c)
  <2> DEFINE b == [CancelRest(cancels[c].copy) EXCEPT !.status = "cancelled"]
  <2>1. CancelRest(cancels[c].copy) \in Batch
    BY <1>t, BatchUpdates
  <2>2. b \in Batch
    BY <2>1, BatchUpdates DEF Status
  <2>3. [cancels[c] EXCEPT !.at = "save", !.copy = b] \in CancelType
    BY <1>t, <2>2 DEF CancelType, CancelAt
  <2>4. cancels' = [cancels EXCEPT ![c] = [@ EXCEPT !.at = "save", !.copy = b]]
    BY <1>2, <1>t DEF CancelMarks, CancelType
  <2>5. cancels' \in [Cancel -> CancelType]
    BY <1>t, <2>3, <2>4
  <2> QED BY <1>2, <1>t, <2>5, <1>w DEF CancelMarks, TypeInv, TypeOK
<1>3. CASE CancelSaves(c)
  <2>1. cancels' \in [Cancel -> CancelType]
    BY <1>3, <1>t, BatchLiterals DEF CancelSaves, CancelType, CancelAt
  <2> QED BY <1>3, <1>t, <2>1, <1>w DEF CancelSaves, TypeInv, TypeOK
<1>4. CASE CancelRejected(c)
  <2>1. cancels' \in [Cancel -> CancelType]
    BY <1>4, <1>t, BatchLiterals DEF CancelRejected, CancelType, CancelAt
  <2> QED BY <1>4, <1>t, <2>1, <1>w DEF CancelRejected, TypeInv, TypeOK
<1> QED BY <1>1, <1>2, <1>3, <1>4 DEF CancelStep

LEMMA TypeStep == TypeInv /\ [Next]_vars => TypeInv'
<1> SUFFICES ASSUME TypeInv, [Next]_vars PROVE TypeInv'
  OBVIOUS
<1>t. worker \in WorkerType /\ row \in Batch /\ cancels \in [Cancel -> CancelType]
  BY DEF TypeInv, TypeOK, WorkerType, CancelType
<1>1. CASE Create
  BY <1>1, <1>t, BatchLiterals
  DEF Create, TypeInv, TypeOK, WorkerType, WorkerAt, InLoop, rest, messages
<1>2. CASE Work
  BY <1>2, TypeWork
<1>3. CASE Dies
  BY <1>3, <1>t DEF Dies, Goto, TypeInv, TypeOK, WorkerType, WorkerAt, InLoop, rest, messages
<1>4. ASSUME NEW c \in Cancel, CancelStep(c) PROVE TypeInv'
  BY <1>4, TypeCancel
<1>5. CASE Restart
  <2>1. worker' \in WorkerType /\ worker'.at \in {"boot", "died"}
    BY <1>5, <1>t, IdleTypes DEF Restart, WorkerType, WorkerAt
  <2>2. [NoCancel EXCEPT !.at = "died"] \in CancelType
    BY IdleTypes DEF CancelType, CancelAt
  <2>3. cancels' \in [Cancel -> CancelType]
    BY <1>5, <1>t, <2>2 DEF Restart
  <2> QED BY <1>5, <1>t, <2>1, <2>3
          DEF Restart, TypeInv, TypeOK, InLoop, messages, WorkerType, CancelType
<1>6. CASE UNCHANGED vars
  BY <1>6 DEF vars, TypeInv, TypeOK
<1> QED BY <1>1, <1>2, <1>3, <1>4, <1>5, <1>6 DEF Next, CancelStep

\* Every variable keeps its type; the index of a batch never leaves 0..N.
THEOREM TypeCorrect == Spec => []TypeOK
<1>1. TypeInv => TypeOK
  BY DEF TypeInv
<1> QED BY <1>1, TypeInit, TypeStep, PTL DEF Spec

-----------------------------------------------------------------------------
(* What is sent. Whatever is at or after the loop variable has not been     *)
(* handed to the engine, and nothing has before the loop.                   *)

BeforeLoop == {"none", "load", "loaded", "start", "engine"}

Untouched(i) == attempts[i] = 0 /\ outcome[i] = "none"

SendInv ==
  /\ NeverResent
  /\ StopsOnError
  /\ worker.at \in BeforeLoop => \A i \in Index : Untouched(i)
  /\ worker.at \in {"none", "load"} =>
       row.index = 0 /\ \A c \in Cancel : cancels[c].copy.index = 0
  /\ worker.at \in {"loaded", "start", "engine"} => worker.copy.index = 0
  /\ worker.at = "next" => \A j \in Index : j >= worker.i => attempts[j] = 0
  /\ worker.at \in InLoop => \A j \in Index : j > worker.i => attempts[j] = 0
  /\ stopOnError /\ worker.at \in InLoop \cup {"next"} =>
       \A i \in Index : outcome[i] # "failed"

LEMMA SendInit == Init => SendInv
BY DEF Init, SendInv, NeverResent, StopsOnError, Untouched, BeforeLoop, InLoop, Idle, NoCancel,
       NoBatch, Index

LEMMA SendWork == ASSUME TypeInv, SendInv, Work PROVE SendInv'
<1>t. worker \in WorkerType /\ row \in Batch /\ worker.copy \in Batch /\ worker.i \in 0..N
  BY DEF TypeInv, TypeOK, WorkerType
<1>a. attempts \in [Index -> Nat] /\ outcome \in [Index -> {"none", "sent", "failed"}]
  BY DEF TypeInv, TypeOK
<1>1. ASSUME UNCHANGED messages, UNCHANGED stopOnError, UNCHANGED cancels,
             worker'.at \notin BeforeLoop \cup InLoop \cup {"next"}
      PROVE  SendInv'
  BY <1>1 DEF SendInv, NeverResent, StopsOnError, BeforeLoop, messages
<1>2. CASE Load
  BY <1>2, <1>t DEF Load, SendInv, NeverResent, StopsOnError, Untouched, BeforeLoop, InLoop,
                    rest, messages, WorkerType
<1>3. CASE Begin
  BY <1>3, <1>t DEF Begin, SendInv, NeverResent, StopsOnError, Untouched, BeforeLoop, InLoop,
                    rest, messages, WorkerType, Batch
<1>4. CASE Save("start", "engine")
  BY <1>4, <1>t DEF Save, Goto, SendInv, NeverResent, StopsOnError, Untouched, BeforeLoop,
                    InLoop, rest, messages, WorkerType
<1>5. CASE NoEngine \/ Save("disengage", "end") \/ LeaveLoop \/ FinalReread \/ Decide
           \/ Save("close", "forget") \/ Forget \/ Boot
  <2>1. UNCHANGED <<messages, stopOnError, cancels>>
    BY <1>5 DEF NoEngine, Save, LeaveLoop, FinalReread, Decide, Forget, Boot, rest
  <2>2. worker'.at \notin BeforeLoop \cup InLoop \cup {"next"}
    BY <1>5, <1>t, IdleTypes DEF NoEngine, Save, Goto, LeaveLoop, FinalReread, Decide, Forget,
       Boot, AfterBoot, BeforeLoop, InLoop, WorkerType
  <2> QED BY <1>1, <2>1, <2>2
<1>6. CASE HasEngine
  <2>1. worker'.at = "next" /\ worker'.i = 0 /\ UNCHANGED <<messages, stopOnError, cancels>>
    BY <1>6, <1>t DEF HasEngine, SendInv, rest, WorkerType
  <2>2. \A i \in Index : Untouched(i)
    BY <1>6 DEF HasEngine, SendInv, BeforeLoop
  <2> QED BY <2>1, <2>2 DEF SendInv, NeverResent, StopsOnError, Untouched, BeforeLoop, InLoop,
                            messages
<1>7. CASE SendNext
  <2>1. /\ worker'.at = "sending" /\ worker'.i = worker.i /\ worker.i \in Index
        /\ attempts' = [attempts EXCEPT ![worker.i] = @ + 1]
        /\ UNCHANGED <<outcome, stopOnError, cancels>>
    BY <1>7, <1>t, BatchAssumption DEF SendNext, Goto, WorkerType, Index
  <2>2. \A j \in Index : j >= worker.i => attempts[j] = 0
    BY <1>7 DEF SendNext, SendInv
  <2>3. NeverResent'
    BY <2>1, <2>2, <1>a DEF SendInv, NeverResent, Index
  <2>4. \A j \in Index : j > worker.i => attempts'[j] = 0
    BY <2>1, <2>2, <1>a DEF Index
  <2>5. stopOnError => \A i \in Index : outcome[i] # "failed"
    BY <1>7 DEF SendNext, SendInv
  <2>6. StopsOnError'
    BY <2>1, <2>5 DEF StopsOnError
  <2> QED BY <2>1, <2>3, <2>4, <2>5, <2>6 DEF SendInv, BeforeLoop, InLoop
<1>8. CASE SendOk
  <2> DEFINE b == [worker.copy EXCEPT !.sent = @ + 1, !.pending = @ - 1]
  <2>1. worker.i < N /\ worker.i \in Index
    BY <1>8, <1>t, BatchAssumption DEF SendOk, TypeInv, InLoop, Index
  <2>2. b \in Batch
    BY <1>t, BatchUpdates
  <2>3. /\ worker'.at \in {"reread", "next"}
        /\ worker'.at = "reread" => worker'.i = worker.i
        /\ worker'.at = "next" => worker'.i = worker.i + 1
    BY <1>8, <1>t, <2>1, <2>2, RecordedType DEF SendOk
  <2>4. /\ outcome' = [outcome EXCEPT ![worker.i] = "sent"]
        /\ UNCHANGED <<attempts, stopOnError, cancels>>
    BY <1>8 DEF SendOk
  <2>5. \A j \in Index : j > worker.i => attempts[j] = 0
    BY <1>8 DEF SendOk, SendInv, InLoop
  <2>6. stopOnError => \A i \in Index : outcome'[i] # "failed"
    BY <1>8, <1>a, <2>4 DEF SendOk, SendInv, InLoop
  <2>7. NeverResent' /\ StopsOnError'
    BY <2>4, <2>6 DEF SendInv, NeverResent, StopsOnError
  <2>8. worker'.at = "next" => \A j \in Index : j >= worker'.i => attempts'[j] = 0
    BY <2>3, <2>4, <2>5, <1>t DEF Index
  <2>9. worker'.at \in InLoop => \A j \in Index : j > worker'.i => attempts'[j] = 0
    BY <2>3, <2>4, <2>5 DEF InLoop
  <2> QED BY <2>3, <2>4, <2>6, <2>7, <2>8, <2>9 DEF SendInv, BeforeLoop
<1>9. CASE SendFails
  <2> DEFINE b == [worker.copy EXCEPT !.failed = @ + 1, !.pending = @ - 1]
  <2>1. worker.i < N /\ worker.i \in Index
    BY <1>9, <1>t, BatchAssumption DEF SendFails, TypeInv, InLoop, Index
  <2>2. b \in Batch
    BY <1>t, BatchUpdates
  <2>3. /\ outcome' = [outcome EXCEPT ![worker.i] = "failed"]
        /\ UNCHANGED <<attempts, stopOnError, cancels>>
    BY <1>9 DEF SendFails
  <2>4. \A j \in Index : j > worker.i => attempts[j] = 0
    BY <1>9 DEF SendFails, SendInv, InLoop
  <2>5. NeverResent'
    BY <2>3 DEF SendInv, NeverResent
  <2>6. StopsOnError'
    <3>1. SUFFICES ASSUME stopOnError, NEW i \in Index, NEW j \in Index, i < j,
                          outcome'[i] = "failed"
                   PROVE  attempts[j] = 0
      BY <2>3 DEF StopsOnError
    <3>2. i = worker.i
      BY <1>9, <1>a, <2>3, <3>1 DEF SendFails, SendInv, InLoop
    <3> QED BY <2>4, <3>1, <3>2
  <2>7. CASE BreaksLoop
    <3>1. worker'.at = "final"
      BY <1>9, <2>7, <1>t DEF SendFails, WorkerType
    <3> QED BY <2>5, <2>6, <3>1 DEF SendInv, BeforeLoop, InLoop
  <2>8. CASE ~BreaksLoop
    <3>1. /\ worker'.at \in {"reread", "next"}
          /\ worker'.at = "reread" => worker'.i = worker.i
          /\ worker'.at = "next" => worker'.i = worker.i + 1
      BY <1>9, <2>8, <1>t, <2>1, <2>2, RecordedType DEF SendFails
    <3>2. worker'.at = "next" => \A j \in Index : j >= worker'.i => attempts'[j] = 0
      BY <3>1, <2>3, <2>4, <1>t DEF Index
    <3>3. worker'.at \in InLoop => \A j \in Index : j > worker'.i => attempts'[j] = 0
      BY <3>1, <2>3, <2>4 DEF InLoop
    <3>4. ~stopOnError'
      BY <2>3, <2>8 DEF BreaksLoop
    <3> QED BY <2>5, <2>6, <3>1, <3>2, <3>3, <3>4 DEF SendInv, BeforeLoop
  <2> QED BY <2>7, <2>8
<1>10. CASE Reread
  <2>1. /\ UNCHANGED <<messages, stopOnError, cancels>>
        /\ worker'.at \in {"decide", "save"} /\ worker'.i = worker.i
    BY <1>10, <1>t DEF Reread, rest, WorkerType
  <2> QED BY <1>10, <2>1 DEF Reread, SendInv, NeverResent, StopsOnError, BeforeLoop, InLoop,
                             messages
<1>11. CASE SaveProgress
  <2>1. /\ UNCHANGED <<messages, stopOnError, cancels>>
        /\ worker'.at = "next" /\ worker'.i = worker.i + 1
    BY <1>11, <1>t DEF SaveProgress, rest, WorkerType
  <2>2. \A j \in Index : j > worker.i => attempts[j] = 0
    BY <1>11 DEF SaveProgress, SendInv, InLoop
  <2>3. \A j \in Index : j >= worker'.i => attempts[j] = 0
    BY <2>1, <2>2, <1>t DEF Index
  <2> QED BY <1>11, <2>1, <2>3 DEF SaveProgress, SendInv, NeverResent, StopsOnError, BeforeLoop,
                                   InLoop, messages
<1> QED BY <1>2, <1>3, <1>4, <1>5, <1>6, <1>7, <1>8, <1>9, <1>10, <1>11 DEF Work

LEMMA SendStep == TypeInv /\ SendInv /\ [Next]_vars => SendInv'
<1> SUFFICES ASSUME TypeInv, SendInv, [Next]_vars PROVE SendInv'
  OBVIOUS
<1>t. worker \in WorkerType /\ row \in Batch /\ cancels \in [Cancel -> CancelType]
  BY DEF TypeInv, TypeOK, WorkerType, CancelType
<1>1. CASE Create
  <2>1. NewBatch.index = 0
    BY DEF NewBatch, NoBatch
  <2>2. worker'.at = "load" /\ row' = NewBatch /\ UNCHANGED rest /\ worker.at = "none"
    BY <1>1, <1>t DEF Create, WorkerType
  <2> QED BY <2>1, <2>2 DEF SendInv, NeverResent, StopsOnError, Untouched, BeforeLoop, InLoop,
                            rest, messages
<1>2. CASE Work
  BY <1>2, SendWork
<1>3. CASE Dies
  <2>1. worker'.at = "died" /\ UNCHANGED rest
    BY <1>3, <1>t DEF Dies, Goto, WorkerType
  <2> QED BY <2>1 DEF SendInv, NeverResent, StopsOnError, BeforeLoop, InLoop, rest, messages
<1>4. ASSUME NEW c \in Cancel, CancelStep(c) PROVE SendInv'
  <2>1. UNCHANGED <<stopOnError, worker, messages>>
    BY <1>4 DEF CancelStep, CancelFinds, CancelMarks, CancelSaves, CancelRejected
  <2>2. ASSUME row.index = 0, \A d \in Cancel : cancels[d].copy.index = 0
        PROVE  row'.index = 0 /\ \A d \in Cancel : cancels'[d].copy.index = 0
    <3>1. NoCancel.copy.index = 0 /\ NoBatch.index = 0
      BY DEF NoCancel, NoBatch
    <3>2. cancels[c] \in CancelType /\ cancels[c].copy \in Batch
      BY <1>t DEF CancelType
    <3>3. row'.index = 0
      BY <1>4, <2>2 DEF CancelStep, CancelFinds, CancelMarks, CancelSaves, CancelRejected
    <3>4. [NoCancel EXCEPT !.at = "refused"].copy.index = 0
      BY <3>1, IdleTypes DEF CancelType
    <3>5. \A d \in Cancel : d # c => cancels'[d] = cancels[d]
      BY <1>4, <1>t DEF CancelStep, CancelFinds, CancelMarks, CancelSaves, CancelRejected
    <3>6. CancelRest(cancels[c].copy).index = 0 /\ CancelRest(cancels[c].copy) \in Batch
      BY <2>2, <3>2, BatchUpdates DEF CancelRest, Batch
    <3>7. [CancelRest(cancels[c].copy) EXCEPT !.status = "cancelled"].index = 0
      BY <3>6 DEF Batch
    <3>8. cancels'[c].copy.index = 0
      <4>1. CASE CancelFinds(c)
        BY <4>1, <1>t, <2>2, <3>4 DEF CancelFinds
      <4>2. CASE CancelMarks(c)
        BY <4>2, <1>t, <3>2, <3>7 DEF CancelMarks, CancelType
      <4>3. CASE CancelSaves(c)
        BY <4>3, <1>t, <3>1, <3>2 DEF CancelSaves, CancelType
      <4>4. CASE CancelRejected(c)
        BY <4>4, <1>t, <3>1, <3>2 DEF CancelRejected, CancelType
      <4> QED BY <1>4, <4>1, <4>2, <4>3, <4>4 DEF CancelStep
    <3> QED BY <2>2, <3>3, <3>5, <3>8
  <2> QED BY <2>1, <2>2 DEF SendInv, NeverResent, StopsOnError, Untouched, messages
<1>5. CASE Restart
  <2>1. worker'.at \in {"boot", "died"} /\ UNCHANGED <<stopOnError, messages>>
    BY <1>5, IdleTypes DEF Restart, WorkerType
  <2> QED BY <2>1 DEF SendInv, NeverResent, StopsOnError, BeforeLoop, InLoop, messages
<1>6. CASE UNCHANGED vars
  BY <1>6 DEF vars, SendInv, NeverResent, StopsOnError, Untouched
<1> QED BY <1>1, <1>2, <1>3, <1>4, <1>5, <1>6 DEF Next, CancelStep

\* No message of a batch is handed to the engine twice: for any batch, any save
\* cadence, any cancellations and a restart at any point.
THEOREM SentOnce == Spec => []NeverResent
<1>1. SendInv => NeverResent
  BY DEF SendInv
<1> QED BY <1>1, TypeInit, TypeStep, SendInit, SendStep, PTL DEF Spec

\* With stopOnError nothing is sent after the first failure.
THEOREM FailureStops == Spec => []StopsOnError
<1>1. SendInv => StopsOnError
  BY DEF SendInv
<1> QED BY <1>1, TypeInit, TypeStep, SendInit, SendStep, PTL DEF Spec

-----------------------------------------------------------------------------
(* The counters. A cancelled batch has none pending, and before it is        *)
(* cancelled it has none cancelled; the entity processBatch() holds is one  *)
(* message behind the loop variable while a result is being saved.          *)

Sound(b) ==
  /\ b.sent + b.failed + b.pending + b.cancelled = N
  /\ b.pending >= 0 /\ b.cancelled >= 0
  /\ b.status # "cancelled" => b.cancelled = 0

Driven == {"loaded", "start", "engine", "disengage", "next", "sending", "reread", "save",
           "final", "decide", "boot"}

CountInv ==
  /\ row.status # "absent" => Sound(row)
  /\ worker.at = "none" => row.status = "absent"
  /\ worker.at = "load" => row = NewBatch
  /\ worker.at \in {"none", "load"} =>
       \A c \in Cancel : cancels[c].at \notin {"found", "save"}
  /\ worker.at \in Driven => worker.copy.status \notin {"absent", "cancelled"} /\ Sound(worker.copy)
  /\ worker.at = "close" => worker.copy.status # "absent" /\ Sound(worker.copy)
  /\ worker.at \in {"loaded", "start", "engine"} =>
       worker.copy.index = 0 /\ worker.copy.pending = N
  /\ worker.at \in {"next", "sending"} => worker.copy.pending = N - worker.i
  /\ worker.at \in {"reread", "save"} => worker.copy.pending = N - (worker.i + 1)
  /\ \A c \in Cancel :
       /\ cancels[c].at \in {"found", "save"} => Sound(cancels[c].copy)
       /\ cancels[c].at = "found" => cancels[c].copy.status \notin {"absent", "cancelled"}
       /\ cancels[c].at = "save" => cancels[c].copy.status = "cancelled"

LEMMA CountInit == Init => CountInv
BY DEF Init, CountInv, NoBatch, Idle, NoCancel, Driven

\* A new batch has everything pending.
LEMMA NewSound == /\ Sound(NewBatch) /\ NewBatch.status = "pending"
                  /\ NewBatch.index = 0 /\ NewBatch.pending = N
<1>1. NoBatch \in Batch /\ NoBatch.sent = 0 /\ NoBatch.failed = 0 /\ NoBatch.cancelled = 0
      /\ NoBatch.index = 0
  BY BatchLiterals DEF NoBatch
<1>2. /\ NewBatch.sent = 0 /\ NewBatch.failed = 0 /\ NewBatch.cancelled = 0
      /\ NewBatch.index = 0 /\ NewBatch.pending = N /\ NewBatch.status = "pending"
  BY <1>1 DEF NewBatch, Batch
<1> QED BY <1>2, BatchAssumption DEF Sound

\* Changing the status of a batch that is not cancelled keeps its counters.
LEMMA StatusSound ==
  ASSUME NEW b \in Batch, Sound(b), b.status # "cancelled", NEW s \in Status
  PROVE  LET d == [b EXCEPT !.status = s] IN
         Sound(d) /\ d.status = s /\ d.pending = b.pending /\ d.index = b.index
BY DEF Batch, Sound

\* Cancelling what is pending moves it, whole, to the cancelled.
LEMMA CancelSound ==
  ASSUME NEW b \in Batch, Sound(b), b.status # "cancelled"
  PROVE  Sound([CancelRest(b) EXCEPT !.status = "cancelled"])
BY DEF Batch, Sound, CancelRest

\* Recording a result takes one message from the pending.
LEMMA ResultSound ==
  ASSUME NEW b \in Batch, Sound(b), b.status # "cancelled", b.pending > 0, NEW i \in 0..N
  PROVE  LET s == [b EXCEPT !.sent = @ + 1, !.pending = @ - 1]
             f == [b EXCEPT !.failed = @ + 1, !.pending = @ - 1]
         IN  \A d \in {s, f, [s EXCEPT !.index = i], [f EXCEPT !.index = i]} :
               Sound(d) /\ d.status = b.status /\ d.pending = b.pending - 1
<1> DEFINE s == [b EXCEPT !.sent = @ + 1, !.pending = @ - 1]
           f == [b EXCEPT !.failed = @ + 1, !.pending = @ - 1]
<1>1. /\ s \in Batch /\ s.sent = b.sent + 1 /\ s.failed = b.failed /\ s.pending = b.pending - 1
      /\ s.cancelled = b.cancelled /\ s.status = b.status
  BY BatchUpdates DEF Batch
<1>2. /\ f \in Batch /\ f.failed = b.failed + 1 /\ f.sent = b.sent /\ f.pending = b.pending - 1
      /\ f.cancelled = b.cancelled /\ f.status = b.status
  BY BatchUpdates DEF Batch
<1>3. /\ b.sent \in Nat /\ b.failed \in Nat /\ b.pending \in Int /\ b.cancelled = 0
      /\ b.sent + b.failed + b.pending + b.cancelled = N
  BY DEF Batch, Sound
<1> HIDE DEF s, f
<1>4. \A d \in {s, f} : Sound(d)
  BY <1>1, <1>2, <1>3 DEF Sound
<1>5. \A d \in {s, f} : LET e == [d EXCEPT !.index = i] IN
                        Sound(e) /\ e.status = d.status /\ e.pending = d.pending
  BY <1>1, <1>2, <1>4 DEF Batch, Sound
<1> QED BY <1>1, <1>2, <1>4, <1>5 DEF s, f

LEMMA CountWork == ASSUME TypeInv, CountInv, Work PROVE CountInv'
<1>t. worker \in WorkerType /\ row \in Batch /\ worker.copy \in Batch /\ worker.i \in 0..N
  BY DEF TypeInv, TypeOK, WorkerType
<1>s. {"processing", "failed", "completed", "cancelled"} \subseteq Status
  BY DEF Status
\* A step that changes the worker alone, past the read of the row.
<1>w. ASSUME UNCHANGED <<row, cancels>>, worker'.at \notin {"none", "load"},
             worker'.at \in Driven =>
               worker'.copy.status \notin {"absent", "cancelled"} /\ Sound(worker'.copy),
             worker'.at = "close" => worker'.copy.status # "absent" /\ Sound(worker'.copy),
             worker'.at \in {"loaded", "start", "engine"} =>
               worker'.copy.index = 0 /\ worker'.copy.pending = N,
             worker'.at \in {"next", "sending"} => worker'.copy.pending = N - worker'.i,
             worker'.at \in {"reread", "save"} => worker'.copy.pending = N - (worker'.i + 1)
      PROVE  CountInv'
  BY <1>w DEF CountInv, Sound
<1>1. CASE Load
  <2>1. worker'.at = "loaded" /\ worker'.copy = NewBatch /\ UNCHANGED <<row, cancels>>
    BY <1>1, <1>t DEF Load, CountInv, rest, WorkerType
  <2> QED BY <2>1, <1>w, NewSound DEF Driven
<1>2. CASE Begin \/ NoEngine
  <2> DEFINE s == IF worker.at = "loaded" THEN "processing" ELSE "failed"
  <2>1. /\ worker'.copy = [worker.copy EXCEPT !.status = s] /\ UNCHANGED <<row, cancels>>
        /\ worker'.at = IF worker.at = "loaded" THEN "start" ELSE "disengage"
        /\ worker.at \in {"loaded", "engine"}
    BY <1>2, <1>t DEF Begin, NoEngine, rest, WorkerType
  <2>2. /\ worker.copy.status \notin {"absent", "cancelled"} /\ Sound(worker.copy)
        /\ worker.copy.index = 0 /\ worker.copy.pending = N
    BY <2>1 DEF CountInv, Driven
  <2>3. /\ Sound(worker'.copy) /\ worker'.copy.status \notin {"absent", "cancelled"}
        /\ worker'.copy.index = 0 /\ worker'.copy.pending = N
    BY <1>t, <1>s, <2>1, <2>2, StatusSound
  <2> QED BY <2>1, <2>3, <1>w DEF Driven
<1>3. CASE Save("start", "engine")
  <2>1. /\ row' = worker.copy /\ worker'.copy = worker.copy /\ worker'.at = "engine"
        /\ UNCHANGED cancels /\ worker.at = "start"
    BY <1>3, <1>t DEF Save, Goto, rest, WorkerType
  <2> QED BY <2>1 DEF CountInv, Sound, Driven
<1>4. CASE Save("disengage", "end") \/ Save("close", "forget")
  <2>1. /\ row' = worker.copy /\ worker'.at \in {"end", "forget"}
        /\ UNCHANGED cancels /\ worker.at \in {"disengage", "close"}
    BY <1>4, <1>t DEF Save, Goto, rest, WorkerType
  <2> QED BY <2>1 DEF CountInv, Sound, Driven
<1>5. CASE HasEngine
  <2>1. /\ worker'.at = "next" /\ worker'.i = worker.copy.index /\ worker'.copy = worker.copy
        /\ UNCHANGED <<row, cancels>>
    BY <1>5, <1>t DEF HasEngine, rest, WorkerType
  <2>2. /\ worker.copy.status \notin {"absent", "cancelled"} /\ Sound(worker.copy)
        /\ worker.copy.index = 0 /\ worker.copy.pending = N
    BY <1>5 DEF HasEngine, CountInv, Driven
  <2>3. worker'.copy.pending = N - worker'.i
    BY <2>1, <2>2, BatchAssumption
  <2> QED BY <2>1, <2>2, <2>3, <1>w
<1>6. CASE LeaveLoop \/ SendNext
  <2>1. /\ worker'.at \in {"final", "sending"} /\ worker'.copy = worker.copy
        /\ worker'.i = worker.i /\ worker.at = "next" /\ UNCHANGED <<row, cancels>>
    BY <1>6, <1>t DEF LeaveLoop, SendNext, Goto, rest, WorkerType
  <2>2. /\ worker.copy.status \notin {"absent", "cancelled"} /\ Sound(worker.copy)
        /\ worker.copy.pending = N - worker.i
    BY <2>1 DEF CountInv, Driven
  <2> QED BY <2>1, <2>2, <1>w DEF Driven
<1>7. CASE SendOk
  <2> DEFINE b == [worker.copy EXCEPT !.sent = @ + 1, !.pending = @ - 1]
             d == [b EXCEPT !.index = worker.i + 1]
  <2>1. worker.i < N /\ worker.i + 1 \in 0..N
    BY <1>7, <1>t, BatchAssumption DEF SendOk, TypeInv, InLoop
  <2>2. /\ worker.copy.status \notin {"absent", "cancelled"} /\ Sound(worker.copy)
        /\ worker.copy.pending = N - worker.i /\ worker.copy.pending > 0
    BY <1>7, <2>1, <1>t, BatchAssumption DEF SendOk, CountInv, Driven
  <2>3. Sound(d) /\ d.status \notin {"absent", "cancelled"} /\ d.pending = N - worker.i - 1
    BY <2>1, <2>2, <1>t, ResultSound
  <2>4. /\ worker'.at \in {"reread", "next"} /\ worker'.copy = d
        /\ worker'.at = "reread" => worker'.i = worker.i
        /\ worker'.at = "next" => worker'.i = worker.i + 1
    BY <1>7, <1>t, <2>1, BatchUpdates, RecordedType DEF SendOk
  <2>5. UNCHANGED <<row, cancels>>
    BY <1>7 DEF SendOk
  <2>6. /\ worker'.at = "next" => worker'.copy.pending = N - worker'.i
        /\ worker'.at = "reread" => worker'.copy.pending = N - (worker'.i + 1)
    BY <2>3, <2>4, <1>t, BatchAssumption
  <2> HIDE DEF d, b
  <2> QED BY <2>3, <2>4, <2>5, <2>6, <1>w
<1>8. CASE SendFails
  <2> DEFINE b == [worker.copy EXCEPT !.failed = @ + 1, !.pending = @ - 1]
             d == [b EXCEPT !.index = worker.i + 1]
             e == [b EXCEPT !.status = "failed"]
  <2>1. worker.i < N /\ worker.i + 1 \in 0..N
    BY <1>8, <1>t, BatchAssumption DEF SendFails, TypeInv, InLoop
  <2>2. /\ worker.copy.status \notin {"absent", "cancelled"} /\ Sound(worker.copy)
        /\ worker.copy.pending = N - worker.i /\ worker.copy.pending > 0
    BY <1>8, <2>1, <1>t, BatchAssumption DEF SendFails, CountInv, Driven
  <2>3. UNCHANGED <<row, cancels>>
    BY <1>8 DEF SendFails
  <2>4. b \in Batch /\ Sound(b) /\ b.status = worker.copy.status
    BY <2>1, <2>2, <1>t, ResultSound, BatchUpdates
  <2>5. CASE BreaksLoop
    <3>1. Sound(e) /\ e.status = "failed"
      BY <2>2, <2>4, <1>s, StatusSound
    <3>2. worker'.at = "final" /\ worker'.copy = e
      BY <1>8, <2>5, <1>t DEF SendFails, WorkerType
    <3> HIDE DEF e, b
    <3> QED BY <2>3, <3>1, <3>2, <1>w DEF Driven
  <2>6. CASE ~BreaksLoop
    <3>1. Sound(d) /\ d.status \notin {"absent", "cancelled"} /\ d.pending = N - worker.i - 1
      BY <2>1, <2>2, <1>t, ResultSound
    <3>2. /\ worker'.at \in {"reread", "next"} /\ worker'.copy = d
          /\ worker'.at = "reread" => worker'.i = worker.i
          /\ worker'.at = "next" => worker'.i = worker.i + 1
      BY <1>8, <2>6, <1>t, <2>1, <2>4, RecordedType DEF SendFails
    <3>3. /\ worker'.at = "next" => worker'.copy.pending = N - worker'.i
          /\ worker'.at = "reread" => worker'.copy.pending = N - (worker'.i + 1)
      BY <3>1, <3>2, <1>t, BatchAssumption
    <3> HIDE DEF d, b
    <3> QED BY <2>3, <3>1, <3>2, <3>3, <1>w
  <2> QED BY <2>5, <2>6
<1>9. CASE Reread
  <2>1. /\ worker'.at \in {"decide", "save"} /\ worker'.copy = worker.copy
        /\ worker'.i = worker.i /\ worker.at = "reread" /\ UNCHANGED <<row, cancels>>
    BY <1>9, <1>t DEF Reread, rest, WorkerType
  <2> QED BY <2>1, <1>w DEF CountInv, Driven
<1>10. CASE SaveProgress
  <2>1. /\ worker'.at = "next" /\ worker'.copy = worker.copy /\ worker'.i = worker.i + 1
        /\ row' = worker.copy /\ worker.at = "save" /\ UNCHANGED cancels
    BY <1>10, <1>t DEF SaveProgress, rest, WorkerType
  <2> QED BY <2>1 DEF CountInv, Sound, Driven
<1>11. CASE FinalReread
  <2>1. /\ worker'.at = "decide" /\ worker'.copy = worker.copy
        /\ worker.at = "final" /\ UNCHANGED <<row, cancels>>
    BY <1>11, <1>t DEF FinalReread, rest, WorkerType
  <2> QED BY <2>1, <1>w DEF CountInv, Driven
<1>12. CASE Decide
  <2> DEFINE c == worker.cancelled \/ Stopped
             b == worker.copy
             s == FinalStatus(c, worker.stopped, b)
             d == [(IF c THEN CancelRest(b) ELSE b) EXCEPT !.status = s]
  <2>1. b.status \notin {"absent", "cancelled"} /\ Sound(b) /\ b \in Batch
    BY <1>12, <1>t DEF Decide, CountInv, Driven
  <2>2. s \in {"cancelled", "failed", "completed"} /\ (c => s = "cancelled")
    BY FinalStatusType, <1>t DEF WorkerType, Stopped, FinalStatus
  <2>3. Sound(d) /\ d.status = s
    <3>1. CASE c
      <4>1. d = [CancelRest(b) EXCEPT !.status = "cancelled"]
        BY <2>2, <3>1
      <4>2. CancelRest(b) \in Batch
        BY <2>1, BatchUpdates
      <4> HIDE DEF b
      <4> QED BY <2>1, <2>2, <3>1, <4>1, <4>2, CancelSound DEF Batch
    <3>2. CASE ~c
      BY <2>1, <2>2, <1>s, <3>2, StatusSound
    <3> QED BY <3>1, <3>2
  <2>4. worker'.at = "close" /\ worker'.copy = d /\ UNCHANGED <<row, cancels>>
    BY <1>12, <1>t DEF Decide, rest, WorkerType
  <2> HIDE DEF d, s
  <2> QED BY <2>2, <2>3, <2>4, <1>w DEF Driven
<1>13. CASE Forget
  <2>1. worker'.at = "end" /\ UNCHANGED <<row, cancels>>
    BY <1>13, <1>t DEF Forget, Goto, rest, WorkerType
  <2> QED BY <2>1, <1>w DEF Driven
<1>14. CASE Boot
  <2>1. row' = [worker.copy EXCEPT !.status = "failed"] /\ UNCHANGED cancels
    BY <1>14 DEF Boot, rest
  <2>2. Sound(row')
    BY <1>14, <1>t, <1>s, <2>1, StatusSound DEF Boot, CountInv, Driven
  <2>3. worker'.at = "died"
    BY <1>14, IdleTypes DEF Boot, AfterBoot, WorkerType
  <2> QED BY <2>1, <2>2, <2>3 DEF CountInv, Sound, Driven
<1> QED BY <1>1, <1>2, <1>3, <1>4, <1>5, <1>6, <1>7, <1>8, <1>9, <1>10, <1>11, <1>12,
           <1>13, <1>14 DEF Work

LEMMA CountCancel ==
  ASSUME TypeInv, CountInv, ~EarlyCancel, NEW c \in Cancel, CancelStep(c)
  PROVE  CountInv'
<1>t. /\ cancels \in [Cancel -> CancelType] /\ cancels[c] \in CancelType
      /\ cancels[c].copy \in Batch /\ row \in Batch /\ worker \in WorkerType
  BY DEF TypeInv, TypeOK, CancelType, WorkerType
<1>w. UNCHANGED worker /\ \A d \in Cancel : d # c => cancels'[d] = cancels[d]
  BY <1>t DEF CancelStep, CancelFinds, CancelMarks, CancelSaves, CancelRejected
<1>1. CASE CancelFinds(c)
  <2>1. CASE row.status \in {"absent", "completed", "cancelled"}
    <3>1. cancels'[c].at = "refused" /\ UNCHANGED row
      BY <1>1, <2>1, <1>t, IdleTypes DEF CancelFinds, CancelType
    <3> QED BY <1>w, <3>1 DEF CountInv, Sound
  <2>2. CASE row.status \notin {"absent", "completed", "cancelled"}
    <3>1. cancels'[c] = [at |-> "found", copy |-> row, found |-> row.status] /\ UNCHANGED row
      BY <1>1, <2>2, <1>t DEF CancelFinds
    <3>2. cancels'[c].at = "found" /\ cancels'[c].copy = row
      BY <3>1
    <3>3. Sound(row) /\ worker.at \notin {"none", "load"}
      BY <1>1, <2>2 DEF CancelFinds, CountInv
    <3> QED BY <1>w, <2>2, <3>1, <3>2, <3>3 DEF CountInv, Sound
  <2> QED BY <2>1, <2>2
<1>2. CASE CancelMarks(c)
  <2> DEFINE b == [CancelRest(cancels[c].copy) EXCEPT !.status = "cancelled"]
  <2>1. cancels'[c].at = "save" /\ cancels'[c].copy = b /\ UNCHANGED row
    BY <1>2, <1>t DEF CancelMarks, CancelType
  <2>2. Sound(b)
    BY <1>2, <1>t, CancelSound DEF CancelMarks, CountInv
  <2>3. CancelRest(cancels[c].copy) \in Batch
    BY <1>t, BatchUpdates
  <2>4. b.status = "cancelled"
    BY <2>3 DEF Batch
  <2>5. worker.at \notin {"none", "load"}
    BY <1>2 DEF CancelMarks, CountInv
  <2> HIDE DEF b
  <2> QED BY <1>w, <2>1, <2>2, <2>4, <2>5 DEF CountInv, Sound
<1>3. CASE CancelSaves(c) \/ CancelRejected(c)
  <2>1. cancels'[c].at \in {"done", "died"} /\ cancels[c].at = "save"
    BY <1>3, <1>t DEF CancelSaves, CancelRejected, CancelType
  <2>2. Sound(row') \/ UNCHANGED row
    BY <1>3, <2>1 DEF CancelSaves, CancelRejected, CountInv
  <2>3. worker.at \notin {"none", "load"}
    BY <2>1 DEF CountInv
  <2> QED BY <1>w, <2>1, <2>2, <2>3 DEF CountInv, Sound
<1> QED BY <1>1, <1>2, <1>3 DEF CancelStep

LEMMA CountStep == TypeInv /\ CountInv /\ ~EarlyCancel /\ [Next]_vars => CountInv'
<1> SUFFICES ASSUME TypeInv, CountInv, ~EarlyCancel, [Next]_vars PROVE CountInv'
  OBVIOUS
<1>t. worker \in WorkerType /\ row \in Batch /\ cancels \in [Cancel -> CancelType]
  BY DEF TypeInv, TypeOK, WorkerType, CancelType
<1>1. CASE Create
  <2>1. worker'.at = "load" /\ row' = NewBatch /\ UNCHANGED cancels /\ worker.at = "none"
    BY <1>1, <1>t DEF Create, rest, WorkerType
  <2> QED BY <2>1, NewSound DEF CountInv, Sound, Driven
<1>2. CASE Work
  BY <1>2, CountWork
<1>3. CASE Dies
  <2>1. worker'.at = "died" /\ UNCHANGED <<row, cancels>>
    BY <1>3, <1>t DEF Dies, Goto, rest, WorkerType
  <2> QED BY <2>1 DEF CountInv, Sound, Driven
<1>4. ASSUME NEW c \in Cancel, CancelStep(c) PROVE CountInv'
  BY <1>4, CountCancel
<1>5. CASE Restart
  <2>1. \A c \in Cancel : cancels'[c] = cancels[c] \/ cancels'[c].at = "died"
    BY <1>5, <1>t, IdleTypes DEF Restart, CancelType
  <2>2. CASE Orphaned(row)
    <3>1. worker'.at = "boot" /\ worker'.copy = row /\ UNCHANGED row
      BY <1>5, <2>2, IdleTypes DEF Restart, WorkerType
    <3> QED BY <2>1, <2>2, <3>1 DEF CountInv, Sound, Driven, Orphaned
  <2>3. CASE ~Orphaned(row)
    <3>1. worker'.at = "died" /\ UNCHANGED row
      BY <1>5, <2>3, IdleTypes DEF Restart, WorkerType
    <3> QED BY <2>1, <3>1 DEF CountInv, Sound, Driven
  <2> QED BY <2>2, <2>3
<1>6. CASE UNCHANGED vars
  BY <1>6 DEF vars, CountInv, Sound
<1> QED BY <1>1, <1>2, <1>3, <1>4, <1>5, <1>6 DEF Next, CancelStep

\* If no cancel overtakes the first read of processBatch(), the counters of every
\* saved state account for each message exactly once: whatever copies of the
\* row the worker and the cancels hold and in whatever order they save them.
THEOREM CountersAddUp == ~EarlyCancel => (Spec => []ProgressAddsUp)
<1> SUFFICES ASSUME ~EarlyCancel PROVE Spec => []ProgressAddsUp
  OBVIOUS
<1>1. CountInv => ProgressAddsUp
  BY DEF CountInv, Sound, ProgressAddsUp
<1>2. TypeInv /\ CountInv /\ [Next]_vars => CountInv'
  BY CountStep
<1> QED BY <1>1, <1>2, TypeInit, TypeStep, CountInit, PTL DEF Spec

-----------------------------------------------------------------------------
(* Cancelling a batch that is being processed. The flag is set before the   *)
(* row says PROCESSING, and never again.                                   *)

Starting == {"none", "load", "loaded", "start"}

MarkInv ==
  /\ worker.at \in Starting =>
       row.status # "processing" /\ \A c \in Cancel : cancels[c].found # "processing"
  /\ \A c \in Cancel : cancels[c].at = "save" => cancels[c].copy.status = "cancelled"
  /\ \A c \in Cancel \ Remote :
       cancels[c].found = "processing" /\ cancels[c].at \in {"save", "done"} => flag # "on"

LEMMA MarkInit == Init => MarkInv
BY DEF Init, MarkInv, NoBatch, NoCancel

LEMMA MarkStep == TypeInv /\ MarkInv /\ [Next]_vars => MarkInv'
<1> SUFFICES ASSUME TypeInv, MarkInv, [Next]_vars PROVE MarkInv'
  OBVIOUS
<1>t. worker \in WorkerType /\ row \in Batch /\ cancels \in [Cancel -> CancelType]
  BY DEF TypeInv, TypeOK, WorkerType, CancelType
<1>1. CASE Create \/ Load
  BY <1>1, <1>t, NewSound DEF Create, Load, rest, MarkInv, Starting, WorkerType
<1>2. CASE Begin
  BY <1>2, <1>t DEF Begin, rest, MarkInv, Starting, WorkerType
<1>3. CASE Work \/ Dies
  <2>1. CASE Load \/ Begin
    BY <2>1, <1>1, <1>2
  <2>2. CASE Forget
    BY <2>2, <1>t DEF Forget, Goto, rest, MarkInv, Starting, WorkerType
  <2>3. CASE Boot
    BY <2>3, <1>t, IdleTypes DEF Boot, AfterBoot, rest, MarkInv, Starting, WorkerType
  <2>4. CASE \/ Save("start", "engine") \/ NoEngine \/ Save("disengage", "end") \/ HasEngine
             \/ LeaveLoop \/ SendNext \/ Reread \/ SaveProgress
             \/ FinalReread \/ Decide \/ Save("close", "forget") \/ Dies
    <3>1. UNCHANGED <<flag, cancels>>
      BY <2>4 DEF Save, NoEngine, HasEngine, LeaveLoop, SendNext, Reread, SaveProgress,
                  FinalReread, Decide, Dies, rest
    <3>2. worker'.at \notin Starting
      BY <2>4, <1>t DEF Save, Goto, NoEngine, HasEngine, LeaveLoop, SendNext, Reread,
         SaveProgress, FinalReread, Decide, Dies, Starting, WorkerType
    <3> QED BY <3>1, <3>2 DEF MarkInv
  <2>5. CASE SendOk \/ SendFails
    <3>1. UNCHANGED <<flag, cancels>>
      BY <2>5 DEF SendOk, SendFails
    <3>2. worker'.at \notin Starting
      BY <2>5, <1>t DEF SendOk, SendFails, Recorded, Starting, WorkerType
    <3> QED BY <3>1, <3>2 DEF MarkInv
  <2> QED BY <1>3, <2>1, <2>2, <2>3, <2>4, <2>5 DEF Work
<1>4. ASSUME NEW c \in Cancel, CancelStep(c) PROVE MarkInv'
  <2>t. cancels[c] \in CancelType /\ cancels[c].copy \in Batch
    BY <1>t DEF CancelType
  <2>w. UNCHANGED worker /\ \A d \in Cancel : d # c => cancels'[d] = cancels[d]
    BY <1>4, <1>t DEF CancelStep, CancelFinds, CancelMarks, CancelSaves, CancelRejected
  <2>1. CASE CancelFinds(c)
    <3>1. UNCHANGED <<row, flag>>
      BY <2>1 DEF CancelFinds
    <3>2. cancels'[c].at \in {"refused", "found"}
      BY <2>1, <1>t, IdleTypes DEF CancelFinds, CancelType
    <3>3. cancels'[c].found \in {"absent", row.status}
      <4>1. [NoCancel EXCEPT !.at = "refused"].found = "absent"
        BY DEF NoCancel
      <4> QED BY <2>1, <1>t, <4>1 DEF CancelFinds
    <3> QED BY <2>w, <3>1, <3>2, <3>3 DEF MarkInv
  <2>2. CASE CancelMarks(c)
    <3>1. CancelRest(cancels[c].copy) \in Batch
      BY <2>t, BatchUpdates
    <3>2. /\ cancels'[c].at = "save" /\ cancels'[c].found = cancels[c].found
          /\ cancels'[c].copy.status = "cancelled"
      BY <2>2, <1>t, <2>t, <3>1 DEF CancelMarks, CancelType, Batch
    <3>3. UNCHANGED row /\ flag' = IF c \in Remote THEN flag ELSE "off"
      BY <2>2 DEF CancelMarks
    <3> QED BY <2>w, <3>2, <3>3 DEF MarkInv
  <2>3. CASE CancelSaves(c) \/ CancelRejected(c)
    <3>1. /\ cancels'[c].at \in {"done", "died"} /\ cancels'[c].found = cancels[c].found
          /\ UNCHANGED flag /\ cancels[c].at = "save"
      BY <2>3, <1>t, <2>t DEF CancelSaves, CancelRejected, CancelType
    <3>2. UNCHANGED row \/ row'.status = "cancelled"
      BY <2>3 DEF CancelSaves, CancelRejected, MarkInv
    <3> QED BY <2>w, <3>1, <3>2 DEF MarkInv
  <2> QED BY <1>4, <2>1, <2>2, <2>3 DEF CancelStep
<1>5. CASE Restart
  <2>1. worker'.at \notin Starting /\ flag' = "none"
    BY <1>5, IdleTypes DEF Restart, Starting, WorkerType
  <2>2. \A c \in Cancel : cancels'[c] = cancels[c] \/ cancels'[c].at = "died"
    BY <1>5, <1>t, IdleTypes DEF Restart, CancelType
  <2> QED BY <2>1, <2>2 DEF MarkInv
<1>6. CASE UNCHANGED vars
  BY <1>6 DEF vars, MarkInv
<1> QED BY <1>1, <1>3, <1>4, <1>5, <1>6 DEF Next, CancelStep

\* Once a cancel served by this instance has answered for a batch that was being
\* processed, no further message is handed to the engine.
THEOREM CancelStops == Spec => CancelStopsSending
<1> DEFINE Answered == \E c \in Cancel \ Remote :
                         cancels[c].at = "done" /\ cancels[c].found = "processing"
<1>1. TypeInv /\ MarkInv /\ [Next]_vars => [Answered => attempts' = attempts]_vars
  <2> SUFFICES ASSUME MarkInv, Next, Answered PROVE attempts' = attempts
    BY DEF vars
  <2>1. flag # "on"
    BY DEF MarkInv
  <2>2. ~SendNext
    BY <2>1 DEF SendNext, Stopped
  <2> QED BY <2>2 DEF Next, Work, Create, Load, Begin, Save, NoEngine, HasEngine, LeaveLoop,
       SendOk, SendFails, Reread, SaveProgress, FinalReread, Decide, Forget, Boot, Dies,
       CancelFinds, CancelMarks, CancelSaves, CancelRejected, Restart, rest, messages
<1> QED BY <1>1, TypeInit, TypeStep, MarkInit, MarkStep, PTL DEF Spec, CancelStopsSending
-----------------------------------------------------------------------------
(* The report.  While processBatch() holds the entity its counters are the  *)
(* counts of what happened, and whatever the loop has passed was tried.     *)

Holds == {"loaded", "start", "engine", "disengage", "next", "sending", "reread", "save",
          "final", "decide", "close"}

\* The counters of an entity are exact.
Exact(b) == b.sent = Count("sent") /\ b.failed = Count("failed")

\* The status of an entity is the truth.
Truthful(b) ==
  \/ b.status = "cancelled"
  \/ b.status = "completed" /\ Count("none") = 0 /\ Count("sent") > 0
  \/ b.status = "failed" /\ (Count("sent") = 0 \/ (stopOnError /\ Count("failed") > 0))

\* An entity from before the loop.
Blank(b) == b.sent = 0 /\ b.failed = 0

ReportInv ==
  /\ worker.at \in {"none", "load"} => Blank(row) /\ \A c \in Cancel : Blank(cancels[c].copy)
  /\ worker.at \in Holds => Exact(worker.copy)
  /\ worker.at \in BeforeLoop \cup {"disengage"} => \A i \in Index : outcome[i] = "none"
  /\ worker.at \in {"next", "sending"} => \A i \in Index : outcome[i] = "none" <=> i >= worker.i
  /\ worker.at \in {"reread", "save"} => \A i \in Index : outcome[i] = "none" <=> i > worker.i
  /\ worker.stopped => stopOnError /\ \E i \in Index : outcome[i] = "failed"
  /\ flag = "on" /\ ~worker.stopped
     /\ (worker.at = "final" \/ (worker.at = "decide" /\ ~worker.cancelled)) =>
       \A i \in Index : outcome[i] # "none"
  /\ worker.at = "disengage" => worker.copy.status = "failed"
  /\ worker.at = "close" => Truthful(worker.copy)
  /\ worker.at \in {"forget", "end"} =>
       row.status = "cancelled" \/ (Exact(row) /\ Truthful(row))

\* The counts of what became of the messages.
LEMMA CountFacts ==
  ASSUME NEW o
  PROVE  /\ IsFiniteSet({i \in Index : outcome[i] = o})
         /\ Count(o) \in Nat
         /\ Count(o) = 0 <=> \A i \in Index : outcome[i] # o
<1> DEFINE S == {i \in Index : outcome[i] = o}
<1>1. IsFiniteSet(Index)
  BY BatchAssumption, FS_Interval DEF Index
<1>2. IsFiniteSet(S)
  BY <1>1, FS_Subset
<1>3. Cardinality(S) \in Nat /\ (Cardinality(S) = 0 <=> S = {})
  BY <1>2, FS_CardinalityType, FS_EmptySet
<1> QED BY <1>2, <1>3 DEF Count

\* A result adds one to its own count and leaves the other one alone.
LEMMA CountAdds ==
  ASSUME outcome \in [Index -> {"none", "sent", "failed"}],
         NEW k \in Index, outcome[k] = "none", NEW o \in {"sent", "failed"},
         outcome' = [outcome EXCEPT ![k] = o]
  PROVE  /\ Count(o)' = Count(o) + 1
         /\ \A p \in {"sent", "failed"} : p # o => Count(p)' = Count(p)
<1> DEFINE S(p) == {i \in Index : outcome[i] = p}
           T(p) == {i \in Index : outcome'[i] = p}
<1>1. T(o) = S(o) \cup {k} /\ k \notin S(o)
  OBVIOUS
<1>2. \A p \in {"sent", "failed"} : p # o => T(p) = S(p)
  OBVIOUS
<1>3. IsFiniteSet(S(o))
  BY CountFacts
<1>4. Cardinality(T(o)) = Cardinality(S(o)) + 1
  BY <1>1, <1>3, FS_AddElement
<1> QED BY <1>2, <1>4 DEF Count

LEMMA ReportInit == Init => ReportInv
BY DEF Init, ReportInv, Blank, Holds, BeforeLoop, Idle, NoCancel, NoBatch

LEMMA ReportWork == ASSUME TypeInv, SendInv, MarkInv, ReportInv, Work PROVE ReportInv'
<1>t. /\ worker \in WorkerType /\ row \in Batch /\ worker.copy \in Batch /\ worker.i \in 0..N
      /\ outcome \in [Index -> {"none", "sent", "failed"}] /\ stopOnError \in BOOLEAN
      /\ (worker.at \in InLoop => worker.i < N)
  BY DEF TypeInv, TypeOK, WorkerType
<1>c. \A o : Count(o) \in Nat /\ (Count(o) = 0 <=> \A i \in Index : outcome[i] # o)
  BY CountFacts
<1>s. ASSUME UNCHANGED outcome
      PROVE  Count("sent")' = Count("sent") /\ Count("failed")' = Count("failed")
             /\ Count("none")' = Count("none")
  BY <1>s DEF Count
<1>1. CASE Load
  <2>1. Blank(row) /\ \A i \in Index : outcome[i] = "none"
    BY <1>1 DEF Load, ReportInv, BeforeLoop
  <2>2. /\ worker'.at = "loaded" /\ worker'.copy = row /\ worker'.stopped = worker.stopped
        /\ worker.at = "load" /\ UNCHANGED <<row, outcome, stopOnError, cancels>>
    BY <1>1, <1>t DEF Load, rest, messages, WorkerType
  <2>3. Count("sent") = 0 /\ Count("failed") = 0
    BY <2>1, <1>c
  <2>4. worker'.copy.sent = Count("sent")' /\ worker'.copy.failed = Count("failed")'
    BY <2>1, <2>2, <2>3, <1>s DEF Blank
  <2> QED BY <2>1, <2>2, <2>4 DEF ReportInv, Holds, BeforeLoop, Exact
<1>2. CASE Begin
  <2>1. /\ worker'.at = "start" /\ worker'.stopped = worker.stopped
        /\ worker'.copy.sent = worker.copy.sent /\ worker'.copy.failed = worker.copy.failed
        /\ worker.at = "loaded" /\ UNCHANGED <<row, outcome, stopOnError, cancels>>
    BY <1>2, <1>t DEF Begin, rest, messages, WorkerType, Batch
  <2> QED BY <2>1, <1>s DEF ReportInv, Holds, BeforeLoop, Exact
<1>3. CASE Save("start", "engine")
  <2>1. /\ worker'.at = "engine" /\ worker'.stopped = worker.stopped
        /\ worker'.copy = worker.copy
        /\ worker.at = "start" /\ UNCHANGED <<outcome, stopOnError, cancels>>
    BY <1>3, <1>t DEF Save, Goto, rest, messages, WorkerType
  <2> QED BY <2>1, <1>s DEF ReportInv, Holds, BeforeLoop, Exact
<1>4. CASE NoEngine
  <2>1. /\ worker'.at = "disengage" /\ worker'.stopped = worker.stopped
        /\ worker'.copy.sent = worker.copy.sent /\ worker'.copy.failed = worker.copy.failed
        /\ worker'.copy.status = "failed"
        /\ worker.at = "engine" /\ UNCHANGED <<row, outcome, stopOnError, cancels>>
    BY <1>4, <1>t DEF NoEngine, rest, messages, WorkerType, Batch
  <2> QED BY <2>1, <1>s DEF ReportInv, Holds, BeforeLoop, Exact
<1>5. CASE Save("disengage", "end")
  <2>1. /\ worker'.at = "end" /\ worker'.stopped = worker.stopped /\ row' = worker.copy
        /\ worker.at = "disengage" /\ UNCHANGED <<outcome, stopOnError>>
    BY <1>5, <1>t DEF Save, Goto, rest, messages, WorkerType
  <2>2. row'.sent = Count("sent")' /\ row'.failed = Count("failed")' /\ row'.status = "failed"
    BY <2>1, <1>s DEF ReportInv, Holds, Exact
  <2>3. Count("sent") = 0
    BY <2>1, <1>c DEF ReportInv
  <2>4. Exact(row)' /\ Truthful(row)'
    BY <2>1, <2>2, <2>3, <1>s DEF Exact, Truthful
  <2> QED BY <2>1, <2>4 DEF ReportInv, Holds, BeforeLoop
<1>6. CASE HasEngine
  <2>1. /\ worker'.at = "next" /\ worker'.stopped = worker.stopped
        /\ worker'.copy = worker.copy /\ worker'.i = worker.copy.index
        /\ worker.at = "engine" /\ UNCHANGED <<row, outcome, stopOnError, cancels>>
    BY <1>6, <1>t DEF HasEngine, rest, messages, WorkerType
  <2>2. worker'.i = 0 /\ \A i \in Index : outcome'[i] = "none"
    BY <2>1 DEF SendInv, ReportInv, BeforeLoop
  <2>3. \A i \in Index : outcome'[i] = "none" <=> i >= worker'.i
    BY <2>2 DEF Index
  <2> QED BY <2>1, <2>3, <1>s DEF ReportInv, Holds, BeforeLoop, Exact
<1>7. CASE LeaveLoop
  <2>1. /\ worker'.at = "final" /\ worker'.stopped = worker.stopped
        /\ worker'.copy = worker.copy /\ (worker.i = N \/ flag # "on")
        /\ worker.at = "next" /\ UNCHANGED <<row, flag, outcome, stopOnError, cancels>>
    BY <1>7, <1>t DEF LeaveLoop, Stopped, Goto, rest, messages, WorkerType
  <2>2. flag = "on" => \A i \in Index : outcome[i] # "none"
    BY <2>1, <1>t, BatchAssumption DEF ReportInv, Index
  <2> QED BY <2>1, <2>2, <1>s DEF ReportInv, Holds, BeforeLoop, Exact
<1>8. CASE SendNext
  <2>1. /\ worker'.at = "sending" /\ worker'.stopped = worker.stopped
        /\ worker'.copy = worker.copy /\ worker'.i = worker.i
        /\ worker.at = "next" /\ UNCHANGED <<row, outcome, stopOnError, cancels>>
    BY <1>8, <1>t DEF SendNext, Goto, WorkerType
  <2> QED BY <2>1, <1>s DEF ReportInv, Holds, BeforeLoop, Exact
<1>9. CASE SendOk
  <2> DEFINE b == [worker.copy EXCEPT !.sent = @ + 1, !.pending = @ - 1]
             d == [b EXCEPT !.index = worker.i + 1]
  <2>1. /\ worker.at = "sending" /\ worker.i < N /\ worker.i \in Index
        /\ UNCHANGED <<row, flag, stopOnError, cancels>>
        /\ outcome' = [outcome EXCEPT ![worker.i] = "sent"]
    BY <1>9, <1>t, BatchAssumption DEF SendOk, InLoop, Index
  <2>2. b \in Batch
    BY <1>t, BatchUpdates
  <2>3. /\ worker'.at \in {"reread", "next"} /\ worker'.copy = d
        /\ worker'.at = "reread" => worker'.i = worker.i
        /\ worker'.at = "next" => worker'.i = worker.i + 1
        /\ worker'.stopped = worker.stopped
    BY <1>9, <1>t, <2>1, <2>2, RecordedType DEF SendOk
  <2>4. d.sent = worker.copy.sent + 1 /\ d.failed = worker.copy.failed
    BY <1>t DEF Batch
  <2>5. Count("sent")' = Count("sent") + 1 /\ Count("failed")' = Count("failed")
    <3>1. outcome[worker.i] = "none"
      BY <2>1, <1>t DEF ReportInv
    <3> QED BY <2>1, <3>1, <1>t, CountAdds
  <2>6. Exact(worker.copy)'
    BY <2>1, <2>3, <2>4, <2>5 DEF ReportInv, Holds, Exact
  <2>7. \A i \in Index : outcome'[i] = "none" <=> i > worker.i
    BY <2>1, <1>t DEF ReportInv, Index
  <2>8. worker'.stopped => stopOnError' /\ \E i \in Index : outcome'[i] = "failed"
    BY <2>1, <2>3, <1>t DEF ReportInv
  <2> HIDE DEF d, b
  <2>9. worker'.at = "next" => \A i \in Index : outcome'[i] = "none" <=> i >= worker'.i
    BY <2>3, <2>7, <1>t DEF Index
  <2> QED BY <2>1, <2>3, <2>6, <2>7, <2>8, <2>9 DEF ReportInv, Holds, BeforeLoop
<1>10. CASE SendFails
  <2> DEFINE b == [worker.copy EXCEPT !.failed = @ + 1, !.pending = @ - 1]
             d == [b EXCEPT !.index = worker.i + 1]
             e == [b EXCEPT !.status = "failed"]
  <2>1. /\ worker.at = "sending" /\ worker.i < N /\ worker.i \in Index
        /\ UNCHANGED <<row, flag, stopOnError, cancels>>
        /\ outcome' = [outcome EXCEPT ![worker.i] = "failed"]
    BY <1>10, <1>t, BatchAssumption DEF SendFails, InLoop, Index
  <2>2. b \in Batch
    BY <1>t, BatchUpdates
  <2>4. /\ d.failed = worker.copy.failed + 1 /\ d.sent = worker.copy.sent
        /\ e.failed = worker.copy.failed + 1 /\ e.sent = worker.copy.sent
    BY <1>t DEF Batch
  <2>5. Count("failed")' = Count("failed") + 1 /\ Count("sent")' = Count("sent")
    <3>1. outcome[worker.i] = "none"
      BY <2>1, <1>t DEF ReportInv
    <3> QED BY <2>1, <3>1, <1>t, CountAdds
  <2>7. \A i \in Index : outcome'[i] = "none" <=> i > worker.i
    BY <2>1, <1>t DEF ReportInv, Index
  <2>8. outcome'[worker.i] = "failed"
    BY <2>1, <1>t
  <2>9. CASE BreaksLoop
    <3>1. worker'.at = "final" /\ worker'.copy = e /\ worker'.stopped /\ stopOnError'
      BY <1>10, <2>9, <1>t DEF SendFails, BreaksLoop, WorkerType
    <3>2. Exact(worker.copy)'
      BY <2>1, <3>1, <2>4, <2>5 DEF ReportInv, Holds, Exact
    <3> HIDE DEF d, b, e
    <3> QED BY <2>1, <2>8, <3>1, <3>2 DEF ReportInv, Holds, BeforeLoop
  <2>10. CASE ~BreaksLoop
    <3>1. /\ worker'.at \in {"reread", "next"} /\ worker'.copy = d
          /\ worker'.at = "reread" => worker'.i = worker.i
          /\ worker'.at = "next" => worker'.i = worker.i + 1
          /\ worker'.stopped = worker.stopped
      BY <1>10, <2>10, <1>t, <2>1, <2>2, RecordedType DEF SendFails
    <3>2. Exact(worker.copy)'
      BY <2>1, <3>1, <2>4, <2>5 DEF ReportInv, Holds, Exact
    <3> HIDE DEF d, b, e
    <3>3. worker'.at = "next" => \A i \in Index : outcome'[i] = "none" <=> i >= worker'.i
      BY <3>1, <2>7, <1>t DEF Index
    <3>4. worker'.stopped => stopOnError'
      BY <2>1, <3>1 DEF ReportInv
    <3> QED BY <2>1, <2>7, <2>8, <3>1, <3>2, <3>3, <3>4 DEF ReportInv, Holds, BeforeLoop
  <2> QED BY <2>9, <2>10
<1>11. CASE Reread
  <2>1. /\ worker'.at \in {"decide", "save"} /\ (worker'.at = "decide" => worker'.cancelled)
        /\ worker'.copy = worker.copy /\ worker'.i = worker.i
        /\ worker'.stopped = worker.stopped
        /\ worker.at = "reread" /\ UNCHANGED <<row, flag, outcome, stopOnError, cancels>>
    BY <1>11, <1>t DEF Reread, rest, messages, WorkerType
  <2> QED BY <2>1, <1>s DEF ReportInv, Holds, BeforeLoop, Exact
<1>12. CASE SaveProgress
  <2>1. /\ worker'.at = "next" /\ worker'.copy = worker.copy /\ worker'.i = worker.i + 1
        /\ worker'.stopped = worker.stopped
        /\ worker.at = "save" /\ UNCHANGED <<outcome, stopOnError, cancels>>
    BY <1>12, <1>t DEF SaveProgress, rest, messages, WorkerType
  <2>2. \A i \in Index : outcome'[i] = "none" <=> i >= worker'.i
    BY <2>1, <1>t DEF ReportInv, Index
  <2> QED BY <2>1, <2>2, <1>s DEF ReportInv, Holds, BeforeLoop, Exact
<1>13. CASE FinalReread
  <2>1. /\ worker'.at = "decide" /\ worker'.copy = worker.copy
        /\ worker'.stopped = worker.stopped
        /\ worker.at = "final" /\ UNCHANGED <<row, flag, outcome, stopOnError, cancels>>
    BY <1>13, <1>t DEF FinalReread, rest, messages, WorkerType
  <2> QED BY <2>1, <1>s DEF ReportInv, Holds, BeforeLoop, Exact
<1>14. CASE Decide
  <2> DEFINE c == worker.cancelled \/ Stopped
             b == worker.copy
             s == FinalStatus(c, worker.stopped, b)
             d == [(IF c THEN CancelRest(b) ELSE b) EXCEPT !.status = s]
  <2>1. CancelRest(b) \in Batch /\ CancelRest(b).sent = b.sent
        /\ CancelRest(b).failed = b.failed
    BY <1>t, BatchUpdates DEF CancelRest, Batch
  <2>2. d.sent = b.sent /\ d.failed = b.failed /\ d.status = s
    BY <2>1, <1>t DEF Batch
  <2>3. /\ worker'.at = "close" /\ worker'.copy = d /\ worker'.stopped = worker.stopped
        /\ worker.at = "decide" /\ UNCHANGED <<row, flag, outcome, stopOnError, cancels>>
    BY <1>14, <1>t DEF Decide, rest, messages, WorkerType
  <2>4. b.sent = Count("sent") /\ b.failed = Count("failed")
    BY <2>3 DEF ReportInv, Holds, Exact
  <2>5. \/ s = "cancelled"
        \/ s = "completed" /\ Count("none") = 0 /\ Count("sent") > 0
        \/ s = "failed" /\ (Count("sent") = 0 \/ (stopOnError /\ Count("failed") > 0))
    <3> SUFFICES ASSUME ~c
                 PROVE  \/ s = "completed" /\ Count("none") = 0 /\ Count("sent") > 0
                        \/ s = "failed" /\ (Count("sent") = 0
                                            \/ (stopOnError /\ Count("failed") > 0))
      BY DEF FinalStatus
    <3>1. CASE worker.stopped
      <4>1. stopOnError /\ \E i \in Index : outcome[i] = "failed"
        BY <3>1 DEF ReportInv
      <4>2. Count("failed") > 0
        BY <4>1, <1>c
      <4> QED BY <3>1, <4>1, <4>2 DEF FinalStatus
    <3>2. CASE ~worker.stopped /\ b.failed > 0 /\ b.sent = 0
      BY <3>2, <2>4 DEF FinalStatus
    <3>3. CASE ~worker.stopped /\ ~(b.failed > 0 /\ b.sent = 0)
      <4>1. s = "completed"
        BY <3>3 DEF FinalStatus
      <4>2. \A i \in Index : outcome[i] # "none"
        BY <3>3, <2>3 DEF ReportInv, Stopped
      <4>3. Count("none") = 0
        BY <4>2, <1>c
      <4>4. 0 \in Index
        BY BatchAssumption DEF Index
      <4>5. ~(Count("sent") = 0 /\ Count("failed") = 0)
        BY <4>2, <4>4, <1>c, <1>t
      <4>6. Count("sent") # 0
        BY <4>5, <3>3, <2>4, <1>c
      <4> QED BY <4>1, <4>3, <4>6, <1>c
    <3> QED BY <3>1, <3>2, <3>3
  <2> HIDE DEF c, s, d, b
  <2>6. Exact(worker.copy)'
    BY <2>2, <2>3, <2>4, <1>s DEF Exact
  <2>7. Truthful(worker.copy)'
    BY <2>2, <2>3, <2>5, <1>s DEF Truthful
  <2> QED BY <2>3, <2>6, <2>7 DEF ReportInv, Holds, BeforeLoop
<1>15. CASE Save("close", "forget")
  <2>1. /\ worker'.at = "forget" /\ worker'.stopped = worker.stopped /\ row' = worker.copy
        /\ worker.at = "close" /\ UNCHANGED <<outcome, stopOnError>>
    BY <1>15, <1>t DEF Save, Goto, rest, messages, WorkerType
  <2>2. Exact(row)' /\ Truthful(row)'
    BY <2>1, <1>s DEF ReportInv, Holds, Exact, Truthful
  <2> QED BY <2>1, <2>2 DEF ReportInv, Holds, BeforeLoop
<1>16. CASE Forget
  <2>1. /\ worker'.at = "end" /\ worker'.stopped = worker.stopped
        /\ worker.at = "forget" /\ UNCHANGED <<row, outcome, stopOnError>>
    BY <1>16, <1>t DEF Forget, Goto, rest, messages, WorkerType
  <2> QED BY <2>1, <1>s DEF ReportInv, Holds, BeforeLoop, Exact, Truthful
<1>17. CASE Boot
  <2>1. worker'.at = "died" /\ ~worker'.stopped
    BY <1>17 DEF Boot, AfterBoot, Idle
  <2> QED BY <2>1 DEF ReportInv, Holds, BeforeLoop
<1> QED BY <1>1, <1>2, <1>3, <1>4, <1>5, <1>6, <1>7, <1>8, <1>9, <1>10, <1>11, <1>12,
           <1>13, <1>14, <1>15, <1>16, <1>17 DEF Work

LEMMA ReportCancel ==
  ASSUME TypeInv, MarkInv, ReportInv, NEW c \in Cancel, CancelStep(c) PROVE ReportInv'
<1>t. /\ cancels \in [Cancel -> CancelType] /\ cancels[c] \in CancelType
      /\ cancels[c].copy \in Batch /\ row \in Batch
  BY DEF TypeInv, TypeOK, CancelType
<1>w. /\ UNCHANGED <<worker, outcome, stopOnError>> /\ (flag' = "on" => flag = "on")
      /\ \A d \in Cancel : d # c => cancels'[d] = cancels[d]
  BY <1>t DEF CancelStep, CancelFinds, CancelMarks, CancelSaves, CancelRejected, messages
<1>s. Count("sent")' = Count("sent") /\ Count("failed")' = Count("failed")
      /\ Count("none")' = Count("none")
  BY <1>w DEF Count
<1>n. NoBatch.sent = 0 /\ NoBatch.failed = 0
  BY DEF NoBatch
<1>1. UNCHANGED row \/ row'.status = "cancelled"
  BY <1>t DEF CancelStep, CancelFinds, CancelMarks, CancelSaves, CancelRejected, MarkInv
<1>2. ASSUME Blank(row), \A d \in Cancel : Blank(cancels[d].copy)
      PROVE  Blank(row') /\ Blank(cancels'[c].copy)
  <2>1. CASE CancelFinds(c)
    <3>1. [NoCancel EXCEPT !.at = "refused"].copy = NoBatch
      BY DEF NoCancel
    <3>2. cancels'[c].copy \in {NoBatch, row} /\ UNCHANGED row
      BY <2>1, <1>t, <3>1 DEF CancelFinds
    <3> QED BY <1>2, <3>2, <1>n DEF Blank
  <2>2. CASE CancelMarks(c)
    <3> DEFINE b == cancels[c].copy
               d == [CancelRest(b) EXCEPT !.status = "cancelled"]
    <3>1. cancels'[c].copy = d /\ UNCHANGED row
      BY <2>2, <1>t DEF CancelMarks, CancelType
    <3>2. d.sent = b.sent /\ d.failed = b.failed
      BY <1>t DEF CancelRest, Batch
    <3> HIDE DEF d
    <3> QED BY <1>2, <3>1, <3>2 DEF Blank
  <2>3. CASE CancelSaves(c) \/ CancelRejected(c)
    <3>1. cancels'[c].copy = NoBatch /\ (UNCHANGED row \/ row' = cancels[c].copy)
      BY <2>3, <1>t DEF CancelSaves, CancelRejected, CancelType
    <3> QED BY <1>2, <3>1, <1>n DEF Blank
  <2> QED BY <2>1, <2>2, <2>3 DEF CancelStep
<1>3. worker.at \in {"none", "load"} => Blank(row') /\ \A d \in Cancel : Blank(cancels'[d].copy)
  BY <1>w, <1>2 DEF ReportInv
<1> QED BY <1>w, <1>s, <1>1, <1>3 DEF ReportInv, Exact, Truthful

LEMMA ReportStep == TypeInv /\ SendInv /\ MarkInv /\ ReportInv /\ [Next]_vars => ReportInv'
<1> SUFFICES ASSUME TypeInv, SendInv, MarkInv, ReportInv, [Next]_vars PROVE ReportInv'
  OBVIOUS
<1>t. worker \in WorkerType
  BY DEF TypeInv, TypeOK, WorkerType
<1>1. CASE Create
  <2>1. NewBatch.sent = 0 /\ NewBatch.failed = 0
    BY DEF NewBatch, NoBatch
  <2>2. /\ worker'.at = "load" /\ worker'.stopped = worker.stopped /\ row' = NewBatch
        /\ worker.at = "none" /\ UNCHANGED <<cancels, outcome, stopOnError>>
    BY <1>1, <1>t DEF Create, rest, messages, WorkerType
  <2> QED BY <2>1, <2>2 DEF ReportInv, Blank, Holds, BeforeLoop
<1>2. CASE Work
  BY <1>2, ReportWork
<1>3. CASE Dies
  <2>1. /\ worker'.at = "died" /\ worker'.stopped = worker.stopped
        /\ UNCHANGED <<outcome, stopOnError>>
    BY <1>3, <1>t DEF Dies, Goto, rest, messages, WorkerType
  <2> QED BY <2>1 DEF ReportInv, Holds, BeforeLoop
<1>4. ASSUME NEW c \in Cancel, CancelStep(c) PROVE ReportInv'
  BY <1>4, ReportCancel
<1>5. CASE Restart
  <2>1. worker'.at \in {"boot", "died"} /\ ~worker'.stopped
    BY <1>5 DEF Restart, Idle
  <2> QED BY <2>1 DEF ReportInv, Holds, BeforeLoop
<1>6. CASE UNCHANGED vars
  BY <1>6 DEF vars, ReportInv, Exact, Truthful, Count
<1> QED BY <1>1, <1>2, <1>3, <1>4, <1>5, <1>6 DEF Next, CancelStep

\* When processBatch() is done, whatever cancels it raced with, early ones
\* included: a row that is not CANCELLED has exact counters and tells the truth.
THEOREM ReportsAreExact == Spec => []ReportIsExact
<1>1. ReportInv => ReportIsExact
  BY DEF ReportInv, ReportIsExact, Exact, Truthful
<1> QED BY <1>1, TypeInit, TypeStep, SendInit, SendStep, MarkInit, MarkStep, ReportInit,
           ReportStep, PTL DEF Spec

-----------------------------------------------------------------------------
(* A batch that is PROCESSING is in somebody's hands.                      *)

\* The worker on its way to a save of another status, or the start-up repair.
Drives == {"engine", "disengage", "next", "sending", "reread", "save", "final",
           "decide", "close", "boot"}

Attended ==
  row.status = "processing" =>
    worker.at \in Drives \/ (worker.at = "died" /\ ~restarted)

\* What ends it is saved with another status, by the worker and by a cancel, and
\* after a restart nobody drives it on.
AttendInv ==
  /\ Attended
  /\ worker.at \in {"disengage", "close"} => worker.copy.status # "processing"
  /\ \A c \in Cancel : cancels[c].at = "save" => cancels[c].copy.status = "cancelled"
  /\ restarted => worker.at \in {"boot", "died"}

LEMMA AttendWork == ASSUME TypeInv, AttendInv, Work PROVE AttendInv'
<1>t. worker \in WorkerType /\ row \in Batch /\ worker.copy \in Batch
  BY DEF TypeInv, TypeOK, WorkerType
<1>r. worker.at # "died" /\ (worker.at # "boot" => ~restarted) /\ UNCHANGED <<cancels, restarted>>
  <2>1. UNCHANGED <<cancels, restarted>>
    BY DEF Work, Load, Begin, Save, NoEngine, HasEngine, LeaveLoop, SendNext, SendOk,
           SendFails, Reread, SaveProgress, FinalReread, Decide, Forget, Boot, rest
  <2>2. worker.at # "died"
    BY DEF Work, Load, Begin, Save, NoEngine, HasEngine, LeaveLoop, SendNext, SendOk,
           SendFails, Reread, SaveProgress, FinalReread, Decide, Forget, Boot
  <2> QED BY <2>1, <2>2 DEF AttendInv
\* The row stays as it is, and so does whoever attends to it.
<1>w. ASSUME UNCHANGED row, worker.at # "boot",
             row.status = "processing" /\ worker.at \in Drives => worker'.at \in Drives,
             worker'.at \in {"disengage", "close"} => worker'.copy.status # "processing"
      PROVE  AttendInv'
  BY <1>w, <1>r DEF AttendInv, Attended
<1>1. CASE Load \/ Begin
  BY <1>1, <1>t, <1>w DEF Load, Begin, Drives, WorkerType
<1>2. CASE Save("start", "engine") \/ SaveProgress
  <2>1. worker.at # "boot" /\ worker'.at \in Drives \ {"disengage", "close", "boot"}
    BY <1>2, <1>t DEF Save, Goto, SaveProgress, Drives, WorkerType
  <2> QED BY <2>1, <1>r DEF AttendInv, Attended
<1>3. CASE Save("disengage", "end") \/ Save("close", "forget")
  <2>1. /\ row'.status # "processing" /\ worker.at # "boot"
        /\ worker'.at \notin {"disengage", "close"}
    BY <1>3, <1>t DEF Save, Goto, AttendInv, WorkerType
  <2> QED BY <2>1, <1>r DEF AttendInv, Attended
<1>4. CASE NoEngine
  <2>1. worker'.at = "disengage" /\ worker'.copy.status = "failed"
    BY <1>4, <1>t DEF NoEngine, WorkerType, Batch
  <2> QED BY <1>4, <2>1, <1>w DEF NoEngine, Drives
<1>5. CASE HasEngine \/ LeaveLoop \/ SendNext \/ FinalReread \/ Reread
  <2>1. /\ UNCHANGED row /\ worker.at # "boot"
        /\ worker'.at \in {"next", "final", "sending", "decide", "save"}
    BY <1>5, <1>t DEF HasEngine, LeaveLoop, SendNext, FinalReread, Reread, Goto, WorkerType
  <2> QED BY <2>1, <1>w DEF Drives
<1>6. CASE SendOk \/ SendFails
  <2>1. worker'.at \in {"reread", "next", "final"}
    BY <1>6, <1>t DEF SendOk, SendFails, Recorded, WorkerType
  <2> QED BY <1>6, <2>1, <1>w DEF SendOk, SendFails, Drives
<1>7. CASE Decide
  <2> DEFINE cancelled == worker.cancelled \/ Stopped
             b == IF cancelled THEN CancelRest(worker.copy) ELSE worker.copy
             s == FinalStatus(cancelled, worker.stopped, worker.copy)
  <2>1. b \in Batch /\ s # "processing"
    BY <1>t, BatchUpdates DEF FinalStatus
  <2>2. worker'.at = "close" /\ worker'.copy = [b EXCEPT !.status = s]
    BY <1>7, <1>t DEF Decide, WorkerType
  <2> HIDE DEF b, s
  <2>3. worker'.copy.status # "processing"
    BY <2>1, <2>2 DEF Batch
  <2> QED BY <1>7, <2>2, <2>3, <1>w DEF Decide, Drives
<1>8. CASE Forget
  BY <1>8, <1>t, <1>w DEF Forget, Goto, Drives, WorkerType
<1>9. CASE Boot
  <2>1. row'.status = "failed" /\ worker'.at = "died"
    BY <1>9, <1>t, IdleTypes DEF Boot, AfterBoot, WorkerType, Batch
  <2> QED BY <2>1, <1>r DEF AttendInv, Attended
<1> QED BY <1>1, <1>2, <1>3, <1>4, <1>5, <1>6, <1>7, <1>8, <1>9 DEF Work

LEMMA AttendCancel ==
  ASSUME TypeInv, AttendInv, NEW c \in Cancel, CancelStep(c)
  PROVE  AttendInv'
<1>t. cancels \in [Cancel -> CancelType] /\ cancels[c].copy \in Batch
  BY DEF TypeInv, TypeOK, CancelType
<1>u. /\ UNCHANGED <<worker, restarted>>
      /\ \A d \in Cancel : d # c => cancels'[d] = cancels[d]
  BY <1>t DEF CancelStep, CancelFinds, CancelMarks, CancelSaves, CancelRejected
<1>1. CASE CancelSaves(c)
  <2>1. row'.status = "cancelled" /\ cancels'[c].at = "done"
    BY <1>1, <1>t DEF CancelSaves, AttendInv, CancelType
  <2> QED BY <2>1, <1>u DEF AttendInv, Attended
<1>2. CASE CancelMarks(c)
  <2>1. CancelRest(cancels[c].copy) \in Batch
    BY <1>t, BatchUpdates
  <2>2. cancels'[c].copy.status = "cancelled" /\ UNCHANGED row
    BY <1>2, <2>1, <1>t DEF CancelMarks, CancelType, Batch
  <2> QED BY <2>2, <1>u DEF AttendInv, Attended
<1>3. CASE CancelFinds(c) \/ CancelRejected(c)
  <2>1. cancels'[c].at # "save" /\ UNCHANGED row
    BY <1>3, <1>t, IdleTypes DEF CancelFinds, CancelRejected, CancelType
  <2> QED BY <2>1, <1>u DEF AttendInv, Attended
<1> QED BY <1>1, <1>2, <1>3 DEF CancelStep

LEMMA AttendStep == TypeInv /\ AttendInv /\ [Next]_vars => AttendInv'
<1> SUFFICES ASSUME TypeInv, AttendInv, [Next]_vars PROVE AttendInv'
  OBVIOUS
<1>t. worker \in WorkerType /\ cancels \in [Cancel -> CancelType]
  BY DEF TypeInv, TypeOK, WorkerType, CancelType
<1>1. CASE Create
  <2>1. /\ worker'.at = "load" /\ row'.status = "pending" /\ ~restarted
        /\ UNCHANGED <<cancels, restarted>>
    BY <1>1, <1>t, BatchLiterals DEF Create, rest, AttendInv, NewBatch, WorkerType, Batch
  <2> QED BY <2>1 DEF AttendInv, Attended
<1>2. CASE Dies
  <2>1. /\ worker'.at = "died" /\ ~restarted /\ UNCHANGED <<row, cancels, restarted>>
    BY <1>2, <1>t DEF Dies, Goto, rest, AttendInv, WorkerType
  <2> QED BY <2>1 DEF AttendInv, Attended
<1>3. CASE Restart
  <2>1. /\ row.status = "processing" => worker'.at = "boot"
        /\ worker'.at \in {"boot", "died"} /\ UNCHANGED row
    BY <1>3, IdleTypes DEF Restart, Orphaned, WorkerType
  <2>2. \A c \in Cancel : cancels'[c].at = "save" => cancels'[c] = cancels[c]
    BY <1>3, <1>t, IdleTypes DEF Restart, CancelType
  <2> QED BY <2>1, <2>2 DEF AttendInv, Attended, Drives
<1>4. CASE UNCHANGED vars
  BY <1>4 DEF vars, AttendInv, Attended
<1> QED BY <1>1, <1>2, <1>3, <1>4, AttendWork, AttendCancel DEF Next, CancelStep

\* A batch that is PROCESSING has a worker that will save its end, or the repair
\* at start-up, unless a statement of the worker was rejected in this process;
\* no cancel and no restart leaves one behind.  That the worker then comes to
\* its end is fairness (BatchSettles).
THEOREM BatchesAreAttended == Spec => []Attended
<1>1. Init => AttendInv
  BY DEF Init, AttendInv, Attended, NoBatch, Idle, NoCancel
<1>2. AttendInv => Attended
  BY DEF AttendInv
<1> QED BY <1>1, <1>2, TypeInit, TypeStep, AttendStep, PTL DEF Spec

=============================================================================
