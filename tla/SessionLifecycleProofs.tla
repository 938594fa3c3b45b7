----------------------- MODULE SessionLifecycleProofs -----------------------
(***************************************************************************)
(* Theorems about SessionLifecycle, for every set of engines and of calls   *)
(* in progress and every value of the bounds.                              *)
(***************************************************************************)
EXTENDS SessionLifecycle, TLAPS

WriteType == [to : SessionStatus \cup {"absent"}, by : Proc \cup {NoProc}]

ReconnectType == [on : BOOLEAN, attempts : Nat, armed : BOOLEAN]

ProcType == [op : Op, at : At, engine : Engine \cup {NoEngine}]

-----------------------------------------------------------------------------
(* The helpers the actions share keep the types.                           *)

\* scheduleReconnect() leaves well-typed state behind.
LEMMA ScheduleType ==
  ASSUME NEW r \in ReconnectType, NEW l \in Nat, NEW w \in Seq(WriteType),
         ScheduleReconnect(r, l, w)
  PROVE  rec' \in ReconnectType /\ loose' \in Nat /\ writes' \in Seq(WriteType)
<1>1. Write("failed", NoProc) \in WriteType
  BY DEF Write, WriteType, SessionStatus, EngineStatus
<1>2. writes' \in Seq(WriteType)
  BY <1>1 DEF ScheduleReconnect
<1>3. rec' \in ReconnectType
  BY DEF ScheduleReconnect, ReconnectType
<1>4. loose' \in Nat
  BY DEF ScheduleReconnect
<1> QED BY <1>2, <1>3, <1>4

\* The write an adapter's teardown issues, and a status write in general.
LEMMA WritesType ==
  ASSUME TypeOK
  PROVE  /\ \A s \in SessionStatus \cup {"absent"}, p \in Proc \cup {NoProc} :
              Write(s, p) \in WriteType
         /\ \A w \in Seq(WriteType), x \in WriteType : Append(w, x) \in Seq(WriteType)
         /\ \A e \in Engine : TeardownWrites(e) \in Seq(WriteType)
<1>1. \A s \in SessionStatus \cup {"absent"}, p \in Proc \cup {NoProc} :
        Write(s, p) \in WriteType
  BY DEF Write, WriteType
<1>2. \A w \in Seq(WriteType), x \in WriteType : Append(w, x) \in Seq(WriteType)
  OBVIOUS
<1>3. writes \in Seq(WriteType)
  BY DEF TypeOK, WriteType
<1>4. "disconnected" \in SessionStatus
  BY DEF SessionStatus, EngineStatus
<1>5. \A e \in Engine : TeardownWrites(e) \in Seq(WriteType)
  BY <1>1, <1>2, <1>3, <1>4 DEF TeardownWrites
<1> QED BY <1>1, <1>2, <1>5

\* [r EXCEPT !.f = x] of the reconnect state.
LEMMA ReconnectUpdates ==
  ASSUME NEW r \in ReconnectType
  PROVE  /\ [r EXCEPT !.armed = FALSE] \in ReconnectType
         /\ [r EXCEPT !.attempts = 0] \in ReconnectType
BY DEF ReconnectType

\* The same of an entry of proc.
LEMMA ProcUpdates ==
  ASSUME TypeOK, NEW p \in Proc, NEW a \in At, NEW e \in Engine \cup {NoEngine}
  PROVE  /\ [proc EXCEPT ![p].at = a] \in [Proc -> ProcType]
         /\ [proc EXCEPT ![p].at = a, ![p].engine = e] \in [Proc -> ProcType]
         /\ [proc EXCEPT ![p] = AtRest] \in [Proc -> ProcType]
<1>1. proc \in [Proc -> ProcType] /\ proc[p] \in ProcType
  BY DEF TypeOK, ProcType
<1>2. [proc[p] EXCEPT !.at = a] \in ProcType
  BY <1>1 DEF ProcType
<1>3. [[proc[p] EXCEPT !.at = a] EXCEPT !.engine = e] \in ProcType
  BY <1>2 DEF ProcType
<1>4. AtRest \in ProcType
  BY DEF AtRest, ProcType, Op, At
<1>5. [proc EXCEPT ![p].at = a] \in [Proc -> ProcType]
  BY <1>1, <1>2
<1>6. [proc EXCEPT ![p].at = a, ![p].engine = e] \in [Proc -> ProcType]
  BY <1>1, <1>2, <1>3
<1>7. [proc EXCEPT ![p] = AtRest] \in [Proc -> ProcType]
  BY <1>1, <1>4
<1> QED BY <1>5, <1>6, <1>7

LEMMA TornDownType ==
  ASSUME TypeOK, NEW e, TornDown(e)
  PROVE  phase' \in [Engine -> Phase] /\ st' \in [Engine -> EngineStatus]
BY DEF TypeOK, TornDown, Phase, EngineStatus

LEMMA OpenEngineType ==
  ASSUME TypeOK, NEW p \in Proc, NEW o \in Op, NEW w \in Seq(WriteType), NEW old,
         OpenEngine(p, o, w, old)
  PROVE  /\ map' \in Engine
         /\ writes' \in Seq(WriteType)
         /\ proc' \in [Proc -> ProcType]
         /\ phase' \in [Engine -> Phase]
         /\ st' \in [Engine -> EngineStatus]
<1>1. PICK e \in Spare \ {old} :
        /\ map' = e
        /\ writes' = Append(w, Write("initializing", p))
        /\ proc' = [proc EXCEPT ![p] = [op |-> o, at |-> "marking", engine |-> e]]
        /\ phase' = [d \in Engine |->
             IF d = e THEN "new"
             ELSE IF d = old /\ phase[d] = "live" THEN "dead" ELSE phase[d]]
        /\ st' = [d \in Engine |->
             IF d = e \/ (d = old /\ phase[d] = "live") THEN "disconnected" ELSE st[d]]
  BY DEF OpenEngine
<1>2. e \in Engine
  BY DEF Spare
<1>3. Write("initializing", p) \in WriteType
  BY WritesType DEF SessionStatus, EngineStatus
<1>4. writes' \in Seq(WriteType)
  BY <1>1, <1>3
<1>5. [op |-> o, at |-> "marking", engine |-> e] \in ProcType
  BY <1>2 DEF ProcType, At
<1>6. proc' \in [Proc -> ProcType]
  BY <1>1, <1>5 DEF TypeOK, ProcType
<1>7. phase' \in [Engine -> Phase] /\ st' \in [Engine -> EngineStatus]
  BY <1>1 DEF TypeOK, Phase, EngineStatus
<1> QED BY <1>1, <1>2, <1>4, <1>6, <1>7

-----------------------------------------------------------------------------
(* Type correctness                                                        *)

\* TypeOK by the names of this module.
LEMMA TypeOKParts ==
  TypeOK <=>
    /\ row \in SessionStatus \cup {"absent"}
    /\ writes \in Seq(WriteType)
    /\ missed \in BOOLEAN
    /\ map \in Engine \cup {NoEngine}
    /\ stopping \in BOOLEAN
    /\ initializing \in BOOLEAN
    /\ rec \in ReconnectType
    /\ loose \in Nat
    /\ phase \in [Engine -> Phase]
    /\ st \in [Engine -> EngineStatus]
    /\ proc \in [Proc -> ProcType]
BY DEF TypeOK, WriteType, ReconnectType, ProcType

LEMMA TypeInit == Init => TypeOK
<1> SUFFICES ASSUME Init PROVE TypeOK
  OBVIOUS
<1>1. row \in SessionStatus \cup {"absent"} /\ writes \in Seq(WriteType)
  BY DEF Init, SessionStatus
<1>2. rec \in ReconnectType
  BY DEF Init, NoReconnect, ReconnectType
<1>3. AtRest \in ProcType
  BY DEF AtRest, ProcType, Op, At
<1>4. proc \in [Proc -> ProcType]
  BY <1>3 DEF Init
<1>5. phase \in [Engine -> Phase] /\ st \in [Engine -> EngineStatus]
  BY DEF Init, Phase, EngineStatus
<1> QED BY <1>1, <1>2, <1>4, <1>5, TypeOKParts DEF Init

LEMMA TypeStep == TypeOK /\ [Next]_vars => TypeOK'
<1> SUFFICES ASSUME TypeOK, [Next]_vars PROVE TypeOK'
  OBVIOUS
<1> USE DEF db, service, engines
<1>t. /\ row \in SessionStatus \cup {"absent"}
      /\ writes \in Seq(WriteType)
      /\ missed \in BOOLEAN
      /\ map \in Engine \cup {NoEngine}
      /\ stopping \in BOOLEAN
      /\ initializing \in BOOLEAN
      /\ rec \in ReconnectType
      /\ loose \in Nat
      /\ phase \in [Engine -> Phase]
      /\ st \in [Engine -> EngineStatus]
      /\ proc \in [Proc -> ProcType]
  BY TypeOKParts
<1>u. (/\ row \in SessionStatus \cup {"absent"}
       /\ writes \in Seq(WriteType)
       /\ missed \in BOOLEAN
       /\ map \in Engine \cup {NoEngine}
       /\ stopping \in BOOLEAN
       /\ initializing \in BOOLEAN
       /\ rec \in ReconnectType
       /\ loose \in Nat
       /\ phase \in [Engine -> Phase]
       /\ st \in [Engine -> EngineStatus]
       /\ proc \in [Proc -> ProcType])'
      => TypeOK'
  BY DEF TypeOK, WriteType, ReconnectType, ProcType
<1>h. ASSUME NEW w \in Seq(WriteType), NEW s \in SessionStatus \cup {"absent"},
             NEW b \in Proc \cup {NoProc}
      PROVE  Append(w, Write(s, b)) \in Seq(WriteType)
  BY WritesType
<1>s. {"disconnected", "initializing", "failed", "linking", "ready"} \subseteq SessionStatus
  BY DEF SessionStatus, EngineStatus
<1>1. ASSUME NEW p \in Proc, NEW o \in Stopper \cup {"start"}, Call(p, o) PROVE TypeOK'
  <2>1. [AtRest EXCEPT !.op = o, !.at = "found"] \in ProcType
    BY DEF AtRest, ProcType, Op, At, Stopper
  <2>2. proc' \in [Proc -> ProcType]
    BY <1>1, <1>t, <2>1 DEF Call
  <2> QED BY <1>1, <1>t, <2>2, <1>u DEF Call
<1>2. ASSUME NEW p \in Proc, Start(p) PROVE TypeOK'
  <2>1. CASE StartRefused(p)
    BY <2>1, <1>t, ProcUpdates, <1>u DEF StartRefused, Finish, At
  <2>2. CASE StartReserve(p)
    <3>1. proc' \in [Proc -> ProcType]
      BY <2>2, <1>t, ProcUpdates DEF StartReserve, Goto, At
    <3> QED BY <2>2, <3>1, <1>t, <1>u DEF StartReserve
  <2>3. FreshReconnect \in ReconnectType
    BY DEF FreshReconnect, NoReconnect, ReconnectType
  <2>4. CASE StartOpen(p)
    <3>1. rec' \in ReconnectType /\ loose' \in Nat
      BY <2>3, <2>4, <1>t DEF StartOpen, ReplaceReconnectState
    <3>2. OpenEngine(p, "start", writes, NoEngine) /\ "start" \in Op
      BY <2>4 DEF StartOpen, Op
    <3>3. /\ map' \in Engine /\ writes' \in Seq(WriteType)
          /\ proc' \in [Proc -> ProcType] /\ phase' \in [Engine -> Phase]
          /\ st' \in [Engine -> EngineStatus]
      BY <3>2, <1>t, OpenEngineType
    <3> QED BY <2>4, <3>1, <3>3, <1>t, <1>u DEF StartOpen
  <2>5. CASE StartOpenFails(p)
    <3>1. rec' \in ReconnectType /\ loose' \in Nat
      BY <2>3, <2>5, <1>t DEF StartOpenFails, ReplaceReconnectState
    <3>2. proc' \in [Proc -> ProcType]
      BY <2>5, <1>t, ProcUpdates DEF StartOpenFails, Finish, At
    <3> QED BY <2>5, <3>1, <3>2, <1>t, <1>u DEF StartOpenFails
  <2> QED BY <1>2, <2>1, <2>2, <2>4, <2>5 DEF Start
<1>3. ASSUME NEW p \in Proc, Initialize(p) PROVE TypeOK'
  <2>1. CASE InitBegin(p)
    <3>1. writes' \in Seq(WriteType)
      BY <2>1, <1>t, <1>h, <1>s DEF InitBegin
    <3>2. proc' \in [Proc -> ProcType]
      BY <2>1, <1>t, ProcUpdates DEF InitBegin, Goto, At
    <3>3. phase' \in [Engine -> Phase] /\ st' \in [Engine -> EngineStatus]
      BY <2>1, <1>t DEF InitBegin, Phase, EngineStatus
    <3> QED BY <2>1, <3>1, <3>2, <3>3, <1>t, <1>u DEF InitBegin
  <2>2. CASE InitDone(p)
    <3>1. proc' \in [Proc -> ProcType]
      BY <2>2, <1>t, ProcUpdates DEF InitDone, Finish, At
    <3> QED BY <2>2, <3>1, <1>t, <1>u DEF InitDone
  <2>3. CASE InitUndo(p)
    <3>1. proc' \in [Proc -> ProcType]
      BY <2>3, <1>t, ProcUpdates DEF InitUndo, At
    <3> QED BY <2>3, <3>1, <1>t, <1>u DEF InitUndo
  <2>4. CASE InitFails(p)
    <3>1. PICK w \in Seq(WriteType) :
            \/ writes' = w /\ UNCHANGED <<rec, loose>> /\ initializing' = FALSE
            \/ ScheduleReconnect(rec, loose, w) /\ UNCHANGED initializing
      BY <2>4, <1>t, <1>h, <1>s DEF InitFails
    <3>2. rec' \in ReconnectType /\ loose' \in Nat /\ writes' \in Seq(WriteType)
      BY <3>1, <1>t, ScheduleType
    <3>3. initializing' \in BOOLEAN
      BY <3>1, <1>t
    <3>4. proc' \in [Proc -> ProcType]
      BY <2>4, <1>t, ProcUpdates DEF InitFails, Finish, At
    <3>5. phase' \in [Engine -> Phase] /\ st' \in [Engine -> EngineStatus]
      BY <2>4, <1>t DEF InitFails, Phase, EngineStatus
    <3> QED BY <2>4, <3>2, <3>3, <3>4, <3>5, <1>t, <1>u DEF InitFails
  <2>5. CASE Undo(p)
    <3>1. writes' \in Seq(WriteType)
      <4>1. CASE writes' = writes
        BY <4>1, <1>t
      <4>2. CASE writes' = TeardownWrites(proc[p].engine)
        BY <4>2, <1>t, <1>h, <1>s DEF TeardownWrites
      <4> QED BY <2>5, <4>1, <4>2 DEF Undo, TeardownOutcomes
    <3>2. proc' \in [Proc -> ProcType]
      BY <2>5, <1>t, ProcUpdates DEF Undo, Finish, At
    <3>3. phase' \in [Engine -> Phase] /\ st' \in [Engine -> EngineStatus]
      BY <2>5, TornDownType DEF Undo
    <3> QED BY <2>5, <3>1, <3>2, <3>3, <1>t, <1>u DEF Undo
  <2> QED BY <1>3, <2>1, <2>2, <2>3, <2>4, <2>5 DEF Initialize
<1>a. ASSUME NEW p \in Proc, NEW w \in Seq(WriteType), AfterTeardown(p, w)
      PROVE  writes' \in Seq(WriteType) /\ proc' \in [Proc -> ProcType]
  <2>0. {"hook", "closing"} \subseteq At
    BY DEF At
  <2>1. proc' \in [Proc -> ProcType]
    <3>1. CASE proc' = [proc EXCEPT ![p].at = "hook", ![p].engine = NoEngine]
      BY <2>0, <3>1, ProcUpdates
    <3>2. CASE proc' = [proc EXCEPT ![p].at = "closing", ![p].engine = NoEngine]
      BY <2>0, <3>2, ProcUpdates
    <3> QED BY <1>a, <3>1, <3>2 DEF AfterTeardown
  <2>2. writes' \in Seq(WriteType)
    BY <1>a, <1>h, <1>s DEF AfterTeardown
  <2> QED BY <2>1, <2>2
<1>4. ASSUME NEW p \in Proc, Stop(p) PROVE TypeOK'
  <2>1. CASE StopMark(p)
    <3>1. NoReconnect \in ReconnectType
      BY DEF NoReconnect, ReconnectType
    <3>2. writes' \in Seq(WriteType) /\ proc' \in [Proc -> ProcType]
      <4>1. CASE map = NoEngine
        BY <2>1, <4>1, <1>a, <1>t DEF StopMark
      <4>2. CASE map # NoEngine
        <5>1. proc' = [proc EXCEPT ![p].at = "teardown", ![p].engine = map]
          BY <2>1, <4>2 DEF StopMark
        <5>2. "teardown" \in At
          BY DEF At
        <5> QED BY <2>1, <4>2, <5>1, <5>2, <1>t, ProcUpdates DEF StopMark
      <4> QED BY <4>1, <4>2
    <3> QED BY <2>1, <3>1, <3>2, <1>t, <1>u DEF StopMark
  <2>2. CASE StopTornDown(p)
    <3>1. PICK w \in TeardownOutcomes(p) : AfterTeardown(p, w)
      BY <2>2 DEF StopTornDown
    <3>2. w \in Seq(WriteType)
      BY <1>t, <1>h, <1>s DEF TeardownOutcomes, TeardownWrites
    <3>3. writes' \in Seq(WriteType) /\ proc' \in [Proc -> ProcType]
      BY <3>1, <3>2, <1>a
    <3>4. phase' \in [Engine -> Phase] /\ st' \in [Engine -> EngineStatus]
      BY <2>2, TornDownType DEF StopTornDown
    <3> QED BY <2>2, <3>3, <3>4, <1>t, <1>u DEF StopTornDown
  <2>3. CASE DeleteRemove(p)
    <3>1. writes' \in Seq(WriteType)
      BY <2>3, <1>t, <1>h DEF DeleteRemove
    <3>2. proc' \in [Proc -> ProcType]
      BY <2>3, <1>t, ProcUpdates DEF DeleteRemove, Goto, At
    <3> QED BY <2>3, <3>1, <3>2, <1>t, <1>u DEF DeleteRemove
  <2>4. CASE DeleteFails(p)
    <3>1. proc' \in [Proc -> ProcType]
      BY <2>4, <1>t, ProcUpdates DEF DeleteFails, Finish, At
    <3> QED BY <2>4, <3>1, <1>t, <1>u DEF DeleteFails
  <2> QED BY <1>4, <2>1, <2>2, <2>3, <2>4 DEF Stop
<1>f. ASSUME TimerFires(rec', loose')
      PROVE  rec' \in ReconnectType /\ loose' \in Nat
  <2>1. CASE rec' = [rec EXCEPT !.armed = FALSE] /\ loose' = loose
    BY <2>1, <1>t, ReconnectUpdates
  <2>2. CASE loose > 0 /\ loose' = loose - 1 /\ rec' = rec
    BY <2>2, <1>t
  <2> QED BY <1>f, <2>1, <2>2 DEF TimerFires
<1>5. ASSUME NEW p \in Proc, Timer(p) PROVE TypeOK'
  <2>1. CASE ReconnectBegin(p)
    <3>1. [op |-> "reconnect", at |-> "teardown", engine |-> map] \in ProcType
      BY <1>t DEF ProcType, Op, At
    <3>2. proc' \in [Proc -> ProcType]
      BY <2>1, <3>1, <1>t DEF ReconnectBegin
    <3>3. rec' \in ReconnectType /\ loose' \in Nat
      BY <2>1, <1>f DEF ReconnectBegin
    <3> QED BY <2>1, <3>2, <3>3, <1>t, <1>u DEF ReconnectBegin
  <2>2. CASE ReconnectOpen(p)
    <3>1. rec' \in ReconnectType /\ loose' \in Nat
      BY <2>2, <1>f DEF ReconnectOpen
    <3>2. OpenEngine(p, "reconnect", writes, NoEngine) /\ "reconnect" \in Op
      BY <2>2 DEF ReconnectOpen, Op
    <3>3. /\ map' \in Engine /\ writes' \in Seq(WriteType)
          /\ proc' \in [Proc -> ProcType] /\ phase' \in [Engine -> Phase]
          /\ st' \in [Engine -> EngineStatus]
      BY <3>2, <1>t, OpenEngineType
    <3> QED BY <2>2, <3>1, <3>3, <1>t, <1>u DEF ReconnectOpen
  <2> QED BY <1>5, <2>1, <2>2 DEF Timer
<1>6. ASSUME NEW p \in Proc, Reconnect(p) PROVE TypeOK'
  <2>0. TeardownWrites(proc[p].engine) \in Seq(WriteType)
    BY <1>t, <1>h, <1>s DEF TeardownWrites
  <2>1. CASE ReconnectReplace(p)
    <3>1. "reconnect" \in Op
      BY DEF Op
    <3>2. /\ map' \in Engine /\ writes' \in Seq(WriteType)
          /\ proc' \in [Proc -> ProcType] /\ phase' \in [Engine -> Phase]
          /\ st' \in [Engine -> EngineStatus]
      BY <2>0, <2>1, <3>1, OpenEngineType DEF ReconnectReplace
    <3> QED BY <2>1, <3>2, <1>t, <1>u DEF ReconnectReplace
  <2>2. CASE ReconnectOpenFails(p)
    <3>1. rec' \in ReconnectType /\ loose' \in Nat /\ writes' \in Seq(WriteType)
      BY <2>0, <2>2, <1>t, ScheduleType DEF ReconnectOpenFails
    <3>2. proc' \in [Proc -> ProcType]
      BY <2>2, <1>t, ProcUpdates DEF ReconnectOpenFails, Finish, At
    <3>3. phase' \in [Engine -> Phase] /\ st' \in [Engine -> EngineStatus]
      BY <2>2, TornDownType DEF ReconnectOpenFails
    <3> QED BY <2>2, <3>1, <3>2, <3>3, <1>t, <1>u DEF ReconnectOpenFails
  <2>3. CASE ReconnectTeardownFails(p)
    <3>1. rec' \in ReconnectType /\ loose' \in Nat /\ writes' \in Seq(WriteType)
      BY <2>3, <1>t, ScheduleType DEF ReconnectTeardownFails
    <3>2. proc' \in [Proc -> ProcType]
      BY <2>3, <1>t, ProcUpdates DEF ReconnectTeardownFails, Finish, At
    <3> QED BY <2>3, <3>1, <3>2, <1>t, <1>u DEF ReconnectTeardownFails
  <2> QED BY <1>6, <2>1, <2>2, <2>3 DEF Reconnect
<1>7. CASE WriteApplied
  <2>1. Head(writes) \in WriteType /\ Tail(writes) \in Seq(WriteType)
    BY <1>7, <1>t DEF WriteApplied
  <2>2. row' \in SessionStatus \cup {"absent"}
    BY <1>7, <2>1, <1>t DEF WriteApplied, WriteType
  <2>3. \A p \in Proc : [proc[p] EXCEPT !.at = "marked"] \in ProcType
    BY <1>t DEF ProcType, At
  <2>4. AtRest \in ProcType
    BY DEF AtRest, ProcType, Op, At
  <2>5. proc' \in [Proc -> ProcType]
    BY <1>7, <2>3, <2>4, <1>t DEF WriteApplied
  <2> QED BY <1>7, <2>1, <2>2, <2>5, <1>t, <1>u DEF WriteApplied
<1>13. CASE WriteRefused
  <2>1. Tail(writes) \in Seq(WriteType)
    BY <1>13, <1>t DEF WriteRefused
  <2>2. /\ proc' \in [Proc -> ProcType] /\ writes' \in Seq(WriteType)
        /\ rec' \in ReconnectType /\ loose' \in Nat
        /\ initializing' \in {FALSE, initializing}
    <3>1. CASE UNCHANGED <<initializing, rec, loose, proc>> /\ writes' = Tail(writes)
      BY <2>1, <3>1, <1>t
    <3>2. ASSUME NEW p \in Proc, Finish(p) PROVE proc' \in [Proc -> ProcType]
      BY <3>2, ProcUpdates DEF Finish, At
    <3>3. ASSUME NEW p \in Proc, MarkRefused(p, Tail(writes))
          PROVE  /\ writes' \in Seq(WriteType) /\ rec' \in ReconnectType /\ loose' \in Nat
                 /\ initializing' \in {FALSE, initializing} /\ Finish(p)
      BY <2>1, <3>3, <1>t, ScheduleType DEF MarkRefused
    <3> QED BY <1>13, <2>1, <3>1, <3>2, <3>3, <1>t DEF WriteRefused
  <2>3. UNCHANGED <<row, map, stopping, phase, st>> /\ missed' = TRUE
    BY <1>13 DEF WriteRefused
  <2> QED BY <2>2, <2>3, <1>t, <1>u
<1>8. CASE TimerIgnored
  <2>1. rec' \in ReconnectType /\ loose' \in Nat
    BY <1>8, <1>f DEF TimerIgnored
  <2> QED BY <1>8, <2>1, <1>t, <1>u DEF TimerIgnored
<1>9. CASE ReconnectOpenThrows
  <2>1. rec' \in ReconnectType /\ loose' \in Nat /\ writes' \in Seq(WriteType)
    <3>1. CASE ScheduleReconnect([rec EXCEPT !.armed = FALSE], loose, writes)
      BY <3>1, <1>t, ReconnectUpdates, ScheduleType
    <3>2. CASE loose > 0 /\ ScheduleReconnect(rec, loose - 1, writes)
      <4>1. loose - 1 \in Nat
        BY <3>2, <1>t
      <4> QED BY <3>2, <4>1, <1>t, ScheduleType
    <3> QED BY <1>9, <3>1, <3>2 DEF ReconnectOpenThrows
  <2> QED BY <1>9, <2>1, <1>t, <1>u DEF ReconnectOpenThrows
<1>10. ASSUME NEW e \in Engine, NEW s \in EngineStatus, EngineEvent(e, s) PROVE TypeOK'
  <2>1. Append(writes, Write(s, NoProc)) \in Seq(WriteType)
    BY <1>t, <1>h DEF SessionStatus
  <2>2. rec' \in ReconnectType /\ loose' \in Nat /\ writes' \in Seq(WriteType)
    <3>1. CASE UNCHANGED <<rec, loose, writes>>
      BY <3>1, <1>t
    <3>2. CASE ScheduleReconnect(rec, loose, Append(writes, Write(s, NoProc)))
      BY <3>2, <2>1, <1>t, ScheduleType
    <3>3. CASE /\ rec' = IF s = "ready" THEN [rec EXCEPT !.attempts = 0] ELSE rec
               /\ writes' = Append(writes, Write(s, NoProc))
               /\ UNCHANGED loose
      BY <3>3, <2>1, <1>t, ReconnectUpdates
    <3> QED BY <1>10, <3>1, <3>2, <3>3 DEF EngineEvent
  <2>3. st' \in [Engine -> EngineStatus]
    BY <1>10, <1>t DEF EngineEvent
  <2> QED BY <1>10, <2>2, <2>3, <1>t, <1>u DEF EngineEvent
<1>11. CASE Restart
  <2>1. row' \in SessionStatus \cup {"absent"}
    BY <1>11, <1>s, <1>t DEF Restart, StartupReset
  <2>2. rec' \in ReconnectType /\ loose' \in Nat
    BY <1>11 DEF Restart, NoReconnect, ReconnectType
  <2>3. AtRest \in ProcType
    BY DEF AtRest, ProcType, Op, At
  <2>4. proc' \in [Proc -> ProcType]
    BY <1>11, <2>3 DEF Restart
  <2>5. phase' \in [Engine -> Phase] /\ st' \in [Engine -> EngineStatus]
    BY <1>11 DEF Restart, Phase, EngineStatus
  <2>6. writes' \in Seq(WriteType)
    BY <1>11 DEF Restart
  <2> QED BY <1>11, <2>1, <2>2, <2>4, <2>5, <2>6, <1>u DEF Restart
<1>12. CASE UNCHANGED vars
  BY <1>12, <1>t, <1>u DEF vars
<1> QED
  BY <1>1, <1>2, <1>3, <1>4, <1>5, <1>6, <1>7, <1>8, <1>9, <1>10, <1>11, <1>12, <1>13
  DEF Next, WriteEnds

\* The variables keep their types: in particular no timer count goes below zero
\* and no status outside SessionStatus is ever written.
THEOREM TypeCorrect == Spec => []TypeOK
BY TypeInit, TypeStep, PTL DEF Spec

-----------------------------------------------------------------------------
(* One start at a time                                                     *)

\* What a step may do to the start in progress: nothing, ...
StartKept ==
  /\ initializing' = initializing
  /\ \A p \in Proc : Starting(p)' <=> Starting(p)

\* ... end it ...
StartEnded ==
  /\ initializing' = FALSE
  /\ \E p \in Proc :
       /\ Starting(p) /\ ~Starting(p)'
       /\ \A q \in Proc \ {p} : Starting(q)' <=> Starting(q)

\* ... or begin one when none is in progress.
StartBegun ==
  /\ ~initializing /\ initializing' = TRUE
  /\ \E p \in Proc :
       Starting(p)' /\ \A q \in Proc \ {p} : Starting(q)' <=> Starting(q)

\* Each of the three keeps the reservation exclusive.
LEMMA MutexKept ==
  StartMutex /\ (StartKept \/ StartEnded \/ StartBegun) => StartMutex'
<1>1. StartMutex /\ StartKept => StartMutex'
  BY DEF StartMutex, StartKept
<1>2. StartMutex /\ StartEnded => StartMutex'
  BY DEF StartMutex, StartEnded
<1>3. StartMutex /\ StartBegun => StartMutex'
  BY DEF StartMutex, StartBegun
<1> QED BY <1>1, <1>2, <1>3

\* Every step of Next does one of the three, or resets the process.
LEMMA MutexStep == TypeOK /\ StartMutex /\ [Next]_vars => StartMutex'
<1> SUFFICES ASSUME TypeOK, StartMutex, [Next]_vars PROVE StartMutex'
  OBVIOUS
<1> USE DEF db, service, engines
<1>t. proc \in [Proc -> ProcType]
  BY TypeOKParts
\* An entry of proc that changes, and what Starting says of the others.
<1>o. ASSUME NEW p \in Proc, \A q \in Proc \ {p} : proc'[q] = proc[q]
      PROVE  \A q \in Proc \ {p} : Starting(q)' <=> Starting(q)
  BY <1>o DEF Starting
<1>k. ASSUME NEW p \in Proc, initializing' = initializing,
             \A q \in Proc \ {p} : proc'[q] = proc[q], Starting(p)' <=> Starting(p)
      PROVE  StartMutex'
  BY <1>k, <1>o, MutexKept DEF StartKept
<1>e. ASSUME NEW p \in Proc, initializing' = FALSE,
             \A q \in Proc \ {p} : proc'[q] = proc[q], Starting(p), ~Starting(p)'
      PROVE  StartMutex'
  BY <1>e, <1>o, MutexKept DEF StartEnded
<1>n. ASSUME NEW p \in Proc, Finish(p)
      PROVE  ~Starting(p)' /\ \A q \in Proc \ {p} : proc'[q] = proc[q]
  BY <1>n, <1>t DEF Finish, Starting, AtRest
<1>op. ASSUME NEW p \in Proc, NEW o, NEW w, NEW old, OpenEngine(p, o, w, old)
      PROVE  /\ proc'[p].op = o /\ proc'[p].at = "marking"
             /\ \A q \in Proc \ {p} : proc'[q] = proc[q]
  BY <1>op, <1>t DEF OpenEngine
<1>1. ASSUME NEW p \in Proc, NEW o \in Stopper \cup {"start"}, Call(p, o)
      PROVE  StartMutex'
  <2>1. ~Starting(p) /\ ~Starting(p)'
    BY <1>1, <1>t DEF Call, Starting, AtRest
  <2> QED BY <1>1, <2>1, <1>k, <1>t DEF Call
<1>2. ASSUME NEW p \in Proc, Start(p) PROVE StartMutex'
  <2>1. CASE StartRefused(p)
    <3>1. ~Starting(p)
      BY <2>1 DEF StartRefused, Starting
    <3> QED BY <2>1, <3>1, <1>n, <1>k DEF StartRefused
  <2>2. CASE StartReserve(p)
    <3>1. ~initializing /\ initializing' = TRUE
      BY <2>2, TypeOKParts DEF StartReserve, Taken
    <3>2. /\ Starting(p)'
          /\ \A q \in Proc \ {p} : proc'[q] = proc[q]
      BY <2>2, <1>t DEF StartReserve, Goto, Starting, ProcType
    <3> QED BY <3>1, <3>2, <1>o, MutexKept DEF StartBegun
  <2>3. CASE StartOpen(p)
    <3>1. Starting(p)
      BY <2>3 DEF StartOpen, Starting
    <3>2. Starting(p)' /\ \A q \in Proc \ {p} : proc'[q] = proc[q]
      BY <2>3, <1>op DEF StartOpen, Starting
    <3> QED BY <2>3, <3>1, <3>2, <1>k DEF StartOpen
  <2>4. CASE StartOpenFails(p)
    <3>1. Starting(p)
      BY <2>4 DEF StartOpenFails, Starting
    <3> QED BY <2>4, <3>1, <1>n, <1>e DEF StartOpenFails
  <2> QED BY <1>2, <2>1, <2>2, <2>3, <2>4 DEF Start
<1>3. ASSUME NEW p \in Proc, Initialize(p) PROVE StartMutex'
  <2>1. CASE InitBegin(p)
    <3>1. (Starting(p)' <=> Starting(p)) /\ \A q \in Proc \ {p} : proc'[q] = proc[q]
      BY <2>1, <1>t DEF InitBegin, Goto, Starting, ProcType
    <3> QED BY <2>1, <3>1, <1>k DEF InitBegin
  <2>2. CASE InitUndo(p)
    <3>1. (Starting(p)' <=> Starting(p)) /\ \A q \in Proc \ {p} : proc'[q] = proc[q]
      BY <2>2, <1>t DEF InitUndo, Starting, ProcType
    <3> QED BY <2>2, <3>1, <1>k DEF InitUndo
  <2>3. CASE proc[p].op = "start"
    <3>1. CASE InitDone(p)
      <4>1. Starting(p)
        BY <2>3, <3>1 DEF InitDone, Starting
      <4> QED BY <2>3, <3>1, <4>1, <1>n, <1>e DEF InitDone
    <3>2. CASE InitFails(p)
      <4>1. Starting(p)
        BY <2>3, <3>2 DEF InitFails, Starting
      <4>2. initializing' = FALSE
        BY <2>3, <3>2 DEF InitFails
      <4> QED BY <3>2, <4>1, <4>2, <1>n, <1>e DEF InitFails
    <3>3. CASE Undo(p)
      <4>1. Starting(p)
        BY <2>3, <3>3 DEF Undo, Starting
      <4> QED BY <2>3, <3>3, <4>1, <1>n, <1>e DEF Undo
    <3> QED BY <1>3, <2>1, <2>2, <3>1, <3>2, <3>3 DEF Initialize
  <2>4. CASE proc[p].op # "start"
    <3>1. ~Starting(p)
      BY <2>4 DEF Starting
    <3>2. CASE InitDone(p)
      BY <2>4, <3>1, <3>2, <1>n, <1>k DEF InitDone
    <3>3. CASE InitFails(p)
      BY <2>4, <3>1, <3>3, <1>n, <1>k DEF InitFails
    <3>4. CASE Undo(p)
      BY <2>4, <3>1, <3>4, <1>n, <1>k DEF Undo
    <3> QED BY <1>3, <2>1, <2>2, <3>2, <3>3, <3>4 DEF Initialize
  <2> QED BY <2>3, <2>4
<1>4. ASSUME NEW p \in Proc, Stop(p) PROVE StartMutex'
  <2>1. proc[p].op \in Stopper /\ initializing' = initializing
    BY <1>4 DEF Stop, StopMark, StopTornDown, DeleteRemove, DeleteFails, Stopper
  <2>2. ~Starting(p)
    BY <2>1 DEF Starting, Stopper
  <2>3. ASSUME NEW w, AfterTeardown(p, w)
        PROVE  ~Starting(p)' /\ \A q \in Proc \ {p} : proc'[q] = proc[q]
    BY <2>1, <2>3, <1>t DEF AfterTeardown, Starting, Stopper, ProcType
  <2>4. CASE StopMark(p)
    <3>1. CASE map = NoEngine
      BY <2>1, <2>2, <2>3, <2>4, <3>1, <1>k DEF StopMark
    <3>2. CASE map # NoEngine
      <4>1. ~Starting(p)' /\ \A q \in Proc \ {p} : proc'[q] = proc[q]
        BY <2>4, <3>2, <1>t DEF StopMark, Starting, ProcType
      <4> QED BY <2>1, <2>2, <4>1, <1>k
    <3> QED BY <3>1, <3>2
  <2>5. CASE StopTornDown(p)
    BY <2>1, <2>2, <2>3, <2>5, <1>k DEF StopTornDown
  <2>6. CASE DeleteRemove(p)
    <3>1. ~Starting(p)' /\ \A q \in Proc \ {p} : proc'[q] = proc[q]
      BY <2>6, <1>t DEF DeleteRemove, Goto, Starting, ProcType
    <3> QED BY <2>1, <2>2, <3>1, <1>k
  <2>7. CASE DeleteFails(p)
    BY <2>1, <2>2, <2>7, <1>n, <1>k DEF DeleteFails
  <2> QED BY <1>4, <2>4, <2>5, <2>6, <2>7 DEF Stop
<1>5. ASSUME NEW p \in Proc, Timer(p) PROVE StartMutex'
  <2>1. ~Starting(p) /\ initializing' = initializing
    BY <1>5 DEF Timer, ReconnectBegin, ReconnectOpen, Starting, AtRest
  <2>2. ~Starting(p)' /\ \A q \in Proc \ {p} : proc'[q] = proc[q]
    <3>1. CASE ReconnectBegin(p)
      BY <3>1, <1>t DEF ReconnectBegin, Starting
    <3>2. CASE ReconnectOpen(p)
      BY <3>2, <1>op DEF ReconnectOpen, Starting
    <3> QED BY <1>5, <3>1, <3>2 DEF Timer
  <2> QED BY <2>1, <2>2, <1>k
<1>6. ASSUME NEW p \in Proc, Reconnect(p) PROVE StartMutex'
  <2>1. ~Starting(p) /\ initializing' = initializing
    BY <1>6 DEF Reconnect, ReconnectReplace, ReconnectOpenFails,
                ReconnectTeardownFails, Starting
  <2>2. ~Starting(p)' /\ \A q \in Proc \ {p} : proc'[q] = proc[q]
    <3>1. CASE ReconnectReplace(p)
      BY <3>1, <1>op DEF ReconnectReplace, Starting
    <3>2. CASE ReconnectOpenFails(p) \/ ReconnectTeardownFails(p)
      BY <3>2, <1>n DEF ReconnectOpenFails, ReconnectTeardownFails
    <3> QED BY <1>6, <3>1, <3>2 DEF Reconnect
  <2> QED BY <2>1, <2>2, <1>k
<1>7. CASE WriteApplied
  <2>1. ASSUME NEW p \in Proc PROVE Starting(p)' <=> Starting(p)
    <3>1. proc'[p] = IF p = Head(writes).by /\ proc[p].at = "marking"
                     THEN [proc[p] EXCEPT !.at = "marked"]
                     ELSE IF p = Head(writes).by /\ proc[p].at = "closing" THEN AtRest
                     ELSE proc[p]
      BY <1>7 DEF WriteApplied
    <3>2. proc[p] \in ProcType
      BY <1>t
    <3> QED BY <3>1, <3>2 DEF Starting, ProcType, AtRest
  <2> QED BY <1>7, <2>1, MutexKept DEF WriteApplied, StartKept
<1>11. CASE WriteRefused
  <2>1. CASE UNCHANGED <<initializing, proc>>
    BY <2>1, MutexKept DEF StartKept, Starting
  <2>2. ASSUME NEW p \in Proc, MarkRefused(p, Tail(writes)) PROVE StartMutex'
    <3>1. CASE proc[p].op = "start" /\ initializing' = FALSE
      <4>1. Starting(p)
        BY <2>2, <3>1 DEF MarkRefused, Starting
      <4> QED BY <2>2, <3>1, <4>1, <1>n, <1>e DEF MarkRefused
    <3>2. CASE proc[p].op = "reconnect" /\ UNCHANGED initializing
      <4>1. ~Starting(p)
        BY <3>2 DEF Starting
      <4> QED BY <2>2, <3>2, <4>1, <1>n, <1>k DEF MarkRefused
    <3> QED BY <2>2, <3>1, <3>2 DEF MarkRefused
  <2>3. ASSUME NEW p \in Proc, proc[p].at = "closing", Finish(p), UNCHANGED initializing
        PROVE  StartMutex'
    <3>1. ~Starting(p)
      BY <2>3 DEF Starting
    <3> QED BY <2>3, <3>1, <1>n, <1>k
  <2> QED BY <1>11, <2>1, <2>2, <2>3 DEF WriteRefused
<1>8. CASE UNCHANGED <<initializing, proc>>
  BY <1>8, MutexKept DEF StartKept, Starting
<1>9. CASE Restart
  <2>1. \A p \in Proc : ~Starting(p)'
    BY <1>9 DEF Restart, Starting, AtRest
  <2> QED BY <1>9, <2>1 DEF Restart, StartMutex
<1>10. (TimerIgnored \/ ReconnectOpenThrows \/ UNCHANGED vars
          \/ \E e \in Engine : \E s \in EngineStatus : EngineEvent(e, s))
         => UNCHANGED <<initializing, proc>>
  BY DEF TimerIgnored, ReconnectOpenThrows, EngineEvent, vars
<1> QED BY <1>1, <1>2, <1>3, <1>4, <1>5, <1>6, <1>7, <1>8, <1>9, <1>10, <1>11 DEF Next, WriteEnds

\* At most one start() is between its reservation and its release, whatever
\* stops, deletes and reconnects run beside it, and initializingSessions holds
\* the session exactly then.
THEOREM StartExclusive == Spec => []StartMutex
<1>1. Init => StartMutex
  BY DEF Init, StartMutex, Starting, AtRest
<1> QED BY <1>1, TypeInit, TypeStep, MutexStep, PTL DEF Spec

-----------------------------------------------------------------------------
(* The status column follows the registered engine                         *)

\* The status the column will show when the writes on their way are in; nothing
\* is said of it ("absent") while the last of them was rejected.
LastOf(w) == IF Len(w) # 0 THEN w[Len(w)].to ELSE IF missed THEN "absent" ELSE row

\* RowTracksEngine looks at a settled column only; what every step preserves
\* is the same of the newest write.
RowInv == map # NoEngine => LastOf(writes) \in {"failed", "absent", Reported(map)}

LEMMA LastOfAppend ==
  ASSUME NEW w \in Seq(WriteType), NEW s \in SessionStatus \cup {"absent"},
         NEW b \in Proc \cup {NoProc}
  PROVE  LET x == Append(w, Write(s, b)) IN Len(x) # 0 /\ x[Len(x)].to = s
<1>1. Write(s, b) \in WriteType
  BY DEF Write, WriteType
<1> QED BY <1>1 DEF Write

\* The database applies the oldest write: the newest stays the newest.
LEMMA LastOfTail ==
  ASSUME NEW w \in Seq(WriteType), w # <<>>
  PROVE  \/ Len(Tail(w)) = 0 /\ Head(w) = w[Len(w)]
         \/ Len(Tail(w)) # 0 /\ Tail(w)[Len(Tail(w))] = w[Len(w)]
<1>1. Len(w) \in Nat /\ Len(w) >= 1 /\ Len(Tail(w)) = Len(w) - 1
  OBVIOUS
<1>2. CASE Len(w) = 1
  BY <1>1, <1>2
<1>3. CASE Len(w) > 1
  <2>2. Tail(w)[Len(w) - 1] = w[Len(w)]
    BY <1>1, <1>3
  <2> QED BY <1>1, <1>3, <2>2
<1> QED BY <1>1, <1>2, <1>3

\* Whether the database applies it or rejects it, the newest status stays, or
\* nothing is left to say of the column.
LEMMA LastOfSettled ==
  ASSUME writes \in Seq(WriteType), writes # <<>>, writes' = Tail(writes),
         \/ missed' = FALSE /\ row' \in {"absent", Head(writes).to}
         \/ missed' = TRUE
  PROVE  LastOf(writes)' \in {"absent", LastOf(writes)}
<1>1. Len(writes) # 0
  OBVIOUS
<1>2. LastOf(writes) = writes[Len(writes)].to
  BY <1>1 DEF LastOf
<1>3. CASE Len(Tail(writes)) = 0
  BY <1>2, <1>3, LastOfTail DEF LastOf
<1>4. CASE Len(Tail(writes)) # 0
  <2>1. Tail(writes)[Len(Tail(writes))] = writes[Len(writes)]
    BY <1>4, LastOfTail
  <2> QED BY <1>2, <1>4, <2>1 DEF LastOf
<1> QED BY <1>3, <1>4

\* A step that appends a status the invariant allows keeps it.
LEMMA RowAppended ==
  ASSUME TypeOK, NEW s \in SessionStatus \cup {"absent"}, NEW b \in Proc \cup {NoProc},
         NEW w \in Seq(WriteType), writes' = Append(w, Write(s, b)),
         s \in {"failed", "absent", Reported(map)'}
  PROVE  RowInv'
BY LastOfAppend DEF RowInv, LastOf

\* So does one that leaves the writes and what the engine reports alone.
LEMMA RowUnchanged ==
  ASSUME RowInv, UNCHANGED <<db, map>>,
         map # NoEngine => Reported(map)' = Reported(map)
  PROVE  RowInv'
BY DEF RowInv, LastOf, db

\* And scheduleReconnect(), which may append FAILED.
LEMMA RowScheduled ==
  ASSUME TypeOK, NEW r, NEW l, NEW w \in Seq(WriteType), ScheduleReconnect(r, l, w),
         row' = row, missed' \in {missed, TRUE},
         map' # NoEngine => LastOf(w) \in {"failed", "absent", Reported(map)'}
  PROVE  RowInv'
<1>1. CASE writes' = Append(w, Write("failed", NoProc))
  BY <1>1, RowAppended DEF SessionStatus, EngineStatus
<1>2. CASE writes' = w
  <2>1. LastOf(writes)' = IF Len(w) # 0 THEN w[Len(w)].to ELSE IF missed' THEN "absent" ELSE row
    BY <1>2 DEF LastOf
  <2>2. CASE missed'
    <3>1. LastOf(writes)' \in {"absent", LastOf(w)}
      BY <2>1, <2>2 DEF LastOf
    <3> QED BY <3>1 DEF RowInv
  <2>3. CASE ~missed'
    <3>1. missed' = missed
      BY <2>3
    <3>2. LastOf(writes)' = LastOf(w)
      BY <2>1, <3>1 DEF LastOf
    <3> QED BY <3>2 DEF RowInv
  <2> QED BY <2>2, <2>3
<1> QED BY <1>1, <1>2 DEF ScheduleReconnect

LEMMA RowStep == TypeOK /\ RowInv /\ [Next]_vars => RowInv'
<1> SUFFICES ASSUME TypeOK, RowInv, [Next]_vars PROVE RowInv'
  OBVIOUS
<1> USE DEF db, service, engines
<1>t. writes \in Seq(WriteType)
  BY TypeOKParts
<1>s. {"disconnected", "initializing", "failed", "linking", "ready"} \subseteq SessionStatus
  BY DEF SessionStatus, EngineStatus
<1>k. ASSUME UNCHANGED <<db, map, phase, st>> PROVE RowInv'
  BY <1>k, RowUnchanged DEF Reported
<1>n. ASSUME map' = NoEngine PROVE RowInv'
  BY <1>n DEF RowInv
\* A new engine is registered with its write of INITIALIZING.
<1>op. ASSUME NEW p \in Proc, NEW o, NEW w \in Seq(WriteType), NEW old,
              OpenEngine(p, o, w, old), row' = row
       PROVE  RowInv'
  <2>1. PICK e \in Engine :
          /\ map' = e /\ phase'[e] = "new"
          /\ writes' = Append(w, Write("initializing", p))
    BY <1>op DEF OpenEngine, Spare
  <2>2. Reported(map)' = "initializing"
    BY <2>1 DEF Reported
  <2> QED BY <1>op, <1>s, <2>1, <2>2, RowAppended
<1>1. ASSUME NEW p \in Proc, NEW o \in Stopper \cup {"start"}, Call(p, o) PROVE RowInv'
  BY <1>1, <1>k DEF Call
<1>2. ASSUME NEW p \in Proc, Start(p) PROVE RowInv'
  <2>1. CASE StartOpen(p)
    BY <2>1, <1>t, <1>op DEF StartOpen
  <2>2. CASE StartRefused(p) \/ StartReserve(p) \/ StartOpenFails(p)
    BY <2>2, <1>k DEF StartRefused, StartReserve, StartOpenFails
  <2> QED BY <1>2, <2>1, <2>2 DEF Start
<1>3. ASSUME NEW p \in Proc, Initialize(p) PROVE RowInv'
  <2>1. CASE InitBegin(p)
    <3>1. CASE proc[p].engine = map
      <4>1. CASE map = NoEngine
        BY <2>1, <4>1, <1>n DEF InitBegin
      <4>2. CASE map # NoEngine
        <5>1. Reported(map)' = "initializing"
          BY <2>1, <3>1, <4>2 DEF InitBegin, Reported, TypeOK
        <5>2. writes' = Append(writes, Write("initializing", NoProc))
          BY <2>1, <3>1 DEF InitBegin, IsLive
        <5> QED BY <2>1, <5>1, <5>2, <1>t, <1>s, RowAppended DEF InitBegin
      <4> QED BY <4>1, <4>2
    <3>2. CASE proc[p].engine # map
      <4>1. map # NoEngine => Reported(map)' = Reported(map)
        BY <2>1, <3>2 DEF InitBegin, Reported, TypeOK
      <4> QED BY <2>1, <3>2, <4>1, RowUnchanged DEF InitBegin, IsLive
    <3> QED BY <3>1, <3>2
  <2>2. CASE InitDone(p) \/ InitUndo(p)
    BY <2>2, <1>k DEF InitDone, InitUndo
  <2>3. CASE InitFails(p)
    <3> DEFINE w == IF IsLive(proc[p].engine)
                    THEN Append(writes, Write("failed", NoProc)) ELSE writes
    <3>1. w \in Seq(WriteType)
      BY <1>t, <1>s, WritesType
    <3>2. map # NoEngine => LastOf(w) \in {"failed", "absent", Reported(map)'}
      <4>1. CASE proc[p].engine = map
        BY <4>1, <1>t, <1>s, LastOfAppend DEF LastOf, IsLive
      <4>2. CASE proc[p].engine # map
        <5>1. map # NoEngine => Reported(map)' = Reported(map)
          BY <2>3, <4>2 DEF InitFails, Reported, TypeOK
        <5> QED BY <4>2, <5>1 DEF RowInv, IsLive
      <4> QED BY <4>1, <4>2
    <3>3. map' = map /\ row' = row /\ missed' = missed
      BY <2>3 DEF InitFails
    <3>4. CASE writes' = w
      BY <3>2, <3>3, <3>4 DEF RowInv, LastOf
    <3>5. CASE ScheduleReconnect(rec, loose, w)
      BY <3>1, <3>2, <3>3, <3>5, RowScheduled
    <3> QED BY <2>3, <3>4, <3>5 DEF InitFails
  <2>4. CASE Undo(p)
    BY <2>4, <1>n DEF Undo
  <2> QED BY <1>3, <2>1, <2>2, <2>3, <2>4 DEF Initialize
<1>4. ASSUME NEW p \in Proc, Stop(p) PROVE RowInv'
  <2>1. CASE StopMark(p)
    <3>1. CASE map = NoEngine
      BY <2>1, <3>1, <1>n DEF StopMark
    <3>2. CASE map # NoEngine
      BY <2>1, <3>2, <1>k DEF StopMark
    <3> QED BY <3>1, <3>2
  <2>2. CASE StopTornDown(p)
    BY <2>2, <1>n DEF StopTornDown
  <2>3. CASE DeleteRemove(p)
    BY <2>3, <1>t, RowAppended DEF DeleteRemove
  <2>4. CASE DeleteFails(p)
    BY <2>4, <1>k DEF DeleteFails
  <2> QED BY <1>4, <2>1, <2>2, <2>3, <2>4 DEF Stop
<1>5. ASSUME NEW p \in Proc, Timer(p) PROVE RowInv'
  <2>1. CASE ReconnectBegin(p)
    BY <2>1, <1>k DEF ReconnectBegin
  <2>2. CASE ReconnectOpen(p)
    BY <2>2, <1>t, <1>op DEF ReconnectOpen
  <2> QED BY <1>5, <2>1, <2>2 DEF Timer
<1>6. ASSUME NEW p \in Proc, Reconnect(p) PROVE RowInv'
  <2>1. CASE ReconnectReplace(p)
    <3>1. TeardownWrites(proc[p].engine) \in Seq(WriteType)
      BY <1>t, <1>s, WritesType DEF TeardownWrites
    <3> QED BY <2>1, <3>1, <1>op DEF ReconnectReplace
  <2>2. CASE ReconnectOpenFails(p)
    BY <2>2, <1>n DEF ReconnectOpenFails
  <2>3. CASE ReconnectTeardownFails(p)
    <3>1. Reported(map)' = Reported(map) /\ map' = map /\ row' = row /\ missed' = missed
      BY <2>3 DEF ReconnectTeardownFails, Reported
    <3> QED BY <2>3, <3>1, <1>t, RowScheduled DEF ReconnectTeardownFails, RowInv
  <2> QED BY <1>6, <2>1, <2>2, <2>3 DEF Reconnect
<1>7. CASE WriteApplied
  <2>1. Reported(map)' = Reported(map) /\ map' = map
    BY <1>7 DEF WriteApplied, Reported
  <2>2. /\ writes # <<>> /\ writes' = Tail(writes) /\ missed' = FALSE
        /\ row' \in {"absent", Head(writes).to}
    BY <1>7 DEF WriteApplied
  <2>3. LastOf(writes)' \in {"absent", LastOf(writes)}
    BY <2>2, <1>t, LastOfSettled
  <2> QED BY <2>1, <2>3 DEF RowInv
<1>13. CASE WriteRefused
  <2>1. /\ map' = map /\ Reported(map)' = Reported(map) /\ row' = row
        /\ missed' = TRUE /\ writes # <<>>
    BY <1>13 DEF WriteRefused, Reported
  <2>2. CASE writes' = Tail(writes)
    <3>1. LastOf(writes)' \in {"absent", LastOf(writes)}
      BY <2>1, <2>2, <1>t, LastOfSettled
    <3> QED BY <2>1, <3>1 DEF RowInv
  <2>3. CASE ScheduleReconnect(rec, loose, Tail(writes))
    <3> DEFINE t == Tail(writes)
    <3>1. t \in Seq(WriteType)
      BY <2>1, <1>t
    <3>2. CASE writes' = t
      BY <2>2, <3>2
    <3>3. CASE writes' = Append(t, Write("failed", NoProc))
      <4> HIDE DEF t
      <4> QED BY <3>1, <3>3, <1>s, RowAppended
    <3> QED BY <2>3, <3>2, <3>3 DEF ScheduleReconnect
  <2> QED BY <1>13, <2>2, <2>3 DEF WriteRefused, MarkRefused
<1>8. CASE TimerIgnored
  BY <1>8, <1>k DEF TimerIgnored
<1>9. CASE ReconnectOpenThrows
  BY <1>9, <1>n DEF ReconnectOpenThrows
<1>10. ASSUME NEW e \in Engine, NEW s \in EngineStatus, EngineEvent(e, s) PROVE RowInv'
  <2> DEFINE w == Append(writes, Write(s, NoProc))
  <2>0. s \in SessionStatus
    BY DEF SessionStatus
  <2>1. CASE map = e
    <3>1. Reported(map)' = s /\ map' = map /\ row' = row /\ missed' = missed
      BY <1>10, <2>1 DEF EngineEvent, Reported, Up, TypeOK
    <3>2. LastOf(w) = s /\ w \in Seq(WriteType)
      BY <2>0, <1>t, LastOfAppend, WritesType DEF LastOf
    <3>3. CASE writes' = w
      BY <2>0, <3>1, <3>3, <1>t, RowAppended
    <3>4. CASE ScheduleReconnect(rec, loose, w)
      BY <3>1, <3>2, <3>4, RowScheduled
    <3> QED BY <1>10, <2>1, <3>3, <3>4 DEF EngineEvent, IsLive
  <2>2. CASE map # e
    <3>1. map # NoEngine => Reported(map)' = Reported(map)
      BY <1>10, <2>2 DEF EngineEvent, Reported, TypeOK
    <3> QED BY <1>10, <2>2, <3>1, RowUnchanged DEF EngineEvent, IsLive
  <2> QED BY <2>1, <2>2
<1>11. CASE Restart
  BY <1>11, <1>n DEF Restart
<1>12. CASE UNCHANGED vars
  BY <1>12, <1>k DEF vars
<1> QED
  BY <1>1, <1>2, <1>3, <1>4, <1>5, <1>6, <1>7, <1>8, <1>9, <1>10, <1>11, <1>12, <1>13
  DEF Next, WriteEnds

\* However starts, stops, reconnects and the events of old and new engines are
\* interleaved, a settled status column shows what the registered engine
\* reports, or FAILED.
THEOREM RowFollowsEngine == Spec => []RowTracksEngine
<1>1. Init => RowInv
  BY DEF Init, RowInv
<1>2. RowInv => RowTracksEngine
  BY DEF RowInv, RowTracksEngine, Settled, LastOf
<1> QED BY <1>1, <1>2, TypeInit, TypeStep, RowStep, PTL DEF Spec

-----------------------------------------------------------------------------
(* The stop mark wins                                                      *)

\* p initializes the registered engine and has yet to look at the stop mark.
Answers(p) == proc[p].at = "initializing" /\ proc[p].engine = map

\* p is about to empty the map, or to register an engine that does not run yet.
Empties(p) == proc[p].at \in {"teardown", "undo"}

\* StopHolds speaks of rest only; what every step preserves is that somebody
\* still has to deal with the running engine a stop mark is set against.
StopInv ==
  stopping /\ map # NoEngine /\ phase[map] = "live" =>
    \E p \in Proc : Answers(p) \/ Empties(p)

LEMMA StopStep ==
  ASSUME "reconnect" \notin TeardownFails
  PROVE  TypeOK /\ StopInv /\ [Next]_vars => StopInv'
<1> SUFFICES ASSUME TypeOK, StopInv, [Next]_vars PROVE StopInv'
  OBVIOUS
<1> USE DEF db, service, engines
<1>t. proc \in [Proc -> ProcType] /\ phase \in [Engine -> Phase]
  BY TypeOKParts
\* Two of the ways a step cannot break it, and the ways to keep a witness.
<1>d. ASSUME ~stopping' \/ map' = NoEngine PROVE StopInv'
  BY <1>d DEF StopInv
<1>w. ASSUME NEW p \in Proc, Answers(p)' \/ Empties(p)' PROVE StopInv'
  BY <1>w DEF StopInv
<1>k. ASSUME UNCHANGED <<map, stopping>>,
             map # NoEngine /\ phase[map] # "live" => phase'[map] # "live",
             \A p \in Proc : Answers(p) \/ Empties(p) =>
               (Answers(p)' \/ Empties(p)') \/ (stopping /\ map # NoEngine => phase'[map] # "live")
      PROVE  StopInv'
  BY <1>k DEF StopInv
\* Of a step that moves only p, and leaves the map and the engines alone.
<1>m. ASSUME NEW p \in Proc, \A q \in Proc \ {p} : proc'[q] = proc[q],
             UNCHANGED <<map, stopping, phase>>,
             Answers(p) \/ Empties(p) => Answers(p)' \/ Empties(p)'
      PROVE  StopInv'
  <2>1. \A q \in Proc : Answers(q) \/ Empties(q) => Answers(q)' \/ Empties(q)'
    BY <1>m DEF Answers, Empties
  <2> QED BY <1>m, <2>1, <1>k
<1>op. ASSUME NEW p \in Proc, NEW o, NEW w, NEW old, OpenEngine(p, o, w, old)
       PROVE  StopInv'
  <2>1. map' # NoEngine => phase'[map'] = "new"
    BY <1>op DEF OpenEngine, Spare
  <2> QED BY <2>1 DEF StopInv
<1>n. ASSUME NEW p \in Proc, Finish(p) PROVE \A q \in Proc \ {p} : proc'[q] = proc[q]
  BY <1>n, <1>t DEF Finish
<1>1. ASSUME NEW p \in Proc, NEW o \in Stopper \cup {"start"}, Call(p, o) PROVE StopInv'
  <2>1. ~Answers(p) /\ ~Empties(p)
    BY <1>1 DEF Call, Answers, Empties, AtRest
  <2> QED BY <1>1, <1>t, <2>1, <1>m DEF Call
<1>2. ASSUME NEW p \in Proc, Start(p) PROVE StopInv'
  <2>1. CASE StartOpen(p)
    BY <2>1, <1>op DEF StartOpen
  <2>2. CASE StartReserve(p)
    BY <2>2, <1>d DEF StartReserve
  <2>3. CASE StartRefused(p) \/ StartOpenFails(p)
    <3>1. ~Answers(p) /\ ~Empties(p)
      BY <2>3 DEF StartRefused, StartOpenFails, Answers, Empties
    <3> QED BY <2>3, <3>1, <1>n, <1>m DEF StartRefused, StartOpenFails
  <2> QED BY <1>2, <2>1, <2>2, <2>3 DEF Start
<1>3. ASSUME NEW p \in Proc, Initialize(p) PROVE StopInv'
  <2>1. CASE InitBegin(p)
    <3>1. CASE proc[p].engine = map
      <4>1. Answers(p)'
        BY <2>1, <3>1, <1>t DEF InitBegin, Goto, Answers, ProcType
      <4> QED BY <4>1, <1>w
    <3>2. CASE proc[p].engine # map
      <4>1. map # NoEngine => phase'[map] = phase[map]
        BY <2>1, <3>2, <1>t, TypeOKParts DEF InitBegin
      <4>2. \A q \in Proc : Answers(q) \/ Empties(q) => Answers(q)' \/ Empties(q)'
        BY <2>1, <3>2, <1>t DEF InitBegin, Goto, Answers, Empties, ProcType
      <4> QED BY <2>1, <4>1, <4>2, <1>k DEF InitBegin
    <3> QED BY <3>1, <3>2
  <2>2. CASE InitDone(p)
    BY <2>2, <1>d, TypeOKParts DEF InitDone, StopLanded
  <2>3. CASE InitUndo(p)
    <3>1. Empties(p)'
      BY <2>3, <1>t DEF InitUndo, Empties, ProcType
    <3> QED BY <3>1, <1>w
  <2>4. CASE InitFails(p)
    <3>1. map # NoEngine /\ phase[map] # "live" => phase'[map] # "live"
      BY <2>4, <1>t, TypeOKParts DEF InitFails
    <3>2. Answers(p) => (map # NoEngine => phase'[map] # "live")
      BY <2>4, <1>t, TypeOKParts DEF InitFails, Answers
    <3>3. ~Empties(p)
      BY <2>4 DEF InitFails, Empties
    <3>4. \A q \in Proc \ {p} : proc'[q] = proc[q]
      BY <2>4, <1>n DEF InitFails
    <3>5. UNCHANGED <<map, stopping>>
      BY <2>4 DEF InitFails
    <3>6. \A q \in Proc \ {p} :
            Answers(q) \/ Empties(q) => Answers(q)' \/ Empties(q)'
      BY <3>4, <3>5 DEF Answers, Empties
    <3> QED BY <3>1, <3>2, <3>3, <3>5, <3>6, <1>k
  <2>5. CASE Undo(p)
    BY <2>5, <1>d DEF Undo
  <2> QED BY <1>3, <2>1, <2>2, <2>3, <2>4, <2>5 DEF Initialize
<1>4. ASSUME NEW p \in Proc, Stop(p) PROVE StopInv'
  <2>1. CASE StopMark(p)
    <3>1. CASE map = NoEngine
      BY <2>1, <3>1, <1>d DEF StopMark
    <3>2. CASE map # NoEngine
      <4>1. Empties(p)'
        BY <2>1, <3>2, <1>t DEF StopMark, Empties, ProcType
      <4> QED BY <4>1, <1>w
    <3> QED BY <3>1, <3>2
  <2>2. CASE StopTornDown(p)
    BY <2>2, <1>d DEF StopTornDown
  <2>3. CASE DeleteRemove(p)
    <3>1. ~Answers(p) /\ ~Empties(p) /\ \A q \in Proc \ {p} : proc'[q] = proc[q]
      BY <2>3, <1>t DEF DeleteRemove, Goto, Answers, Empties
    <3> QED BY <2>3, <3>1, <1>m DEF DeleteRemove
  <2>4. CASE DeleteFails(p)
    BY <2>4, <1>d DEF DeleteFails
  <2> QED BY <1>4, <2>1, <2>2, <2>3, <2>4 DEF Stop
<1>5. ASSUME NEW p \in Proc, Timer(p) PROVE StopInv'
  BY <1>5, <1>d, <1>op DEF Timer, ReconnectBegin, ReconnectOpen
<1>6. ASSUME NEW p \in Proc, Reconnect(p) PROVE StopInv'
  <2>1. CASE ReconnectReplace(p)
    BY <2>1, <1>op DEF ReconnectReplace
  <2>2. CASE ReconnectOpenFails(p)
    BY <2>2, <1>d DEF ReconnectOpenFails
  <2>3. ~ReconnectTeardownFails(p)
    BY DEF ReconnectTeardownFails
  <2> QED BY <1>6, <2>1, <2>2, <2>3 DEF Reconnect
<1>7. CASE WriteApplied
  <2>1. CASE stopping' = stopping
    <3>1. ASSUME NEW q \in Proc PROVE Answers(q) \/ Empties(q) => Answers(q)' \/ Empties(q)'
      <4>1. proc'[q] = IF q = Head(writes).by /\ proc[q].at = "marking"
                       THEN [proc[q] EXCEPT !.at = "marked"]
                       ELSE IF q = Head(writes).by /\ proc[q].at = "closing" THEN AtRest
                       ELSE proc[q]
        BY <1>7 DEF WriteApplied
      <4>2. proc[q] \in ProcType /\ map' = map
        BY <1>7, <1>t DEF WriteApplied
      <4> QED BY <4>1, <4>2 DEF Answers, Empties, ProcType, AtRest
    <3> QED BY <1>7, <2>1, <3>1, <1>k DEF WriteApplied
  <2>2. CASE stopping' = FALSE
    BY <2>2, <1>d
  <2> QED BY <1>7, <2>1, <2>2 DEF WriteApplied
<1>8. CASE TimerIgnored
  BY <1>8, <1>k DEF TimerIgnored, Answers, Empties
<1>9. CASE ReconnectOpenThrows
  BY <1>9, <1>d DEF ReconnectOpenThrows
<1>10. ASSUME NEW e \in Engine, NEW s \in EngineStatus, EngineEvent(e, s) PROVE StopInv'
  BY <1>10, <1>k DEF EngineEvent, Answers, Empties
<1>11. CASE Restart
  BY <1>11, <1>d DEF Restart
<1>12. CASE UNCHANGED vars
  BY <1>12, <1>k DEF vars, Answers, Empties
<1>13. CASE WriteRefused
  <2>1. UNCHANGED <<map, stopping, phase>>
    BY <1>13 DEF WriteRefused
  <2>2. CASE UNCHANGED proc
    BY <2>1, <2>2, <1>k DEF Answers, Empties
  <2>3. ASSUME NEW p \in Proc, Finish(p), proc[p].at \in {"marking", "closing"} PROVE StopInv'
    <3>1. ~Answers(p) /\ ~Empties(p)
      BY <2>3 DEF Answers, Empties
    <3> QED BY <2>1, <2>3, <3>1, <1>n, <1>m
  <2> QED BY <1>13, <2>2, <2>3 DEF WriteRefused, MarkRefused
<1> QED
  BY <1>1, <1>2, <1>3, <1>4, <1>5, <1>6, <1>7, <1>8, <1>9, <1>10, <1>11, <1>12, <1>13
  DEF Next, WriteEnds

\* A stop() or delete() wins every race with a start, a reconnect or another
\* stop: once nothing is in progress, no engine that runs is registered, updates
\* that are rejected included.  It rests on the bounded teardown of
\* teardownEngineSafely(): executeReconnect() calls destroy() without it, and a
\* rejection there is excluded by the assumption.
THEOREM StopWins ==
  ASSUME "reconnect" \notin TeardownFails
  PROVE  Spec => []StopHolds
<1>1. Init => StopInv
  BY DEF Init, StopInv
<1>2. StopInv => StopHolds
  BY DEF StopInv, StopHolds, Quiet, Answers, Empties, AtRest
<1>3. TypeOK /\ StopInv /\ [Next]_vars => StopInv'
  BY StopStep
<1> QED BY <1>1, <1>2, <1>3, TypeInit, TypeStep, PTL DEF Spec

-----------------------------------------------------------------------------
(* Nothing is left over between calls that do not overlap                  *)

\* p is on its way to a connected engine.
Opens(p) ==
  \/ proc[p].at \in {"marking", "marked", "initializing"}
  \/ proc[p].op = "start" /\ proc[p].at = "hook"
  \/ proc[p].op = "reconnect" /\ proc[p].at = "teardown"

\* A call works on the registered engine, no stop was marked behind the back of
\* one that opens an engine, and nothing is registered while a hook runs: a start
\* opens its engine into an empty map, and a delete() has emptied it.
CallHolds(p) ==
  /\ proc[p].at # "undo"
  /\ proc[p].at \in {"marking", "marked", "initializing", "teardown"} =>
       proc[p].engine = map /\ map # NoEngine
  /\ Opens(p) => ~stopping
  /\ proc[p].at = "hook" => map = NoEngine

\* Only the registered engine is connected; a dead one that is still registered
\* is one whose initialize() failed.
EngineHolds ==
  /\ \A e \in Engine : Up(e) => e = map
  /\ map # NoEngine /\ phase[map] = "dead" => st[map] = "failed"

\* A call registers a new engine and has yet to initialize it.
Marks(p) == proc[p].at \in {"marking", "marked"}

\* While a call awaits its update, no engine has callbacks: the registered one is
\* not initialized, or there is none and the stop mark holds the timers.
CallWaits(p) ==
  /\ Marks(p) => phase[map] = "new"
  /\ proc[p].at = "closing" => map = NoEngine /\ proc[p].op \in Stopper
  /\ proc[p].op \in Stopper /\ proc[p].at \in {"teardown", "hook", "closing"} => stopping

\* Nobody awaits an update of w.
Unawaited(w) == \A i \in 1 .. Len(w) : w[i].by = NoProc /\ w[i].to # "absent"

\* An update that a call awaits is the newest one, the removal of the row too.
AwaitedLast ==
  \A i \in 1 .. Len(writes) :
    /\ writes[i].by # NoProc =>
         i = Len(writes) /\ proc[writes[i].by].at \in {"marking", "closing"}
    /\ writes[i].to = "absent" => writes[i].by # NoProc

\* Whatever the map loses has written its end, or never wrote a beginning.
RowReleased == map = NoEngine => LastOf(writes) \notin ActiveStatus

\* A new engine that no call is about to initialize is one whose update was
\* rejected: the column does not show it as starting.
NewUnseen ==
  map # NoEngine /\ phase[map] = "new" /\ (\A p \in Proc : ~Marks(p))
    => LastOf(writes) \notin ActiveStatus

CallsInv ==
  (\A p \in Proc : CallHolds(p) /\ CallWaits(p)) /\ EngineHolds /\ AwaitedLast

SerialInv == CallsInv /\ RowReleased /\ NewUnseen

\* What a step of p does to the entries of proc: the others cannot move, for
\* there are none.
LEMMA CallsStep ==
  ASSUME \A p, q \in Proc : p = q
  PROVE  TypeOK /\ CallsInv /\ [Next]_vars => \A p \in Proc : CallHolds(p)'
<1> SUFFICES ASSUME TypeOK, CallsInv, [Next]_vars,
                    NEW p \in Proc
             PROVE  CallHolds(p)'
  OBVIOUS
<1> USE DEF db, service, engines
<1>t. proc \in [Proc -> ProcType]
  BY TypeOKParts
<1>p. proc[p] \in ProcType /\ CallHolds(p)
  BY <1>t DEF CallsInv
<1>k. ASSUME UNCHANGED <<map, stopping, proc>> PROVE CallHolds(p)'
  BY <1>k, <1>p DEF CallHolds, Opens
<1>r. ASSUME proc'[p] = AtRest PROVE CallHolds(p)'
  BY <1>r DEF CallHolds, Opens, AtRest
<1>f. Finish(p) => proc'[p] = AtRest
  BY <1>t DEF Finish
<1>op. ASSUME NEW o, NEW w, NEW old, OpenEngine(p, o, w, old), ~stopping, stopping' = stopping
       PROVE  CallHolds(p)'
  <2>1. PICK e \in Engine :
          map' = e /\ proc'[p] = [op |-> o, at |-> "marking", engine |-> e]
    BY <1>op, <1>t DEF OpenEngine, Spare
  <2>2. map' # NoEngine
    BY <2>1, NullAssumption
  <2> QED BY <1>op, <2>1, <2>2 DEF CallHolds, Opens
<1>1. ASSUME NEW o \in Stopper \cup {"start"}, Call(p, o) PROVE CallHolds(p)'
  <2>1. proc'[p].at = "found"
    BY <1>1, <1>t DEF Call, AtRest
  <2> QED BY <2>1 DEF CallHolds, Opens
<1>2. ASSUME Start(p) PROVE CallHolds(p)'
  <2>1. CASE StartOpen(p)
    BY <2>1, <1>p, <1>op DEF StartOpen, CallHolds, Opens
  <2>2. CASE StartReserve(p)
    <3>1. proc'[p].op = "start" /\ proc'[p].at = "hook" /\ ~stopping' /\ map' = NoEngine
      BY <2>2, <1>p, <1>t DEF StartReserve, Goto, Taken, ProcType
    <3> QED BY <3>1 DEF CallHolds
  <2>3. CASE StartRefused(p) \/ StartOpenFails(p)
    BY <2>3, <1>f, <1>r DEF StartRefused, StartOpenFails
  <2> QED BY <1>2, <2>1, <2>2, <2>3 DEF Start
<1>3. ASSUME Initialize(p) PROVE CallHolds(p)'
  <2>1. CASE InitBegin(p)
    <3>1. /\ proc'[p].at = "initializing" /\ proc'[p].engine = proc[p].engine
          /\ UNCHANGED <<map, stopping>>
      BY <2>1, <1>p, <1>t DEF InitBegin, Goto, ProcType
    <3>2. proc[p].at = "marked"
      BY <2>1 DEF InitBegin
    <3> QED BY <3>1, <3>2, <1>p DEF CallHolds, Opens
  <2>2. CASE InitDone(p) \/ InitFails(p) \/ Undo(p)
    BY <2>2, <1>f, <1>r DEF InitDone, InitFails, Undo
  <2>3. ~InitUndo(p)
    BY <1>p DEF InitUndo, StopLanded, CallHolds, Opens
  <2> QED BY <1>3, <2>1, <2>2, <2>3 DEF Initialize
<1>a. ASSUME NEW w, AfterTeardown(p, w), proc[p].op \in Stopper, map' = NoEngine
      PROVE  CallHolds(p)'
  <2>1. proc'[p].op \in Stopper /\ proc'[p].at \in {"hook", "closing"}
    BY <1>a, <1>p, <1>t DEF AfterTeardown, ProcType
  <2> QED BY <1>a, <2>1 DEF CallHolds, Opens, Stopper
<1>4. ASSUME Stop(p) PROVE CallHolds(p)'
  <2>1. CASE StopMark(p)
    <3>1. CASE map = NoEngine
      BY <2>1, <3>1, <1>a DEF StopMark
    <3>2. CASE map # NoEngine
      <4>1. /\ proc'[p].op \in Stopper /\ proc'[p].at = "teardown"
            /\ proc'[p].engine = map /\ map' = map
        BY <2>1, <3>2, <1>p, <1>t DEF StopMark, ProcType
      <4> QED BY <3>2, <4>1 DEF CallHolds, Opens, Stopper
    <3> QED BY <3>1, <3>2
  <2>2. CASE StopTornDown(p)
    BY <2>2, <1>a DEF StopTornDown
  <2>3. CASE DeleteRemove(p)
    <3>1. proc'[p].op = "delete" /\ proc'[p].at = "closing"
      BY <2>3, <1>p, <1>t DEF DeleteRemove, Goto, ProcType
    <3> QED BY <3>1 DEF CallHolds, Opens
  <2>4. CASE DeleteFails(p)
    BY <2>4, <1>f, <1>r DEF DeleteFails
  <2> QED BY <1>4, <2>1, <2>2, <2>3, <2>4 DEF Stop
<1>5. ASSUME Timer(p) PROVE CallHolds(p)'
  <2>1. CASE ReconnectBegin(p)
    <3>1. /\ proc'[p] = [op |-> "reconnect", at |-> "teardown", engine |-> map]
          /\ ~stopping /\ map # NoEngine /\ UNCHANGED <<map, stopping>>
      BY <2>1, <1>t DEF ReconnectBegin
    <3> QED BY <3>1 DEF CallHolds, Opens
  <2>2. CASE ReconnectOpen(p)
    BY <2>2, <1>op DEF ReconnectOpen
  <2> QED BY <1>5, <2>1, <2>2 DEF Timer
<1>6. ASSUME Reconnect(p) PROVE CallHolds(p)'
  <2>1. CASE ReconnectReplace(p)
    <3>1. ~stopping
      BY <2>1, <1>p DEF ReconnectReplace, CallHolds, Opens
    <3> QED BY <2>1, <3>1, <1>op DEF ReconnectReplace
  <2>2. CASE ReconnectOpenFails(p) \/ ReconnectTeardownFails(p)
    BY <2>2, <1>f, <1>r DEF ReconnectOpenFails, ReconnectTeardownFails
  <2> QED BY <1>6, <2>1, <2>2 DEF Reconnect
<1>7. CASE WriteApplied
  <2>1. proc'[p] = IF p = Head(writes).by /\ proc[p].at = "marking"
                   THEN [proc[p] EXCEPT !.at = "marked"]
                   ELSE IF p = Head(writes).by /\ proc[p].at = "closing" THEN AtRest
                   ELSE proc[p]
    BY <1>7 DEF WriteApplied
  <2>2. map' = map /\ (stopping' = FALSE \/ stopping' = stopping)
    BY <1>7 DEF WriteApplied
  <2>3. CASE proc'[p] = [proc[p] EXCEPT !.at = "marked"] /\ proc[p].at = "marking"
    BY <2>2, <2>3, <1>p DEF CallHolds, Opens, ProcType
  <2>4. CASE proc'[p] = proc[p]
    BY <2>2, <2>4, <1>p DEF CallHolds, Opens
  <2> QED BY <2>1, <2>3, <2>4, <1>r
<1>8. CASE Restart
  BY <1>8, <1>r DEF Restart
<1>9. (TimerIgnored \/ ReconnectOpenThrows \/ UNCHANGED vars
          \/ \E e \in Engine : \E s \in EngineStatus : EngineEvent(e, s))
         => UNCHANGED <<map, stopping, proc>>
  BY DEF TimerIgnored, ReconnectOpenThrows, EngineEvent, vars
<1>10. CASE WriteRefused
  <2>1. UNCHANGED <<map, stopping>>
    BY <1>10 DEF WriteRefused
  <2>2. UNCHANGED proc \/ Finish(p)
    BY <1>10 DEF WriteRefused, MarkRefused
  <2> QED BY <2>1, <2>2, <1>k, <1>f, <1>r
<1> QED BY <1>1, <1>2, <1>3, <1>4, <1>5, <1>6, <1>7, <1>8, <1>9, <1>10, <1>k DEF Next, WriteEnds

\* The engine of a teardown is the registered one.
LEMMA TearsDownTheRegistered ==
  ASSUME CallsInv, NEW p \in Proc, proc[p].at = "teardown"
  PROVE  proc[p].engine = map /\ map # NoEngine
BY DEF CallsInv, CallHolds

LEMMA EnginesStep == TypeOK /\ CallsInv /\ [Next]_vars => EngineHolds'
<1> SUFFICES ASSUME TypeOK, CallsInv, [Next]_vars PROVE EngineHolds'
  OBVIOUS
<1> USE DEF db, service, engines
<1>t. /\ proc \in [Proc -> ProcType] /\ phase \in [Engine -> Phase]
      /\ st \in [Engine -> EngineStatus] /\ map \in Engine \cup {NoEngine}
  BY TypeOKParts
<1>e. EngineHolds
  BY DEF CallsInv
<1>o. ASSUME NEW p \in Proc PROVE CallHolds(p)
  BY <1>o DEF CallsInv
\* A step that leaves the engines alone.
<1>k. ASSUME UNCHANGED <<map, phase, st>> PROVE EngineHolds'
  BY <1>k, <1>e DEF EngineHolds, Up
\* No engine is connected any more.
<1>n. ASSUME map' = NoEngine, \A e \in Engine : ~Up(e)' PROVE EngineHolds'
  BY <1>n DEF EngineHolds
<1>d. ASSUME NEW p \in Proc, proc[p].at = "teardown", TornDown(proc[p].engine),
             map' = NoEngine
      PROVE  EngineHolds'
  <2>1. proc[p].engine = map /\ map \in Engine
    BY <1>d, <1>t, TearsDownTheRegistered
  <2>2. ASSUME NEW e \in Engine, e # map PROVE ~Up(e)'
    <3>1. ~Up(e)
      BY <2>2, <1>e DEF EngineHolds
    <3>2. phase'[e] = phase[e] /\ st'[e] = st[e]
      BY <2>1, <2>2, <1>d, <1>t DEF TornDown
    <3> QED BY <3>1, <3>2 DEF Up
  <2>3. phase'[map] # "live"
    BY <2>1, <1>d, <1>t DEF TornDown
  <2> QED BY <1>d, <2>2, <2>3, <1>n DEF Up
\* Of a new engine in the place of the registered one, which is torn down.
<1>op. ASSUME NEW p \in Proc, NEW o, NEW w, OpenEngine(p, o, w, map)
       PROVE  EngineHolds'
  <2>1. PICK e \in Spare \ {map} :
          /\ map' = e
          /\ proc' = [proc EXCEPT ![p] = [op |-> o, at |-> "marking", engine |-> e]]
          /\ phase' = [d \in Engine |->
               IF d = e THEN "new"
               ELSE IF d = map /\ phase[d] = "live" THEN "dead" ELSE phase[d]]
          /\ st' = [d \in Engine |->
               IF d = e \/ (d = map /\ phase[d] = "live") THEN "disconnected" ELSE st[d]]
    BY <1>op DEF OpenEngine
  <2>2. e \in Engine /\ phase'[e] = "new"
    BY <2>1 DEF Spare
  <2>4. ASSUME NEW d \in Engine PROVE ~Up(d)'
    <3>1. CASE d = e \/ d = map
      BY <2>1, <2>2, <3>1 DEF Up
    <3>2. CASE d # e /\ d # map
      <4>1. ~Up(d)
        BY <3>2, <1>e DEF EngineHolds
      <4> QED BY <2>1, <3>2, <4>1 DEF Up
    <3> QED BY <3>1, <3>2
  <2> QED BY <2>1, <2>2, <2>4 DEF EngineHolds
<1>1. ASSUME NEW p \in Proc, NEW o \in Stopper \cup {"start"}, Call(p, o) PROVE EngineHolds'
  BY <1>1, <1>k DEF Call
<1>2. ASSUME NEW p \in Proc, Start(p) PROVE EngineHolds'
  <2>1. CASE StartOpen(p)
    <3>1. map = NoEngine
      BY <2>1, <1>o DEF StartOpen, CallHolds
    <3> QED BY <2>1, <3>1, <1>op DEF StartOpen
  <2>2. CASE StartRefused(p) \/ StartReserve(p) \/ StartOpenFails(p)
    BY <2>2, <1>k DEF StartRefused, StartReserve, StartOpenFails
  <2> QED BY <1>2, <2>1, <2>2 DEF Start
<1>3. ASSUME NEW p \in Proc, Initialize(p) PROVE EngineHolds'
  <2>1. CASE InitBegin(p)
    <3>1. proc[p].engine = map /\ map \in Engine
      BY <2>1, <1>o, <1>t DEF InitBegin, CallHolds
    <3>2. phase' = [phase EXCEPT ![map] = "live"] /\ map' = map
      BY <2>1, <3>1 DEF InitBegin
    <3>3. st' = [st EXCEPT ![map] = "initializing"]
      BY <2>1, <3>1 DEF InitBegin
    <3>4. phase'[map] = "live"
      BY <3>1, <3>2, <1>t
    <3>5. ASSUME NEW e \in Engine, Up(e)' PROVE e = map
      BY <3>2, <3>3, <3>5, <1>e, <1>t DEF EngineHolds, Up
    <3> QED BY <3>2, <3>4, <3>5 DEF EngineHolds
  <2>2. CASE InitDone(p)
    BY <2>2, <1>k DEF InitDone
  <2>3. CASE InitFails(p)
    <3>1. proc[p].engine = map /\ map \in Engine
      BY <2>3, <1>o, <1>t DEF InitFails, CallHolds
    <3>2. phase' = [phase EXCEPT ![map] = "dead"] /\ map' = map
      BY <2>3, <3>1 DEF InitFails
    <3>3. st' = [st EXCEPT ![map] = "failed"]
      BY <2>3, <3>1 DEF InitFails
    <3>4. phase'[map] = "dead" /\ st'[map] = "failed"
      BY <3>1, <3>2, <3>3, <1>t
    <3>5. ASSUME NEW e \in Engine, Up(e)' PROVE e = map
      BY <3>2, <3>3, <3>5, <1>e, <1>t DEF EngineHolds, Up
    <3> QED BY <3>2, <3>4, <3>5 DEF EngineHolds
  <2>4. ~InitUndo(p) /\ ~Undo(p)
    BY <1>o DEF InitUndo, Undo, StopLanded, CallHolds, Opens
  <2> QED BY <1>3, <2>1, <2>2, <2>3, <2>4 DEF Initialize
<1>4. ASSUME NEW p \in Proc, Stop(p) PROVE EngineHolds'
  <2>1. CASE StopTornDown(p)
    BY <2>1, <1>d DEF StopTornDown
  <2>2. CASE StopMark(p) \/ DeleteRemove(p) \/ DeleteFails(p)
    BY <2>2, <1>k DEF StopMark, DeleteRemove, DeleteFails
  <2> QED BY <1>4, <2>1, <2>2 DEF Stop
<1>5. ASSUME NEW p \in Proc, Timer(p) PROVE EngineHolds'
  <2>1. CASE ReconnectBegin(p)
    BY <2>1, <1>k DEF ReconnectBegin
  <2>2. CASE ReconnectOpen(p)
    BY <2>2, <1>op DEF ReconnectOpen
  <2> QED BY <1>5, <2>1, <2>2 DEF Timer
<1>6. ASSUME NEW p \in Proc, Reconnect(p) PROVE EngineHolds'
  <2>1. CASE ReconnectReplace(p)
    <3>1. proc[p].engine = map
      BY <2>1, TearsDownTheRegistered DEF ReconnectReplace
    <3> QED BY <2>1, <3>1, <1>op DEF ReconnectReplace
  <2>2. CASE ReconnectOpenFails(p)
    BY <2>2, <1>d DEF ReconnectOpenFails
  <2>3. CASE ReconnectTeardownFails(p)
    BY <2>3, <1>k DEF ReconnectTeardownFails
  <2> QED BY <1>6, <2>1, <2>2, <2>3 DEF Reconnect
<1>7. CASE WriteEnds
  BY <1>7, <1>k DEF WriteEnds, WriteApplied, WriteRefused
<1>8. ASSUME NEW e \in Engine, NEW s \in EngineStatus, EngineEvent(e, s) PROVE EngineHolds'
  <2>1. Up(e) /\ e = map
    BY <1>8, <1>e DEF EngineEvent, EngineHolds
  <2>2. UNCHANGED <<map, phase, proc>> /\ st' = [st EXCEPT ![map] = s]
    BY <1>8, <2>1 DEF EngineEvent
  <2>3. \A d \in Engine : d # map => st'[d] = st[d]
    BY <2>2, <1>t
  <2> QED BY <2>1, <2>2, <2>3, <1>e DEF EngineHolds, Up
<1>9. CASE Restart
  BY <1>9, <1>n DEF Restart, Up
<1>10. (TimerIgnored \/ ReconnectOpenThrows \/ UNCHANGED vars)
         => UNCHANGED <<map, phase, st, proc>>
  BY DEF TimerIgnored, ReconnectOpenThrows, vars
<1> QED BY <1>1, <1>2, <1>3, <1>4, <1>5, <1>6, <1>7, <1>8, <1>9, <1>10, <1>k DEF Next

LEMMA WaitsStep ==
  ASSUME \A p, q \in Proc : p = q
  PROVE  TypeOK /\ CallsInv /\ [Next]_vars => \A p \in Proc : CallWaits(p)'
<1> SUFFICES ASSUME TypeOK, CallsInv, [Next]_vars, NEW p \in Proc PROVE CallWaits(p)'
  OBVIOUS
<1> USE DEF db, service, engines
<1>t. /\ proc \in [Proc -> ProcType] /\ phase \in [Engine -> Phase]
      /\ map \in Engine \cup {NoEngine} /\ writes \in Seq(WriteType)
  BY TypeOKParts
<1>p. proc[p] \in ProcType /\ CallHolds(p) /\ CallWaits(p)
  BY <1>t DEF CallsInv
<1>k. ASSUME UNCHANGED <<map, phase, stopping, proc>> PROVE CallWaits(p)'
  BY <1>k, <1>p DEF CallWaits, Marks
<1>r. ASSUME proc'[p] = AtRest PROVE CallWaits(p)'
  BY <1>r DEF CallWaits, Marks, AtRest
<1>f. Finish(p) => proc'[p] = AtRest
  BY <1>t DEF Finish
<1>op. ASSUME NEW o \in {"start", "reconnect"}, NEW w, NEW old, OpenEngine(p, o, w, old)
       PROVE  CallWaits(p)'
  <2>1. proc'[p].op = o /\ proc'[p].at = "marking"
    BY <1>op, <1>t DEF OpenEngine
  <2>2. phase'[map'] = "new"
    BY <1>op DEF OpenEngine, Spare
  <2> QED BY <2>1, <2>2 DEF CallWaits, Marks, Stopper
\* A step after which p is none of those.
<1>o. ASSUME proc'[p].at \notin {"marking", "marked", "closing", "teardown", "hook"} PROVE CallWaits(p)'
  BY <1>o DEF CallWaits, Marks
<1>1. ASSUME NEW o \in Stopper \cup {"start"}, Call(p, o) PROVE CallWaits(p)'
  <2>1. proc'[p].at = "found"
    BY <1>1, <1>t DEF Call, AtRest
  <2> QED BY <2>1, <1>o
<1>2. ASSUME Start(p) PROVE CallWaits(p)'
  <2>1. CASE StartOpen(p)
    BY <2>1, <1>op DEF StartOpen
  <2>2. CASE StartReserve(p)
    <3>1. proc'[p].op = "start" /\ proc'[p].at = "hook"
      BY <2>2, <1>p, <1>t DEF StartReserve, Goto, ProcType
    <3> QED BY <3>1 DEF CallWaits, Marks, Stopper
  <2>3. CASE StartRefused(p) \/ StartOpenFails(p)
    BY <2>3, <1>f, <1>r DEF StartRefused, StartOpenFails
  <2> QED BY <1>2, <2>1, <2>2, <2>3 DEF Start
<1>3. ASSUME Initialize(p) PROVE CallWaits(p)'
  <2>1. CASE InitBegin(p) \/ InitUndo(p)
    <3>1. proc'[p].at \in {"initializing", "undo"}
      BY <2>1, <1>p, <1>t DEF InitBegin, InitUndo, Goto, ProcType
    <3> QED BY <3>1, <1>o
  <2>2. CASE InitDone(p) \/ InitFails(p) \/ Undo(p)
    BY <2>2, <1>f, <1>r DEF InitDone, InitFails, Undo
  <2> QED BY <1>3, <2>1, <2>2 DEF Initialize
<1>a. ASSUME NEW w, AfterTeardown(p, w), proc[p].op \in Stopper, map' = NoEngine, stopping'
      PROVE  CallWaits(p)'
  <2>1. proc'[p].op \in Stopper /\ proc'[p].at \in {"hook", "closing"}
    BY <1>a, <1>p, <1>t DEF AfterTeardown, ProcType
  <2> QED BY <1>a, <2>1 DEF CallWaits, Marks
<1>4. ASSUME Stop(p) PROVE CallWaits(p)'
  <2>1. CASE StopMark(p)
    <3>1. CASE map = NoEngine
      BY <2>1, <3>1, <1>a DEF StopMark
    <3>2. CASE map # NoEngine
      <4>1. proc'[p].at = "teardown" /\ stopping'
        BY <2>1, <3>2, <1>p, <1>t DEF StopMark, ProcType
      <4> QED BY <4>1 DEF CallWaits, Marks
    <3> QED BY <3>1, <3>2
  <2>2. CASE StopTornDown(p)
    <3>1. stopping /\ stopping' = stopping
      BY <2>2, <1>p DEF StopTornDown, CallWaits
    <3> QED BY <2>2, <3>1, <1>a DEF StopTornDown
  <2>3. CASE DeleteRemove(p)
    <3>1. proc'[p].op = "delete" /\ proc'[p].at = "closing"
      BY <2>3, <1>p, <1>t DEF DeleteRemove, Goto, ProcType
    <3>2. stopping /\ stopping' = stopping /\ map = NoEngine /\ map' = map
      BY <2>3, <1>p DEF DeleteRemove, CallWaits, CallHolds, Stopper
    <3> QED BY <3>1, <3>2 DEF CallWaits, Marks, Stopper
  <2>4. CASE DeleteFails(p)
    BY <2>4, <1>f, <1>r DEF DeleteFails
  <2> QED BY <1>4, <2>1, <2>2, <2>3, <2>4 DEF Stop
<1>5. ASSUME Timer(p) PROVE CallWaits(p)'
  <2>1. CASE ReconnectBegin(p)
    <3>1. proc'[p].op = "reconnect" /\ proc'[p].at = "teardown"
      BY <2>1, <1>t DEF ReconnectBegin
    <3> QED BY <3>1 DEF CallWaits, Marks, Stopper
  <2>2. CASE ReconnectOpen(p)
    BY <2>2, <1>op DEF ReconnectOpen
  <2> QED BY <1>5, <2>1, <2>2 DEF Timer
<1>6. ASSUME Reconnect(p) PROVE CallWaits(p)'
  <2>1. CASE ReconnectReplace(p)
    BY <2>1, <1>op DEF ReconnectReplace
  <2>2. CASE ReconnectOpenFails(p) \/ ReconnectTeardownFails(p)
    BY <2>2, <1>f, <1>r DEF ReconnectOpenFails, ReconnectTeardownFails
  <2> QED BY <1>6, <2>1, <2>2 DEF Reconnect
<1>7. CASE WriteApplied
  <2>1. proc'[p] = IF p = Head(writes).by /\ proc[p].at = "marking"
                   THEN [proc[p] EXCEPT !.at = "marked"]
                   ELSE IF p = Head(writes).by /\ proc[p].at = "closing" THEN AtRest
                   ELSE proc[p]
    BY <1>7 DEF WriteApplied
  <2>2. UNCHANGED <<map, phase>>
    BY <1>7 DEF WriteApplied
  <2>3. CASE proc'[p] = [proc[p] EXCEPT !.at = "marked"] /\ proc[p].at = "marking"
    BY <2>2, <2>3, <1>p DEF CallWaits, Marks, ProcType
  <2>4. CASE proc'[p] = proc[p] /\ p # Head(writes).by
    <3>1. writes # <<>> /\ Head(writes) = writes[1] /\ 1 \in 1 .. Len(writes)
      BY <1>7, <1>t DEF WriteApplied
    <3>2. Head(writes) \in WriteType
      BY <3>1, <1>t
    <3>3. Head(writes).by = NoProc
      BY <2>4, <3>2 DEF WriteType
    <3>4. stopping' = stopping
      BY <1>7, <3>1, <3>3 DEF WriteApplied, CallsInv, AwaitedLast
    <3> QED BY <2>2, <2>4, <3>4, <1>p DEF CallWaits, Marks
  <2>5. CASE proc'[p] = proc[p] /\ proc[p].at \notin {"marking", "closing"}
    <3>1. writes # <<>> /\ Head(writes) = writes[1] /\ 1 \in 1 .. Len(writes)
      BY <1>7, <1>t DEF WriteApplied
    <3>2. Head(writes) \in WriteType
      BY <3>1, <1>t
    <3>3. Head(writes).by = NoProc
      BY <2>5, <3>1, <3>2 DEF WriteType, CallsInv, AwaitedLast
    <3>4. stopping' = stopping
      BY <1>7, <3>1, <3>3 DEF WriteApplied, CallsInv, AwaitedLast
    <3> QED BY <2>2, <2>5, <3>4, <1>p DEF CallWaits, Marks
  <2> QED BY <2>1, <2>3, <2>4, <2>5, <1>r
<1>8. CASE Restart
  BY <1>8, <1>r DEF Restart
<1>9. (TimerIgnored \/ ReconnectOpenThrows \/ UNCHANGED vars
          \/ \E e \in Engine : \E s \in EngineStatus : EngineEvent(e, s))
         => UNCHANGED <<map, phase, stopping, proc>>
  BY DEF TimerIgnored, ReconnectOpenThrows, EngineEvent, vars
<1>10. CASE WriteRefused
  <2>1. UNCHANGED <<map, phase, stopping>>
    BY <1>10 DEF WriteRefused
  <2>2. UNCHANGED proc \/ Finish(p)
    BY <1>10 DEF WriteRefused, MarkRefused
  <2> QED BY <2>1, <2>2, <1>k, <1>f, <1>r
<1> QED BY <1>1, <1>2, <1>3, <1>4, <1>5, <1>6, <1>7, <1>8, <1>9, <1>10, <1>k DEF Next, WriteEnds

\* What the steps append while nobody awaits an update.
LEMMA UnawaitedAppend ==
  ASSUME NEW w \in Seq(WriteType), Unawaited(w), NEW s \in SessionStatus
  PROVE  Unawaited(Append(w, Write(s, NoProc)))
<1> DEFINE x == Append(w, Write(s, NoProc))
<1>1. Write(s, NoProc) \in WriteType
  BY DEF Write, WriteType
<1>2. Len(x) = Len(w) + 1 /\ x[Len(w) + 1] = Write(s, NoProc)
  BY <1>1
<1>3. \A i \in 1 .. Len(w) : x[i] = w[i]
  BY <1>1
<1>4. "absent" \notin SessionStatus
  BY DEF SessionStatus, EngineStatus
<1>5. Write(s, NoProc).by = NoProc /\ Write(s, NoProc).to # "absent"
  BY <1>4 DEF Write
<1>6. \A i \in 1 .. Len(w) + 1 : i \in 1 .. Len(w) \/ i = Len(w) + 1
  OBVIOUS
<1> HIDE DEF x
<1> QED BY <1>2, <1>3, <1>5, <1>6 DEF Unawaited, x

LEMMA AwaitedAppend ==
  ASSUME NEW w \in Seq(WriteType), Unawaited(w), NEW s \in SessionStatus \cup {"absent"},
         NEW p \in Proc, writes' = Append(w, Write(s, p)), proc'[p].at \in {"marking", "closing"}
  PROVE  AwaitedLast'
<1> DEFINE x == Append(w, Write(s, p))
<1>1. Write(s, p) \in WriteType
  BY DEF Write, WriteType
<1>2. Len(x) = Len(w) + 1 /\ x[Len(w) + 1] = Write(s, p)
  BY <1>1
<1>3. \A i \in 1 .. Len(w) : x[i] = w[i]
  BY <1>1
<1>4. Write(s, p).by = p /\ p # NoProc
  BY NullAssumption DEF Write
<1>5. \A i \in 1 .. Len(w) + 1 : i \in 1 .. Len(w) \/ i = Len(w) + 1
  OBVIOUS
<1> HIDE DEF x
<1> QED BY <1>2, <1>3, <1>4, <1>5 DEF Unawaited, AwaitedLast, x

LEMMA UnawaitedSchedule ==
  ASSUME NEW r, NEW l, NEW w \in Seq(WriteType), Unawaited(w), ScheduleReconnect(r, l, w)
  PROVE  Unawaited(writes')
<1>1. "failed" \in SessionStatus
  BY DEF SessionStatus, EngineStatus
<1> QED BY <1>1, UnawaitedAppend DEF ScheduleReconnect

LEMMA AwaitedStep ==
  ASSUME \A p, q \in Proc : p = q
  PROVE  TypeOK /\ CallsInv /\ [Next]_vars => AwaitedLast'
<1> SUFFICES ASSUME TypeOK, CallsInv, [Next]_vars PROVE AwaitedLast'
  OBVIOUS
<1> USE DEF db, service, engines
<1>t. /\ writes \in Seq(WriteType) /\ map \in Engine \cup {NoEngine}
      /\ phase \in [Engine -> Phase] /\ proc \in [Proc -> ProcType]
  BY TypeOKParts
<1>s. {"disconnected", "failed", "initializing"} \subseteq SessionStatus
  BY DEF SessionStatus, EngineStatus
<1>i. /\ \A p \in Proc : CallHolds(p) /\ CallWaits(p)
      /\ EngineHolds /\ AwaitedLast
  BY DEF CallsInv
<1>e. ASSUME Unawaited(writes') PROVE AwaitedLast'
  BY <1>e DEF Unawaited, AwaitedLast
\* No call awaits an update.
<1>u. ASSUME \A p \in Proc : proc[p].at \notin {"marking", "closing"} PROVE Unawaited(writes)
  <2>1. ASSUME NEW i \in 1 .. Len(writes) PROVE writes[i].by = NoProc /\ writes[i].to # "absent"
    <3>1. writes[i] \in WriteType
      BY <1>t
    <3>2. writes[i].by \in Proc \cup {NoProc}
      BY <3>1 DEF WriteType
    <3> QED BY <3>2, <1>u, <1>i DEF AwaitedLast
  <2> QED BY <2>1 DEF Unawaited
<1>p. ASSUME NEW p \in Proc, proc[p].at \notin {"marking", "closing"} PROVE Unawaited(writes)
  BY <1>p, <1>u
<1>k. ASSUME NEW p \in Proc, proc[p].at \notin {"marking", "closing"}, writes' = writes
      PROVE  AwaitedLast'
  BY <1>k, <1>p, <1>e
<1>d. ASSUME NEW p \in Proc, proc[p].at \notin {"marking", "closing"}
      PROVE  LET w == TeardownWrites(proc[p].engine) IN Unawaited(w) /\ w \in Seq(WriteType)
  BY <1>d, <1>p, <1>s, <1>t, UnawaitedAppend, WritesType DEF TeardownWrites
<1>op. ASSUME NEW p \in Proc, NEW o, NEW w \in Seq(WriteType), NEW old, Unawaited(w),
              OpenEngine(p, o, w, old)
       PROVE  AwaitedLast'
  <2>1. writes' = Append(w, Write("initializing", p)) /\ proc'[p].at = "marking"
    BY <1>op, <1>t DEF OpenEngine
  <2> QED BY <1>op, <1>s, <2>1, AwaitedAppend
<1>1. ASSUME NEW p \in Proc, NEW o \in Stopper \cup {"start"}, Call(p, o) PROVE AwaitedLast'
  BY <1>1, <1>k DEF Call, AtRest
<1>2. ASSUME NEW p \in Proc, Start(p) PROVE AwaitedLast'
  <2>1. CASE StartOpen(p)
    BY <2>1, <1>p, <1>t, <1>op DEF StartOpen
  <2>2. CASE StartRefused(p) \/ StartReserve(p) \/ StartOpenFails(p)
    BY <2>2, <1>k DEF StartRefused, StartReserve, StartOpenFails
  <2> QED BY <1>2, <2>1, <2>2 DEF Start
<1>3. ASSUME NEW p \in Proc, Initialize(p) PROVE AwaitedLast'
  <2>0. Unawaited(writes)
    BY <1>3, <1>p DEF Initialize, InitBegin, InitDone, InitUndo, InitFails, Undo
  <2>1. CASE InitBegin(p)
    <3>1. writes' = writes \/ writes' = Append(writes, Write("initializing", NoProc))
      BY <2>1 DEF InitBegin
    <3> QED BY <3>1, <2>0, <1>t, <1>s, <1>e, UnawaitedAppend
  <2>2. CASE InitDone(p) \/ InitUndo(p)
    BY <2>2, <2>0, <1>e DEF InitDone, InitUndo
  <2>3. CASE InitFails(p)
    <3> DEFINE w == IF IsLive(proc[p].engine)
                    THEN Append(writes, Write("failed", NoProc)) ELSE writes
    <3>1. w \in Seq(WriteType) /\ Unawaited(w)
      BY <2>0, <1>t, <1>s, WritesType, UnawaitedAppend
    <3>2. writes' = w \/ ScheduleReconnect(rec, loose, w)
      BY <2>3 DEF InitFails
    <3> HIDE DEF w
    <3> QED BY <3>1, <3>2, <1>e, UnawaitedSchedule
  <2>4. CASE Undo(p)
    <3>1. writes' = writes \/ writes' = TeardownWrites(proc[p].engine)
      BY <2>4 DEF Undo, TeardownOutcomes
    <3> QED BY <2>0, <2>4, <3>1, <1>d, <1>e DEF Undo
  <2> QED BY <1>3, <2>1, <2>2, <2>3, <2>4 DEF Initialize
<1>4. ASSUME NEW p \in Proc, Stop(p) PROVE AwaitedLast'
  <2>0. Unawaited(writes)
    BY <1>4, <1>p DEF Stop, StopMark, StopTornDown, DeleteRemove, DeleteFails
  <2>a. ASSUME NEW w \in Seq(WriteType), Unawaited(w), AfterTeardown(p, w) PROVE AwaitedLast'
    <3>1. CASE writes' = w
      BY <2>a, <3>1, <1>e
    <3>2. CASE writes' = Append(w, Write("disconnected", p)) /\ proc'[p].at = "closing"
      BY <2>a, <3>2, <1>s, AwaitedAppend
    <3>3. proc[p].op = "delete" => writes' = w
      BY <2>a DEF AfterTeardown
    <3>4. proc[p].op # "delete" =>
            writes' = Append(w, Write("disconnected", p)) /\ proc'[p].at = "closing"
      BY <2>a, <1>t DEF AfterTeardown, ProcType
    <3> QED BY <3>1, <3>2, <3>3, <3>4
  <2>1. CASE StopMark(p)
    BY <2>0, <2>1, <2>a, <1>t, <1>e DEF StopMark
  <2>2. CASE StopTornDown(p)
    <3>1. PICK w \in TeardownOutcomes(p) : AfterTeardown(p, w)
      BY <2>2 DEF StopTornDown
    <3>2. w = writes \/ w = TeardownWrites(proc[p].engine)
      BY DEF TeardownOutcomes
    <3>3. w \in Seq(WriteType) /\ Unawaited(w)
      BY <2>0, <2>2, <3>2, <1>t, <1>d DEF StopTornDown
    <3> QED BY <3>1, <3>3, <2>a
  <2>3. CASE DeleteRemove(p)
    <3>1. proc'[p].at = "closing" /\ writes' = Append(writes, Write("absent", p))
      BY <2>3, <1>t DEF DeleteRemove, Goto, ProcType
    <3> QED BY <2>0, <3>1, <1>t, AwaitedAppend
  <2>4. CASE DeleteFails(p)
    BY <2>0, <2>4, <1>e DEF DeleteFails
  <2> QED BY <1>4, <2>1, <2>2, <2>3, <2>4 DEF Stop
<1>5. ASSUME NEW p \in Proc, Timer(p) PROVE AwaitedLast'
  <2>0. Unawaited(writes)
    BY <1>5, <1>p DEF Timer, ReconnectBegin, ReconnectOpen, AtRest
  <2> QED BY <1>5, <2>0, <1>t, <1>e, <1>op DEF Timer, ReconnectBegin, ReconnectOpen
<1>6. ASSUME NEW p \in Proc, Reconnect(p) PROVE AwaitedLast'
  <2>0. Unawaited(writes)
    BY <1>6, <1>p DEF Reconnect, ReconnectReplace, ReconnectOpenFails, ReconnectTeardownFails
  <2>1. CASE ReconnectReplace(p)
    BY <2>1, <1>d, <1>op DEF ReconnectReplace
  <2>2. CASE ReconnectOpenFails(p)
    BY <2>2, <1>d, <1>e, UnawaitedSchedule DEF ReconnectOpenFails
  <2>3. CASE ReconnectTeardownFails(p)
    BY <2>0, <2>3, <1>t, <1>e, UnawaitedSchedule DEF ReconnectTeardownFails
  <2> QED BY <1>6, <2>1, <2>2, <2>3 DEF Reconnect
\* The oldest update is awaited by nobody, or it is the only one.
<1>7. CASE WriteEnds
  <2>0. writes # <<>>
    BY <1>7 DEF WriteEnds, WriteApplied, WriteRefused
  <2>1. Head(writes) = writes[1] /\ 1 \in 1 .. Len(writes) /\ Tail(writes) \in Seq(WriteType)
    BY <2>0, <1>t
  <2>2. CASE Head(writes).by # NoProc
    <3>1. Len(writes) = 1
      BY <2>1, <2>2, <1>i DEF AwaitedLast
    <3>2. Len(Tail(writes)) = 0
      BY <2>0, <3>1, <1>t
    <3>3. Unawaited(Tail(writes))
      BY <3>2 DEF Unawaited
    <3>4. writes' = Tail(writes) \/ ScheduleReconnect(rec, loose, Tail(writes))
      BY <1>7 DEF WriteEnds, WriteApplied, WriteRefused, MarkRefused
    <3> QED BY <2>1, <3>3, <3>4, <1>e, UnawaitedSchedule
  <2>3. CASE Head(writes).by = NoProc
    <3>1. writes' = Tail(writes) /\ proc' = proc
      <4>1. CASE WriteApplied
        <5>1. \A p \in Proc : p # NoProc
          BY NullAssumption
        <5>2. proc' = [p \in Proc |-> proc[p]]
          BY <2>3, <4>1, <5>1 DEF WriteApplied
        <5> QED BY <4>1, <5>2, <1>t DEF WriteApplied
      <4>2. CASE WriteRefused
        BY <2>3, <4>2, NullAssumption DEF WriteRefused
      <4> QED BY <1>7, <4>1, <4>2 DEF WriteEnds
    <3>2. Len(Tail(writes)) = Len(writes) - 1 /\ Len(writes) \in Nat
      BY <2>0, <1>t
    <3>3. \A i \in 1 .. Len(Tail(writes)) : i + 1 \in 1 .. Len(writes) /\ Tail(writes)[i] = writes[i + 1]
      BY <2>0, <3>2, <1>t
    <3>4. ASSUME NEW i \in 1 .. Len(Tail(writes)), Tail(writes)[i].by # NoProc
          PROVE  i = Len(Tail(writes)) /\ proc[Tail(writes)[i].by].at \in {"marking", "closing"}
      <4>1. i + 1 = Len(writes) /\ proc[writes[i + 1].by].at \in {"marking", "closing"}
        BY <3>3, <3>4, <1>i DEF AwaitedLast
      <4> QED BY <3>2, <3>3, <4>1
    <3>5. ASSUME NEW i \in 1 .. Len(Tail(writes)), Tail(writes)[i].to = "absent"
          PROVE  Tail(writes)[i].by # NoProc
      BY <3>3, <3>5, <1>i DEF AwaitedLast
    <3> QED BY <3>1, <3>4, <3>5 DEF AwaitedLast
  <2> QED BY <2>2, <2>3
<1>8. CASE Restart
  <2>1. Unawaited(writes')
    BY <1>8 DEF Restart, Unawaited
  <2> QED BY <2>1, <1>e
<1>9. CASE ReconnectOpenThrows
  <2>1. \A p \in Proc : proc[p].at \notin {"marking", "closing"}
    BY <1>9, <1>i DEF ReconnectOpenThrows, CallHolds, CallWaits
  <2> QED BY <1>9, <2>1, <1>u, <1>t, <1>e, UnawaitedSchedule DEF ReconnectOpenThrows
<1>10. ASSUME NEW e \in Engine, NEW s \in EngineStatus, EngineEvent(e, s) PROVE AwaitedLast'
  <2>1. e = map /\ phase[map] = "live" /\ map # NoEngine
    BY <1>10, <1>i, NullAssumption DEF EngineEvent, EngineHolds, Up
  <2>2. \A p \in Proc : proc[p].at \notin {"marking", "closing"}
    BY <2>1, <1>i DEF CallWaits, Marks
  <2>3. Unawaited(writes) /\ s \in SessionStatus
    BY <2>2, <1>u DEF SessionStatus
  <2> DEFINE w == Append(writes, Write(s, NoProc))
  <2>4. Unawaited(w) /\ w \in Seq(WriteType)
    BY <2>3, <1>t, UnawaitedAppend, WritesType
  <2>5. writes' = writes \/ writes' = w \/ ScheduleReconnect(rec, loose, w)
    BY <1>10 DEF EngineEvent
  <2> HIDE DEF w
  <2> QED BY <2>3, <2>4, <2>5, <1>e, UnawaitedSchedule
<1>11. CASE UNCHANGED <<writes, proc>>
  BY <1>11, <1>i DEF AwaitedLast
<1>12. TimerIgnored \/ UNCHANGED vars => UNCHANGED <<writes, proc>>
  BY DEF TimerIgnored, vars
<1> QED BY <1>1, <1>2, <1>3, <1>4, <1>5, <1>6, <1>7, <1>8, <1>9, <1>10, <1>11, <1>12 DEF Next

\* The newest update does not show the session as started.
Quiets == LastOf(writes)' \notin ActiveStatus

\* A step that appends a status nothing is started by, or nothing at all.
LEMMA Released ==
  ASSUME TypeOK, NEW w \in Seq(WriteType), NEW s \in {"disconnected", "failed", "absent"},
         NEW b \in Proc \cup {NoProc}, row' = row, missed' \in {missed, TRUE},
         \/ writes' = Append(w, Write(s, b))
         \/ writes' = w /\ LastOf(w) \notin ActiveStatus
  PROVE  Quiets
<1>1. s \in SessionStatus \cup {"absent"} /\ s \notin ActiveStatus
  BY DEF SessionStatus, EngineStatus, ActiveStatus
<1>2. CASE writes' = Append(w, Write(s, b))
  BY <1>1, <1>2, LastOfAppend DEF Quiets, LastOf
<1>3. CASE writes' = w /\ LastOf(w) \notin ActiveStatus
  <2>1. LastOf(w) = IF Len(w) # 0 THEN w[Len(w)].to ELSE IF missed THEN "absent" ELSE row
    BY DEF LastOf
  <2>2. LastOf(writes)' = IF Len(w) # 0 THEN w[Len(w)].to ELSE IF missed' THEN "absent" ELSE row
    BY <1>3 DEF LastOf
  <2>3. LastOf(writes)' \in {"absent", LastOf(w)}
    <3>1. CASE missed'
      BY <2>1, <2>2, <3>1
    <3>2. CASE ~missed'
      <4>1. ~missed
        BY <3>2
      <4> QED BY <2>1, <2>2, <3>2, <4>1
    <3> QED BY <3>1, <3>2
  <2> QED BY <1>1, <1>3, <2>3 DEF Quiets, ActiveStatus
<1> QED BY <1>2, <1>3

LEMMA CallsInit == Init => CallsInv
<1> SUFFICES ASSUME Init PROVE CallsInv
  OBVIOUS
<1>1. \A p \in Proc : CallHolds(p)
  BY DEF Init, CallHolds, Opens, AtRest
<1>2. \A p \in Proc : CallWaits(p)
  BY DEF Init, CallWaits, Marks, AtRest, Stopper
<1>3. EngineHolds
  BY DEF Init, EngineHolds, Up
<1>4. Len(writes) = 0
  BY DEF Init
<1>5. AwaitedLast
  BY <1>4 DEF AwaitedLast
<1> QED BY <1>1, <1>2, <1>3, <1>5 DEF CallsInv

LEMMA CallsInvStep ==
  ASSUME \A p, q \in Proc : p = q
  PROVE  TypeOK /\ CallsInv /\ [Next]_vars => CallsInv'
BY CallsStep, WaitsStep, EnginesStep, AwaitedStep DEF CallsInv

LEMMA ReleasedStep ==
  ASSUME \A p, q \in Proc : p = q, "delete" \notin TeardownFails
  PROVE  TypeOK /\ RowInv /\ SerialInv /\ [Next]_vars => RowReleased'
<1> SUFFICES ASSUME TypeOK, RowInv, SerialInv, [Next]_vars PROVE RowReleased'
  OBVIOUS
<1> USE DEF db, service, engines
<1>t. /\ writes \in Seq(WriteType) /\ map \in Engine \cup {NoEngine}
      /\ phase \in [Engine -> Phase] /\ proc \in [Proc -> ProcType]
  BY TypeOKParts
<1>s. {"disconnected", "failed"} \subseteq SessionStatus
  BY DEF SessionStatus, EngineStatus
<1>r. RowReleased /\ CallsInv /\ EngineHolds
  BY DEF SerialInv, CallsInv
<1>q. Quiets => RowReleased'
  BY DEF Quiets, RowReleased
<1>k. ASSUME UNCHANGED <<db, map>> PROVE RowReleased'
  BY <1>k, <1>r DEF RowReleased, LastOf
<1>m. ASSUME map' # NoEngine PROVE RowReleased'
  BY <1>m DEF RowReleased
<1>op. ASSUME NEW p \in Proc, NEW o, NEW w, NEW old, OpenEngine(p, o, w, old)
       PROVE  RowReleased'
  BY <1>op, <1>m, NullAssumption DEF OpenEngine, Spare
<1>sc. ASSUME NEW r, NEW l, NEW w \in Seq(WriteType), LastOf(w) \notin ActiveStatus,
              ScheduleReconnect(r, l, w), row' = row, missed' = missed
       PROVE  RowReleased'
  BY <1>sc, <1>q, Released DEF ScheduleReconnect
\* The teardown of the registered engine writes DISCONNECTED, unless the engine
\* had written FAILED.
<1>d. ASSUME NEW p \in Proc, proc[p].at = "teardown"
      PROVE  /\ TeardownWrites(proc[p].engine) \in Seq(WriteType)
             /\ LastOf(TeardownWrites(proc[p].engine)) \notin ActiveStatus
  <2>1. proc[p].engine = map /\ map # NoEngine
    BY <1>d, <1>r, TearsDownTheRegistered
  <2>2. CASE phase[map] = "live"
    <3>1. TeardownWrites(map) = Append(writes, Write("disconnected", NoProc))
      BY <2>2 DEF TeardownWrites, IsLive
    <3>2. LastOf(TeardownWrites(map)) = "disconnected"
      BY <3>1, <1>t, <1>s, LastOfAppend DEF LastOf
    <3>3. Append(writes, Write("disconnected", NoProc)) \in Seq(WriteType)
      BY <1>t, <1>s, WritesType
    <3> QED BY <2>1, <3>1, <3>2, <3>3 DEF ActiveStatus
  <2>3. CASE phase[map] = "new"
    <3>1. TeardownWrites(map) = writes
      BY <2>3 DEF TeardownWrites
    <3>2. \A z \in Proc : ~Marks(z)
      BY <1>d DEF Marks
    <3> QED BY <2>1, <2>3, <3>1, <3>2, <1>t DEF SerialInv, NewUnseen
  <2>4. CASE phase[map] \notin {"new", "live"}
    <3>1. TeardownWrites(map) = writes
      BY <2>4 DEF TeardownWrites
    <3>2. phase[map] = "dead"
      BY <2>1, <2>4, <1>t DEF Phase
    <3>3. Reported(map) = "failed"
      BY <2>1, <3>2, <1>r DEF Reported, EngineHolds
    <3>4. LastOf(writes) \in {"failed", "absent"}
      BY <2>1, <3>3 DEF RowInv
    <3> QED BY <2>1, <3>1, <3>4, <1>t DEF ActiveStatus
  <2> QED BY <2>2, <2>3, <2>4
<1>1. ASSUME NEW p \in Proc, NEW o \in Stopper \cup {"start"}, Call(p, o) PROVE RowReleased'
  BY <1>1, <1>k DEF Call
<1>2. ASSUME NEW p \in Proc, Start(p) PROVE RowReleased'
  <2>1. CASE StartOpen(p)
    BY <2>1, <1>op DEF StartOpen
  <2>2. CASE StartRefused(p) \/ StartReserve(p) \/ StartOpenFails(p)
    BY <2>2, <1>k DEF StartRefused, StartReserve, StartOpenFails
  <2> QED BY <1>2, <2>1, <2>2 DEF Start
<1>3. ASSUME NEW p \in Proc, Initialize(p) PROVE RowReleased'
  <2>1. CASE proc[p].at \in {"marked", "initializing"}
    <3>1. map # NoEngine /\ ~InitUndo(p) /\ ~Undo(p)
      BY <2>1, <1>r DEF CallsInv, CallHolds, Opens, InitUndo, StopLanded, Undo
    <3>2. map' = map
      BY <1>3, <3>1 DEF Initialize, InitBegin, InitDone, InitFails
    <3> QED BY <3>1, <3>2, <1>m
  <2>2. CASE proc[p].at \notin {"marked", "initializing"}
    <3>1. Undo(p)
      BY <1>3, <2>2 DEF Initialize, InitBegin, InitDone, InitFails, InitUndo
    <3> QED BY <3>1, <1>r DEF CallsInv, CallHolds, Undo
  <2> QED BY <2>1, <2>2
<1>4. ASSUME NEW p \in Proc, Stop(p) PROVE RowReleased'
  <2>a. ASSUME NEW w \in Seq(WriteType), LastOf(w) \notin ActiveStatus,
               AfterTeardown(p, w), row' = row, missed' = missed
        PROVE  RowReleased'
    BY <2>a, <1>q, Released DEF AfterTeardown
  <2>1. CASE StopMark(p)
    <3>1. CASE map = NoEngine
      BY <2>1, <3>1, <2>a, <1>r, <1>t DEF StopMark, RowReleased
    <3>2. CASE map # NoEngine
      BY <2>1, <3>2, <1>m DEF StopMark
    <3> QED BY <3>1, <3>2
  <2>2. CASE StopTornDown(p)
    <3>1. PICK w \in TeardownOutcomes(p) : AfterTeardown(p, w)
      BY <2>2 DEF StopTornDown
    <3>2. CASE w = TeardownWrites(proc[p].engine)
      BY <2>2, <3>1, <3>2, <1>d, <2>a DEF StopTornDown
    <3>3. CASE w # TeardownWrites(proc[p].engine)
      <4>1. w = writes /\ proc[p].op # "delete"
        BY <3>1, <3>3 DEF TeardownOutcomes
      <4>2. writes' = Append(w, Write("disconnected", p))
        BY <3>1, <4>1 DEF AfterTeardown
      <4> QED BY <2>2, <4>1, <4>2, <1>t, <1>q, Released DEF StopTornDown
    <3> QED BY <3>2, <3>3
  <2>3. CASE DeleteRemove(p)
    BY <2>3, <1>t, <1>q, Released DEF DeleteRemove
  <2>4. CASE DeleteFails(p)
    BY <2>4, <1>k DEF DeleteFails
  <2> QED BY <1>4, <2>1, <2>2, <2>3, <2>4 DEF Stop
<1>5. ASSUME NEW p \in Proc, Timer(p) PROVE RowReleased'
  <2>1. CASE ReconnectBegin(p)
    BY <2>1, <1>k DEF ReconnectBegin
  <2>2. CASE ReconnectOpen(p)
    BY <2>2, <1>op DEF ReconnectOpen
  <2> QED BY <1>5, <2>1, <2>2 DEF Timer
<1>6. ASSUME NEW p \in Proc, Reconnect(p) PROVE RowReleased'
  <2>1. CASE ReconnectReplace(p)
    BY <2>1, <1>op DEF ReconnectReplace
  <2>2. CASE ReconnectOpenFails(p)
    BY <2>2, <1>d, <1>sc DEF ReconnectOpenFails
  <2>3. CASE ReconnectTeardownFails(p)
    <3>1. map # NoEngine /\ map' = map
      BY <2>3, <1>r DEF ReconnectTeardownFails, CallsInv, CallHolds
    <3> QED BY <3>1, <1>m
  <2> QED BY <1>6, <2>1, <2>2, <2>3 DEF Reconnect
<1>7. CASE WriteApplied
  <2>1. /\ writes # <<>> /\ writes' = Tail(writes) /\ missed' = FALSE
        /\ row' \in {"absent", Head(writes).to} /\ map' = map
    BY <1>7 DEF WriteApplied
  <2>2. LastOf(writes)' \in {"absent", LastOf(writes)}
    BY <2>1, <1>t, LastOfSettled
  <2> QED BY <2>1, <2>2, <1>r DEF RowReleased, ActiveStatus
<1>12. CASE WriteRefused
  <2>1. writes # <<>> /\ map' = map
    BY <1>12 DEF WriteRefused
  <2>2. CASE map = NoEngine
    <3>1. \A z \in Proc, w \in {Tail(writes)} : ~MarkRefused(z, w)
      BY <2>2, <1>r DEF MarkRefused, CallsInv, CallHolds
    <3>2. writes' = Tail(writes) /\ missed' = TRUE
      BY <1>12, <3>1 DEF WriteRefused
    <3>3. LastOf(writes)' \in {"absent", LastOf(writes)}
      BY <2>1, <3>2, <1>t, LastOfSettled
    <3> QED BY <2>1, <3>3, <1>r DEF RowReleased, ActiveStatus
  <2>3. CASE map # NoEngine
    BY <2>1, <2>3, <1>m
  <2> QED BY <2>2, <2>3
<1>8. CASE ReconnectOpenThrows
  <2>1. LastOf(writes) \notin ActiveStatus
    BY <1>8, <1>r DEF ReconnectOpenThrows, RowReleased
  <2> QED BY <1>8, <2>1, <1>t, <1>sc DEF ReconnectOpenThrows
<1>9. ASSUME NEW e \in Engine, NEW s \in EngineStatus, EngineEvent(e, s) PROVE RowReleased'
  <2>1. map' = e
    BY <1>9, <1>r DEF EngineEvent, EngineHolds
  <2> QED BY <2>1, <1>m, NullAssumption
<1>10. CASE Restart
  <2>1. StartupReset(row) \notin ActiveStatus
    BY DEF StartupReset, ActiveStatus
  <2>2. LastOf(writes)' = StartupReset(row)
    BY <1>10 DEF Restart, LastOf
  <2> QED BY <2>1, <2>2 DEF RowReleased
<1>11. (TimerIgnored \/ UNCHANGED vars) => UNCHANGED <<db, map>>
  BY DEF TimerIgnored, vars
<1> QED BY <1>1, <1>2, <1>3, <1>4, <1>5, <1>6, <1>7, <1>8, <1>9, <1>10, <1>11, <1>12, <1>k DEF Next, WriteEnds

LEMMA UnseenStep ==
  ASSUME \A p, q \in Proc : p = q
  PROVE  TypeOK /\ SerialInv /\ [Next]_vars => NewUnseen'
<1> SUFFICES ASSUME TypeOK, SerialInv, [Next]_vars, map' # NoEngine,
                    phase'[map'] = "new", \A p \in Proc : ~Marks(p)'
             PROVE  Quiets
  BY DEF NewUnseen, Quiets
<1> USE DEF db, service, engines
<1>t. /\ writes \in Seq(WriteType) /\ map \in Engine \cup {NoEngine}
      /\ phase \in [Engine -> Phase] /\ proc \in [Proc -> ProcType]
  BY TypeOKParts
<1>i. /\ \A p \in Proc : CallHolds(p) /\ CallWaits(p)
      /\ EngineHolds /\ AwaitedLast /\ NewUnseen
  BY DEF SerialInv, CallsInv
\* Nothing moves and no engine was about to be initialized.
<1>l. ASSUME UNCHANGED <<map, phase>>, \A p \in Proc : ~Marks(p)
      PROVE  LastOf(writes) \notin ActiveStatus
  BY <1>l, <1>i DEF NewUnseen
<1>k. ASSUME UNCHANGED <<db, map, phase>>, \A p \in Proc : ~Marks(p) PROVE Quiets
  <2>1. LastOf(writes)' = LastOf(writes)
    BY <1>k DEF LastOf
  <2> QED BY <1>k, <1>l, <2>1 DEF Quiets
\* The only call of all, and it marks nothing.
<1>o. ASSUME NEW p \in Proc, proc[p].at \notin {"marking", "marked"}
      PROVE  \A z \in Proc : ~Marks(z)
  BY <1>o DEF Marks
<1>op. ASSUME NEW p \in Proc, NEW o, NEW w, NEW old, OpenEngine(p, o, w, old)
       PROVE  FALSE
  <2>1. proc'[p].at = "marking"
    BY <1>op, <1>t DEF OpenEngine
  <2> QED BY <2>1 DEF Marks
<1>1. ASSUME NEW p \in Proc, NEW o \in Stopper \cup {"start"}, Call(p, o) PROVE Quiets
  <2>1. proc[p].at = "rest"
    BY <1>1 DEF Call, AtRest
  <2> QED BY <1>1, <2>1, <1>o, <1>k DEF Call
<1>2. ASSUME NEW p \in Proc, Start(p) PROVE Quiets
  <2>1. CASE StartOpen(p)
    BY <2>1, <1>op DEF StartOpen
  <2>2. CASE StartRefused(p) \/ StartReserve(p) \/ StartOpenFails(p)
    <3>1. proc[p].at \in {"found", "hook"} /\ UNCHANGED <<db, map, phase>>
      BY <2>2 DEF StartRefused, StartReserve, StartOpenFails
    <3> QED BY <3>1, <1>o, <1>k
  <2> QED BY <1>2, <2>1, <2>2 DEF Start
<1>3. ASSUME NEW p \in Proc, Initialize(p) PROVE Quiets
  <2>1. CASE InitBegin(p) \/ InitFails(p)
    <3>1. proc[p].engine = map /\ map \in Engine /\ map' = map
      BY <2>1, <1>i, <1>t DEF InitBegin, InitFails, CallHolds
    <3>2. phase'[map] \in {"live", "dead"}
      BY <2>1, <3>1, <1>t DEF InitBegin, InitFails
    <3> QED BY <3>1, <3>2
  <2>2. CASE InitDone(p)
    BY <2>2, <1>o, <1>k DEF InitDone
  <2>3. ~InitUndo(p) /\ ~Undo(p)
    BY <1>i DEF InitUndo, Undo, StopLanded, CallHolds, Opens
  <2> QED BY <1>3, <2>1, <2>2, <2>3 DEF Initialize
<1>4. ASSUME NEW p \in Proc, Stop(p) PROVE Quiets
  <2>1. CASE StopMark(p)
    <3>1. map # NoEngine
      BY <2>1 DEF StopMark
    <3>2. UNCHANGED <<db, map, phase>> /\ proc[p].at = "found"
      BY <2>1, <3>1 DEF StopMark
    <3> QED BY <3>2, <1>o, <1>k
  <2>2. CASE StopTornDown(p)
    BY <2>2 DEF StopTornDown
  <2>3. CASE DeleteRemove(p) \/ DeleteFails(p)
    <3>1. map = NoEngine /\ map' = map
      BY <2>3, <1>i DEF DeleteRemove, DeleteFails, CallHolds
    <3> QED BY <3>1
  <2> QED BY <1>4, <2>1, <2>2, <2>3 DEF Stop
<1>5. ASSUME NEW p \in Proc, Timer(p) PROVE Quiets
  <2>1. CASE ReconnectBegin(p)
    <3>1. proc[p].at = "rest" /\ UNCHANGED <<db, map, phase>>
      BY <2>1 DEF ReconnectBegin, AtRest
    <3> QED BY <3>1, <1>o, <1>k
  <2>2. CASE ReconnectOpen(p)
    BY <2>2, <1>op DEF ReconnectOpen
  <2> QED BY <1>5, <2>1, <2>2 DEF Timer
<1>6. ASSUME NEW p \in Proc, Reconnect(p) PROVE Quiets
  <2>1. CASE ReconnectReplace(p)
    BY <2>1, <1>op DEF ReconnectReplace
  <2>2. CASE ReconnectOpenFails(p)
    BY <2>2 DEF ReconnectOpenFails
  <2>3. CASE ReconnectTeardownFails(p)
    <3>1. UNCHANGED <<row, missed, map, phase>> /\ ScheduleReconnect(rec, loose, writes)
      BY <2>3 DEF ReconnectTeardownFails
    <3>2. proc[p].at \in {"teardown", "undo"}
      BY <2>3 DEF ReconnectTeardownFails
    <3>3. LastOf(writes) \notin ActiveStatus
      BY <3>1, <3>2, <1>o, <1>l
    <3> QED BY <3>1, <3>3, <1>t, Released DEF ScheduleReconnect
  <2> QED BY <1>6, <2>1, <2>2, <2>3 DEF Reconnect
<1>7. CASE WriteApplied
  <2>1. /\ writes # <<>> /\ writes' = Tail(writes) /\ missed' = FALSE
        /\ row' \in {"absent", Head(writes).to} /\ UNCHANGED <<map, phase>>
    BY <1>7 DEF WriteApplied
  <2>2. LastOf(writes)' \in {"absent", LastOf(writes)}
    BY <2>1, <1>t, LastOfSettled
  <2>3. ASSUME NEW p \in Proc PROVE ~Marks(p)
    <3>1. proc'[p] = IF p = Head(writes).by /\ proc[p].at = "marking"
                     THEN [proc[p] EXCEPT !.at = "marked"]
                     ELSE IF p = Head(writes).by /\ proc[p].at = "closing" THEN AtRest
                     ELSE proc[p]
      BY <1>7 DEF WriteApplied
    <3> QED BY <3>1, <1>t DEF Marks, ProcType
  <2> QED BY <2>1, <2>2, <2>3, <1>l DEF Quiets, ActiveStatus
<1>8. CASE WriteRefused
  <2>1. /\ writes # <<>> /\ missed' = TRUE /\ UNCHANGED <<row, map, phase>>
    BY <1>8 DEF WriteRefused
  <2>2. CASE \A p \in Proc : ~Marks(p)
    <3>1. writes' = Tail(writes)
      BY <1>8, <2>2 DEF WriteRefused, MarkRefused, Marks
    <3>2. LastOf(writes)' \in {"absent", LastOf(writes)}
      BY <2>1, <3>1, <1>t, LastOfSettled
    <3> QED BY <2>1, <2>2, <3>2, <1>l DEF Quiets, ActiveStatus
  <2>3. ASSUME NEW p \in Proc, Marks(p) PROVE Quiets
    <3>1. ~UNCHANGED proc /\ proc[p].at # "closing"
      BY <2>3 DEF Marks
    <3>2. Head(writes).by = p /\ MarkRefused(p, Tail(writes))
      BY <1>8, <3>1 DEF WriteRefused
    <3>3. Head(writes) = writes[1] /\ 1 \in 1 .. Len(writes) /\ Tail(writes) \in Seq(WriteType)
      BY <2>1, <1>t
    <3>4. Len(writes) = 1
      BY <3>2, <3>3, <1>i, NullAssumption DEF AwaitedLast
    <3>5. Len(Tail(writes)) = 0
      BY <2>1, <3>4, <1>t
    <3>6. writes' = Tail(writes) \/ writes' = Append(Tail(writes), Write("failed", NoProc))
      BY <3>2 DEF MarkRefused, ScheduleReconnect
    <3>7. CASE writes' = Tail(writes)
      BY <2>1, <3>5, <3>7 DEF Quiets, LastOf, ActiveStatus
    <3>8. CASE writes' = Append(Tail(writes), Write("failed", NoProc))
      BY <2>1, <3>3, <3>8, Released
    <3> QED BY <3>6, <3>7, <3>8
  <2> QED BY <2>2, <2>3
<1>9. CASE TimerIgnored \/ UNCHANGED vars
  <2>1. UNCHANGED <<db, map, phase, proc>>
    BY <1>9 DEF TimerIgnored, vars
  <2>2. \A p \in Proc : ~Marks(p)
    BY <2>1 DEF Marks
  <2> QED BY <2>1, <2>2, <1>k
<1>10. CASE ReconnectOpenThrows
  BY <1>10 DEF ReconnectOpenThrows
<1>11. ASSUME NEW e \in Engine, NEW s \in EngineStatus, EngineEvent(e, s) PROVE Quiets
  <2>1. e = map /\ map' = map /\ phase' = phase /\ phase[e] = "live"
    BY <1>11, <1>i DEF EngineEvent, EngineHolds, Up
  <2> QED BY <2>1
<1>12. CASE Restart
  BY <1>12 DEF Restart
<1> QED BY <1>1, <1>2, <1>3, <1>4, <1>5, <1>6, <1>7, <1>8, <1>9, <1>10, <1>11, <1>12 DEF Next, WriteEnds

\* As long as the calls on a session do not overlap, nothing of one is left to
\* the next: every connected engine can be reached, and a session without an
\* engine never shows as starting, waiting for a scan or ready, unless the last
\* update of its status was rejected.  A delete() whose
\* teardown fails and whose transaction then fails as well is excluded by the
\* assumption: nothing in it writes the status.
THEOREM NothingIsLeftOver ==
  ASSUME \A p, q \in Proc : p = q, "delete" \notin TeardownFails
  PROVE  Spec => []NothingLeftOver
<1>1. Init => RowInv
  BY DEF Init, RowInv
<1>2. Init => SerialInv
  <2> SUFFICES ASSUME Init PROVE SerialInv
    OBVIOUS
  <2>1. CallsInv
    BY CallsInit
  <2>2. RowReleased
    BY DEF Init, RowReleased, LastOf, ActiveStatus
  <2>3. NewUnseen
    BY DEF Init, NewUnseen
  <2> QED BY <2>1, <2>2, <2>3 DEF SerialInv
<1>3. TypeOK /\ RowInv /\ SerialInv /\ [Next]_vars => SerialInv'
  BY CallsInvStep, ReleasedStep, UnseenStep DEF SerialInv
<1>4. SerialInv => NothingLeftOver
  <2> SUFFICES ASSUME SerialInv PROVE NothingLeftOver
    OBVIOUS
  <2>1. NoOrphan
    BY DEF SerialInv, CallsInv, EngineHolds, NoOrphan
  <2>2. NoPhantomRow
    BY DEF SerialInv, RowReleased, LastOf, NoPhantomRow, Settled
  <2> QED BY <2>1, <2>2 DEF NothingLeftOver
<1> QED BY <1>1, <1>2, <1>3, <1>4, TypeInit, TypeStep, RowStep, PTL DEF Spec

-----------------------------------------------------------------------------
(* Somebody owes a dropped session its reconnection                        *)

\* The registered engine reports that it has lost its connection, or is not
\* connected yet, and nobody has stopped the session.
Dropped == rec.on /\ map # NoEngine /\ st[map] = "disconnected" /\ ~stopping

\* A call that will replace the engine, give it its connection or stop it.
Tends(p) == proc[p].at \in {"marking", "marked", "teardown"}

\* It was given up, or deleted, or will show as that once the writes are in; or
\* the update that would have said so was rejected.
GivenUp == LastOf(writes) \in {"failed", "absent"} \/ row = "absent"

\* What a drop leaves behind until it is resolved: an armed timer, a call at
\* work on the engine, or the end of the session.
DropIsOwned ==
  Dropped => rec.armed \/ loose > 0 \/ GivenUp \/ \E p \in Proc : Tends(p)

\* A step that leaves the engine and everything that is owed alone.
LEMMA OwnedKept ==
  ASSUME TypeOK, DropIsOwned, UNCHANGED <<map, rec, loose, st>>,
         stopping => stopping' \/ GivenUp',
         GivenUp => GivenUp',
         \A p \in Proc : Tends(p) => Tends(p)'
  PROVE  DropIsOwned'
BY DEF DropIsOwned, Dropped

\* Either another timer is armed or FAILED is written.
LEMMA OwnedScheduled ==
  ASSUME TypeOK, NEW r \in ReconnectType, NEW l, NEW w \in Seq(WriteType),
         ScheduleReconnect(r, l, w)
  PROVE  DropIsOwned'
<1>1. CASE r.on /\ ~Exhausted(r)
  BY <1>1 DEF ScheduleReconnect, DropIsOwned
<1>2. CASE r.on /\ Exhausted(r)
  <2>1. writes' = Append(w, Write("failed", NoProc)) /\ "failed" \in SessionStatus
    BY <1>2 DEF ScheduleReconnect, SessionStatus, EngineStatus
  <2>2. LastOf(writes)' = "failed"
    BY <2>1, LastOfAppend DEF LastOf
  <2> QED BY <2>2 DEF DropIsOwned, GivenUp
<1>3. CASE ~r.on
  BY <1>3 DEF ScheduleReconnect, DropIsOwned, Dropped
<1> QED BY <1>1, <1>2, <1>3

LEMMA OwnedStep ==
  ASSUME \A p, q \in Proc : p = q
  PROVE  TypeOK /\ CallsInv /\ DropIsOwned /\ [Next]_vars => DropIsOwned'
<1> SUFFICES ASSUME TypeOK, CallsInv, DropIsOwned, [Next]_vars PROVE DropIsOwned'
  OBVIOUS
<1> USE DEF db, service, engines
<1>t. /\ writes \in Seq(WriteType) /\ map \in Engine \cup {NoEngine}
      /\ rec \in ReconnectType /\ st \in [Engine -> EngineStatus]
      /\ proc \in [Proc -> ProcType]
  BY TypeOKParts
<1>i. /\ \A p \in Proc : CallHolds(p)
      /\ EngineHolds /\ AwaitedLast
  BY DEF CallsInv
<1>g. UNCHANGED db => (GivenUp => GivenUp')
  BY DEF GivenUp, LastOf
\* Nothing is registered, nothing was started, or a stop is marked.
<1>n. map' = NoEngine \/ ~rec'.on \/ stopping' => DropIsOwned'
  BY DEF DropIsOwned, Dropped
\* Somebody tends the engine.
<1>w. ASSUME NEW p \in Proc, Tends(p)' PROVE DropIsOwned'
  BY <1>w DEF DropIsOwned
<1>op. ASSUME NEW p \in Proc, NEW o, NEW w, NEW old, OpenEngine(p, o, w, old)
       PROVE  DropIsOwned'
  <2>1. proc'[p].at = "marking"
    BY <1>op, <1>t DEF OpenEngine
  <2> QED BY <2>1, <1>w DEF Tends
\* A step of a call that tends nothing, and touches nothing that is owed.
<1>c. ASSUME NEW p \in Proc, ~Tends(p), UNCHANGED <<map, rec, loose, st, stopping>>,
             GivenUp => GivenUp'
      PROVE  DropIsOwned'
  BY <1>c DEF DropIsOwned, Dropped
<1>1. ASSUME NEW p \in Proc, NEW o \in Stopper \cup {"start"}, Call(p, o) PROVE DropIsOwned'
  BY <1>1, <1>c, <1>g DEF Call, AtRest, Tends
<1>2. ASSUME NEW p \in Proc, Start(p) PROVE DropIsOwned'
  <2>1. CASE StartOpen(p)
    BY <2>1, <1>op DEF StartOpen
  <2>2. CASE StartRefused(p)
    BY <2>2, <1>c, <1>g DEF StartRefused, Tends
  <2>3. CASE StartReserve(p)
    BY <2>3, <1>n DEF StartReserve, Taken
  <2>4. CASE StartOpenFails(p)
    BY <2>4, <1>i, <1>n DEF StartOpenFails, CallHolds
  <2> QED BY <1>2, <2>1, <2>2, <2>3, <2>4 DEF Start
<1>3. ASSUME NEW p \in Proc, Initialize(p) PROVE DropIsOwned'
  <2>1. CASE InitBegin(p) \/ InitFails(p)
    <3>1. proc[p].engine = map /\ map \in Engine
      BY <2>1, <1>i, <1>t DEF InitBegin, InitFails, CallHolds
    <3>2. map' = map /\ st'[map] \in {"initializing", "failed"}
      BY <2>1, <3>1, <1>t DEF InitBegin, InitFails
    <3> QED BY <3>2 DEF DropIsOwned, Dropped
  <2>2. CASE InitDone(p)
    BY <2>2, <1>c, <1>g DEF InitDone, Tends
  <2>3. ~InitUndo(p) /\ ~Undo(p)
    BY <1>i DEF InitUndo, Undo, StopLanded, CallHolds, Opens
  <2> QED BY <1>3, <2>1, <2>2, <2>3 DEF Initialize
<1>4. ASSUME NEW p \in Proc, Stop(p) PROVE DropIsOwned'
  <2>1. CASE StopMark(p) \/ StopTornDown(p)
    BY <2>1, <1>n DEF StopMark, StopTornDown
  <2>2. CASE DeleteRemove(p) \/ DeleteFails(p)
    <3>1. map' = NoEngine
      BY <2>2, <1>i DEF DeleteRemove, DeleteFails, CallHolds
    <3> QED BY <3>1, <1>n
  <2> QED BY <1>4, <2>1, <2>2 DEF Stop
<1>5. ASSUME NEW p \in Proc, Timer(p) PROVE DropIsOwned'
  <2>1. CASE ReconnectBegin(p)
    <3>1. proc'[p].at = "teardown"
      BY <2>1, <1>t DEF ReconnectBegin
    <3> QED BY <3>1, <1>w DEF Tends
  <2>2. CASE ReconnectOpen(p)
    BY <2>2, <1>op DEF ReconnectOpen
  <2> QED BY <1>5, <2>1, <2>2 DEF Timer
<1>6. ASSUME NEW p \in Proc, Reconnect(p) PROVE DropIsOwned'
  <2>1. CASE ReconnectReplace(p)
    BY <2>1, <1>op DEF ReconnectReplace
  <2>2. CASE ReconnectOpenFails(p)
    BY <2>2, <1>n DEF ReconnectOpenFails
  <2>3. CASE ReconnectTeardownFails(p)
    BY <2>3, <1>t, OwnedScheduled DEF ReconnectTeardownFails
  <2> QED BY <1>6, <2>1, <2>2, <2>3 DEF Reconnect
<1>7. CASE WriteApplied
  <2>1. /\ writes # <<>> /\ writes' = Tail(writes)
        /\ row' = IF row = "absent" THEN "absent" ELSE Head(writes).to
        /\ stopping' = IF Head(writes).to = "absent" THEN FALSE ELSE stopping
        /\ UNCHANGED <<map, rec, loose, st>>
    BY <1>7 DEF WriteApplied
  <2>2. stopping => stopping' \/ GivenUp'
    BY <2>1 DEF GivenUp
  <2>3. GivenUp => GivenUp'
    <3>1. LastOf(writes)' \in {"absent", LastOf(writes)}
      BY <1>7, <2>1, <1>t, LastOfSettled DEF WriteApplied
    <3> QED BY <2>1, <3>1 DEF GivenUp
  <2>4. ASSUME NEW p \in Proc, Tends(p) PROVE Tends(p)'
    <3>1. proc'[p] = IF p = Head(writes).by /\ proc[p].at = "marking"
                     THEN [proc[p] EXCEPT !.at = "marked"]
                     ELSE IF p = Head(writes).by /\ proc[p].at = "closing" THEN AtRest
                     ELSE proc[p]
      BY <1>7 DEF WriteApplied
    <3> QED BY <2>4, <3>1, <1>t DEF Tends, ProcType
  <2> QED BY <2>1, <2>2, <2>3, <2>4, OwnedKept
<1>8. CASE TimerIgnored \/ Restart
  BY <1>8, <1>n DEF TimerIgnored, Restart, NoReconnect
<1>9. CASE ReconnectOpenThrows
  BY <1>9, <1>n DEF ReconnectOpenThrows
<1>10. ASSUME NEW e \in Engine, NEW s \in EngineStatus, EngineEvent(e, s) PROVE DropIsOwned'
  <2>1. e = map /\ map' = map
    BY <1>10, <1>i DEF EngineEvent, EngineHolds
  <2>2. CASE s = "disconnected"
    <3>1. ScheduleReconnect(rec, loose, Append(writes, Write(s, NoProc)))
      BY <1>10, <2>1, <2>2 DEF EngineEvent, IsLive
    <3>2. Append(writes, Write(s, NoProc)) \in Seq(WriteType)
      BY <2>2, <1>t, WritesType DEF SessionStatus, EngineStatus
    <3> QED BY <3>1, <3>2, <1>t, OwnedScheduled
  <2>3. CASE s # "disconnected"
    <3>1. st'[map] = s
      BY <1>10, <2>1, <1>t DEF EngineEvent
    <3> QED BY <2>1, <2>3, <3>1 DEF DropIsOwned, Dropped
  <2> QED BY <2>2, <2>3
<1>11. CASE UNCHANGED vars
  BY <1>11, <1>g, OwnedKept DEF vars, Tends
<1>12. CASE WriteRefused
  <2>1. /\ writes # <<>> /\ missed' = TRUE /\ UNCHANGED <<row, map, st, stopping>>
    BY <1>12 DEF WriteRefused
  <2>2. CASE \A p \in Proc : proc[p].at # "marking"
    <3>1. writes' = Tail(writes) /\ UNCHANGED <<rec, loose>>
      BY <1>12, <2>2 DEF WriteRefused, MarkRefused
    <3>2. LastOf(writes)' \in {"absent", LastOf(writes)}
      BY <2>1, <3>1, <1>t, LastOfSettled
    <3>3. GivenUp => GivenUp'
      BY <2>1, <3>2 DEF GivenUp
    <3>4. UNCHANGED proc \/ \E p \in Proc : proc[p].at = "closing"
      BY <1>12, <2>2 DEF WriteRefused, MarkRefused
    <3>5. CASE UNCHANGED proc
      BY <2>1, <3>1, <3>3, <3>5, OwnedKept DEF Tends
    <3>6. ASSUME NEW p \in Proc, proc[p].at = "closing" PROVE DropIsOwned'
      BY <2>1, <3>1, <3>3, <3>6, <1>c DEF Tends
    <3> QED BY <3>4, <3>5, <3>6
  <2>3. ASSUME NEW p \in Proc, proc[p].at = "marking" PROVE DropIsOwned'
    <3>1. CASE UNCHANGED proc
      <4>1. Tends(p)'
        BY <2>3, <3>1 DEF Tends
      <4> QED BY <4>1, <1>w
    <3>2. CASE ~UNCHANGED proc
      <4>1. Head(writes).by = p /\ MarkRefused(p, Tail(writes))
        BY <1>12, <2>3, <3>2 DEF WriteRefused
      <4>2. Head(writes) = writes[1] /\ 1 \in 1 .. Len(writes) /\ Tail(writes) \in Seq(WriteType)
        BY <2>1, <1>t
      <4>3. Len(writes) = 1
        BY <4>1, <4>2, <1>i, NullAssumption DEF AwaitedLast
      <4>4. Len(Tail(writes)) = 0
        BY <2>1, <4>3, <1>t
      <4>5. CASE writes' = Tail(writes)
        BY <2>1, <4>4, <4>5 DEF DropIsOwned, GivenUp, LastOf
      <4>6. CASE ScheduleReconnect(rec, loose, Tail(writes))
        BY <4>2, <4>6, <1>t, OwnedScheduled
      <4> QED BY <4>1, <4>5, <4>6 DEF MarkRefused
    <3> QED BY <3>1, <3>2
  <2> QED BY <2>2, <2>3
<1> QED BY <1>1, <1>2, <1>3, <1>4, <1>5, <1>6, <1>7, <1>8, <1>9, <1>10, <1>11, <1>12 DEF Next, WriteEnds

\* A dropped session is never left without anybody who will see to it: as long
\* as it is neither stopped nor given up, and no update of its status was
\* rejected, a timer is armed or a call has its
\* engine in hand.  What is owed is then done by fairness (DropIsResolved).
THEOREM DropsAreOwned ==
  ASSUME \A p, q \in Proc : p = q
  PROVE  Spec => []DropIsOwned
<1>1. Init => CallsInv /\ DropIsOwned
  <2> SUFFICES ASSUME Init PROVE CallsInv /\ DropIsOwned
    OBVIOUS
  <2>1. CallsInv
    BY CallsInit
  <2>2. DropIsOwned
    BY DEF Init, DropIsOwned, Dropped
  <2> QED BY <2>1, <2>2
<1>2. TypeOK /\ CallsInv /\ [Next]_vars => CallsInv'
  BY CallsInvStep
<1>3. TypeOK /\ CallsInv /\ DropIsOwned /\ [Next]_vars => DropIsOwned'
  BY OwnedStep
<1> QED BY <1>1, <1>2, <1>3, TypeInit, TypeStep, PTL DEF Spec

=============================================================================
