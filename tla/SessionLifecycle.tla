-------------------------- MODULE SessionLifecycle --------------------------
(***************************************************************************)
(* The life of one WhatsApp session in SessionService: the API calls       *)
(* start(), stop(), forceKill() and delete(), the reconnect timer, the     *)
(* callbacks of the engines, and the status column they all write.         *)
(*                                                                         *)
(* Everything the service keeps is keyed by session id and no handler      *)
(* touches two ids, so one session stands for all of them.  JavaScript     *)
(* runs a handler without interruption up to its next await; an action     *)
(* below is one such stretch.                                              *)
(***************************************************************************)
EXTENDS EngineStates, Integers, Sequences, FiniteSets

CONSTANTS
  Engine,           \* engine objects; one not in use any more is used again
  Proc,             \* API calls and reconnects in progress at the same time
  NoEngine,         \* no engine is registered or held
  NoProc,           \* nobody awaits a write (`void this.updateStatus(..)`)
  MaxAttempts,      \* maxReconnectAttempts of the session's config
  TeardownFails,    \* the callers whose destroy()/disconnect() may reject or hang
  WriteFails,       \* the callers whose update of the status may be rejected
  MaxWrites,        \* bound: status writes on their way to the database
  MaxTimers         \* bound: armed reconnect timers

ASSUME BoundsAssumption ==
  /\ MaxAttempts \in Nat
  /\ MaxWrites \in Nat
  /\ MaxTimers \in Nat
  /\ TeardownFails \subseteq {"start", "stop", "delete", "reconnect"}
  /\ WriteFails \subseteq {"start", "stop", "reconnect", "callback"}

ASSUME NullAssumption == NoEngine \notin Engine /\ NoProc \notin Proc

VARIABLES
  row,          \* sessions.status, or "absent" once the row is removed
  writes,       \* updates issued and not yet settled, oldest first
  missed,       \* the update that settled last was rejected
  map,          \* engines.get(id)
  stopping,     \* stoppingSessions.has(id)
  initializing, \* initializingSessions.has(id)
  rec,          \* reconnectStates.get(id): present? attempts, timer armed?
  loose,        \* armed reconnect timers of states that were replaced
  phase,        \* what became of an engine object
  st,           \* the status an engine object reports
  proc          \* the calls and reconnects in progress

db == <<row, writes, missed>>
service == <<map, stopping, initializing, rec, loose>>
engines == <<phase, st>>
vars == <<db, service, engines, proc>>

-----------------------------------------------------------------------------
SessionStatus == EngineStatus \cup {"created"}

ActiveStatus == {"ready", "initializing", "linking"}

Phase == {"new", "live", "dead"}

Op == {"none", "start", "stop", "delete", "reconnect"}

At == {"rest", "found", "hook", "marking", "marked", "initializing", "undo",
       "teardown", "closing"}

NoReconnect == [on |-> FALSE, attempts |-> 0, armed |-> FALSE]
FreshReconnect == [NoReconnect EXCEPT !.on = TRUE]

AtRest == [op |-> "none", at |-> "rest", engine |-> NoEngine]

Write(s, p) == [to |-> s, by |-> p]

\* The engine has a connection of its own: it is in none of the statuses an
\* engine does not leave by itself.
Up(e) == phase[e] = "live" /\ st[e] \notin {"disconnected", "failed"}

\* Mutant of IsLive: the callbacks of any engine count while one is registered.
IsLiveAnyEngine(e) == map # NoEngine

\* isLiveEngine(): the callbacks of e mutate the session.
IsLive(e) == map = e

\* An engine object nothing refers to and that does nothing: a new one.
Spare == {e \in Engine : ~Up(e) /\ map # e /\ \A p \in Proc : proc[p].engine # e}

\* The bounds: a step that issues a write waits for Room, an engine drops only
\* while there is TimerRoom.
Room == Len(writes) + 2 <= MaxWrites
TimerRoom == loose + (IF rec.armed THEN 1 ELSE 0) < MaxTimers

-----------------------------------------------------------------------------
(* scheduleReconnect(): the attempt count goes up and a timer is armed over *)
(* the reference to the previous one, or the session is given up as FAILED. *)

Exhausted(r) == r.attempts >= MaxAttempts

\* Mutant of ScheduleReconnect: out of attempts, it just returns.
ScheduleReconnectSilent(r, l, w) ==
  /\ rec' = IF r.on /\ ~Exhausted(r)
            THEN [on |-> TRUE, attempts |-> r.attempts + 1, armed |-> TRUE] ELSE r
  /\ loose' = IF r.on /\ ~Exhausted(r) /\ r.armed THEN l + 1 ELSE l
  /\ writes' = w

\* r, l, w: the reconnect state, the timers left behind, the writes so far.
ScheduleReconnect(r, l, w) ==
  /\ rec' = IF r.on /\ ~Exhausted(r)
            THEN [on |-> TRUE, attempts |-> r.attempts + 1, armed |-> TRUE] ELSE r
  /\ loose' = IF r.on /\ ~Exhausted(r) /\ r.armed THEN l + 1 ELSE l
  /\ writes' = IF r.on /\ Exhausted(r)
               THEN Append(w, Write("failed", NoProc)) ELSE w

\* setStatus(DISCONNECTED) at the end of an adapter's teardown: the callback
\* still writes when the engine is registered.
TeardownWrites(e) ==
  IF phase[e] = "live" /\ IsLive(e)
  THEN Append(writes, Write("disconnected", NoProc))
  ELSE writes

\* The teardown of e is over.  An engine whose initialize() was not yet called
\* has nothing to tear down, and does not remember the call.
TornDown(e) ==
  /\ phase' = [phase EXCEPT ![e] = IF @ = "live" THEN "dead" ELSE @]
  /\ st' = [st EXCEPT ![e] = IF phase[e] = "live" THEN "disconnected" ELSE @]

\* The writes after teardownEngineSafely(): it resolved, or it rejected or hung
\* for 10 s, which is logged.  What may remain of an engine given up on is deaf
\* and left out.
TeardownOutcomes(p) ==
  {TeardownWrites(proc[p].engine)} \cup
  (IF proc[p].op \in TeardownFails \ {"reconnect"} THEN {writes} ELSE {})

\* The first stretch of initializeEngine(): create an engine, register it,
\* issue the write of INITIALIZING that the procedure then awaits.  When the
\* reconnect just tore down an old engine, its end belongs to the same step.
OpenEngine(p, o, w, old) ==
  \E e \in Spare \ {old} :
    /\ map' = e
    /\ writes' = Append(w, Write("initializing", p))
    /\ proc' = [proc EXCEPT ![p] = [op |-> o, at |-> "marking", engine |-> e]]
    /\ phase' = [d \in Engine |->
         IF d = e THEN "new"
         ELSE IF d = old /\ phase[d] = "live" THEN "dead" ELSE phase[d]]
    /\ st' = [d \in Engine |->
         IF d = e \/ (d = old /\ phase[d] = "live") THEN "disconnected" ELSE st[d]]

Finish(p) == proc' = [proc EXCEPT ![p] = AtRest]
Goto(p, a) == proc' = [proc EXCEPT ![p].at = a]

-----------------------------------------------------------------------------
Init ==
  /\ row = "created"
  /\ writes = <<>>
  /\ missed = FALSE
  /\ map = NoEngine
  /\ stopping = FALSE
  /\ initializing = FALSE
  /\ rec = NoReconnect
  /\ loose = 0
  /\ phase = [e \in Engine |-> "dead"]
  /\ st = [e \in Engine |-> "disconnected"]
  /\ proc = [p \in Proc |-> AtRest]

\* A request arrives; findOne() finds the row.
Call(p, o) ==
  /\ proc[p] = AtRest
  /\ row # "absent"
  /\ proc' = [proc EXCEPT ![p] = [AtRest EXCEPT !.op = o, !.at = "found"]]
  /\ UNCHANGED <<db, service, engines>>

-----------------------------------------------------------------------------
(* start()                                                                 *)

\* Mutants of Taken: one of the two checks of start() is missing.
TakenIfStarting == initializing
TakenIfStarted == map # NoEngine

\* The session is already started, or already starting.
Taken == map # NoEngine \/ initializing

StartRefused(p) ==
  /\ proc[p].op = "start" /\ proc[p].at = "found"
  /\ Taken
  /\ Finish(p)
  /\ UNCHANGED <<db, service, engines>>

StartReserve(p) ==
  /\ proc[p].op = "start" /\ proc[p].at = "found"
  /\ ~Taken
  /\ initializing' = TRUE
  /\ stopping' = FALSE
  /\ Goto(p, "hook")
  /\ UNCHANGED <<db, map, rec, loose, engines>>

\* The hook is done.  The fresh reconnect state replaces the old one without
\* clearing its timer.
ReplaceReconnectState ==
  /\ rec' = FreshReconnect
  /\ loose' = IF rec.armed THEN loose + 1 ELSE loose

StartOpen(p) ==
  /\ proc[p].op = "start" /\ proc[p].at = "hook"
  /\ Room
  /\ ReplaceReconnectState
  /\ OpenEngine(p, "start", writes, NoEngine)
  /\ UNCHANGED <<row, missed, stopping, initializing>>

\* engineFactory.create() throws: no plugin of the configured engine is on.
StartOpenFails(p) ==
  /\ proc[p].op = "start" /\ proc[p].at = "hook"
  /\ Room
  /\ ReplaceReconnectState
  /\ initializing' = FALSE
  /\ Finish(p)
  /\ UNCHANGED <<db, map, stopping, engines>>

-----------------------------------------------------------------------------
(* initializeEngine() after its first await, in a start or a reconnect      *)

InitBegin(p) ==
  LET e == proc[p].engine IN
  /\ proc[p].at = "marked"
  /\ Room
  /\ phase' = [phase EXCEPT ![e] = "live"]
  /\ st' = [st EXCEPT ![e] = "initializing"]
  /\ writes' = IF IsLive(e) THEN Append(writes, Write("initializing", NoProc))
                            ELSE writes
  /\ Goto(p, "initializing")
  /\ UNCHANGED <<row, missed, service>>

\* Mutant of StopLanded: the check after initialize() is missing.
StopLandedIgnored == FALSE

\* A stop or delete was marked meanwhile, and an engine is registered.
StopLanded == stopping /\ map # NoEngine

\* initialize() resolves and no stop or delete is marked.
InitDone(p) ==
  /\ proc[p].at = "initializing"
  /\ ~StopLanded
  /\ initializing' = IF proc[p].op = "start" THEN FALSE ELSE initializing
  /\ Finish(p)
  /\ UNCHANGED <<db, map, stopping, rec, loose, engines>>

\* It resolves with the mark set: what is registered now must go.
InitUndo(p) ==
  /\ proc[p].at = "initializing"
  /\ StopLanded
  /\ proc' = [proc EXCEPT ![p].at = "undo", ![p].engine = map]
  /\ UNCHANGED <<db, service, engines>>

\* initialize() rejects: the adapter reports FAILED and the engine stays
\* registered.  A start passes the error on; a reconnect schedules another.
InitFails(p) ==
  LET e == proc[p].engine
      reported == IF IsLive(e) THEN Append(writes, Write("failed", NoProc))
                               ELSE writes IN
  /\ proc[p].at = "initializing"
  /\ Room
  /\ phase' = [phase EXCEPT ![e] = "dead"]
  /\ st' = [st EXCEPT ![e] = "failed"]
  /\ Finish(p)
  /\ \/ /\ proc[p].op = "start"
        /\ initializing' = FALSE
        /\ writes' = reported
        /\ UNCHANGED <<rec, loose>>
     \/ /\ proc[p].op = "reconnect"
        /\ ScheduleReconnect(rec, loose, reported)
        /\ UNCHANGED initializing
  /\ UNCHANGED <<row, missed, map, stopping>>

Undo(p) ==
  /\ proc[p].at = "undo"
  /\ Room
  /\ TornDown(proc[p].engine)
  /\ writes' \in TeardownOutcomes(p)
  /\ map' = NoEngine
  /\ initializing' = IF proc[p].op = "start" THEN FALSE ELSE initializing
  /\ Finish(p)
  /\ UNCHANGED <<row, missed, stopping, rec, loose>>

-----------------------------------------------------------------------------
(* stop(), forceKill() and delete()                                        *)

\* forceKill() is stop() with another teardown method of the engine: one "stop"
\* stands for both.
Stopper == {"stop", "delete"}

\* What follows the engine's teardown: the write of DISCONNECTED that the
\* call awaits, or the hook session:deleted.
AfterTeardown(p, w) ==
  IF proc[p].op = "delete"
  THEN /\ writes' = w
       /\ proc' = [proc EXCEPT ![p].at = "hook", ![p].engine = NoEngine]
  ELSE /\ writes' = Append(w, Write("disconnected", p))
       /\ proc' = [proc EXCEPT ![p].at = "closing", ![p].engine = NoEngine]

StopMark(p) ==
  /\ proc[p].op \in Stopper /\ proc[p].at = "found"
  /\ Room
  /\ stopping' = TRUE
  /\ rec' = NoReconnect
  /\ IF map = NoEngine
     THEN AfterTeardown(p, writes)
     ELSE /\ proc' = [proc EXCEPT ![p].at = "teardown", ![p].engine = map]
          /\ UNCHANGED writes
  /\ UNCHANGED <<row, missed, map, initializing, loose, engines>>

\* The teardown is over, one way or the other; whatever is registered by now
\* leaves the map.
StopTornDown(p) ==
  /\ proc[p].op \in Stopper /\ proc[p].at = "teardown"
  /\ Room
  /\ TornDown(proc[p].engine)
  /\ \E w \in TeardownOutcomes(p) : AfterTeardown(p, w)
  /\ map' = NoEngine
  /\ UNCHANGED <<row, missed, stopping, initializing, rec, loose>>

DeleteRemove(p) ==
  /\ proc[p].op = "delete" /\ proc[p].at = "hook"
  /\ Room
  /\ writes' = Append(writes, Write("absent", p))
  /\ Goto(p, "closing")
  /\ UNCHANGED <<row, missed, service, engines>>

\* The transaction fails: the finally block runs all the same.
DeleteFails(p) ==
  /\ proc[p].op = "delete" /\ proc[p].at = "hook"
  /\ stopping' = FALSE
  /\ Finish(p)
  /\ UNCHANGED <<db, map, initializing, rec, loose, engines>>

-----------------------------------------------------------------------------
(* The database applies the oldest update and its caller, if one awaits it, *)
(* goes on; delete() clears the stop mark when the row is gone.            *)

WriteApplied ==
  LET w == Head(writes) IN
  /\ writes # <<>>
  /\ writes' = Tail(writes) /\ missed' = FALSE
  /\ row' = IF row = "absent" THEN "absent" ELSE w.to
  /\ stopping' = IF w.to = "absent" THEN FALSE ELSE stopping
  /\ proc' = [p \in Proc |->
       IF p = w.by /\ proc[p].at = "marking" THEN [proc[p] EXCEPT !.at = "marked"]
       ELSE IF p = w.by /\ proc[p].at = "closing" THEN AtRest
       ELSE proc[p]]
  /\ UNCHANGED <<map, initializing, rec, loose, engines>>

\* The update of an initialization is rejected before its engine is initialized:
\* a start() throws and leaves the engine registered, a reconnect tries again.
MarkRefused(p, w) ==
  /\ proc[p].at = "marking" /\ proc[p].op \in WriteFails
  /\ Finish(p)
  /\ \/ /\ proc[p].op = "start"
        /\ initializing' = FALSE /\ writes' = w
        /\ UNCHANGED <<rec, loose>>
     \/ /\ proc[p].op = "reconnect"
        /\ ScheduleReconnect(rec, loose, w)
        /\ UNCHANGED initializing

\* The database rejects the oldest update.  One that nobody awaits is logged by
\* the handler of unhandled rejections (main.ts) and lost; a stop() throws with
\* its work done.  The transaction of a delete() is DeleteFails.
WriteRefused ==
  LET w == Head(writes) IN
  /\ writes # <<>> /\ w.to # "absent"
  /\ missed' = TRUE
  /\ \/ /\ w.by = NoProc /\ "callback" \in WriteFails
        /\ writes' = Tail(writes)
        /\ UNCHANGED <<initializing, rec, loose, proc>>
     \/ \E p \in Proc : w.by = p /\ MarkRefused(p, Tail(writes))
     \/ \E p \in Proc :
          /\ w.by = p /\ proc[p].at = "closing" /\ "stop" \in WriteFails /\ Finish(p)
          /\ writes' = Tail(writes)
          /\ UNCHANGED <<initializing, rec, loose>>
  /\ UNCHANGED <<row, map, stopping, engines>>

WriteEnds == WriteApplied \/ WriteRefused

-----------------------------------------------------------------------------
(* executeReconnect()                                                      *)

\* Mutant of TimerFires: a timer that was cleared fires all the same.
TimerFiresCleared(r, l) ==
  \/ rec.armed /\ r = [rec EXCEPT !.armed = FALSE] /\ l = loose
  \/ l = loose - 1 /\ r = rec

\* An armed timer fires, the current one or one of those left behind; r and l
\* are the reconnect state and the timers that remain.
TimerFires(r, l) ==
  \/ rec.armed /\ r = [rec EXCEPT !.armed = FALSE] /\ l = loose
  \/ loose > 0 /\ l = loose - 1 /\ r = rec

TimerIgnored ==
  /\ stopping
  /\ TimerFires(rec', loose')
  /\ UNCHANGED <<db, map, stopping, initializing, engines, proc>>

\* The old engine is torn down first.
ReconnectBegin(p) ==
  /\ proc[p] = AtRest
  /\ ~stopping /\ map # NoEngine
  /\ TimerFires(rec', loose')
  /\ proc' = [proc EXCEPT ![p] =
                [op |-> "reconnect", at |-> "teardown", engine |-> map]]
  /\ UNCHANGED <<db, map, stopping, initializing, engines>>

\* No engine is registered (create() threw before): straight to a new one.
ReconnectOpen(p) ==
  /\ proc[p] = AtRest
  /\ ~stopping /\ map = NoEngine
  /\ Room
  /\ TimerFires(rec', loose')
  /\ OpenEngine(p, "reconnect", writes, NoEngine)
  /\ UNCHANGED <<row, missed, stopping, initializing>>

\* create() throws again: the attempt is over before its first await.
ReconnectOpenThrows ==
  /\ ~stopping /\ map = NoEngine
  /\ Room
  /\ \/ /\ rec.armed
        /\ ScheduleReconnect([rec EXCEPT !.armed = FALSE], loose, writes)
     \/ /\ loose > 0
        /\ ScheduleReconnect(rec, loose - 1, writes)
  /\ UNCHANGED <<row, missed, map, stopping, initializing, engines, proc>>

\* destroy() resolved: whatever is registered leaves the map and in the same
\* stretch the new engine is registered.
ReconnectReplace(p) ==
  /\ proc[p].op = "reconnect" /\ proc[p].at = "teardown"
  /\ Room
  /\ OpenEngine(p, "reconnect", TeardownWrites(proc[p].engine), proc[p].engine)
  /\ UNCHANGED <<row, missed, stopping, initializing, rec, loose>>

\* destroy() resolved and create() throws: another attempt is scheduled.
ReconnectOpenFails(p) ==
  LET e == proc[p].engine IN
  /\ proc[p].op = "reconnect" /\ proc[p].at = "teardown"
  /\ Room
  /\ TornDown(e)
  /\ map' = NoEngine
  /\ ScheduleReconnect(rec, loose, TeardownWrites(e))
  /\ Finish(p)
  /\ UNCHANGED <<row, missed, stopping, initializing>>

\* destroy(), which is not guarded here, rejected in the first teardown or in
\* the undo: the engine stays registered and another attempt is scheduled.
ReconnectTeardownFails(p) ==
  /\ proc[p].op = "reconnect" /\ proc[p].at \in {"teardown", "undo"}
  /\ Room
  /\ "reconnect" \in TeardownFails
  /\ ScheduleReconnect(rec, loose, writes)
  /\ Finish(p)
  /\ UNCHANGED <<row, missed, map, stopping, initializing, engines>>

-----------------------------------------------------------------------------
(* An engine event: onQRCode, onReady, onDisconnected, onError and the      *)
(* onStateChanged that each comes with.  The callbacks do nothing unless   *)
(* the engine is the registered one (isLiveEngine).                        *)

EngineEvent(e, s) ==
  LET live == IsLive(e)
      written == Append(writes, Write(s, NoProc)) IN
  /\ Up(e)
  /\ s \in EngineMoves(st[e])
  /\ Room
  /\ st' = [st EXCEPT ![e] = s]
  /\ \/ ~live /\ UNCHANGED <<rec, loose, writes>>
     \/ /\ live /\ s = "disconnected"
        /\ TimerRoom
        /\ ScheduleReconnect(rec, loose, written)
     \/ /\ live /\ s # "disconnected"
        /\ rec' = IF s = "ready" THEN [rec EXCEPT !.attempts = 0] ELSE rec
        /\ writes' = written
        /\ UNCHANGED loose
  /\ UNCHANGED <<row, missed, map, stopping, initializing, phase, proc>>

\* Mutant of StartupReset: the statuses before READY are not reset.
StartupResetReady(r) == IF r = "ready" THEN "disconnected" ELSE r

\* onModuleInit(): no engine runs yet, so an active row becomes disconnected.
StartupReset(r) == IF r \in ActiveStatus THEN "disconnected" ELSE r

\* The process dies and comes back.
Restart ==
  /\ row' = StartupReset(row)
  /\ writes' = <<>>
  /\ missed' = FALSE
  /\ map' = NoEngine
  /\ stopping' = FALSE
  /\ initializing' = FALSE
  /\ rec' = NoReconnect
  /\ loose' = 0
  /\ phase' = [e \in Engine |-> "dead"]
  /\ st' = [e \in Engine |-> "disconnected"]
  /\ proc' = [p \in Proc |-> AtRest]

\* What runs once it has begun.
Start(p) == StartRefused(p) \/ StartReserve(p) \/ StartOpen(p) \/ StartOpenFails(p)
Initialize(p) ==
  InitBegin(p) \/ InitDone(p) \/ InitUndo(p) \/ InitFails(p) \/ Undo(p)
Stop(p) == StopMark(p) \/ StopTornDown(p) \/ DeleteRemove(p) \/ DeleteFails(p)
Reconnect(p) ==
  ReconnectReplace(p) \/ ReconnectOpenFails(p) \/ ReconnectTeardownFails(p)
Timer(p) == ReconnectBegin(p) \/ ReconnectOpen(p)

Next ==
  \/ \E p \in Proc :
       \/ \E o \in Stopper \cup {"start"} : Call(p, o)
       \/ Start(p) \/ Initialize(p) \/ Stop(p) \/ Timer(p) \/ Reconnect(p)
  \/ WriteEnds
  \/ TimerIgnored
  \/ ReconnectOpenThrows
  \/ \E e \in Engine : \E s \in EngineStatus : EngineEvent(e, s)
  \/ Restart

Spec == Init /\ [][Next]_vars

\* Promises that settle are awaited to their end, the database answers, and a
\* timer that is armed fires.  The fairness is strong because a step waits for
\* Room, and a timer for a free element of Proc, which come and go; both are
\* bounds of the model.  API calls, engine events and restarts are owed by
\* nobody.
Fairness ==
  /\ WF_vars(WriteEnds)
  /\ SF_vars(TimerIgnored)
  /\ \A p \in Proc : /\ SF_vars(Start(p)) /\ SF_vars(Initialize(p))
                     /\ SF_vars(Stop(p)) /\ SF_vars(Reconnect(p))
                     /\ SF_vars(Timer(p))

FairSpec == Spec /\ Fairness

-----------------------------------------------------------------------------
\* Types of the variables.
TypeOK ==
  /\ row \in SessionStatus \cup {"absent"}
  /\ writes \in Seq([to : SessionStatus \cup {"absent"}, by : Proc \cup {NoProc}])
  /\ missed \in BOOLEAN
  /\ map \in Engine \cup {NoEngine}
  /\ stopping \in BOOLEAN
  /\ initializing \in BOOLEAN
  /\ rec \in [on : BOOLEAN, attempts : Nat, armed : BOOLEAN]
  /\ loose \in Nat
  /\ phase \in [Engine -> Phase]
  /\ st \in [Engine -> EngineStatus]
  /\ proc \in [Proc -> [op : Op, at : At, engine : Engine \cup {NoEngine}]]

\* A start that has reserved the session and not released it.
Starting(p) ==
  /\ proc[p].op = "start"
  /\ proc[p].at \in {"hook", "marking", "marked", "initializing", "undo"}

\* The reservation in initializingSessions is held by exactly the one start()
\* in progress, and is held by nobody when none is: two near-simultaneous
\* starts never both pass, and a start that failed never wedges the session at
\* "already starting".
StartMutex ==
  /\ \A p, q \in Proc : Starting(p) /\ Starting(q) => p = q
  /\ initializing <=> \E p \in Proc : Starting(p)

Settled == writes = <<>>

\* The status an engine has reported through its callbacks; INITIALIZING is
\* written for it before initialize() is called.
Reported(e) == IF phase[e] = "new" THEN "initializing" ELSE st[e]

\* Whatever starts, stops, reconnects and engine events were interleaved, once
\* the writes are in and the last was not rejected, the status column shows
\* what the registered engine reports, or that the session was given up as
\* FAILED: no write of a superseded engine or of a finished stop() ends up on
\* top, and one that was rejected is made good by the next.
RowTracksEngine ==
  Settled /\ ~missed /\ map # NoEngine /\ row # "absent" =>
    row \in {"failed", Reported(map)}

Quiet == \A p \in Proc : proc[p] = AtRest

\* The stop mark wins every race: with the mark set and nothing in progress, no
\* engine is registered but one that does not run: its initialize() failed, or
\* was never called since the update before it was rejected.
StopHolds ==
  stopping /\ Quiet => map = NoEngine \/ phase[map] # "live"

\* A connected engine is registered or in the hands of a call that will tear
\* it down, unless its teardown was tried and failed: none is left that no stop()
\* can reach ("orphan an engine the lifecycle could never destroy").
NoOrphan ==
  \A e \in Engine : Up(e) /\ map # e => \E p \in Proc : proc[p].engine = e

\* With nothing in progress and no engine registered, the status column does
\* not show the session as starting, waiting for a scan or ready, unless the last
\* update was rejected.
NoPhantomRow ==
  Quiet /\ Settled /\ ~missed /\ map = NoEngine => row \notin ActiveStatus

\* Between two calls that did not overlap nothing is left over: no engine that
\* cannot be reached, and no status of an engine that is not there.
NothingLeftOver == NoOrphan /\ NoPhantomRow

\* A deleted session has no engine: delete() marks the session "so an in-flight
\* reconnect can't resurrect it".
DeletedIsDown == Quiet /\ row = "absent" => map = NoEngine

\* A session whose registered engine dropped is not "left silently stuck
\* DISCONNECTED": it is reconnected, given up as FAILED, stopped or deleted,
\* unless an update of its status is rejected.
DropIsResolved ==
  (rec.on /\ map # NoEngine /\ st[map] = "disconnected")
    ~> \/ stopping \/ ~rec.on \/ missed \/ row \in {"failed", "absent"}
       \/ map # NoEngine /\ st[map] # "disconnected"

=============================================================================
