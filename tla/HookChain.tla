------------------------------ MODULE HookChain ------------------------------
(***************************************************************************)
(* HookManager.execute() for one event, message:sending, and the worker of *)
(* a sandboxed plugin that handles it through PluginWorkerHost.            *)
(*                                                                         *)
(* A chain walks over the array of registrations as it is at each step:    *)
(* register() changes that array in place, unregisterPlugin() replaces it. *)
(* The shim of the sandboxed plugin posts a job to the worker and awaits   *)
(* the answer or the timeout.  The worker's handler may send a message of  *)
(* its own, which fires the same event.                                    *)
(***************************************************************************)
EXTENDS Naturals, Sequences, FiniteSets

CONSTANTS
  Chain,    \* calls of execute()
  HookJob,  \* ids of hook messages to the worker
  Local,    \* handlers of built-in plugins
  Priority, \* of each handler
  MaxLists  \* bound: arrays the event has had

ASSUME HookAssumption == MaxLists \in Nat \ {0}

Shim == "shim"
Handler == Local \cup {Shim}

VARIABLES
  lists,       \* the arrays of registrations, the current one last
  chain,       \* the executions
  hookJob,     \* the hook messages, on the worker's side
  hookPending, \* hookPending: the ids that have a resolver and a timer
  worker       \* "up", "dead" (it exited) or "off" (disabled and terminated)

hookVars == <<lists, chain, hookJob, hookPending, worker>>

-----------------------------------------------------------------------------
\* on: the job that a chain awaits, or {}; cause: the job whose handler fired the
\* event, {} for a caller of the API; owed: the registrations when the chain
\* began; asked: the handlers it has called.
NoChain == [at |-> "idle", list |-> 1, pos |-> 1, on |-> {}, cause |-> {},
            owed |-> {}, asked |-> {}, stopped |-> FALSE]

JobAt == {"none", "sent", "running", "calling", "answered", "over"}

HookTypeOK ==
  /\ lists \in Seq(Seq(Handler)) /\ Len(lists) \in 1..MaxLists
  /\ chain \in [Chain -> [at : {"idle", "next", "local", "waiting", "done"},
                          list : 1..MaxLists, pos : Nat \ {0},
                          on : SUBSET HookJob, cause : SUBSET HookJob,
                          owed : SUBSET Handler, asked : SUBSET Handler,
                          stopped : BOOLEAN]]
  /\ hookJob \in [HookJob -> [at : JobAt, go : BOOLEAN]]
  /\ hookPending \subseteq HookJob
  /\ worker \in {"up", "dead", "off"}

Current == lists[Len(lists)]
Registered(list) == {list[i] : i \in DOMAIN list}

-----------------------------------------------------------------------------
(* register() and unregisterPlugin().                                       *)

\* push() and a stable sort of what was sorted: behind everything of the same or a
\* smaller priority.
Inserted(list, h) ==
  LET before == Cardinality({i \in DOMAIN list : Priority[list[i]] <= Priority[h]})
  IN SubSeq(list, 1, before) \o <<h>> \o SubSeq(list, before + 1, Len(list))

\* The array that running chains walk over changes under them.
Register(h) ==
  /\ h \notin Registered(Current)
  /\ h = Shim => worker = "up"
  /\ lists' = [lists EXCEPT ![Len(lists)] = Inserted(@, h)]
  /\ UNCHANGED <<chain, hookJob, hookPending, worker>>

\* filter(): a plugin has one handler for the event.
Without(list, h) ==
  LET at == CHOOSE i \in DOMAIN list : list[i] = h
  IN SubSeq(list, 1, at - 1) \o SubSeq(list, at + 1, Len(list))

\* Mutant of Unregistered: taken out of the array that chains walk over.
UnregisteredInPlace(h) == [lists EXCEPT ![Len(lists)] = Without(@, h)]

\* A new array for the event.
Unregistered(h) == Append(lists, Without(Current, h))

\* A worker that ends answers nothing more, except what it has posted already.
JobsEnded == [j \in HookJob |-> IF hookJob[j].at \in {"sent", "running", "calling"}
                        THEN [hookJob[j] EXCEPT !.at = "over"] ELSE hookJob[j]]

\* disablePlugin() takes the host from the map and the handlers from the array.
Unregister(h) ==
  /\ h \in Registered(Current)
  /\ Len(lists) < MaxLists
  /\ lists' = Unregistered(h)
  /\ worker' = IF h = Shim THEN "off" ELSE worker
  /\ hookJob' = IF h = Shim THEN JobsEnded ELSE hookJob
  /\ UNCHANGED <<chain, hookPending>>

-----------------------------------------------------------------------------
(* execute() and runHandlers().                                             *)

\* Whether a send of this cause runs with the event in its AsyncLocalStorage
\* store: a caller has no store, and the host serves a capability call in the
\* context of the worker's port, not in that of the dispatch.
InFlight(cause) == FALSE

Begun(cause) ==
  [NoChain EXCEPT !.at = IF Current = <<>> \/ InFlight(cause) THEN "done" ELSE "next",
                  !.list = Len(lists), !.cause = cause,
                  !.owed = IF InFlight(cause) THEN {} ELSE Registered(Current)]

\* A caller fires the event.
Execute(c) ==
  /\ chain[c].at = "idle"
  /\ chain' = [chain EXCEPT ![c] = Begun({})]
  /\ UNCHANGED <<lists, hookJob, hookPending, worker>>

\* The for loop has come to the end of the array as it is now.
Finish(c) ==
  /\ chain[c].at = "next"
  /\ chain[c].pos > Len(lists[chain[c].list])
  /\ chain' = [chain EXCEPT ![c].at = "done"]
  /\ UNCHANGED <<lists, hookJob, hookPending, worker>>

\* The handler whose turn it is in chain c is h.
Turn(c, h) ==
  /\ chain[c].at = "next"
  /\ chain[c].pos <= Len(lists[chain[c].list])
  /\ h = lists[chain[c].list][chain[c].pos]

Asked(ch, h, at, on) == [ch EXCEPT !.at = at, !.on = on, !.asked = @ \cup {h}]

\* A result: the chain goes on, or stops at continue = false.
Resumed(ch, go) ==
  [ch EXCEPT !.at = IF go THEN "next" ELSE "done", !.on = {}, !.pos = @ + 1,
             !.stopped = ~go]

\* A handler of a built-in plugin is called and awaited.  Were it to fire the
\* event itself, its store would have the event and the call would return at once.
AskLocal(c) ==
  /\ \E h \in Local : Turn(c, h) /\ chain' = [chain EXCEPT ![c] = Asked(@, h, "local", {})]
  /\ UNCHANGED <<lists, hookJob, hookPending, worker>>

\* It answers; an error counts as continue.
LocalAnswers(c) ==
  /\ chain[c].at = "local"
  /\ \E go \in BOOLEAN : chain' = [chain EXCEPT ![c] = Resumed(@, go)]
  /\ UNCHANGED <<lists, hookJob, hookPending, worker>>

\* The shim finds no host in the map, or the session is not one of the plugin's.
ShimPasses(c) ==
  /\ Turn(c, Shim)
  /\ chain' = [chain EXCEPT ![c] = Resumed(Asked(@, Shim, "next", {}), TRUE)]
  /\ UNCHANGED <<lists, hookJob, hookPending, worker>>

\* nextId.
Unused(j) == hookJob[j].at = "none" /\ \A k \in HookJob : k < j => hookJob[k].at # "none"

\* Mutant of Dispatch: the shim keeps the host it was made with.
DispatchCaptured(c, j) ==
  /\ Turn(c, Shim) /\ Unused(j)
  /\ chain' = [chain EXCEPT ![c] = Asked(@, Shim, "waiting", {j})]
  /\ hookPending' = hookPending \cup {j}
  /\ hookJob' = [hookJob EXCEPT ![j].at = "sent"]
  /\ UNCHANGED <<lists, worker>>

\* dispatchHook(): the host in the map gets the job; when its worker has exited
\* nobody reads it.
Dispatch(c, j) ==
  /\ Turn(c, Shim) /\ Unused(j)
  /\ worker # "off"
  /\ chain' = [chain EXCEPT ![c] = Asked(@, Shim, "waiting", {j})]
  /\ hookPending' = hookPending \cup {j}
  /\ hookJob' = [hookJob EXCEPT ![j].at = IF worker = "up" THEN "sent" ELSE "over"]
  /\ UNCHANGED <<lists, worker>>

\* The promise of job j resolves: the chain that awaits it goes on.
Settle(j, go) ==
  /\ j \in hookPending
  /\ hookPending' = hookPending \ {j}
  /\ chain' = [c \in Chain |-> IF chain[c].on = {j} THEN Resumed(chain[c], go) ELSE chain[c]]

\* 'hook-result' in handleMessage(): one that comes after the timeout is dropped.
HostReceives(j) ==
  /\ hookJob[j].at = "answered"
  /\ hookJob' = [hookJob EXCEPT ![j].at = "over"]
  /\ IF j \in hookPending THEN Settle(j, hookJob[j].go) ELSE UNCHANGED <<hookPending, chain>>
  /\ UNCHANGED <<lists, worker>>

\* The timeout of the dispatch: continue.
TimesOut(j) ==
  /\ Settle(j, TRUE)
  /\ UNCHANGED <<lists, hookJob, worker>>

-----------------------------------------------------------------------------
(* The worker.                                                              *)

\* handleHook() in the worker: handlers of several jobs run side by side.
WorkerRuns(j) ==
  /\ hookJob[j].at = "sent"
  /\ hookJob' = [hookJob EXCEPT ![j].at = "running"]
  /\ UNCHANGED <<lists, chain, hookPending, worker>>

WorkerAnswers(j) ==
  /\ hookJob[j].at = "running"
  /\ \E go \in BOOLEAN : hookJob' = [hookJob EXCEPT ![j] = [at |-> "answered", go |-> go]]
  /\ UNCHANGED <<lists, chain, hookPending, worker>>

\* ctx.messages.sendText() in the plugin's handler: the host sends a message,
\* for which the event fires.
WorkerSends(j, c) ==
  /\ hookJob[j].at = "running" /\ chain[c].at = "idle"
  /\ hookJob' = [hookJob EXCEPT ![j].at = "calling"]
  /\ chain' = [chain EXCEPT ![c] = Begun({j})]
  /\ UNCHANGED <<lists, hookPending, worker>>

\* 'cap-result': the send is over, the handler goes on.
CapResult(j) ==
  /\ hookJob[j].at = "calling"
  /\ \A c \in Chain : chain[c].cause = {j} => chain[c].at = "done"
  /\ hookJob' = [hookJob EXCEPT ![j].at = "running"]
  /\ UNCHANGED <<lists, chain, hookPending, worker>>

\* Mutant of AfterExit: the outstanding jobs are forgotten, not settled.
AfterExitForgotten == {}

\* hookPending after handleExit(), which leaves it alone.
AfterExit == hookPending

\* The worker exits by itself: a crash, or out of memory.
WorkerExits ==
  /\ worker = "up"
  /\ worker' = "dead"
  /\ hookJob' = JobsEnded
  /\ hookPending' = AfterExit
  /\ UNCHANGED <<lists, chain>>

-----------------------------------------------------------------------------
HookInit ==
  /\ lists = << <<>> >>
  /\ chain = [c \in Chain |-> NoChain]
  /\ hookJob = [j \in HookJob |-> [at |-> "none", go |-> TRUE]]
  /\ hookPending = {}
  /\ worker = "up"

HookNext ==
  \/ \E h \in Handler : Register(h) \/ Unregister(h)
  \/ \E c \in Chain : \/ Execute(c) \/ Finish(c)
                      \/ AskLocal(c) \/ LocalAnswers(c)
                      \/ ShimPasses(c) \/ \E j \in HookJob : Dispatch(c, j)
  \/ \E j \in HookJob : \/ HostReceives(j) \/ TimesOut(j)
                    \/ WorkerRuns(j) \/ WorkerAnswers(j) \/ CapResult(j)
                    \/ \E c \in Chain : WorkerSends(j, c)
  \/ WorkerExits

HookSpec == HookInit /\ [][HookNext]_hookVars

-----------------------------------------------------------------------------
\* Whatever is registered and unregistered while a chain runs, it skips none of
\* the handlers it began with, unless one of them stopped it.
NobodySkipped ==
  \A c \in Chain : chain[c].at = "done" /\ ~chain[c].stopped => chain[c].owed \subseteq chain[c].asked

\* A chain that awaits a worker has a timer of its own running, whether the
\* worker lives, is dead or was disabled: no plugin can stall the chain.
NeverStalled ==
  \A c \in Chain : chain[c].at = "waiting" =>
    \E j \in hookPending : /\ chain[c].on = {j}
                       /\ \A d \in Chain \ {c} : chain[d].on # {j}

\* HookManager.execute(): a chain that ends has called every handler that was
\* registered when it began, unless one said stop, and a chain that waits has a
\* resolver of its own in the worker's host.
HooksRun == NobodySkipped /\ NeverStalled

\* A disabled plugin is handed no event, not even by a chain that still walks
\* over the array from before.
LeftAlone ==
  \A j \in HookJob : worker = "off" /\ hookJob[j].at = "none" => hookJob'[j].at = "none"
=============================================================================
