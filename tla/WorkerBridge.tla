---------------------------- MODULE WorkerBridge ----------------------------
(***************************************************************************)
(* The bridge between the host and the worker of one sandboxed plugin, from *)
(* the making of its PluginWorkerHost on:                                  *)
(*   - plugin-worker-host.ts: calls correlated by an id, each with a timer; *)
(*   - protocol.ts and worker-thread-channel.ts: two queues and the exit;  *)
(*   - worker-bootstrap.ts and worker-capability.ts: the worker's handlers, *)
(*     which run concurrently, and the capabilities they ask the host for; *)
(*   - the calls plugin-loader.service.ts makes: enableSandboxed(), the     *)
(*     end of disablePlugin(), updatePluginConfig(), checkPluginHealth().  *)
(***************************************************************************)
EXTENDS Naturals, Sequences, FiniteSets

CONSTANTS
    MaxExtra,     \* bound: hooks and health checks
    MaxConfig,    \* bound: updates of the configuration
    MaxAsks       \* bound: capabilities the plugin asks for

ASSUME BridgeAssumption == MaxExtra \in Nat /\ MaxConfig \in Nat /\ MaxAsks \in Nat

VARIABLES
    brPlugin,       \* "off", or the call its enable or disable awaits, "enabled"
    brConfig,       \* plugin.config: its version
    brMissed,       \* an update came while the plugin was being enabled
    brCalls,        \* the calls so far, by id: kind and how each was settled
    brPending,      \* ids with an entry in a map of the host
    brDown, brUp, \* messages on their way to the worker, to the host
    brAlive,        \* the worker thread runs
    brRunning,      \* ids whose handler has begun in the worker
    brEnded,        \* ids whose handler has ended well
    brBase,         \* baseConfig of the worker
    brAsked, brDone   \* capabilities asked for, and carried out by the host

bridgeVars == <<brPlugin, brConfig, brMissed, brCalls, brPending, brDown, brUp, brAlive,
                brRunning, brEnded, brBase, brAsked, brDone>>
bridgeHost == <<brPlugin, brConfig, brMissed, brCalls, brPending>>
thread == <<brRunning, brEnded, brBase, brAsked>>

Lifecycle == {"onLoad", "onEnable", "onDisable"}
CallKind == {"load", "health", "hook"} \cup Lifecycle
Id == 1 .. (4 + MaxExtra)

BridgeTypeOK ==
    /\ brPlugin \in {"off", "load", "enabled"} \cup Lifecycle
    /\ brConfig \in 0 .. MaxConfig /\ brMissed \in BOOLEAN
    /\ brCalls \in Seq([kind : CallKind, is : {"open", "ok", "failed", "late"}])
    /\ brPending \subseteq DOMAIN brCalls /\ brRunning \subseteq DOMAIN brCalls /\ brEnded \subseteq DOMAIN brCalls
    /\ brAlive \in BOOLEAN /\ brBase \in 0 .. MaxConfig
    /\ brAsked \in 0 .. MaxAsks /\ brDone \in 0 .. brAsked

BridgeInit ==
    /\ brPlugin = "off" /\ brConfig = 0 /\ brMissed = FALSE /\ brCalls = <<>> /\ brPending = {}
    /\ brDown = <<>> /\ brUp = <<>> /\ brAlive = FALSE
    /\ brRunning = {} /\ brEnded = {} /\ brBase = 0 /\ brAsked = 0 /\ brDone = 0

-----------------------------------------------------------------------------
(* PluginWorkerHost                                                        *)

NextId == Len(brCalls) + 1
SettledAs(i, how) == [brCalls EXCEPT ![i].is = how]
Posted(kind, i) == IF brAlive THEN Append(brDown, [kind |-> kind, id |-> i, config |-> brConfig]) ELSE brDown

\* load(), runLifecycle(), dispatchHook(), healthCheck(), after the calls cs
\* have been settled: an entry, and a message the worker may not live to read.
PostCall(kind, cs, waits) ==
    /\ brCalls' = Append(cs, [kind |-> kind, is |-> "open"])
    /\ brPending' = waits \cup {NextId}
    /\ brDown' = Posted(kind, NextId)

\* A worker that is known to have exited: only a hook is sent all the same.
Dead == brPlugin # "off" /\ ~brAlive

\* enableSandboxed(): a worker, and the first call.
Enable ==
    /\ brPlugin = "off" /\ brCalls = <<>>
    /\ brPlugin' = "load" /\ brAlive' = TRUE
    /\ brCalls' = <<[kind |-> "load", is |-> "open"]>> /\ brPending' = {1}
    /\ brDown' = <<[kind |-> "load", id |-> 1, config |-> brConfig]>>
    /\ UNCHANGED <<brConfig, brMissed, brUp, thread, brDone>>

\* terminate(): the exit settles what is open, except the hooks, which wait for
\* their timers.
Exits(cs, waits) ==
    /\ brAlive' = FALSE /\ brDown' = <<>> /\ brUp' = <<>> /\ brRunning' = {}
    /\ brPending' = {i \in waits : cs[i].kind = "hook"}
    /\ brCalls' = [i \in DOMAIN cs |->
                   IF i \in waits /\ cs[i].kind # "hook" THEN [cs[i] EXCEPT !.is = "failed"] ELSE cs[i]]

Following == [load |-> "onLoad", onLoad |-> "onEnable"]

\* The caller of call i goes on, in the same turn: enableSandboxed() makes its
\* next call or tears the worker down; disablePlugin() terminates whatever
\* onDisable() did; the other callers keep the answer.
SettleCall(i, how) ==
    LET kind == brCalls[i].kind
        cs == SettledAs(i, how)
        waits == brPending \ {i}
    IN CASE kind # brPlugin -> brCalls' = cs /\ brPending' = waits /\ UNCHANGED <<brPlugin, brDown, brAlive, brRunning>>
         [] kind = brPlugin /\ kind \in {"load", "onLoad"} /\ how = "ok" ->
               brPlugin' = Following[kind] /\ PostCall(Following[kind], cs, waits) /\ UNCHANGED <<brAlive, brRunning>>
         [] kind = brPlugin /\ kind = "onEnable" /\ how = "ok" ->
               brPlugin' = "enabled" /\ brCalls' = cs /\ brPending' = waits /\ UNCHANGED <<brDown, brAlive, brRunning>>
         [] OTHER -> brPlugin' = "off" /\ Exits(cs, waits)

Emptied == IF brAlive' THEN Tail(brUp) ELSE <<>>

\* As a plausible change: a result settles whatever call is open.
AnyWaits(i) == brPending

\* The entry a result is for; after its timer there is none.
WaitsFor(i) == brPending \cap {i}

\* handleMessage() of a result; one that comes after its timer finds no entry.
Result ==
    /\ brUp # <<>> /\ Head(brUp).kind = "result"
    /\ LET i == Head(brUp).id
       IN IF WaitsFor(i) = {} THEN UNCHANGED <<brPlugin, brCalls, brPending, brDown, brAlive, brRunning>>
          ELSE \E w \in WaitsFor(i) : SettleCall(w, IF Head(brUp).ok THEN "ok" ELSE "failed")
    /\ brUp' = Emptied
    /\ UNCHANGED <<brConfig, brMissed, brEnded, brBase, brAsked, brDone>>

\* The timer of a call: the entry goes. A hook goes on without the plugin.
CallTimesOut(i) ==
    /\ i \in brPending
    /\ SettleCall(i, "late")
    /\ brUp' = IF brAlive' THEN brUp ELSE <<>>
    /\ UNCHANGED <<brConfig, brMissed, brEnded, brBase, brAsked, brDone>>

\* dispatchCapabilityVerb(): done, and answered, whether or not anyone listens.
Capability ==
    /\ brUp # <<>> /\ Head(brUp).kind = "cap"
    /\ brDone' = brDone + 1
    /\ brUp' = Tail(brUp)
    /\ UNCHANGED <<bridgeHost, brDown, brAlive, thread>>

\* handleExit(): the thread threw, or ran out of memory.
ThreadExits ==
    /\ brAlive
    /\ Exits(brCalls, brPending)
    /\ brPlugin' = IF brPlugin = "enabled" THEN brPlugin ELSE "off"
    /\ UNCHANGED <<brConfig, brMissed, brEnded, brBase, brAsked, brDone>>

-----------------------------------------------------------------------------
(* The callers.                                                            *)

Disable ==
    /\ brPlugin = "enabled"
    /\ IF brAlive THEN brPlugin' = "onDisable" /\ PostCall("onDisable", brCalls, brPending)
                ELSE brPlugin' = "off" /\ UNCHANGED <<brCalls, brPending, brDown>>
    /\ UNCHANGED <<brConfig, brMissed, brUp, brAlive, thread, brDone>>

\* A hook event, or GET /plugins/:id/health.
Ask(kind) ==
    /\ brPlugin # "off" /\ Cardinality({i \in DOMAIN brCalls : brCalls[i].kind \in {"hook", "health"}}) < MaxExtra
    /\ kind = "hook" => brPlugin # "load"
    /\ IF kind = "health" /\ Dead
       THEN brCalls' = Append(brCalls, [kind |-> kind, is |-> "failed"]) /\ UNCHANGED <<brPending, brDown>>
       ELSE PostCall(kind, brCalls, brPending)
    /\ UNCHANGED <<brPlugin, brConfig, brMissed, brUp, brAlive, thread, brDone>>

\* As a plausible change: the worker is told whatever the plugin's state.
SendsNever == FALSE

\* updatePluginConfig() tells the worker of an enabled plugin, which it still is
\* while onDisable() runs.
SendsConfig == brPlugin \in {"enabled", "onDisable"} /\ brAlive

UpdateConfig ==
    /\ brConfig < MaxConfig
    /\ brConfig' = brConfig + 1
    /\ brDown' = IF SendsConfig THEN Append(brDown, [kind |-> "config-change", id |-> 0, config |-> brConfig + 1])
                              ELSE brDown
    /\ brMissed' = (brMissed \/ brPlugin \in {"load", "onLoad", "onEnable"})
    /\ UNCHANGED <<brPlugin, brCalls, brPending, brUp, brAlive, thread, brDone>>

-----------------------------------------------------------------------------
(* The worker.                                                             *)

Reply(i, ok) == brUp' = Append(brUp, [kind |-> "result", id |-> i, ok |-> ok])

\* load: the module is required and constructed, and the configuration kept.
Loads ==
    /\ brAlive /\ brDown # <<>> /\ Head(brDown).kind = "load"
    /\ brDown' = Tail(brDown)
    /\ \/ brBase' = Head(brDown).config /\ brEnded' = brEnded \cup {Head(brDown).id} /\ Reply(Head(brDown).id, TRUE)
       \/ Reply(Head(brDown).id, FALSE) /\ UNCHANGED <<brBase, brEnded>>
    /\ UNCHANGED <<bridgeHost, brAlive, brRunning, brAsked, brDone>>

\* Any other call starts a handler that runs beside those already there.
Starts ==
    /\ brAlive /\ brDown # <<>> /\ Head(brDown).kind \in CallKind \ {"load"}
    /\ brDown' = Tail(brDown)
    /\ brRunning' = brRunning \cup {Head(brDown).id}
    /\ UNCHANGED <<bridgeHost, brUp, brAlive, brEnded, brBase, brAsked, brDone>>

ConfigChanges ==
    /\ brAlive /\ brDown # <<>> /\ Head(brDown).kind = "config-change"
    /\ brDown' = Tail(brDown)
    /\ brBase' = Head(brDown).config
    /\ UNCHANGED <<bridgeHost, brUp, brAlive, brRunning, brEnded, brAsked, brDone>>

\* A handler asks for a capability and waits for its cap-result.
AsksHost ==
    /\ brAlive /\ brRunning # {} /\ brAsked < MaxAsks
    /\ brAsked' = brAsked + 1
    /\ brUp' = Append(brUp, [kind |-> "cap", id |-> 0, ok |-> TRUE])
    /\ UNCHANGED <<bridgeHost, brDown, brAlive, brRunning, brEnded, brBase, brDone>>

Ends(i) ==
    /\ brAlive /\ i \in brRunning
    /\ brRunning' = brRunning \ {i}
    /\ \/ brEnded' = brEnded \cup {i} /\ Reply(i, TRUE)
       \/ Reply(i, FALSE) /\ UNCHANGED brEnded
    /\ UNCHANGED <<bridgeHost, brDown, brAlive, brBase, brAsked, brDone>>

BridgeNext ==
    \/ Enable \/ Disable \/ UpdateConfig \/ Ask("hook") \/ Ask("health")
    \/ Result \/ Capability \/ ThreadExits
    \/ Loads \/ Starts \/ ConfigChanges \/ AsksHost
    \/ \E i \in Id : CallTimesOut(i) \/ Ends(i)

BridgeSpec == BridgeInit /\ [][BridgeNext]_bridgeVars

-----------------------------------------------------------------------------
(* Properties.                                                             *)

\* Whatever is late, lost with the worker or answered out of order, a call is
\* answered with success only if its own handler ended well, a plugin is enabled
\* only if its onEnable did, and an exit leaves nobody waiting but hooks, which
\* have their timers.
AnswersAreTheirOwn ==
    /\ \A i \in DOMAIN brCalls : brCalls[i].is = "ok" => i \in brEnded
    /\ \A i \in DOMAIN brCalls : brCalls[i].is = "open" <=> i \in brPending
    /\ ~brAlive => \A i \in brPending : brCalls[i].kind = "hook"

\* Once nothing is on its way to the worker of an enabled plugin, it has the
\* configuration of the plugin, unless that was updated while it was enabled.
ConfigArrives == brPlugin = "enabled" /\ brAlive /\ brDown = <<>> /\ ~brMissed => brBase = brConfig
=============================================================================
