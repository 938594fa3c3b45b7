---------------------------- MODULE PluginLoader ----------------------------
(***************************************************************************)
(* One plugin in PluginLoaderService and PluginsService: the calls         *)
(* enable, disable, uninstall, update, install and the settings, with the  *)
(* worker host that runs it, its handlers in the HookManager, its registry *)
(* entry and its two directories plugins/<id> and plugins/<id>.bak.        *)
(*                                                                         *)
(* Every map of the loader is keyed by plugin id.  An action is one        *)
(* stretch of JavaScript between two awaits; file operations are           *)
(* synchronous, so the swap of an update is one stretch, which only the    *)
(* death of the process can cut.                                           *)
(***************************************************************************)
EXTENDS Naturals, FiniteSets

CONSTANTS
  Proc,        \* API calls in progress at the same time
  Obj,         \* PluginInstance objects; one nothing refers to is used again
  Host,        \* PluginWorkerHost objects, likewise
  NoObj, NoHost,
  Setting,     \* values of config, and of the activation and session settings
  Default,     \* the one a first installation gives
  Deaths,      \* the ways the process dies: "swap" (during an update), "install", "kill"
  MaxHooks     \* bound: handlers registered at once

ASSUME PluginAssumption ==
  /\ NoObj \notin Obj /\ NoHost \notin Host
  /\ Default \in Setting
  /\ "none" \notin Setting
  /\ MaxHooks \in Nat
  /\ Proc # {}

\* JavaScript always has another object to allocate: whatever the map and the
\* other calls hold, there is one that none of them holds.
ASSUME SpareAssumption ==
  \A p \in Proc :
    /\ \A held \in [Proc -> Obj \cup {NoObj}], a \in Obj \cup {NoObj} :
         \E o \in Obj : a # o /\ \A q \in Proc \ {p} : held[q] # o
    /\ \A held \in [Proc -> Host \cup {NoHost}], a \in Host \cup {NoHost} :
         \E h \in Host : a # h /\ \A q \in Proc \ {p} : held[q] # h

VARIABLES
  builtIn,   \* the plugin is a built-in: it runs in process and has no files
  loader,    \* the service's maps, the workers, the registry and the directories
  proc,      \* the calls in progress
  wanted,    \* history: the config the operator set last, "none" when not installed
  strained,  \* history: calls overlapped
  torn       \* history: what became of a version that the death of a swap cut, see Torn

vars == <<builtIn, loader, proc, wanted, strained, torn>>

Status == {"installed", "enabled", "disabled", "error"}

\* What a directory holds: nothing, a cut version without manifest.json or
\* without its main file, or a whole version.
Content == {"none", "nomanifest", "nomain", "old", "new"}
Whole == {"old", "new"}
Readable == Whole \cup {"nomain"}

\* "cut": the process died in a swap and left no whole version in the directory;
\* "reused": the last update began with none there.
Torn == {"no", "cut", "reused"}

At == {"rest", "starting", "failing", "stopping", "terminating"}
Then == {"call", "uninstall", "update", "rollback", "restore", "shutdown"}

AtRest == [at |-> "rest", then |-> "call", obj |-> NoObj, host |-> NoHost, was |-> FALSE]

\* up: the worker thread runs; sub: it has subscribed to the event; good: its
\* main file was there; config: what its ctx.config returns outside a hook.
Dead == [up |-> FALSE, sub |-> FALSE, good |-> FALSE, config |-> Default]

NewObj == [status |-> "installed", config |-> Default, scope |-> Default]

NoEntry == [on |-> FALSE, status |-> "installed", config |-> Default, scope |-> Default]

World == [plug : Obj \cup {NoObj},
          obj : [Obj -> [status : Status, config : Setting, scope : Setting]],
          enabling : BOOLEAN,
          sandbox : Host \cup {NoHost},
          host : [Host -> [up : BOOLEAN, sub : BOOLEAN, good : BOOLEAN, config : Setting]],
          hooks : 0..MaxHooks,
          entry : [on : BOOLEAN, status : Status, config : Setting, scope : Setting],
          dir : Content,
          bak : Content]

CallState == [at : At, then : Then, obj : Obj \cup {NoObj}, host : Host \cup {NoHost},
              was : BOOLEAN]

TypeOK ==
  /\ builtIn \in BOOLEAN
  /\ loader \in World
  /\ proc \in [Proc -> CallState]
  /\ \A p \in Proc : proc[p].at # "rest" =>
       proc[p].obj # NoObj /\ (proc[p].host = NoHost <=> builtIn)
  /\ wanted \in Setting \cup {"none"}
  /\ strained \in BOOLEAN
  /\ torn \in Torn

-----------------------------------------------------------------------------
(* Helpers: a world w is a value of `loader`, a call c a value of proc[p];  *)
(* a result is a pair of both.                                              *)

Result(w, c) == [world |-> w, call |-> c]
Return(w) == Result(w, AtRest)

\* An object or a host that neither the maps nor another call holds.  A worker
\* that nothing refers to may still run: it is forgotten when its name is used again.
SpareObj(w, p) ==
  CHOOSE o \in Obj : w.plug # o /\ \A q \in Proc \ {p} : proc[q].obj # o
SpareHost(w, p) ==
  CHOOSE h \in Host : w.sandbox # h /\ \A q \in Proc \ {p} : proc[q].host # h

\* setPluginStatus(): updates an existing entry only.
SetPluginStatus(w, s) == IF w.entry.on THEN [w EXCEPT !.entry.status = s] ELSE w

Settle(w, o, s) == SetPluginStatus([w EXCEPT !.obj[o].status = s], s)

\* Mutant of LoadPlugin: the new entry replaces the old one, settings and all.
LoadPluginReset(w, p) ==
  LET o == SpareObj(w, p) IN
  [w EXCEPT !.plug = o,
            !.obj[o] = [status |-> "installed", config |-> w.entry.config,
                        scope |-> IF builtIn THEN Default ELSE w.entry.scope],
            !.entry = [NoEntry EXCEPT !.on = TRUE]]

\* loadPlugin() / registerBuiltInPlugin() with ensureRegistryEntry(): a new
\* object takes the settings of the registry, whose entry is kept or created;
\* that of a built-in takes the config only, not the session settings.
LoadPlugin(w, p) ==
  LET o == SpareObj(w, p)
      settings == IF w.entry.on THEN w.entry ELSE NoEntry
  IN [w EXCEPT !.plug = o,
               !.obj[o] = [status |-> "installed", config |-> settings.config,
                           scope |-> IF builtIn THEN Default ELSE settings.scope],
               !.entry = [settings EXCEPT !.on = TRUE, !.status = "installed"]]

\* loadPlugin() throws when there is no manifest or the id is loaded already.
CanLoad(w, content) == content \in Readable /\ w.plug = NoObj

-----------------------------------------------------------------------------
(* enablePlugin() up to its first await.                                    *)

\* Mutant of EnableRefused: no lock.
EnableRefusedUnlocked(w) == w.plug = NoObj

\* It throws before any await: no such plugin, or an enable is in flight.
EnableRefused(w) == w.plug = NoObj \/ w.enabling

EnableBegins(w, p, then, was) ==
  LET h == IF builtIn THEN NoHost ELSE SpareHost(w, p)
      c == [at |-> "starting", then |-> then, obj |-> w.plug, host |-> h, was |-> was]
      v == [w EXCEPT !.enabling = TRUE, !.sandbox = h]
  IN Result(IF builtIn THEN v
            ELSE [v EXCEPT !.host[h] = [up |-> TRUE, sub |-> FALSE, good |-> w.dir \in Whole,
                                        config |-> w.obj[w.plug].config]], c)

-----------------------------------------------------------------------------
(* updatePackage(): the swap, the rollback and the restore.                 *)

\* The catch block after the unload: put the backup in place and load it again;
\* with no backup the rename throws.
Restore(w, p, was) ==
  IF w.bak = "none" THEN Return([w EXCEPT !.dir = "none"])
  ELSE LET back == [w EXCEPT !.dir = w.bak, !.bak = "none"]
           loaded == LoadPlugin(back, p)
       IN IF ~CanLoad(back, back.dir) THEN Return(back)
          ELSE IF was /\ ~EnableRefused(loaded)
               THEN EnableBegins(loaded, p, "restore", was)
               ELSE Return(loaded)

\* Mutant of Disabled: the handlers stay registered.
DisabledDeaf(w, o) == Settle(w, o, "disabled")

\* The end of disablePlugin(): unregisterPlugin() and the new status.
Disabled(w, o) == Settle([w EXCEPT !.hooks = 0], o, "disabled")

\* Mutant of Stoppable: the worker is taken to be there.
StoppableAlways(w) == TRUE

\* An enabled plugin whose worker is not in the map any more has nothing to stop.
Stoppable(w) == builtIn \/ w.sandbox # NoHost

\* disablePlugin() up to its first await.
DisableBegins(w, then, was) ==
  Result(w, [at |-> "stopping", then |-> then, obj |-> w.plug, host |-> w.sandbox,
             was |-> was])

\* The catch block: what the failed update left in the map goes first.
Rollback(w, p, was) ==
  LET enabled == w.plug # NoObj /\ w.obj[w.plug].status = "enabled" IN
  IF enabled /\ Stoppable(w) THEN DisableBegins(w, "rollback", was)
  ELSE Restore([(IF enabled THEN Disabled(w, w.plug) ELSE w) EXCEPT !.plug = NoObj], p, was)

\* Mutant of Moved: the new version is written over the old one.
MovedNot(w) == w

\* The old directory becomes the backup, an older backup is removed.
Moved(w) == [w EXCEPT !.bak = w.dir, !.dir = "none"]

\* The stretch after the unload: move the old version away, write the new one,
\* load it and enable it again.  A write may fail half way.
Swap(w, p, was) ==
  IF w.dir = "none" THEN {Return([w EXCEPT !.bak = "none"])}
  ELSE LET written == [Moved(w) EXCEPT !.dir = "new"]
           loaded == LoadPlugin(written, p)
       IN {Rollback([Moved(w) EXCEPT !.dir = d], p, was) : d \in Content \ Whole} \cup
          {IF ~CanLoad(written, "new") THEN Rollback(written, p, was)
           ELSE IF ~was THEN Return([loaded EXCEPT !.bak = "none"])
           ELSE IF EnableRefused(loaded) THEN Rollback(loaded, p, was)
           ELSE EnableBegins(loaded, p, "update", was)}

-----------------------------------------------------------------------------
(* What follows an unload, a disable or an enable.                          *)

\* unloadPlugin() deletes the id from the map, whatever object it now has.
AfterUnload(w, p, then, was) ==
  CASE then = "uninstall" -> {Return([w EXCEPT !.plug = NoObj, !.entry = NoEntry,
                                               !.dir = "none"])}
    [] then = "update"    -> Swap([w EXCEPT !.plug = NoObj], p, was)
    [] then = "rollback"  -> {Restore([w EXCEPT !.plug = NoObj], p, was)}

\* Every call that unloads: it disables first when the plugin is enabled.
Unload(w, p, then, was) ==
  IF w.obj[w.plug].status # "enabled" THEN AfterUnload(w, p, then, was)
  ELSE IF Stoppable(w) THEN {DisableBegins(w, then, was)}
  ELSE AfterUnload(Disabled(w, w.plug), p, then, was)

\* Boot: directories are read in order, <id> before <id>.bak, and the first
\* manifest found is loaded.  Nothing is enabled.
Boot(w, p) ==
  LET fresh == [w EXCEPT !.plug = NoObj, !.enabling = FALSE, !.sandbox = NoHost,
                         !.host = [h \in Host |-> Dead], !.hooks = 0,
                         !.obj = [o \in Obj |-> NewObj]]
  IN IF builtIn \/ w.dir \in Readable \/ w.bak \in Readable
     THEN LoadPlugin(fresh, p) ELSE fresh

AfterDisable(w, p, c) ==
  IF c.then = "call" THEN {Return(w)} ELSE AfterUnload(w, p, c.then, c.was)

AfterEnable(w, p, c, ok) ==
  IF c.then # "update" THEN Return(w)
  ELSE IF ok THEN Return([w EXCEPT !.bak = "none"])
  ELSE Rollback(w, p, c.was)

-----------------------------------------------------------------------------
\* What nothing refers to any more is forgotten, except a worker that still runs.
Tidy(w, calls) ==
  [w EXCEPT !.obj = [o \in Obj |-> IF o = w.plug \/ \E p \in Proc : calls[p].obj = o
                                   THEN @[o] ELSE NewObj],
            !.host = [h \in Host |-> IF @[h].up THEN @[h] ELSE Dead]]

Become(p, r) ==
  /\ proc' = [proc EXCEPT ![p] = r.call]
  /\ loader' = Tidy(r.world, proc')

\* The process ends and starts again.
Reboots(w) ==
  /\ loader' = Boot(w, CHOOSE p \in Proc : TRUE)
  /\ proc' = [q \in Proc |-> AtRest]

Busy == {p \in Proc : proc[p].at # "rest"}

\* A promise that a dead worker has already settled is served before any
\* other event: requests, messages and timers wait for it.
Settled(p) == proc[p].host # NoHost /\ ~loader.host[proc[p].host].up
Quiet == \A p \in Proc : proc[p].at # "rest" => ~Settled(p)

Known(s) == loader.plug # NoObj /\ loader.obj[loader.plug].status \in s

\* A call arrives: it may find another one in progress.
Arrives(p) ==
  /\ proc[p].at = "rest"
  /\ Quiet
  /\ strained' = (strained \/ Busy # {})
  /\ UNCHANGED builtIn

Enable(p) ==
  /\ Arrives(p)
  /\ Known(Status \ {"enabled"})
  /\ ~EnableRefused(loader)
  /\ Become(p, EnableBegins(loader, p, "call", FALSE))
  /\ UNCHANGED <<wanted, torn>>

Disable(p) ==
  /\ Arrives(p)
  /\ Known({"enabled"})
  /\ Become(p, IF Stoppable(loader) THEN DisableBegins(loader, "call", FALSE)
               ELSE Return(Disabled(loader, loader.plug)))
  /\ UNCHANGED <<wanted, torn>>

\* The operator's last word on config, once the call is over.
Wanted(r, then) ==
  IF then = "uninstall" /\ r.call.at = "rest" THEN "none" ELSE wanted

Uninstall(p) ==
  /\ Arrives(p)
  /\ ~builtIn /\ Known(Status)
  /\ \E r \in Unload(loader, p, "uninstall", FALSE) :
       Become(p, r) /\ wanted' = Wanted(r, "uninstall")
  /\ UNCHANGED torn

Update(p) ==
  /\ Arrives(p)
  /\ ~builtIn /\ Known(Status)
  /\ \E r \in Unload(loader, p, "update", Known({"enabled"})) : Become(p, r)
  /\ torn' = IF loader.dir \in Whole THEN "no" ELSE "reused"
  /\ UNCHANGED wanted

\* install(): synchronous; a failure removes the directory again.  A registry
\* entry that outlived its plugin lends its settings.
Install(p) ==
  /\ Arrives(p)
  /\ ~builtIn /\ loader.plug = NoObj /\ loader.dir = "none"
  /\ Become(p, Return(LoadPlugin([loader EXCEPT !.dir = "old"], p)))
  /\ wanted' = IF wanted # "none" THEN wanted
               ELSE IF loader.entry.on THEN loader.entry.config ELSE Default
  /\ torn' = "no"

\* Mutant of SetConfig: the running plugin is not told.
SetConfigQuietly(p, s) ==
  /\ Arrives(p)
  /\ Known(Status)
  /\ loader' = [loader EXCEPT !.obj[loader.plug].config = s,
                              !.entry.config = IF loader.entry.on THEN s ELSE @]
  /\ wanted' = IF wanted = "none" THEN wanted ELSE s
  /\ UNCHANGED <<proc, torn>>

\* updatePluginConfig(): memory, registry, and the live worker of an enabled plugin.
SetConfig(p, s) ==
  /\ Arrives(p)
  /\ Known(Status)
  /\ LET h == loader.sandbox
         told == [loader EXCEPT !.obj[loader.plug].config = s,
                                !.entry.config = IF loader.entry.on THEN s ELSE @]
     IN loader' = IF Known({"enabled"}) /\ h # NoHost /\ loader.host[h].up
                  THEN [told EXCEPT !.host[h].config = s] ELSE told
  /\ wanted' = IF wanted = "none" THEN wanted ELSE s
  /\ UNCHANGED <<proc, torn>>

\* setPluginSessions() and setPluginSessionConfig(): the gate reads them live.
SetScope(p, s) ==
  /\ Arrives(p)
  /\ Known(Status)
  /\ loader' = [loader EXCEPT !.obj[loader.plug].scope = s,
                              !.entry.scope = IF loader.entry.on THEN s ELSE @]
  /\ UNCHANGED <<proc, wanted, torn>>

\* onModuleDestroy(): every enabled plugin is disabled, then the process ends.
Shutdown(p) ==
  /\ Arrives(p)
  /\ Known({"enabled"}) /\ Stoppable(loader)
  /\ Become(p, DisableBegins(loader, "shutdown", FALSE))
  /\ UNCHANGED <<wanted, torn>>

-----------------------------------------------------------------------------
(* The awaits settle.                                                       *)

InProcess(c) == c.host = NoHost

\* Subscriptions an in-process onEnable() makes before it returns.
Registering(w) == {w.hooks} \cup ({w.hooks + 1} \cap 0..MaxHooks)

\* onLoad() and onEnable() resolved: the object held since the call is enabled.
Started(p) ==
  LET c == proc[p] IN
  /\ c.at = "starting"
  /\ Quiet
  /\ ~InProcess(c) => loader.host[c.host].good
  /\ \E n \in IF InProcess(c) THEN Registering(loader) ELSE {loader.hooks} :
       Become(p, AfterEnable([Settle(loader, c.obj, "enabled") EXCEPT
                                !.enabling = FALSE, !.hooks = n], p, c, TRUE))
  /\ UNCHANGED <<builtIn, wanted, strained, torn>>

\* Mutant of EnableFailed: the lock is released on success only.
EnableFailedLocked(w, p, c) ==
  AfterEnable(Settle(w, c.obj, "error"), p, c, FALSE)

EnableFailed(w, p, c) ==
  AfterEnable([Settle(w, c.obj, "error") EXCEPT !.enabling = FALSE], p, c, FALSE)

\* load(), onLoad() or onEnable() rejected: an error, the 30 s timeout, or the
\* worker's exit.  The map entry of the id goes, then the worker.
StartFails(p) ==
  LET c == proc[p] IN
  /\ c.at = "starting"
  /\ Settled(p) \/ Quiet
  /\ IF InProcess(c)
     THEN \E n \in Registering(loader) :
            Become(p, EnableFailed([loader EXCEPT !.hooks = n], p, c))
     ELSE Become(p, Result([loader EXCEPT !.sandbox = NoHost], [c EXCEPT !.at = "failing"]))
  /\ UNCHANGED <<builtIn, wanted, strained, torn>>

\* terminate() after a failed start.
StartTornDown(p) ==
  LET c == proc[p] IN
  /\ c.at = "failing"
  /\ Settled(p) \/ Quiet
  /\ Become(p, EnableFailed([loader EXCEPT !.host[c.host] = Dead], p, c))
  /\ UNCHANGED <<builtIn, wanted, strained, torn>>

\* onDisable() settled: its failure is only logged for a worker, while an
\* in-process plugin becomes ERROR, which is not persisted.
Stopped(p) ==
  LET c == proc[p] IN
  /\ c.at = "stopping"
  /\ Settled(p) \/ Quiet
  /\ IF ~InProcess(c)
     THEN Become(p, Result(loader, [c EXCEPT !.at = "terminating"]))
     ELSE \E w \in {Disabled(loader, c.obj), [loader EXCEPT !.obj[c.obj].status = "error"]} :
            IF c.then = "shutdown" THEN Reboots(w)
            ELSE \E r \in AfterDisable(w, p, c) : Become(p, r)
  /\ UNCHANGED <<builtIn, wanted, strained, torn>>

\* Mutant of Terminated: a hung onDisable() leaves the worker running.
TerminatedNot(p) ==
  LET c == proc[p]
      w == Disabled([loader EXCEPT !.sandbox = NoHost], c.obj) IN
  /\ c.at = "terminating"
  /\ IF c.then = "shutdown" THEN Reboots(w) /\ UNCHANGED wanted
     ELSE \E r \in AfterDisable(w, p, c) : Become(p, r) /\ wanted' = Wanted(r, c.then)
  /\ UNCHANGED <<builtIn, strained, torn>>

\* terminate() resolved: sandboxHosts.delete(id), whatever host it now names.
Terminated(p) ==
  LET c == proc[p]
      w == Disabled([loader EXCEPT !.host[c.host] = Dead, !.sandbox = NoHost], c.obj) IN
  /\ c.at = "terminating"
  /\ Settled(p) \/ Quiet
  /\ IF c.then = "shutdown" THEN Reboots(w) /\ UNCHANGED wanted
     ELSE \E r \in AfterDisable(w, p, c) : Become(p, r) /\ wanted' = Wanted(r, c.then)
  /\ UNCHANGED <<builtIn, strained, torn>>

-----------------------------------------------------------------------------
(* The worker.                                                              *)

\* The plugin registers its first handler of the event: a shim joins the HookManager.
Subscribe(h) ==
  /\ Quiet
  /\ loader.host[h].up /\ loader.host[h].good /\ ~loader.host[h].sub
  /\ loader.hooks < MaxHooks
  /\ loader' = [loader EXCEPT !.host[h].sub = TRUE, !.hooks = @ + 1]
  /\ UNCHANGED <<builtIn, proc, wanted, strained, torn>>

\* The worker exits by itself: an error, or out of memory.
WorkerExits(h) ==
  /\ Quiet
  /\ loader.host[h].up
  /\ loader' = [loader EXCEPT !.host[h] = Dead]
  /\ UNCHANGED <<builtIn, proc, wanted, strained, torn>>

-----------------------------------------------------------------------------
(* The process dies and starts again.                                       *)

Killed == "kill" \in Deaths /\ Reboots(loader) /\ UNCHANGED <<builtIn, wanted, strained, torn>>

\* The swap of p comes next: of an update that waits for the worker's end, or of
\* one that arrives for a plugin that is not enabled.
Swaps(p) ==
  \/ proc[p].at = "terminating" /\ proc[p].then = "update"
  \/ proc[p].at = "rest" /\ Quiet /\ ~builtIn /\ Known(Status \ {"enabled"})

\* In the middle of the swap: moved, and written in part or wholly.
DiesInSwap(p) ==
  /\ "swap" \in Deaths
  /\ Swaps(p) /\ loader.dir # "none"
  /\ \E d \in Content \ {"old"} :
       /\ Reboots([Moved(loader) EXCEPT !.dir = d])
       /\ torn' = IF loader.dir \notin Whole THEN "reused"
                 ELSE IF d \in Whole THEN "no" ELSE "cut"
  /\ strained' = (strained \/ Busy \ {p} # {})
  /\ UNCHANGED <<builtIn, wanted>>

\* In the middle of an installation.
DiesInInstall ==
  /\ "install" \in Deaths
  /\ ~builtIn /\ loader.plug = NoObj /\ loader.dir = "none"
  /\ \E d \in Content \ (Whole \cup {"none"}) : Reboots([loader EXCEPT !.dir = d])
  /\ UNCHANGED <<builtIn, wanted, strained, torn>>

-----------------------------------------------------------------------------
Init ==
  /\ builtIn \in BOOLEAN
  /\ proc = [p \in Proc |-> AtRest]
  /\ loader = Boot([plug |-> NoObj,
                    obj |-> [o \in Obj |-> NewObj],
                    enabling |-> FALSE,
                    sandbox |-> NoHost,
                    host |-> [h \in Host |-> Dead],
                    hooks |-> 0,
                    entry |-> NoEntry,
                    dir |-> "none",
                    bak |-> "none"], CHOOSE p \in Proc : TRUE)
  /\ wanted = IF builtIn THEN Default ELSE "none"
  /\ strained = FALSE
  /\ torn = "no"

Call(p) ==
  \/ Enable(p)
  \/ Disable(p)
  \/ Uninstall(p)
  \/ Update(p)
  \/ Install(p)
  \/ \E s \in Setting : SetConfig(p, s)
  \/ \E s \in Setting : SetScope(p, s)
  \/ Shutdown(p)

Step(p) ==
  \/ Started(p)
  \/ StartFails(p)
  \/ StartTornDown(p)
  \/ Stopped(p)
  \/ Terminated(p)

Next ==
  \/ \E p \in Proc : Call(p)
  \/ \E p \in Proc : Step(p)
  \/ \E h \in Host : Subscribe(h)
  \/ \E h \in Host : WorkerExits(h)
  \/ Killed
  \/ \E p \in Proc : DiesInSwap(p)
  \/ DiesInInstall

Spec == Init /\ [][Next]_vars

-----------------------------------------------------------------------------
(* Properties.                                                              *)

Enabling == {p \in Proc : proc[p].at \in {"starting", "failing"}}

\* One enable at a time runs the plugin's lifecycle, whatever is unloaded,
\* loaded, updated or killed meanwhile, and the lock is held exactly then.
EnableLock ==
  /\ Cardinality(Enabling) <= 1
  /\ loader.enabling <=> Enabling # {}

\* What the operator saved last is what the plugin's object and its registry
\* entry hold: through enable, update, rollback and restart.  The session settings
\* of the entry are those of the object too, but for a built-in: a restart leaves
\* its object without them until they are set again.
ConfigAgrees ==
  loader.plug # NoObj =>
    LET o == loader.obj[loader.plug] IN
    /\ loader.entry.on
    /\ wanted # "none" => loader.entry.config = wanted
    /\ o.config = loader.entry.config
    /\ o.scope = loader.entry.scope \/ (builtIn /\ o.scope = Default)

\* Calls that never overlapped leave the workers as the status says: one
\* registered worker for an enabled plugin and none otherwise, none running
\* that is not registered, its config the saved one, and no handler of a
\* plugin that was disabled.
WorkerAccounted ==
  ~strained /\ Busy = {} /\ ~builtIn =>
    /\ loader.sandbox # NoHost <=> Known({"enabled"})
    /\ \A h \in Host : loader.host[h].up =>
         h = loader.sandbox /\ loader.host[h].config = loader.obj[loader.plug].config
    /\ Known({"disabled"}) => loader.hooks = 0

\* Both: one enable at a time, and what it started is accounted for.
EnablesAccounted == EnableLock /\ WorkerAccounted

\* An installed plugin keeps a whole version on disk while calls do not overlap.
\* It is in the plugin's own directory, through every update that fails.  After the
\* process died in a swap it may be the backup only, which the restart loads.  An
\* update that begins there is out of the claim: it removes that backup first, and
\* when its rename or its write fails no version is left.
VersionKeptUnstrained ==
  ~strained /\ ~builtIn /\ wanted # "none" =>
    /\ torn = "no" => loader.dir \in Whole
    /\ torn = "cut" => {loader.dir, loader.bak} \cap Whole # {}

=============================================================================
