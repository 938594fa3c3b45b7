-------------------------- MODULE PluginLoaderProofs --------------------------
(***************************************************************************)
(* Proofs about PluginLoader: for any number of calls, objects, workers,   *)
(* settings and handlers, and for every set of ways the process may die.   *)
(*                                                                         *)
(* The helpers of the model turn a world (a value of `loader`) and a call  *)
(* into a result.  A lemma for each of them says what the result keeps, in *)
(* predicates over worlds and calls that mention no variable; the actions  *)
(* then follow from these lemmas and from what Become and Reboots store.   *)
(***************************************************************************)
EXTENDS PluginLoader, FiniteSetTheorems, TLAPS

-----------------------------------------------------------------------------
(* The inductive invariant.                                                 *)

\* What follows a call depends on where it waits, and a built-in plugin is
\* never unloaded, so its calls lead nowhere else.
ThenOf(at) ==
  IF at \in {"starting", "failing"} THEN {"call", "update", "restore"}
  ELSE {"call", "uninstall", "update", "rollback", "shutdown"}

CallOK(b, c) ==
  c.at # "rest" =>
    /\ c.obj # NoObj
    /\ c.host = NoHost <=> b
    /\ c.then \in ThenOf(c.at)
    /\ b => c.then \in {"call", "shutdown"}

\* A built-in plugin has no worker.
BuiltInOK(b, w) == b => w.sandbox = NoHost

\* A plugin in the map has a registry entry with the same settings, and a
\* built-in may have lost those of the sessions.
EntryOK(b, w) ==
  w.plug # NoObj =>
    /\ w.entry.on
    /\ w.obj[w.plug].config = w.entry.config
    /\ w.obj[w.plug].scope = w.entry.scope \/ (b /\ w.obj[w.plug].scope = Default)

WantedOK(w, s) == s # "none" => w.entry.on /\ w.entry.config = s

Starts(c) == c.at \in {"starting", "failing"}

LockOK(w, calls) ==
  /\ \A p, q \in Proc : Starts(calls[p]) /\ Starts(calls[q]) => p = q
  /\ w.enabling <=> \E p \in Proc : Starts(calls[p])

\* No worker is registered and none runs.
NoWorker(w) == w.sandbox = NoHost /\ \A h \in Host : ~w.host[h].up

IsEnabled(w) == w.plug # NoObj /\ w.obj[w.plug].status = "enabled"

\* The only worker that may run is h, with the settings of the plugin's object.
OnlyWorker(w, h) ==
  \A g \in Host : w.host[g].up => g = h /\ w.host[g].config = w.obj[w.plug].config

\* The workers of a plugin in a worker, while c is the only call in progress.
Accounted(w, c) ==
  /\ c.at = "rest" =>
       /\ w.sandbox # NoHost <=> IsEnabled(w)
       /\ OnlyWorker(w, w.sandbox)
       /\ w.plug # NoObj /\ w.obj[w.plug].status = "disabled" => w.hooks = 0
  /\ c.at # "rest" => c.obj = w.plug /\ OnlyWorker(w, c.host)
  /\ c.at = "starting" => c.host = w.sandbox /\ ~IsEnabled(w)
  /\ c.at = "failing" => w.sandbox = NoHost /\ ~IsEnabled(w)
  /\ c.at \in {"stopping", "terminating"} => c.host = w.sandbox /\ c.then # "rollback"

\* Where the whole version is, by what the only call in progress is about to do.
Versioned(w, c) ==
  /\ c.at \in {"stopping", "terminating"} /\ c.then = "update" => w.dir \in Whole
  /\ c.at \in {"starting", "failing"} /\ c.then = "update" =>
       w.dir \in Whole /\ w.bak \in Whole

\* A whole version is on disk: in the directory, or after a cut swap in its backup.
Kept(w, s, t) ==
  s # "none" =>
    /\ t = "no" => w.dir \in Whole
    /\ t = "cut" => w.dir \in Whole \/ w.bak \in Whole

Alone(calls, p) == \A q \in Proc \ {p} : calls[q].at = "rest"

SerialOK(w, calls, s, t) ==
  /\ \E p \in Proc : Alone(calls, p)
  /\ \A p \in Proc : Alone(calls, p) =>
       Accounted(w, calls[p]) /\ (t # "reused" => Versioned(w, calls[p]))
  /\ Kept(w, s, t)

Typed ==
  /\ TypeOK
  /\ \A p \in Proc : CallOK(builtIn, proc[p])
  /\ BuiltInOK(builtIn, loader)

Base ==
  /\ Typed
  /\ EntryOK(builtIn, loader)
  /\ WantedOK(loader, wanted)
  /\ LockOK(loader, proc)

IInv == Base /\ (strained \/ builtIn \/ SerialOK(loader, proc, wanted, torn))

-----------------------------------------------------------------------------
(* What the helpers return.                                                 *)

\* What the lemmas ask of the state they are evaluated in.
Now == builtIn \in BOOLEAN /\ proc \in [Proc -> CallState]

\* There is an object nothing else holds, and a host: CHOOSE finds them.
LEMMA SpareObjFound ==
  ASSUME Now, NEW w \in World, NEW p \in Proc
  PROVE  /\ SpareObj(w, p) \in Obj
         /\ SpareObj(w, p) # w.plug
         /\ \A q \in Proc \ {p} : proc[q].obj # SpareObj(w, p)
<1> DEFINE held == [q \in Proc |-> proc[q].obj]
           Spare(o) == w.plug # o /\ \A q \in Proc \ {p} : proc[q].obj # o
<1>1. held \in [Proc -> Obj \cup {NoObj}] /\ w.plug \in Obj \cup {NoObj}
  BY DEF Now, CallState, World
<1> HIDE DEF held
<1>2. \E o \in Obj : w.plug # o /\ \A q \in Proc \ {p} : held[q] # o
  BY <1>1, SpareAssumption
<1>3. \E o \in Obj : Spare(o)
  BY <1>2 DEF held
<1>4. (CHOOSE o \in Obj : Spare(o)) \in Obj /\ Spare(CHOOSE o \in Obj : Spare(o))
  BY <1>3
<1> QED
  BY <1>4 DEF SpareObj

LEMMA SpareHostFound ==
  ASSUME Now, NEW w \in World, NEW p \in Proc
  PROVE  /\ SpareHost(w, p) \in Host
         /\ SpareHost(w, p) # NoHost
<1> DEFINE held == [q \in Proc |-> proc[q].host]
           Spare(h) == w.sandbox # h /\ \A q \in Proc \ {p} : proc[q].host # h
<1>1. held \in [Proc -> Host \cup {NoHost}] /\ w.sandbox \in Host \cup {NoHost}
  BY DEF Now, CallState, World
<1> HIDE DEF held
<1>2. \E h \in Host : w.sandbox # h /\ \A q \in Proc \ {p} : held[q] # h
  BY <1>1, SpareAssumption
<1>3. \E h \in Host : Spare(h)
  BY <1>2 DEF held
<1>4. (CHOOSE h \in Host : Spare(h)) \in Host
  BY <1>3
<1> QED
  BY <1>4, PluginAssumption DEF SpareHost

\* The registry entry is there whenever it was, with the settings it had.
KeepsEntry(w, v) == w.entry.on => v.entry.on /\ v.entry.config = w.entry.config

\* What the loader never touches when it loads or settles an object.
SameWorkers(w, v) ==
  /\ v.enabling = w.enabling
  /\ v.sandbox = w.sandbox
  /\ v.host = w.host
  /\ v.dir = w.dir
  /\ v.bak = w.bak

LEMMA LoadPluginIs ==
  ASSUME Now, NEW w \in World, NEW p \in Proc
  PROVE  /\ LoadPlugin(w, p) \in World
         /\ LoadPlugin(w, p).plug \in Obj
         /\ LoadPlugin(w, p).plug # NoObj
         /\ LoadPlugin(w, p).obj[LoadPlugin(w, p).plug].status = "installed"
         /\ EntryOK(builtIn, LoadPlugin(w, p))
         /\ LoadPlugin(w, p).entry.on
         /\ LoadPlugin(w, p).entry.config =
              IF w.entry.on THEN w.entry.config ELSE Default
         /\ KeepsEntry(w, LoadPlugin(w, p))
         /\ SameWorkers(w, LoadPlugin(w, p))
         /\ LoadPlugin(w, p).hooks = w.hooks
<1> DEFINE o == SpareObj(w, p)
           settings == IF w.entry.on THEN w.entry ELSE NoEntry
           object == [status |-> "installed", config |-> settings.config,
                      scope |-> IF builtIn THEN Default ELSE settings.scope]
           v == [w EXCEPT !.plug = o, !.obj[o] = object,
                          !.entry = [settings EXCEPT !.on = TRUE, !.status = "installed"]]
<1>1. o \in Obj /\ o # NoObj
  BY SpareObjFound, PluginAssumption
<1>2. settings \in [on : BOOLEAN, status : Status, config : Setting, scope : Setting]
  BY PluginAssumption DEF World, NoEntry, Status
<1>3. object \in [status : Status, config : Setting, scope : Setting]
  BY <1>2, PluginAssumption DEF Status
<1>4. LoadPlugin(w, p) = v
  BY DEF LoadPlugin
<1> HIDE DEF o, settings, object
<1>5. v.plug = o /\ v.obj[o] = object /\ SameWorkers(w, v) /\ v.hooks = w.hooks
  BY <1>1 DEF World, SameWorkers
<1>6. v.entry = [settings EXCEPT !.on = TRUE, !.status = "installed"]
  BY DEF World
<1>7. v.entry.on /\ v.entry.config = settings.config /\ v.entry.scope = settings.scope
  BY <1>2, <1>6
<1>8. v \in World
  <2>1. [settings EXCEPT !.on = TRUE, !.status = "installed"]
          \in [on : BOOLEAN, status : Status, config : Setting, scope : Setting]
    BY <1>2 DEF Status
  <2> QED
    BY <1>1, <1>3, <2>1 DEF World
<1>9. settings.config = IF w.entry.on THEN w.entry.config ELSE Default
  BY DEF settings, NoEntry
<1> HIDE DEF v
<1> QED
  BY <1>1, <1>4, <1>5, <1>7, <1>8, <1>9 DEF EntryOK, KeepsEntry, object

LEMMA SettleIs ==
  ASSUME NEW w \in World, NEW o \in Obj, NEW s \in Status
  PROVE  /\ Settle(w, o, s) \in World
         /\ Settle(w, o, s).plug = w.plug
         /\ Settle(w, o, s).obj = [w.obj EXCEPT ![o].status = s]
         /\ Settle(w, o, s).obj[o].status = s
         /\ EntryOK(builtIn, w) => EntryOK(builtIn, Settle(w, o, s))
         /\ KeepsEntry(w, Settle(w, o, s))
         /\ SameWorkers(w, Settle(w, o, s))
         /\ Settle(w, o, s).hooks = w.hooks
<1> DEFINE v == [w EXCEPT !.obj[o].status = s]
<1>1. v \in World /\ v.entry = w.entry /\ v.obj = [w.obj EXCEPT ![o].status = s]
  BY DEF World
<1>2. v.plug = w.plug /\ SameWorkers(w, v) /\ v.hooks = w.hooks
  BY DEF World, SameWorkers
<1> HIDE DEF v
<1> DEFINE u == SetPluginStatus(v, s)
<1>3. u \in World /\ u.plug = v.plug /\ u.obj = v.obj /\ SameWorkers(v, u) /\ u.hooks = v.hooks
  BY <1>1 DEF World, SetPluginStatus, SameWorkers
<1>4. /\ u.entry.on = v.entry.on
      /\ u.entry.config = v.entry.config
      /\ u.entry.scope = v.entry.scope
  BY <1>1 DEF World, SetPluginStatus
<1>5. Settle(w, o, s) = u
  BY DEF Settle, v
<1> HIDE DEF u
<1>6. /\ u.obj[o].status = s
      /\ \A x \in Obj : u.obj[x].config = w.obj[x].config /\ u.obj[x].scope = w.obj[x].scope
  BY <1>1, <1>3 DEF World
<1>7. EntryOK(builtIn, w) => EntryOK(builtIn, u)
  BY <1>1, <1>2, <1>3, <1>4, <1>6 DEF EntryOK, World
<1>8. KeepsEntry(w, u)
  BY <1>1, <1>4 DEF KeepsEntry
<1>9. SameWorkers(w, u)
  BY <1>2, <1>3 DEF SameWorkers
<1> QED
  BY <1>1, <1>2, <1>3, <1>5, <1>6, <1>7, <1>8, <1>9

LEMMA DisabledIs ==
  ASSUME NEW w \in World, NEW o \in Obj
  PROVE  /\ Disabled(w, o) \in World
         /\ Disabled(w, o).plug = w.plug
         /\ Disabled(w, o).obj = [w.obj EXCEPT ![o].status = "disabled"]
         /\ Disabled(w, o).obj[o].status = "disabled"
         /\ EntryOK(builtIn, w) => EntryOK(builtIn, Disabled(w, o))
         /\ KeepsEntry(w, Disabled(w, o))
         /\ SameWorkers(w, Disabled(w, o))
         /\ Disabled(w, o).hooks = 0
<1> DEFINE v == [w EXCEPT !.hooks = 0]
<1>1. /\ v \in World /\ v.plug = w.plug /\ v.obj = w.obj /\ v.entry = w.entry
      /\ SameWorkers(w, v) /\ v.hooks = 0
  BY PluginAssumption DEF World, SameWorkers
<1>2. Disabled(w, o) = Settle(v, o, "disabled")
  BY DEF Disabled
<1>3. "disabled" \in Status
  BY DEF Status
<1> HIDE DEF v
<1>4. /\ Settle(v, o, "disabled") \in World
      /\ Settle(v, o, "disabled").plug = w.plug
      /\ Settle(v, o, "disabled").obj = [w.obj EXCEPT ![o].status = "disabled"]
      /\ Settle(v, o, "disabled").obj[o].status = "disabled"
      /\ EntryOK(builtIn, v) => EntryOK(builtIn, Settle(v, o, "disabled"))
      /\ KeepsEntry(v, Settle(v, o, "disabled"))
      /\ SameWorkers(v, Settle(v, o, "disabled"))
      /\ Settle(v, o, "disabled").hooks = 0
  BY <1>1, <1>3, SettleIs
<1> HIDE DEF Settle
<1> QED
  BY <1>1, <1>2, <1>4 DEF EntryOK, KeepsEntry, SameWorkers

-----------------------------------------------------------------------------
(* Results: the types, the settings and the lock.                           *)

\* A result of one call in a world w where every other call is as before.
Sane(b, w, r) ==
  /\ r.world \in World
  /\ r.call \in CallState
  /\ CallOK(b, r.call)
  /\ BuiltInOK(b, r.world)
  /\ EntryOK(b, r.world)
  /\ Starts(r.call) => ~w.enabling
  /\ r.world.enabling <=> w.enabling \/ Starts(r.call)

Sound(b, w, r) == Sane(b, w, r) /\ KeepsEntry(w, r.world)

\* What an uninstall leaves: no call, and no registry entry to keep.
Removed(then, r) == then = "uninstall" /\ r.call = AtRest

\* The helpers' hypothesis on a world they are given.
Fit(w) == w \in World /\ EntryOK(builtIn, w) /\ BuiltInOK(builtIn, w)

LEMMA ResultIs ==
  ASSUME NEW w, NEW c
  PROVE  /\ Result(w, c).world = w
         /\ Result(w, c).call = c
         /\ Return(w).world = w
         /\ Return(w).call = AtRest
BY DEF Result, Return

LEMMA AtRestIs ==
  /\ AtRest \in CallState
  /\ AtRest.at = "rest"
  /\ \A b : CallOK(b, AtRest)
  /\ ~Starts(AtRest)
BY DEF AtRest, CallState, At, Then, CallOK, Starts

\* A call that returns is sound when its world is.
LEMMA ReturnSound ==
  ASSUME NEW w \in World, NEW v, Fit(v), KeepsEntry(w, v), v.enabling = w.enabling
  PROVE  Sound(builtIn, w, Return(v))
<1>1. Return(v).world = v /\ Return(v).call = AtRest
  BY ResultIs
<1> QED
  BY <1>1, AtRestIs DEF Sound, Sane, Fit

LEMMA EnableBeginsSound ==
  ASSUME Now, NEW w, Fit(w), NEW p \in Proc, ~EnableRefused(w),
         NEW then \in {"call", "update", "restore"}, builtIn => then = "call",
         NEW was \in BOOLEAN
  PROVE  Sound(builtIn, w, EnableBegins(w, p, then, was))
<1> DEFINE h == IF builtIn THEN NoHost ELSE SpareHost(w, p)
           c == [at |-> "starting", then |-> then, obj |-> w.plug, host |-> h, was |-> was]
           v == [w EXCEPT !.enabling = TRUE, !.sandbox = h]
           u == [v EXCEPT !.host[h] = [up |-> TRUE, sub |-> FALSE, good |-> w.dir \in Whole,
                                       config |-> w.obj[w.plug].config]]
           world == IF builtIn THEN v ELSE u
<1>1. w \in World /\ EntryOK(builtIn, w) /\ w.plug \in Obj /\ w.plug # NoObj /\ ~w.enabling
  BY DEF Fit, EnableRefused, World
<1>2. h \in Host \cup {NoHost} /\ (h = NoHost <=> builtIn) /\ (~builtIn => h \in Host)
  BY <1>1, SpareHostFound DEF Now
<1>3. /\ EnableBegins(w, p, then, was).world = world
      /\ EnableBegins(w, p, then, was).call = c
  BY DEF EnableBegins, Result
<1> HIDE DEF h
<1>4. v \in World /\ v.enabling /\ v.sandbox = h /\ v.plug = w.plug /\ v.obj = w.obj /\ v.entry = w.entry
  BY <1>1, <1>2 DEF World
<1>5. [up |-> TRUE, sub |-> FALSE, good |-> w.dir \in Whole, config |-> w.obj[w.plug].config]
        \in [up : BOOLEAN, sub : BOOLEAN, good : BOOLEAN, config : Setting]
  BY <1>1 DEF World
<1> HIDE DEF v
<1>6. ~builtIn => /\ u \in World /\ u.enabling /\ u.sandbox = h /\ u.plug = w.plug
                  /\ u.obj = w.obj /\ u.entry = w.entry
  BY <1>2, <1>4, <1>5 DEF World
<1> HIDE DEF u
<1>7. /\ world \in World /\ world.enabling /\ world.sandbox = h /\ world.plug = w.plug
      /\ world.obj = w.obj /\ world.entry = w.entry
  BY <1>4, <1>6 DEF Now
<1>8. c \in CallState /\ Starts(c) /\ CallOK(builtIn, c)
  BY <1>1, <1>2 DEF CallState, At, Then, Starts, CallOK, ThenOf
<1> HIDE DEF world, c
<1>9. EntryOK(builtIn, world) /\ KeepsEntry(w, world) /\ BuiltInOK(builtIn, world)
  BY <1>1, <1>2, <1>7 DEF EntryOK, KeepsEntry, BuiltInOK
<1> QED
  BY <1>1, <1>3, <1>7, <1>8, <1>9 DEF Sound, Sane

LEMMA DisableBeginsSound ==
  ASSUME NEW w, Fit(w), w.plug # NoObj, Stoppable(w),
         NEW then \in {"call", "uninstall", "update", "rollback", "shutdown"},
         builtIn => then \in {"call", "shutdown"}, NEW was \in BOOLEAN
  PROVE  Sound(builtIn, w, DisableBegins(w, then, was))
<1> DEFINE c == [at |-> "stopping", then |-> then, obj |-> w.plug, host |-> w.sandbox,
                 was |-> was]
<1>1. c \in CallState /\ CallOK(builtIn, c) /\ ~Starts(c)
  BY DEF Fit, World, BuiltInOK, Stoppable, CallState, At, Then, CallOK, ThenOf, Starts
<1>2. DisableBegins(w, then, was).world = w /\ DisableBegins(w, then, was).call = c
  BY DEF DisableBegins, Result
<1> HIDE DEF c
<1> QED
  BY <1>1, <1>2 DEF Sound, Sane, Fit, KeepsEntry

\* Two worlds that agree on the map, the objects, the registry and the lock.
Alike(w, v) ==
  /\ v.plug = w.plug
  /\ v.obj = w.obj
  /\ v.entry = w.entry
  /\ v.enabling = w.enabling
  /\ v.sandbox = w.sandbox

LEMMA AlikeFit ==
  ASSUME NEW w, Fit(w), NEW v \in World, Alike(w, v)
  PROVE  Fit(v) /\ KeepsEntry(w, v)
BY DEF Alike, Fit, EntryOK, BuiltInOK, KeepsEntry

\* What is sound after a world is sound after one with the same registry and lock.
LEMMA SoundFrom ==
  ASSUME NEW w, NEW v, NEW r, Sound(builtIn, v, r), v.entry = w.entry \/ KeepsEntry(w, v),
         v.enabling = w.enabling
  PROVE  Sound(builtIn, w, r)
BY DEF Sound, Sane, KeepsEntry

\* The map entry may go at any time.
LEMMA Unmapped ==
  ASSUME NEW w, Fit(w)
  PROVE  /\ Fit([w EXCEPT !.plug = NoObj])
         /\ [w EXCEPT !.plug = NoObj].plug = NoObj
         /\ [w EXCEPT !.plug = NoObj].entry = w.entry
         /\ [w EXCEPT !.plug = NoObj].obj = w.obj
         /\ SameWorkers(w, [w EXCEPT !.plug = NoObj])
BY DEF Fit, World, EntryOK, BuiltInOK, SameWorkers

LEMMA LoadFit ==
  ASSUME Now, NEW w, Fit(w), NEW p \in Proc
  PROVE  /\ Fit(LoadPlugin(w, p))
         /\ KeepsEntry(w, LoadPlugin(w, p))
         /\ LoadPlugin(w, p).enabling = w.enabling
<1>1. w \in World
  BY DEF Fit
<1> QED
  BY <1>1, LoadPluginIs DEF Fit, BuiltInOK, SameWorkers

LEMMA DisabledFit ==
  ASSUME NEW w, Fit(w), NEW o \in Obj
  PROVE  /\ Fit(Disabled(w, o))
         /\ KeepsEntry(w, Disabled(w, o))
         /\ Disabled(w, o).enabling = w.enabling
<1>1. w \in World
  BY DEF Fit
<1> QED
  BY <1>1, DisabledIs DEF Fit, BuiltInOK, SameWorkers

LEMMA RestoreSound ==
  ASSUME Now, ~builtIn, NEW w, Fit(w), NEW p \in Proc, NEW was \in BOOLEAN
  PROVE  Sound(builtIn, w, Restore(w, p, was))
<1> DEFINE gone == [w EXCEPT !.dir = "none"]
           back == [w EXCEPT !.dir = w.bak, !.bak = "none"]
           loaded == LoadPlugin(back, p)
<1>1. w \in World /\ gone \in World /\ Alike(w, gone) /\ back \in World /\ Alike(w, back)
  BY DEF Fit, World, Alike, Content
<1>2. /\ Restore(w, p, was) =
           IF w.bak = "none" THEN Return(gone)
           ELSE IF ~CanLoad(back, back.dir) THEN Return(back)
           ELSE IF was /\ ~EnableRefused(loaded)
                THEN EnableBegins(loaded, p, "restore", was) ELSE Return(loaded)
  BY DEF Restore
<1> HIDE DEF gone, back
<1>3. /\ Fit(gone) /\ KeepsEntry(w, gone) /\ gone.enabling = w.enabling
      /\ Fit(back) /\ KeepsEntry(w, back) /\ back.enabling = w.enabling
  BY <1>1, AlikeFit DEF Alike
<1>4. Fit(loaded) /\ KeepsEntry(w, loaded) /\ loaded.enabling = w.enabling
  <2>1. Fit(loaded) /\ KeepsEntry(back, loaded) /\ loaded.enabling = back.enabling
    BY <1>3, LoadFit
  <2> QED
    BY <1>3, <2>1 DEF KeepsEntry
<1> HIDE DEF loaded
<1>5. Sound(builtIn, w, Return(gone)) /\ Sound(builtIn, w, Return(back))
        /\ Sound(builtIn, w, Return(loaded))
  BY <1>1, <1>3, <1>4, ReturnSound
<1>6. ASSUME ~EnableRefused(loaded)
      PROVE  Sound(builtIn, w, EnableBegins(loaded, p, "restore", was))
  <2>1. Sound(builtIn, loaded, EnableBegins(loaded, p, "restore", was))
    BY <1>4, <1>6, EnableBeginsSound
  <2> QED
    BY <1>4, <2>1, SoundFrom
<1> QED
  BY <1>2, <1>5, <1>6

LEMMA RollbackSound ==
  ASSUME Now, ~builtIn, NEW w, Fit(w), NEW p \in Proc, NEW was \in BOOLEAN
  PROVE  Sound(builtIn, w, Rollback(w, p, was))
<1> DEFINE enabled == w.plug # NoObj /\ w.obj[w.plug].status = "enabled"
           quit == IF enabled THEN Disabled(w, w.plug) ELSE w
           out == [quit EXCEPT !.plug = NoObj]
<1>1. Rollback(w, p, was) = IF enabled /\ Stoppable(w) THEN DisableBegins(w, "rollback", was)
                            ELSE Restore(out, p, was)
  BY DEF Rollback
<1>2. enabled => w.plug \in Obj
  BY DEF Fit, World
<1>3. Fit(quit) /\ KeepsEntry(w, quit) /\ quit.enabling = w.enabling
  BY <1>2, DisabledFit DEF KeepsEntry
<1> HIDE DEF quit
<1>4. Fit(out) /\ KeepsEntry(w, out) /\ out.enabling = w.enabling
  BY <1>3, Unmapped DEF SameWorkers, KeepsEntry
<1> HIDE DEF out
<1>5. Sound(builtIn, w, Restore(out, p, was))
  BY <1>4, RestoreSound, SoundFrom
<1>6. enabled /\ Stoppable(w) => Sound(builtIn, w, DisableBegins(w, "rollback", was))
  BY DisableBeginsSound
<1> QED
  BY <1>1, <1>5, <1>6

LEMMA SwapSound ==
  ASSUME Now, ~builtIn, NEW w, Fit(w), NEW p \in Proc, NEW was \in BOOLEAN
  PROVE  \A r \in Swap(w, p, was) : Sound(builtIn, w, r)
<1> DEFINE bare == [w EXCEPT !.bak = "none"]
           cut(d) == [Moved(w) EXCEPT !.dir = d]
           written == cut("new")
           loaded == LoadPlugin(written, p)
           done == [loaded EXCEPT !.bak = "none"]
<1>1. w \in World
  BY DEF Fit
<1>2. bare \in World /\ Alike(w, bare)
  BY <1>1 DEF World, Alike, Content
<1>3. \A d \in Content : cut(d) \in World /\ Alike(w, cut(d))
  BY <1>1 DEF World, Alike, Content, Moved
<1>4. Swap(w, p, was) =
        IF w.dir = "none" THEN {Return(bare)}
        ELSE {Rollback(cut(d), p, was) : d \in Content \ Whole} \cup
             {IF ~CanLoad(written, "new") THEN Rollback(written, p, was)
              ELSE IF ~was THEN Return(done)
              ELSE IF EnableRefused(loaded) THEN Rollback(loaded, p, was)
              ELSE EnableBegins(loaded, p, "update", was)}
  BY DEF Swap
<1> HIDE DEF bare, cut
<1>5. /\ Fit(bare) /\ KeepsEntry(w, bare) /\ bare.enabling = w.enabling
      /\ \A d \in Content : Fit(cut(d)) /\ KeepsEntry(w, cut(d)) /\ cut(d).enabling = w.enabling
  BY <1>2, <1>3, AlikeFit DEF Alike, Fit
<1>6. Fit(loaded) /\ KeepsEntry(w, loaded) /\ loaded.enabling = w.enabling
  <2>1. "new" \in Content
    BY DEF Content
  <2>2. Fit(loaded) /\ KeepsEntry(written, loaded) /\ loaded.enabling = written.enabling
    BY <1>5, <2>1, LoadFit
  <2> QED
    BY <1>5, <2>1, <2>2 DEF KeepsEntry
<1> HIDE DEF loaded
<1>7. Fit(done) /\ KeepsEntry(w, done) /\ done.enabling = w.enabling
  <2>1. done \in World /\ Alike(loaded, done)
    BY <1>6 DEF Fit, World, Alike, Content
  <2> HIDE DEF done
  <2> QED
    BY <1>6, <2>1, AlikeFit DEF Alike, KeepsEntry
<1> HIDE DEF done
<1>8. Sound(builtIn, w, Return(bare)) /\ Sound(builtIn, w, Return(done))
  BY <1>1, <1>5, <1>7, ReturnSound
<1>9. \A d \in Content : Sound(builtIn, w, Rollback(cut(d), p, was))
  BY <1>5, RollbackSound, SoundFrom
<1>10. Sound(builtIn, w, Rollback(loaded, p, was))
  BY <1>6, RollbackSound, SoundFrom
<1>11. ~EnableRefused(loaded) => Sound(builtIn, w, EnableBegins(loaded, p, "update", was))
  BY <1>6, EnableBeginsSound, SoundFrom
<1>12. "new" \in Content
  BY DEF Content
<1>13. \A r \in {Rollback(cut(d), p, was) : d \in Content \ Whole} : Sound(builtIn, w, r)
  BY <1>9
<1> QED
  BY <1>4, <1>8, <1>9, <1>10, <1>11, <1>12, <1>13

LEMMA AfterUnloadSane ==
  ASSUME Now, ~builtIn, NEW w, Fit(w), NEW p \in Proc,
         NEW then \in {"uninstall", "update", "rollback"}, NEW was \in BOOLEAN,
         NEW r \in AfterUnload(w, p, then, was)
  PROVE  Sane(builtIn, w, r) /\ (KeepsEntry(w, r.world) \/ Removed(then, r))
<1> DEFINE out == [w EXCEPT !.plug = NoObj]
           erased == [w EXCEPT !.plug = NoObj, !.entry = NoEntry, !.dir = "none"]
<1>1. /\ then = "uninstall" => r = Return(erased)
      /\ then = "update" => r \in Swap(out, p, was)
      /\ then = "rollback" => r = Restore(out, p, was)
  BY DEF AfterUnload
<1>2. Fit(out) /\ out.entry = w.entry /\ out.enabling = w.enabling
  BY Unmapped DEF SameWorkers
<1>3. Fit(erased) /\ erased.enabling = w.enabling
  BY PluginAssumption DEF Fit, World, EntryOK, BuiltInOK, NoEntry, Status, Content
<1> HIDE DEF out, erased
<1>4. CASE then = "uninstall"
  <2>1. r.world = erased /\ r.call = AtRest
    BY <1>1, <1>4, ResultIs
  <2> QED
    BY <1>3, <1>4, <2>1, AtRestIs DEF Sane, Removed, Fit
<1>5. CASE then = "update"
  <2>1. Sound(builtIn, out, r)
    BY <1>1, <1>2, <1>5, SwapSound
  <2>2. Sound(builtIn, w, r)
    BY <1>2, <2>1, SoundFrom
  <2> QED
    BY <2>2 DEF Sound
<1>6. CASE then = "rollback"
  <2>1. Sound(builtIn, out, r)
    BY <1>1, <1>2, <1>6, RestoreSound
  <2>2. Sound(builtIn, w, r)
    BY <1>2, <2>1, SoundFrom
  <2> QED
    BY <2>2 DEF Sound
<1> QED
  BY <1>4, <1>5, <1>6

LEMMA UnloadSane ==
  ASSUME Now, ~builtIn, NEW w, Fit(w), w.plug # NoObj, NEW p \in Proc,
         NEW then \in {"uninstall", "update"}, NEW was \in BOOLEAN,
         NEW r \in Unload(w, p, then, was)
  PROVE  Sane(builtIn, w, r) /\ (KeepsEntry(w, r.world) \/ Removed(then, r))
<1>1. w.plug \in Obj
  BY DEF Fit, World
<1>2. CASE w.obj[w.plug].status # "enabled"
  <2>1. r \in AfterUnload(w, p, then, was)
    BY <1>2 DEF Unload
  <2> QED
    BY <2>1, AfterUnloadSane
<1>3. CASE w.obj[w.plug].status = "enabled" /\ Stoppable(w)
  <2>1. r = DisableBegins(w, then, was)
    BY <1>3 DEF Unload
  <2>2. Sound(builtIn, w, r)
    BY <1>3, <2>1, DisableBeginsSound
  <2> QED
    BY <2>2 DEF Sound
<1>4. CASE w.obj[w.plug].status = "enabled" /\ ~Stoppable(w)
  <2> DEFINE v == Disabled(w, w.plug)
  <2>1. r \in AfterUnload(v, p, then, was)
    BY <1>4 DEF Unload
  <2>2. Fit(v) /\ KeepsEntry(w, v) /\ v.enabling = w.enabling
    BY <1>1, DisabledFit
  <2> HIDE DEF v
  <2>3. Sane(builtIn, v, r) /\ (KeepsEntry(v, r.world) \/ Removed(then, r))
    BY <2>1, <2>2, AfterUnloadSane
  <2> QED
    BY <2>2, <2>3 DEF Sane, KeepsEntry
<1> QED
  BY <1>2, <1>3, <1>4

LEMMA AfterDisableSane ==
  ASSUME Now, NEW w, Fit(w), NEW p \in Proc, NEW c \in CallState,
         c.then \in {"call", "uninstall", "update", "rollback"}, builtIn => c.then = "call",
         NEW r \in AfterDisable(w, p, c)
  PROVE  Sane(builtIn, w, r) /\ (KeepsEntry(w, r.world) \/ Removed(c.then, r))
<1>1. CASE c.then = "call"
  <2>1. r = Return(w) /\ w \in World
    BY <1>1 DEF AfterDisable, Fit
  <2>2. Sound(builtIn, w, r)
    BY <2>1, ReturnSound DEF KeepsEntry
  <2> QED
    BY <2>2 DEF Sound
<1>2. CASE c.then # "call"
  <2>1. r \in AfterUnload(w, p, c.then, c.was) /\ c.was \in BOOLEAN
    BY <1>2 DEF AfterDisable, CallState
  <2> QED
    BY <1>2, <2>1, AfterUnloadSane
<1> QED
  BY <1>1, <1>2

LEMMA AfterEnableSound ==
  ASSUME Now, NEW w, Fit(w), NEW p \in Proc, NEW c \in CallState,
         builtIn => c.then = "call", NEW ok \in BOOLEAN
  PROVE  Sound(builtIn, w, AfterEnable(w, p, c, ok))
<1> DEFINE done == [w EXCEPT !.bak = "none"]
<1>1. w \in World /\ c.was \in BOOLEAN
  BY DEF Fit, CallState
<1>2. Sound(builtIn, w, Return(w))
  BY <1>1, ReturnSound DEF KeepsEntry
<1>3. Sound(builtIn, w, Return(done))
  <2>1. done \in World /\ Alike(w, done)
    BY <1>1 DEF World, Alike, Content
  <2> HIDE DEF done
  <2>2. Fit(done) /\ KeepsEntry(w, done) /\ done.enabling = w.enabling
    BY <2>1, AlikeFit DEF Alike
  <2> QED
    BY <1>1, <2>2, ReturnSound
<1>4. ~builtIn => Sound(builtIn, w, Rollback(w, p, c.was))
  BY <1>1, RollbackSound
<1> QED
  BY <1>2, <1>3, <1>4 DEF AfterEnable

LEMMA BootIs ==
  ASSUME Now, NEW w, Fit(w), NEW p \in Proc
  PROVE  /\ Fit(Boot(w, p))
         /\ KeepsEntry(w, Boot(w, p))
         /\ ~Boot(w, p).enabling
         /\ NoWorker(Boot(w, p))
         /\ Boot(w, p).plug # NoObj =>
              Boot(w, p).obj[Boot(w, p).plug].status = "installed"
         /\ Boot(w, p).dir = w.dir
         /\ Boot(w, p).bak = w.bak
         /\ builtIn => /\ Boot(w, p).entry.on
                       /\ ~w.entry.on => Boot(w, p).entry.config = Default
<1> DEFINE fresh == [w EXCEPT !.plug = NoObj, !.enabling = FALSE, !.sandbox = NoHost,
                              !.host = [h \in Host |-> Dead], !.hooks = 0,
                              !.obj = [o \in Obj |-> NewObj]]
           loaded == LoadPlugin(fresh, p)
<1>1. /\ fresh \in World /\ fresh.plug = NoObj /\ ~fresh.enabling /\ fresh.sandbox = NoHost
      /\ fresh.host = [h \in Host |-> Dead] /\ fresh.entry = w.entry
      /\ fresh.dir = w.dir /\ fresh.bak = w.bak
  <2>1. [h \in Host |-> Dead] \in [Host -> [up : BOOLEAN, sub : BOOLEAN, good : BOOLEAN,
                                           config : Setting]]
    BY PluginAssumption DEF Dead
  <2>2. [o \in Obj |-> NewObj] \in [Obj -> [status : Status, config : Setting, scope : Setting]]
    BY PluginAssumption DEF NewObj, Status
  <2> DEFINE hs == [h \in Host |-> Dead]
             os == [o \in Obj |-> NewObj]
  <2> HIDE DEF hs, os
  <2>3. fresh = [w EXCEPT !.plug = NoObj, !.enabling = FALSE, !.sandbox = NoHost,
                          !.host = hs, !.hooks = 0, !.obj = os]
    BY DEF hs, os
  <2>4. hs \in [Host -> [up : BOOLEAN, sub : BOOLEAN, good : BOOLEAN, config : Setting]]
    BY <2>1 DEF hs
  <2>5. os \in [Obj -> [status : Status, config : Setting, scope : Setting]]
    BY <2>2 DEF os
  <2> HIDE DEF fresh
  <2>6. w \in World /\ 0 \in 0..MaxHooks
    BY PluginAssumption DEF Fit
  <2>7. /\ fresh.plug = NoObj /\ fresh.enabling = FALSE /\ fresh.sandbox = NoHost
        /\ fresh.entry = w.entry /\ fresh.dir = w.dir /\ fresh.bak = w.bak /\ fresh.host = hs
    BY <2>3, <2>6 DEF World
  <2>8. fresh \in World
    BY <2>3, <2>4, <2>5, <2>6 DEF World
  <2> QED
    BY <2>7, <2>8 DEF hs
<1>2. Boot(w, p) = IF builtIn \/ w.dir \in Readable \/ w.bak \in Readable THEN loaded ELSE fresh
  BY DEF Boot
<1> HIDE DEF fresh
<1>3. Fit(fresh) /\ KeepsEntry(w, fresh) /\ NoWorker(fresh)
  BY <1>1 DEF Fit, EntryOK, BuiltInOK, KeepsEntry, NoWorker, Dead
<1>4. /\ Fit(loaded) /\ KeepsEntry(fresh, loaded) /\ SameWorkers(fresh, loaded)
      /\ loaded.obj[loaded.plug].status = "installed" /\ loaded.entry.on
      /\ ~fresh.entry.on => loaded.entry.config = Default
  BY <1>1, <1>3, LoadFit, LoadPluginIs
<1> HIDE DEF loaded
<1>5. KeepsEntry(w, loaded) /\ NoWorker(loaded) /\ ~loaded.enabling
  BY <1>1, <1>3, <1>4 DEF KeepsEntry, NoWorker, SameWorkers
<1> QED
  BY <1>1, <1>2, <1>3, <1>4, <1>5 DEF SameWorkers

\* Forgetting what nothing refers to changes nothing that is still referred to.
LEMMA TidyIs ==
  ASSUME NEW w \in World, NEW calls \in [Proc -> CallState]
  PROVE  /\ Tidy(w, calls) \in World
         /\ Tidy(w, calls).plug = w.plug
         /\ Tidy(w, calls).entry = w.entry
         /\ Tidy(w, calls).enabling = w.enabling
         /\ Tidy(w, calls).sandbox = w.sandbox
         /\ Tidy(w, calls).hooks = w.hooks
         /\ Tidy(w, calls).dir = w.dir
         /\ Tidy(w, calls).bak = w.bak
         /\ w.plug # NoObj => Tidy(w, calls).obj[w.plug] = w.obj[w.plug]
         /\ \A h \in Host : /\ Tidy(w, calls).host[h].up <=> w.host[h].up
                            /\ w.host[h].up => Tidy(w, calls).host[h] = w.host[h]
<1> DEFINE objs == [o \in Obj |-> IF o = w.plug \/ \E p \in Proc : calls[p].obj = o
                                  THEN w.obj[o] ELSE NewObj]
           hosts == [h \in Host |-> IF w.host[h].up THEN w.host[h] ELSE Dead]
<1>1. Tidy(w, calls) = [w EXCEPT !.obj = objs, !.host = hosts]
  BY DEF Tidy
<1>2. objs \in [Obj -> [status : Status, config : Setting, scope : Setting]]
  BY PluginAssumption DEF World, NewObj, Status
<1>3. hosts \in [Host -> [up : BOOLEAN, sub : BOOLEAN, good : BOOLEAN, config : Setting]]
  BY PluginAssumption DEF World, Dead
<1>4. \A h \in Host : hosts[h] = IF w.host[h].up THEN w.host[h] ELSE Dead
  OBVIOUS
<1>5. w.plug # NoObj => w.plug \in Obj /\ objs[w.plug] = w.obj[w.plug]
  BY DEF World
<1>6. \A h \in Host : (hosts[h].up <=> w.host[h].up) /\ (w.host[h].up => hosts[h] = w.host[h])
  BY <1>4 DEF World, Dead
<1> HIDE DEF objs, hosts
<1>7. /\ Tidy(w, calls) \in World
      /\ Tidy(w, calls).obj = objs
      /\ Tidy(w, calls).host = hosts
  BY <1>1, <1>2, <1>3 DEF World
<1>8. /\ Tidy(w, calls).plug = w.plug
      /\ Tidy(w, calls).entry = w.entry
      /\ Tidy(w, calls).enabling = w.enabling
      /\ Tidy(w, calls).sandbox = w.sandbox
      /\ Tidy(w, calls).hooks = w.hooks
      /\ Tidy(w, calls).dir = w.dir
      /\ Tidy(w, calls).bak = w.bak
  BY <1>1 DEF World
<1> QED
  BY <1>5, <1>6, <1>7, <1>8

-----------------------------------------------------------------------------
(* One step: the types, the settings and the lock.                          *)

Others(p) == \E q \in Proc \ {p} : Starts(proc[q])

LEMMA BaseFacts ==
  ASSUME Base
  PROVE  /\ Now
         /\ Fit(loader)
         /\ wanted \in Setting \cup {"none"}
         /\ strained \in BOOLEAN /\ torn \in Torn
         /\ \A p \in Proc :
              /\ proc[p] \in CallState
              /\ CallOK(builtIn, proc[p])
              /\ Starts(proc[p]) => ~Others(p) /\ loader.enabling
              /\ ~Starts(proc[p]) => (loader.enabling <=> Others(p))
BY DEF Base, Typed, TypeOK, Now, Fit, LockOK, Others

LEMMA WantedFollows ==
  ASSUME NEW w, NEW v, NEW s, WantedOK(w, s), KeepsEntry(w, v)
  PROVE  WantedOK(v, s)
BY DEF WantedOK, KeepsEntry

\* A call stores a sane result.
LEMMA BecomeKeepsBase ==
  ASSUME Base, NEW p \in Proc, NEW w, NEW r, Sane(builtIn, w, r), w.enabling <=> Others(p),
         Become(p, r), builtIn' = builtIn, strained' \in BOOLEAN, torn' \in Torn,
         wanted' \in Setting \cup {"none"}, WantedOK(r.world, wanted')
  PROVE  Base'
<1> DEFINE calls == [proc EXCEPT ![p] = r.call]
<1>1. r.world \in World /\ r.call \in CallState /\ CallOK(builtIn, r.call)
  BY DEF Sane
<1>2. /\ calls \in [Proc -> CallState]
      /\ \A q \in Proc : calls[q] = IF q = p THEN r.call ELSE proc[q]
  BY <1>1, BaseFacts DEF Now
<1>3. proc' = calls /\ loader' = Tidy(r.world, calls)
  BY DEF Become
<1> HIDE DEF calls
<1>4. \A q \in Proc : CallOK(builtIn, calls[q])
  BY <1>1, <1>2, BaseFacts
<1>5. /\ Tidy(r.world, calls) \in World
      /\ EntryOK(builtIn, Tidy(r.world, calls))
      /\ BuiltInOK(builtIn, Tidy(r.world, calls))
      /\ WantedOK(Tidy(r.world, calls), wanted')
  BY <1>1, <1>2, TidyIs DEF Sane, EntryOK, BuiltInOK, WantedOK
<1>6. LockOK(Tidy(r.world, calls), calls)
  <2>1. Tidy(r.world, calls).enabling <=> Others(p) \/ Starts(r.call)
    BY <1>1, <1>2, TidyIs DEF Sane
  <2>2. Starts(r.call) => ~Others(p)
    BY DEF Sane
  <2>3. \A q1, q2 \in Proc : Starts(proc[q1]) /\ Starts(proc[q2]) => q1 = q2
    BY DEF Base, LockOK
  <2> QED
    BY <1>2, <2>1, <2>2, <2>3 DEF LockOK, Others
<1>7. Typed'
  <2>1. TypeOK'
    BY <1>2, <1>3, <1>4, <1>5, BaseFacts DEF TypeOK, Now, CallOK
  <2> QED
    BY <2>1, <1>3, <1>4, <1>5 DEF Typed
<1> QED
  BY <1>3, <1>5, <1>6, <1>7 DEF Base

LEMMA RebootsKeepsBase ==
  ASSUME Base, NEW w, Fit(w), KeepsEntry(loader, w), Reboots(w),
         UNCHANGED <<builtIn, wanted>>, strained' \in BOOLEAN, torn' \in Torn
  PROVE  Base'
<1> DEFINE any == CHOOSE p \in Proc : TRUE
           v == Boot(w, any)
           calls == [q \in Proc |-> AtRest]
<1>1. any \in Proc
  BY PluginAssumption
<1>2. loader' = v /\ proc' = calls
  BY DEF Reboots
<1> HIDE DEF any
<1>3. Fit(v) /\ KeepsEntry(w, v) /\ ~v.enabling
  BY <1>1, BaseFacts, BootIs
<1> HIDE DEF v
<1>4. WantedOK(v, wanted)
  BY <1>3 DEF Base, WantedOK, KeepsEntry
<1>5. LockOK(v, calls)
  BY <1>3, AtRestIs DEF LockOK
<1>6. Typed'
  <2>1. calls \in [Proc -> CallState] /\ \A q \in Proc : calls[q].at = "rest" /\ CallOK(builtIn, calls[q])
    BY AtRestIs
  <2> HIDE DEF calls
  <2>2. TypeOK'
    BY <1>2, <1>3, <2>1, BaseFacts DEF TypeOK, Now, Fit
  <2> QED
    BY <1>2, <1>3, <2>1, <2>2 DEF Typed, Fit
<1> QED
  BY <1>2, <1>3, <1>4, <1>5, <1>6 DEF Base, Fit

\* Saving the config in the object and in the registry entry.
LEMMA TellIs ==
  ASSUME NEW w \in World, w.plug \in Obj, NEW s \in Setting
  PROVE  [w EXCEPT !.obj[w.plug].config = s,
                   !.entry.config = IF w.entry.on THEN s ELSE @] \in World
<1> DEFINE told == [w EXCEPT !.obj[w.plug].config = s,
                             !.entry.config = IF w.entry.on THEN s ELSE @]
<1>1. told.entry = [w.entry EXCEPT !.config = IF w.entry.on THEN s ELSE @]
  BY DEF World
<1>2. told.obj = [w.obj EXCEPT ![w.plug].config = s]
  BY DEF World
<1>3. told = [w EXCEPT !.obj = told.obj, !.entry = told.entry]
  BY DEF World
<1> HIDE DEF told
<1>4. told.entry \in [on : BOOLEAN, status : Status, config : Setting, scope : Setting]
  BY <1>1 DEF World
<1>5. told.obj \in [Obj -> [status : Status, config : Setting, scope : Setting]]
  BY <1>2 DEF World
<1>6. told \in World
  BY <1>3, <1>4, <1>5 DEF World
<1> QED
  BY <1>6 DEF told

\* The calls.
LEMMA CallKeepsBase ==
  ASSUME Base, NEW p \in Proc, Call(p)
  PROVE  Base'
<1> USE BaseFacts
<1>1. proc[p].at = "rest" /\ builtIn' = builtIn
  BY DEF Call, Enable, Disable, Uninstall, Update, Install, SetConfig, SetScope, Shutdown, Arrives
<1>2. loader.enabling <=> Others(p)
  BY <1>1 DEF Starts
<1>3. strained' \in BOOLEAN /\ torn' \in Torn
  BY DEF Call, Enable, Disable, Uninstall, Update, Install, SetConfig, SetScope, Shutdown, Arrives,
         Torn
<1>4. WantedOK(loader, wanted)
  BY DEF Base
<1>5. ASSUME NEW r, Sane(builtIn, loader, r), Become(p, r),
             KeepsEntry(loader, r.world), wanted' = wanted
      PROVE  Base'
  <2>1. WantedOK(r.world, wanted')
    BY <1>4, <1>5, WantedFollows
  <2> QED
    BY <1>1, <1>2, <1>3, <1>5, <2>1, BecomeKeepsBase
<1>6. loader \in World
  BY DEF Fit
<1>7. CASE Enable(p)
  <2> DEFINE r == EnableBegins(loader, p, "call", FALSE)
  <2>1. Become(p, r) /\ ~EnableRefused(loader) /\ wanted' = wanted
    BY <1>7 DEF Enable
  <2>2. Sound(builtIn, loader, r)
    BY <2>1, EnableBeginsSound
  <2> QED
    BY <1>5, <2>1, <2>2 DEF Sound
<1>8. CASE Disable(p)
  <2> DEFINE r == IF Stoppable(loader) THEN DisableBegins(loader, "call", FALSE)
                  ELSE Return(Disabled(loader, loader.plug))
  <2>1. Become(p, r) /\ wanted' = wanted /\ loader.plug # NoObj /\ loader.plug \in Obj
    BY <1>6, <1>8 DEF Disable, Known, World
  <2>2. Fit(Disabled(loader, loader.plug)) /\ KeepsEntry(loader, Disabled(loader, loader.plug))
          /\ Disabled(loader, loader.plug).enabling = loader.enabling
    BY <2>1, DisabledFit
  <2>3. Sound(builtIn, loader, Return(Disabled(loader, loader.plug)))
    BY <1>6, <2>2, ReturnSound
  <2>4. Sound(builtIn, loader, r)
    BY <2>1, <2>3, DisableBeginsSound
  <2> QED
    BY <1>5, <2>1, <2>4 DEF Sound
<1>9. CASE Uninstall(p)
  <2>1. PICK r \in Unload(loader, p, "uninstall", FALSE) :
          Become(p, r) /\ wanted' = Wanted(r, "uninstall")
    BY <1>9 DEF Uninstall
  <2>2. ~builtIn /\ loader.plug # NoObj
    BY <1>9 DEF Uninstall, Known
  <2>3. Sane(builtIn, loader, r) /\ (KeepsEntry(loader, r.world) \/ Removed("uninstall", r))
    BY <2>1, <2>2, UnloadSane
  <2>4. WantedOK(r.world, wanted') /\ wanted' \in Setting \cup {"none"}
    BY <1>4, <2>1, <2>3, AtRestIs, WantedFollows DEF Wanted, Removed, WantedOK
  <2> QED
    BY <1>1, <1>2, <1>3, <2>1, <2>3, <2>4, BecomeKeepsBase
<1>10. CASE Update(p)
  <2>1. PICK r \in Unload(loader, p, "update", Known({"enabled"})) : Become(p, r)
    BY <1>10 DEF Update
  <2>2. ~builtIn /\ loader.plug # NoObj /\ wanted' = wanted /\ Known({"enabled"}) \in BOOLEAN
    BY <1>10 DEF Update, Known
  <2>3. Sane(builtIn, loader, r) /\ KeepsEntry(loader, r.world)
    BY <2>1, <2>2, UnloadSane DEF Removed
  <2> QED
    BY <1>5, <2>1, <2>2, <2>3
<1>11. CASE Install(p)
  <2> DEFINE v == [loader EXCEPT !.dir = "old"]
             u == LoadPlugin(v, p)
  <2>1. Become(p, Return(u)) /\ loader.plug = NoObj
    BY <1>11 DEF Install
  <2>2. v \in World /\ Alike(loader, v)
    BY <1>6 DEF World, Alike, Content
  <2> HIDE DEF v
  <2>3. Fit(v) /\ KeepsEntry(loader, v) /\ v.entry = loader.entry /\ v.enabling = loader.enabling
    BY <2>2, AlikeFit DEF Alike
  <2>4. /\ Fit(u) /\ KeepsEntry(v, u) /\ u.enabling = v.enabling /\ u.entry.on
        /\ u.entry.config = IF loader.entry.on THEN loader.entry.config ELSE Default
    BY <2>2, <2>3, LoadFit, LoadPluginIs
  <2> HIDE DEF u
  <2>5. Sound(builtIn, loader, Return(u))
    BY <1>6, <2>3, <2>4, ReturnSound DEF KeepsEntry
  <2>6. wanted' \in Setting \cup {"none"} /\ WantedOK(u, wanted')
    <3>1. wanted' = IF wanted # "none" THEN wanted
                    ELSE IF loader.entry.on THEN loader.entry.config ELSE Default
      BY <1>11 DEF Install
    <3>2. loader.entry.config \in Setting
      BY <1>6 DEF World
    <3> QED
      BY <1>4, <2>4, <3>1, <3>2, PluginAssumption DEF WantedOK
  <2> QED
    BY <1>1, <1>2, <1>3, <2>1, <2>5, <2>6, ResultIs, BecomeKeepsBase DEF Sound
<1>12. CASE \E s \in Setting : SetConfig(p, s)
  <2>1. PICK s \in Setting : SetConfig(p, s)
    BY <1>12
  <2> DEFINE told == [loader EXCEPT !.obj[loader.plug].config = s,
                                    !.entry.config = IF loader.entry.on THEN s ELSE @]
             h == loader.sandbox
  <2>2. /\ loader.plug \in Obj /\ loader.plug # NoObj /\ loader.entry.on /\ proc' = proc
        /\ wanted' = IF wanted = "none" THEN wanted ELSE s
        /\ loader' = IF Known({"enabled"}) /\ h # NoHost /\ loader.host[h].up
                     THEN [told EXCEPT !.host[h].config = s] ELSE told
    BY <1>6, <2>1 DEF SetConfig, Known, World, Base, EntryOK
  <2>a. loader.plug \in Obj /\ loader.entry.on
    BY <2>2
  <2>b. told = [loader EXCEPT !.obj[loader.plug].config = s,
                              !.entry.config = IF loader.entry.on THEN s ELSE @]
    OBVIOUS
  <2> HIDE DEF told, h
  <2>3. /\ told \in World /\ told.plug = loader.plug /\ told.sandbox = loader.sandbox
        /\ told.enabling = loader.enabling
        /\ told.entry.on /\ told.entry.config = s /\ told.entry.scope = loader.entry.scope
        /\ told.obj[told.plug].config = s
        /\ told.obj[told.plug].scope = loader.obj[loader.plug].scope
    <3>1. told.entry = [loader.entry EXCEPT !.config = s]
      BY <1>6, <2>a, <2>b DEF World
    <3>2. told.obj = [loader.obj EXCEPT ![loader.plug].config = s]
      BY <1>6, <2>a, <2>b DEF World
    <3>3. told.plug = loader.plug /\ told.sandbox = loader.sandbox /\ told.enabling = loader.enabling
      BY <1>6, <2>a, <2>b DEF World
    <3>4. s \in Setting
      BY <2>1
    <3>5. told \in World
      <4>1. told.entry \in [on : BOOLEAN, status : Status, config : Setting, scope : Setting]
        BY <1>6, <3>1, <3>4 DEF World
      <4>2. told.obj \in [Obj -> [status : Status, config : Setting, scope : Setting]]
        BY <1>6, <2>a, <3>2, <3>4 DEF World
      <4>3. told = [loader EXCEPT !.obj = told.obj, !.entry = told.entry]
        BY <1>6, <2>b DEF World
      <4> QED
        BY <1>6, <4>1, <4>2, <4>3 DEF World
    <3> QED
      BY <1>6, <2>a, <3>1, <3>2, <3>3, <3>4, <3>5 DEF World
  <2>4. /\ loader' \in World /\ loader'.plug = told.plug /\ loader'.sandbox = told.sandbox
        /\ loader'.enabling = told.enabling /\ loader'.entry = told.entry
        /\ loader'.obj = told.obj
    <3>1. CASE h # NoHost /\ loader' = [told EXCEPT !.host[h].config = s]
      <4>1. h \in Host
        BY <1>6, <3>1 DEF World, h
      <4>2. s \in Setting
        BY <2>1
      <4>3. [told.host EXCEPT ![h].config = s]
               \in [Host -> [up : BOOLEAN, sub : BOOLEAN, good : BOOLEAN, config : Setting]]
        BY <2>3, <4>1, <4>2 DEF World
      <4>4. loader' = [told EXCEPT !.host = [told.host EXCEPT ![h].config = s]]
        BY <2>3, <3>1 DEF World
      <4> QED
        BY <2>3, <4>3, <4>4 DEF World
    <3>2. CASE loader' = told
      BY <2>3, <3>2
    <3> QED
      BY <2>2, <3>1, <3>2
  <2>5. EntryOK(builtIn', loader') /\ BuiltInOK(builtIn', loader') /\ WantedOK(loader', wanted')
          /\ LockOK(loader', proc')
    BY <1>1, <2>2, <2>3, <2>4
    DEF Base, EntryOK, BuiltInOK, WantedOK, LockOK, Fit
  <2>6. Typed'
    BY <1>1, <1>3, <2>2, <2>4, <2>5 DEF Base, Typed, TypeOK
  <2> QED
    BY <2>5, <2>6 DEF Base
<1>13. CASE \E s \in Setting : SetScope(p, s)
  <2>1. PICK s \in Setting : SetScope(p, s)
    BY <1>13
  <2>2. /\ loader.plug \in Obj /\ loader.plug # NoObj /\ loader.entry.on /\ proc' = proc
        /\ wanted' = wanted
        /\ loader' = [loader EXCEPT !.obj[loader.plug].scope = s,
                                    !.entry.scope = IF loader.entry.on THEN s ELSE @]
    BY <1>6, <2>1 DEF SetScope, Known, World, Base, EntryOK
  <2>3. /\ loader' \in World /\ loader'.plug = loader.plug /\ loader'.sandbox = loader.sandbox
        /\ loader'.enabling = loader.enabling
        /\ loader'.entry.on /\ loader'.entry.config = loader.entry.config
        /\ loader'.entry.scope = s
        /\ loader'.obj[loader.plug].config = loader.obj[loader.plug].config
        /\ loader'.obj[loader.plug].scope = s
    BY <1>6, <2>2 DEF World
  <2>4. EntryOK(builtIn', loader') /\ BuiltInOK(builtIn', loader') /\ WantedOK(loader', wanted')
          /\ LockOK(loader', proc')
    BY <1>1, <2>2, <2>3
    DEF Base, EntryOK, BuiltInOK, WantedOK, LockOK, Fit
  <2>5. Typed'
    BY <1>1, <1>3, <2>2, <2>3, <2>4 DEF Base, Typed, TypeOK
  <2> QED
    BY <2>4, <2>5 DEF Base
<1>14. CASE Shutdown(p)
  <2> DEFINE r == DisableBegins(loader, "shutdown", FALSE)
  <2>1. Become(p, r) /\ Stoppable(loader) /\ wanted' = wanted /\ loader.plug # NoObj
    BY <1>14 DEF Shutdown, Known
  <2>2. Sound(builtIn, loader, r)
    BY <2>1, DisableBeginsSound
  <2> QED
    BY <1>5, <2>1, <2>2 DEF Sound
<1> QED
  BY <1>7, <1>8, <1>9, <1>10, <1>11, <1>12, <1>13, <1>14 DEF Call

\* EnableFailed() releases the lock before it goes on.
LEMMA EnableFailedSound ==
  ASSUME Now, NEW w, Fit(w), NEW p \in Proc, NEW c \in CallState, c.obj \in Obj,
         builtIn => c.then = "call"
  PROVE  Sound(builtIn, [w EXCEPT !.enabling = FALSE], EnableFailed(w, p, c))
           /\ KeepsEntry(w, EnableFailed(w, p, c).world)
<1> DEFINE s == Settle(w, c.obj, "error")
           v == [s EXCEPT !.enabling = FALSE]
           free == [w EXCEPT !.enabling = FALSE]
           r == AfterEnable(v, p, c, FALSE)
<1>1. w \in World /\ "error" \in Status
  BY DEF Fit, Status
<1>2. s \in World /\ (EntryOK(builtIn, w) => EntryOK(builtIn, s)) /\ KeepsEntry(w, s) /\ s.sandbox = w.sandbox
  BY <1>1, SettleIs DEF SameWorkers
<1> HIDE DEF s
<1>3. /\ v \in World /\ v.entry = s.entry /\ v.sandbox = s.sandbox /\ ~v.enabling
      /\ v.obj = s.obj /\ v.plug = s.plug
  BY <1>2 DEF World
<1> HIDE DEF v
<1>4. Fit(v) /\ KeepsEntry(w, v)
  BY <1>2, <1>3 DEF Fit, EntryOK, BuiltInOK, KeepsEntry
<1>5. Sound(builtIn, v, r)
  BY <1>4, AfterEnableSound
<1>6. free.entry = w.entry /\ ~free.enabling
  BY <1>1 DEF World
<1>7. EnableFailed(w, p, c) = r
  BY DEF EnableFailed, s, v
<1> HIDE DEF r, free
<1>8. Sound(builtIn, free, r) /\ KeepsEntry(w, r.world)
  BY <1>3, <1>4, <1>5, <1>6 DEF Sound, Sane, KeepsEntry
<1> QED
  BY <1>7, <1>8 DEF free

\* The awaits that settle.
LEMMA StepKeepsBase ==
  ASSUME Base, NEW p \in Proc, Step(p)
  PROVE  Base'
<1> DEFINE c == proc[p]
           free == [loader EXCEPT !.enabling = FALSE]
<1> USE BaseFacts
<1>1. builtIn' = builtIn /\ strained' = strained /\ torn' = torn
  BY DEF Step, Started, StartFails, StartTornDown, Stopped, Terminated
<1>2. /\ loader \in World /\ WantedOK(loader, wanted)
      /\ c \in CallState /\ CallOK(builtIn, c) /\ c.was \in BOOLEAN
  BY DEF Fit, Base, CallState
<1>3. c.at \in {"starting", "failing", "stopping", "terminating"}
  BY DEF Step, Started, StartFails, StartTornDown, Stopped, Terminated
<1>4. /\ c.obj \in Obj /\ c.then \in ThenOf(c.at)
      /\ builtIn => c.then \in {"call", "shutdown"}
      /\ InProcess(c) <=> builtIn
      /\ ~builtIn => c.host \in Host
  BY <1>2, <1>3 DEF CallOK, CallState, InProcess
<1>5. free \in World /\ ~free.enabling
  BY <1>2 DEF World
<1>6. ASSUME NEW w, NEW r, Sane(builtIn, w, r), w.enabling <=> Others(p), Become(p, r),
             KeepsEntry(loader, r.world), wanted' = wanted
      PROVE  Base'
  <2>1. WantedOK(r.world, wanted')
    BY <1>2, <1>6, WantedFollows
  <2> QED
    BY <1>1, <1>6, <2>1, BecomeKeepsBase
<1>7. CASE Started(p)
  <2> DEFINE s == Settle(loader, c.obj, "enabled")
             world(n) == [s EXCEPT !.enabling = FALSE, !.hooks = n]
             r(n) == AfterEnable(world(n), p, c, TRUE)
  <2>1. c.at = "starting" /\ wanted' = wanted
    BY <1>7 DEF Started
  <2>2. PICK n \in 0..MaxHooks : Become(p, r(n))
    BY <1>2, <1>7 DEF Started, Registering, World
  <2>3. s \in World /\ (EntryOK(builtIn, loader) => EntryOK(builtIn, s)) /\ KeepsEntry(loader, s)
          /\ s.sandbox = loader.sandbox
    <3>1. "enabled" \in Status
      BY DEF Status
    <3> QED
      BY <1>2, <1>4, <3>1, SettleIs DEF SameWorkers
  <2> HIDE DEF s
  <2>4. /\ world(n) \in World /\ world(n).entry = s.entry /\ world(n).sandbox = s.sandbox
        /\ ~world(n).enabling /\ world(n).obj = s.obj /\ world(n).plug = s.plug
    BY <2>3 DEF World
  <2> HIDE DEF world
  <2>5. Fit(world(n)) /\ KeepsEntry(loader, world(n))
    BY <2>3, <2>4 DEF Fit, EntryOK, BuiltInOK, KeepsEntry
  <2>6. builtIn => c.then = "call"
    BY <1>4, <2>1 DEF ThenOf
  <2>7. Sound(builtIn, world(n), r(n))
    BY <1>2, <2>5, <2>6, AfterEnableSound
  <2>8. ~Others(p)
    BY <2>1 DEF Starts
  <2>9. KeepsEntry(loader, r(n).world) /\ Sane(builtIn, world(n), r(n))
    BY <2>5, <2>7 DEF Sound, KeepsEntry
  <2> HIDE DEF r
  <2> QED
    BY <1>6, <2>1, <2>2, <2>4, <2>8, <2>9
<1>8. CASE StartFails(p)
  <2>1. c.at = "starting" /\ wanted' = wanted /\ ~Others(p) /\ loader.enabling
    BY <1>8 DEF StartFails, Starts
  <2>2. builtIn => c.then = "call"
    BY <1>4, <2>1 DEF ThenOf
  <2>3. CASE InProcess(c)
    <3> DEFINE world(n) == [loader EXCEPT !.hooks = n]
               r(n) == EnableFailed(world(n), p, c)
    <3>1. PICK n \in 0..MaxHooks : Become(p, r(n))
      BY <1>2, <1>8, <2>3 DEF StartFails, Registering, World
    <3>2. world(n) \in World /\ Alike(loader, world(n))
      BY <1>2 DEF World, Alike
    <3> HIDE DEF world
    <3>3. Fit(world(n)) /\ world(n).entry = loader.entry
      BY <3>2, AlikeFit DEF Alike
    <3>4. Sound(builtIn, [world(n) EXCEPT !.enabling = FALSE], r(n))
            /\ KeepsEntry(world(n), r(n).world)
      BY <1>2, <1>4, <2>2, <3>3, EnableFailedSound
    <3>5. ~[world(n) EXCEPT !.enabling = FALSE].enabling
      BY <3>2 DEF World
    <3> HIDE DEF r
    <3> QED
      BY <1>6, <2>1, <3>1, <3>3, <3>4, <3>5 DEF Sound, KeepsEntry
  <2>4. CASE ~InProcess(c)
    <3> DEFINE w == [loader EXCEPT !.sandbox = NoHost]
               d == [c EXCEPT !.at = "failing"]
               r == Result(w, d)
    <3>1. Become(p, r)
      BY <1>8, <2>4 DEF StartFails
    <3>2. r.world = w /\ r.call = d
      BY ResultIs
    <3>3. w \in World /\ w.enabling /\ w.entry = loader.entry /\ w.plug = loader.plug
            /\ w.obj = loader.obj /\ w.sandbox = NoHost
      BY <1>2, <2>1 DEF World
    <3>4. d \in CallState /\ Starts(d) /\ CallOK(builtIn, d)
      <4>1. d \in CallState /\ d.at = "failing" /\ d.then = c.then /\ d.obj = c.obj /\ d.host = c.host
        BY <1>2 DEF CallState, At
      <4> HIDE DEF d
      <4> QED
        BY <1>2, <2>1, <4>1 DEF CallOK, Starts, ThenOf
    <3> HIDE DEF w, d, r
    <3>5. EntryOK(builtIn, w) /\ BuiltInOK(builtIn, w) /\ KeepsEntry(loader, w)
      BY <3>3 DEF Fit, EntryOK, BuiltInOK, KeepsEntry
    <3>6. Sane(builtIn, free, r)
      BY <1>5, <3>2, <3>3, <3>4, <3>5 DEF Sane
    <3> QED
      BY <1>5, <1>6, <2>1, <3>1, <3>2, <3>5, <3>6
  <2> QED
    BY <2>3, <2>4
<1>9. CASE StartTornDown(p)
  <2> DEFINE w == [loader EXCEPT !.host[c.host] = Dead]
             r == EnableFailed(w, p, c)
  <2>1. c.at = "failing" /\ wanted' = wanted /\ Become(p, r) /\ ~Others(p)
    BY <1>9 DEF StartTornDown, Starts
  <2>2. builtIn => c.then = "call"
    BY <1>4, <2>1 DEF ThenOf
  <2>3. w \in World /\ Alike(loader, w)
    <3>1. Dead \in [up : BOOLEAN, sub : BOOLEAN, good : BOOLEAN, config : Setting]
      BY PluginAssumption DEF Dead
    <3>2. [loader.host EXCEPT ![c.host] = Dead]
            \in [Host -> [up : BOOLEAN, sub : BOOLEAN, good : BOOLEAN, config : Setting]]
      BY <1>2, <3>1 DEF World
    <3> QED
      BY <1>2, <3>2 DEF World, Alike
  <2> HIDE DEF w
  <2>4. Fit(w) /\ w.entry = loader.entry
    BY <2>3, AlikeFit DEF Alike
  <2>5. Sound(builtIn, [w EXCEPT !.enabling = FALSE], r) /\ KeepsEntry(w, r.world)
    BY <1>2, <1>4, <2>2, <2>4, EnableFailedSound
  <2>6. ~[w EXCEPT !.enabling = FALSE].enabling
    BY <2>3 DEF World
  <2> HIDE DEF r
  <2> QED
    BY <1>6, <2>1, <2>4, <2>5, <2>6 DEF Sound, KeepsEntry
<1>10. ASSUME NEW w, Fit(w), KeepsEntry(loader, w), w.enabling <=> Others(p),
              c.then \in {"call", "uninstall", "update", "rollback"}, builtIn => c.then = "call",
              NEW r \in AfterDisable(w, p, c), Become(p, r),
              wanted' = Wanted(r, c.then) \/ (wanted' = wanted /\ c.then # "uninstall")
       PROVE  Base'
  <2>1. Sane(builtIn, w, r) /\ (KeepsEntry(w, r.world) \/ Removed(c.then, r))
    BY <1>2, <1>10, AfterDisableSane
  <2>2. WantedOK(r.world, wanted') /\ wanted' \in Setting \cup {"none"}
    <3>1. CASE KeepsEntry(w, r.world)
      <4>1. KeepsEntry(loader, r.world)
        BY <1>10, <3>1 DEF KeepsEntry
      <4>2. WantedOK(r.world, wanted)
        BY <1>2, <4>1, WantedFollows
      <4> QED
        BY <1>10, <4>2 DEF Wanted, WantedOK
    <3>2. CASE Removed(c.then, r)
      BY <1>10, <3>2, AtRestIs DEF Wanted, WantedOK, Removed
    <3> QED
      BY <2>1, <3>1, <3>2
  <2> QED
    BY <1>1, <1>10, <2>1, <2>2, BecomeKeepsBase
<1>11. CASE Stopped(p)
  <2>1. c.at = "stopping" /\ wanted' = wanted /\ (loader.enabling <=> Others(p))
    BY <1>11 DEF Stopped, Starts
  <2>2. CASE ~InProcess(c)
    <3> DEFINE d == [c EXCEPT !.at = "terminating"]
               r == Result(loader, d)
    <3>1. Become(p, r)
      BY <1>11, <2>2 DEF Stopped
    <3>2. r.world = loader /\ r.call = d
      BY ResultIs
    <3>3. d \in CallState /\ ~Starts(d) /\ CallOK(builtIn, d)
      <4>1. d \in CallState /\ d.at = "terminating" /\ d.then = c.then /\ d.obj = c.obj /\ d.host = c.host
        BY <1>2 DEF CallState, At
      <4> HIDE DEF d
      <4> QED
        BY <1>2, <2>1, <4>1 DEF CallOK, Starts, ThenOf
    <3> HIDE DEF d, r
    <3>4. Sane(builtIn, loader, r) /\ KeepsEntry(loader, r.world)
      BY <3>2, <3>3 DEF Sane, Fit, KeepsEntry
    <3> QED
      BY <1>6, <2>1, <3>1, <3>4
  <2>3. CASE InProcess(c)
    <3>1. PICK w \in {Disabled(loader, c.obj), [loader EXCEPT !.obj[c.obj].status = "error"]} :
            IF c.then = "shutdown" THEN Reboots(w)
            ELSE \E r \in AfterDisable(w, p, c) : Become(p, r)
      BY <1>11, <2>3 DEF Stopped
    <3>2. Fit(w) /\ KeepsEntry(loader, w) /\ w.enabling = loader.enabling
      <4>1. CASE w = Disabled(loader, c.obj)
        BY <1>4, <4>1, DisabledFit
      <4>2. CASE w = [loader EXCEPT !.obj[c.obj].status = "error"]
        <5>3. "error" \in Status
          BY DEF Status
        <5>1. /\ w \in World /\ w.plug = loader.plug /\ w.entry = loader.entry
              /\ w.sandbox = loader.sandbox /\ w.enabling = loader.enabling
              /\ \A x \in Obj : w.obj[x].config = loader.obj[x].config
                                  /\ w.obj[x].scope = loader.obj[x].scope
          <6> DEFINE o == c.obj
          <6>1. o \in Obj /\ w = [loader EXCEPT !.obj[o].status = "error"]
            BY <1>4, <4>2
          <6> HIDE DEF o
          <6>2. w.obj = [loader.obj EXCEPT ![o].status = "error"]
            BY <1>2, <6>1 DEF World
          <6>3. w.obj \in [Obj -> [status : Status, config : Setting, scope : Setting]]
            BY <1>2, <5>3, <6>1, <6>2 DEF World
          <6>4. /\ w.plug = loader.plug /\ w.entry = loader.entry
                /\ w.sandbox = loader.sandbox /\ w.enabling = loader.enabling
            BY <1>2, <6>1 DEF World
          <6>5. w = [loader EXCEPT !.obj = w.obj]
            BY <1>2, <6>1 DEF World
          <6>6. w \in World
            BY <1>2, <6>3, <6>5 DEF World
          <6>7. \A x \in Obj : w.obj[x].config = loader.obj[x].config
                                /\ w.obj[x].scope = loader.obj[x].scope
            <7>1. loader.obj \in [Obj -> [status : Status, config : Setting, scope : Setting]]
              BY <1>2 DEF World
            <7> QED
              BY <6>1, <6>2, <7>1
          <6> QED
            BY <6>4, <6>6, <6>7
        <5>2. loader.plug # NoObj => loader.plug \in Obj
          BY <1>2 DEF World
        <5> QED
          BY <5>1, <5>2 DEF Fit, EntryOK, BuiltInOK, KeepsEntry
      <4> QED
        BY <3>1, <4>1, <4>2
    <3>3. CASE c.then = "shutdown"
      BY <1>1, <2>1, <3>1, <3>2, <3>3, RebootsKeepsBase
    <3>4. CASE c.then # "shutdown"
      <4>1. c.then = "call"
        BY <1>4, <2>3, <3>4
      <4> QED
        BY <1>10, <2>1, <3>1, <3>2, <3>4, <4>1
    <3> QED
      BY <3>3, <3>4
  <2> QED
    BY <2>2, <2>3
<1>12. CASE Terminated(p)
  <2> DEFINE v == [loader EXCEPT !.host[c.host] = Dead, !.sandbox = NoHost]
             w == Disabled(v, c.obj)
  <2>1. c.at = "terminating" /\ (loader.enabling <=> Others(p))
    BY <1>12 DEF Terminated, Starts
  <2>2. v \in World /\ v.plug = loader.plug /\ v.obj = loader.obj /\ v.entry = loader.entry
          /\ v.enabling = loader.enabling /\ v.sandbox = NoHost
    <3>1. Dead \in [up : BOOLEAN, sub : BOOLEAN, good : BOOLEAN, config : Setting]
      BY PluginAssumption DEF Dead
    <3>2. [loader.host EXCEPT ![c.host] = Dead]
            \in [Host -> [up : BOOLEAN, sub : BOOLEAN, good : BOOLEAN, config : Setting]]
      BY <1>2, <3>1 DEF World
    <3> QED
      BY <1>2, <3>2 DEF World
  <2>3. IF c.then = "shutdown" THEN Reboots(w) /\ wanted' = wanted
        ELSE \E r \in AfterDisable(w, p, c) : Become(p, r) /\ wanted' = Wanted(r, c.then)
    BY <1>12 DEF Terminated
  <2> HIDE DEF v
  <2>4. Fit(v)
    BY <2>2 DEF Fit, EntryOK, BuiltInOK
  <2>5. Fit(w) /\ KeepsEntry(v, w) /\ w.enabling = v.enabling
    BY <1>4, <2>4, DisabledFit
  <2>6. KeepsEntry(loader, w) /\ (w.enabling <=> Others(p))
    BY <2>1, <2>2, <2>5 DEF KeepsEntry
  <2> HIDE DEF w
  <2>7. CASE c.then = "shutdown"
    BY <1>1, <2>3, <2>5, <2>6, <2>7, RebootsKeepsBase
  <2>8. CASE c.then # "shutdown"
    <3>1. c.then \in {"call", "uninstall", "update", "rollback"} /\ (builtIn => c.then = "call")
      BY <1>4, <2>1, <2>8 DEF ThenOf
    <3> QED
      BY <1>10, <2>3, <2>5, <2>6, <2>8, <3>1
  <2> QED
    BY <2>7, <2>8
<1> QED
  BY <1>7, <1>8, <1>9, <1>11, <1>12 DEF Step

\* The worker subscribes or exits.
LEMMA WorkerKeepsBase ==
  ASSUME Base, NEW h \in Host, Subscribe(h) \/ WorkerExits(h)
  PROVE  Base'
<1> USE BaseFacts
<1>1. UNCHANGED <<builtIn, proc, wanted, strained, torn>>
  BY DEF Subscribe, WorkerExits
<1>2. loader \in World
  BY DEF Fit
<1>3. loader' \in World /\ Alike(loader, loader')
  <2>1. CASE Subscribe(h)
    <3>1. loader' = [loader EXCEPT !.host[h].sub = TRUE, !.hooks = @ + 1] /\ loader.hooks < MaxHooks
      BY <2>1 DEF Subscribe
    <3>2. [loader.host EXCEPT ![h].sub = TRUE]
            \in [Host -> [up : BOOLEAN, sub : BOOLEAN, good : BOOLEAN, config : Setting]]
      BY <1>2 DEF World
    <3>3. loader.hooks + 1 \in 0..MaxHooks
      BY <1>2, <3>1, PluginAssumption DEF World
    <3>4. loader' = [loader EXCEPT !.host = [loader.host EXCEPT ![h].sub = TRUE],
                                   !.hooks = loader.hooks + 1]
      BY <1>2, <3>1 DEF World
    <3> QED
      BY <1>2, <3>2, <3>3, <3>4 DEF World, Alike
  <2>2. CASE WorkerExits(h)
    <3>1. loader' = [loader EXCEPT !.host[h] = Dead]
      BY <2>2 DEF WorkerExits
    <3>2. Dead \in [up : BOOLEAN, sub : BOOLEAN, good : BOOLEAN, config : Setting]
      BY PluginAssumption DEF Dead
    <3>3. [loader.host EXCEPT ![h] = Dead]
            \in [Host -> [up : BOOLEAN, sub : BOOLEAN, good : BOOLEAN, config : Setting]]
      BY <1>2, <3>2 DEF World
    <3>4. loader' = [loader EXCEPT !.host = [loader.host EXCEPT ![h] = Dead]]
      BY <1>2, <3>1 DEF World
    <3> QED
      BY <1>2, <3>3, <3>4 DEF World, Alike
  <2> QED
    BY <2>1, <2>2
<1>4. EntryOK(builtIn', loader') /\ BuiltInOK(builtIn', loader') /\ WantedOK(loader', wanted')
        /\ LockOK(loader', proc')
  BY <1>1, <1>3 DEF Base, Alike, EntryOK, BuiltInOK, WantedOK, LockOK, Fit
<1>5. Typed'
  BY <1>1, <1>3, <1>4 DEF Base, Typed, TypeOK
<1> QED
  BY <1>4, <1>5 DEF Base

\* The process dies.
LEMMA DeathKeepsBase ==
  ASSUME Base, Killed \/ (\E p \in Proc : DiesInSwap(p)) \/ DiesInInstall
  PROVE  Base'
<1> USE BaseFacts
<1>1. UNCHANGED <<builtIn, wanted>> /\ strained' \in BOOLEAN /\ torn' \in Torn
  BY DEF Killed, DiesInSwap, DiesInInstall, Torn
<1>2. loader \in World
  BY DEF Fit
<1>3. ASSUME NEW v \in World, Alike(loader, v), Reboots(v)
      PROVE  Base'
  BY <1>1, <1>3, AlikeFit, RebootsKeepsBase
<1>4. CASE Killed
  BY <1>2, <1>3, <1>4 DEF Killed, Alike
<1>5. CASE \E p \in Proc : DiesInSwap(p)
  <2>1. PICK d \in Content : Reboots([Moved(loader) EXCEPT !.dir = d])
    BY <1>5 DEF DiesInSwap
  <2>2. [Moved(loader) EXCEPT !.dir = d] \in World /\ Alike(loader, [Moved(loader) EXCEPT !.dir = d])
    BY <1>2 DEF World, Alike, Content, Moved
  <2> QED
    BY <1>3, <2>1, <2>2
<1>6. CASE DiesInInstall
  <2>1. PICK d \in Content : Reboots([loader EXCEPT !.dir = d])
    BY <1>6 DEF DiesInInstall
  <2>2. [loader EXCEPT !.dir = d] \in World /\ Alike(loader, [loader EXCEPT !.dir = d])
    BY <1>2 DEF World, Alike
  <2> QED
    BY <1>3, <2>1, <2>2
<1> QED
  BY <1>4, <1>5, <1>6

Blank == [plug |-> NoObj,
          obj |-> [o \in Obj |-> NewObj],
          enabling |-> FALSE,
          sandbox |-> NoHost,
          host |-> [h \in Host |-> Dead],
          hooks |-> 0,
          entry |-> NoEntry,
          dir |-> "none",
          bak |-> "none"]

\* The first start is a boot of an empty loader.
LEMMA InitIs ==
  ASSUME Init
  PROVE  /\ Now
         /\ Fit(Blank)
         /\ Blank.entry.on = FALSE
         /\ Blank.dir = "none"
         /\ (CHOOSE p \in Proc : TRUE) \in Proc
         /\ loader = Boot(Blank, CHOOSE p \in Proc : TRUE)
         /\ proc = [p \in Proc |-> AtRest]
         /\ wanted = IF builtIn THEN Default ELSE "none"
         /\ strained = FALSE /\ torn = "no"
<1>1. builtIn \in BOOLEAN /\ proc = [p \in Proc |-> AtRest]
  BY DEF Init
<1>2. Now
  BY <1>1, AtRestIs DEF Now
<1>3. Blank \in World /\ Blank.plug = NoObj /\ Blank.sandbox = NoHost /\ Blank.entry = NoEntry
        /\ Blank.dir = "none"
  <2>1. [h \in Host |-> Dead] \in [Host -> [up : BOOLEAN, sub : BOOLEAN, good : BOOLEAN,
                                           config : Setting]]
    BY PluginAssumption DEF Dead
  <2>2. [o \in Obj |-> NewObj] \in [Obj -> [status : Status, config : Setting, scope : Setting]]
    BY PluginAssumption DEF NewObj, Status
  <2>3. NoEntry \in [on : BOOLEAN, status : Status, config : Setting, scope : Setting]
    BY PluginAssumption DEF NoEntry, Status
  <2>4. 0 \in 0..MaxHooks
    BY PluginAssumption
  <2> QED
    BY <2>1, <2>2, <2>3, <2>4 DEF Blank, World, Content
<1>4. Fit(Blank) /\ Blank.entry.on = FALSE
  BY <1>3 DEF Fit, EntryOK, BuiltInOK, NoEntry
<1> QED
  BY <1>1, <1>2, <1>3, <1>4, PluginAssumption DEF Init, Blank

LEMMA InitBase == Init => Base
<1> SUFFICES ASSUME Init
             PROVE  Base
  OBVIOUS
<1>1. /\ Fit(loader)
      /\ ~loader.enabling
      /\ builtIn => loader.entry.on /\ loader.entry.config = Default
  <2> DEFINE any == CHOOSE p \in Proc : TRUE
  <2>1. Now /\ Fit(Blank) /\ Blank.entry.on = FALSE /\ any \in Proc /\ loader = Boot(Blank, any)
    BY InitIs
  <2> HIDE DEF any
  <2> QED
    BY <2>1, BootIs
<1>2. wanted \in Setting \cup {"none"} /\ strained \in BOOLEAN /\ torn \in Torn /\ WantedOK(loader, wanted)
  BY <1>1, InitIs, PluginAssumption DEF WantedOK, Torn
<1>3. /\ proc \in [Proc -> CallState] /\ builtIn \in BOOLEAN
      /\ \A p \in Proc : proc[p].at = "rest" /\ CallOK(builtIn, proc[p]) /\ ~Starts(proc[p])
  BY InitIs, AtRestIs DEF Now
<1> QED
  BY <1>1, <1>2, <1>3 DEF Base, Typed, TypeOK, Fit, LockOK

LEMMA NextBase == Base /\ [Next]_vars => Base'
<1> SUFFICES ASSUME Base, [Next]_vars
             PROVE  Base'
  OBVIOUS
<1>1. CASE UNCHANGED vars
  BY <1>1 DEF vars, Base, Typed, TypeOK, Known
<1> QED
  BY <1>1, CallKeepsBase, StepKeepsBase, WorkerKeepsBase, DeathKeepsBase DEF Next

LEMMA BaseAlways == Spec => []Base
<1> QED
  BY InitBase, NextBase, PTL DEF Spec

\* Every value the loader, the registry and the calls hold is of its type, and
\* a call in progress always has its plugin object and, for a plugin in a
\* worker, its host: what enable, disable, update and restart rely on.
THEOREM PluginTypes == Spec => []TypeOK
<1>1. Base => TypeOK
  BY DEF Base, Typed
<1> QED
  BY <1>1, BaseAlways, PTL

\* The lock of enablePlugin(): one enable at a time, held exactly while one runs,
\* through every unload, update, rollback, failure and restart.
THEOREM OneEnableAtATime == Spec => []EnableLock
<1>1. Base => EnableLock
  <2> SUFFICES ASSUME Base
               PROVE  EnableLock
    OBVIOUS
  <2>1. \A p \in Proc : p \in Enabling <=> Starts(proc[p])
    BY DEF Enabling, Starts
  <2>2. \A p, q \in Enabling : p = q
    BY <2>1 DEF Base, LockOK, Enabling
  <2>3. loader.enabling <=> Enabling # {}
    BY <2>1 DEF Base, LockOK, Enabling
  <2>4. Cardinality(Enabling) <= 1
    <3>1. CASE Enabling = {}
      BY <3>1, FS_EmptySet
    <3>2. CASE Enabling # {}
      <4>1. PICK p : Enabling = {p}
        BY <2>2, <3>2
      <4>2. Cardinality({p}) = 1
        BY FS_Singleton
      <4> QED
        BY <4>1, <4>2
    <3> QED
      BY <3>1, <3>2
  <2> QED
    BY <2>3, <2>4 DEF EnableLock
<1> QED
  BY <1>1, BaseAlways, PTL

\* What the operator saved last is in the plugin's object and in the registry
\* after any sequence of enables, updates, rollbacks and restarts.
THEOREM SettingsAgree == Spec => []ConfigAgrees
<1>1. Base => ConfigAgrees
  BY DEF Base, Typed, BuiltInOK, EntryOK, WantedOK, ConfigAgrees
<1> QED
  BY <1>1, BaseAlways, PTL

-----------------------------------------------------------------------------
(* One call at a time: the workers and the files.                           *)

SameFiles(w, v) == v.dir = w.dir /\ v.bak = w.bak

InPlace(w) == w.dir \in Whole

Stilled(w) == w.plug # NoObj /\ w.obj[w.plug].status = "disabled" => w.hooks = 0

\* A world between two calls whose plugin is not enabled.
Idle(w) == NoWorker(w) /\ ~IsEnabled(w) /\ Stilled(w)

\* The only call in progress, and, unless it is an update that began without a
\* whole version in the directory, what it has done to the files.
Tracked(ok, r) ==
  /\ Accounted(r.world, r.call)
  /\ ok => Versioned(r.world, r.call)

LEMMA IdleTracked ==
  ASSUME NEW ok, NEW w, Idle(w)
  PROVE  Tracked(ok, Return(w)) /\ Return(w).world = w
<1>1. Return(w).world = w /\ Return(w).call.at = "rest"
  BY ResultIs, AtRestIs
<1>2. Accounted(w, Return(w).call)
  BY <1>1 DEF Idle, NoWorker, Stilled, Accounted, OnlyWorker
<1>3. Versioned(w, Return(w).call)
  BY <1>1 DEF Versioned
<1> QED
  BY <1>1, <1>2, <1>3 DEF Tracked

\* Without a plugin in the map only the workers matter.
LEMMA IdleUnmapped ==
  ASSUME NEW w \in World, NoWorker(w), NEW v, v.plug = NoObj, SameWorkers(w, v) \/
         (v.sandbox = w.sandbox /\ v.host = w.host)
  PROVE  Idle(v)
BY DEF Idle, NoWorker, IsEnabled, Stilled, SameWorkers

LEMMA LoadIdle ==
  ASSUME Now, NEW w \in World, NoWorker(w), NEW p \in Proc
  PROVE  Idle(LoadPlugin(w, p)) /\ SameFiles(w, LoadPlugin(w, p))
<1>1. /\ SameWorkers(w, LoadPlugin(w, p))
      /\ LoadPlugin(w, p).obj[LoadPlugin(w, p).plug].status = "installed"
  BY LoadPluginIs
<1> QED
  BY <1>1 DEF Idle, NoWorker, IsEnabled, Stilled, SameWorkers, SameFiles

\* An enable starts the one worker there is.
LEMMA EnableBeginsTracked ==
  ASSUME Now, ~builtIn, NEW w \in World, Idle(w), NEW p \in Proc, ~EnableRefused(w),
         NEW then, NEW was, NEW ok \in BOOLEAN,
         ok /\ then = "update" => w.dir \in Whole /\ w.bak \in Whole
  PROVE  /\ Tracked(ok, EnableBegins(w, p, then, was))
         /\ SameFiles(w, EnableBegins(w, p, then, was).world)
<1> DEFINE h == SpareHost(w, p)
           c == [at |-> "starting", then |-> then, obj |-> w.plug, host |-> h, was |-> was]
           new == [up |-> TRUE, sub |-> FALSE, good |-> w.dir \in Whole,
                   config |-> w.obj[w.plug].config]
           u == [w EXCEPT !.enabling = TRUE, !.sandbox = h, !.host[h] = new]
<1>1. h \in Host
  BY SpareHostFound
<1>2. EnableBegins(w, p, then, was).world = u /\ EnableBegins(w, p, then, was).call = c
  <2>1. [[w EXCEPT !.enabling = TRUE, !.sandbox = h] EXCEPT !.host[h] = new] = u
    BY DEF World
  <2> QED
    BY <2>1 DEF EnableBegins, Result
<1> HIDE DEF h, new
<1>3. /\ u.sandbox = h /\ u.plug = w.plug /\ u.obj = w.obj /\ u.dir = w.dir /\ u.bak = w.bak
      /\ u.host = [w.host EXCEPT ![h] = new]
  BY <1>1 DEF World
<1> HIDE DEF u
<1>4. \A g \in Host : u.host[g].up => g = h /\ u.host[g].config = u.obj[u.plug].config
  <2>1. \A g \in Host : u.host[g] = IF g = h THEN new ELSE w.host[g]
    BY <1>1, <1>3 DEF World
  <2>2. new.config = w.obj[w.plug].config
    BY DEF new
  <2> QED
    BY <1>3, <2>1, <2>2 DEF Idle, NoWorker
<1>5. c.at = "starting" /\ c.obj = w.plug /\ c.host = h /\ c.then = then
  OBVIOUS
<1> HIDE DEF c
<1>6. Accounted(u, c)
  BY <1>3, <1>4, <1>5 DEF Accounted, OnlyWorker, Idle, IsEnabled
<1>7. ok => Versioned(u, c)
  BY <1>3, <1>5 DEF Versioned
<1> QED
  BY <1>2, <1>3, <1>6, <1>7 DEF Tracked, SameFiles

\* The backup goes back in place and the plugin is loaded from it.
LEMMA RestoreTracked ==
  ASSUME Now, ~builtIn, NEW w \in World, NoWorker(w), w.plug = NoObj,
         NEW ok \in BOOLEAN, ok => w.bak \in Whole, NEW p \in Proc, NEW was \in BOOLEAN
  PROVE  Tracked(ok, Restore(w, p, was)) /\ (ok => InPlace(Restore(w, p, was).world))
<1>0. CASE w.bak = "none"
  <2> DEFINE gone == [w EXCEPT !.dir = "none"]
  <2>1. gone.plug = NoObj /\ gone.sandbox = w.sandbox /\ gone.host = w.host
    BY DEF World
  <2>2. Restore(w, p, was) = Return(gone) /\ ~ok
    BY <1>0 DEF Restore, Whole
  <2> HIDE DEF gone
  <2> QED
    BY <2>1, <2>2, IdleUnmapped, IdleTracked
<1> SUFFICES ASSUME w.bak # "none"
             PROVE  Tracked(ok, Restore(w, p, was)) /\ (ok => InPlace(Restore(w, p, was).world))
  BY <1>0
<1> DEFINE back == [w EXCEPT !.dir = w.bak, !.bak = "none"]
           loaded == LoadPlugin(back, p)
<1>1. back \in World /\ back.plug = NoObj /\ (ok => back.dir \in Whole)
        /\ back.sandbox = w.sandbox /\ back.host = w.host
  BY DEF World, Content
<1>3. Restore(w, p, was) =
        IF ~CanLoad(back, back.dir) THEN Return(back)
        ELSE IF was /\ ~EnableRefused(loaded)
             THEN EnableBegins(loaded, p, "restore", was) ELSE Return(loaded)
  BY DEF Restore
<1> HIDE DEF back
<1>4. Idle(back) /\ NoWorker(back)
  BY <1>1, IdleUnmapped DEF NoWorker
<1>5. loaded \in World /\ Idle(loaded) /\ SameFiles(back, loaded)
  BY <1>1, <1>4, LoadIdle, LoadPluginIs
<1> HIDE DEF loaded
<1>6. ~EnableRefused(loaded) => /\ Tracked(ok, EnableBegins(loaded, p, "restore", was))
                                /\ SameFiles(loaded, EnableBegins(loaded, p, "restore", was).world)
  BY <1>5, EnableBeginsTracked
<1>7. Tracked(ok, Return(back)) /\ Return(back).world = back
        /\ Tracked(ok, Return(loaded)) /\ Return(loaded).world = loaded
  BY <1>4, <1>5, IdleTracked
<1> QED
  BY <1>1, <1>3, <1>5, <1>6, <1>7 DEF SameFiles, InPlace

LEMMA RollbackTracked ==
  ASSUME Now, ~builtIn, NEW w \in World, NoWorker(w), ~IsEnabled(w),
         NEW ok \in BOOLEAN, ok => w.bak \in Whole, NEW p \in Proc, NEW was \in BOOLEAN
  PROVE  Tracked(ok, Rollback(w, p, was)) /\ (ok => InPlace(Rollback(w, p, was).world))
<1> DEFINE out == [w EXCEPT !.plug = NoObj]
<1>1. out \in World /\ out.plug = NoObj /\ out.bak = w.bak /\ out.sandbox = w.sandbox
        /\ out.host = w.host
  BY DEF World
<1>2. Rollback(w, p, was) = Restore(out, p, was)
  BY DEF Rollback, IsEnabled
<1> HIDE DEF out
<1>3. NoWorker(out)
  BY <1>1 DEF NoWorker
<1> QED
  BY <1>1, <1>2, <1>3, RestoreTracked

\* The swap that begins with a whole version keeps one in place, wherever it fails.
LEMMA SwapTracked ==
  ASSUME Now, ~builtIn, NEW w \in World, NoWorker(w), w.plug = NoObj,
         NEW ok \in BOOLEAN, ok => w.dir \in Whole,
         NEW p \in Proc, NEW was \in BOOLEAN, NEW r \in Swap(w, p, was)
  PROVE  Tracked(ok, r) /\ (ok => InPlace(r.world))
<1>0. CASE w.dir = "none"
  <2> DEFINE bare == [w EXCEPT !.bak = "none"]
  <2>1. bare.plug = NoObj /\ bare.sandbox = w.sandbox /\ bare.host = w.host
    BY DEF World
  <2>2. r = Return(bare) /\ ~ok
    BY <1>0 DEF Swap, Whole
  <2> HIDE DEF bare
  <2> QED
    BY <2>1, <2>2, IdleUnmapped, IdleTracked
<1>2. SUFFICES ASSUME w.dir # "none"
               PROVE  Tracked(ok, r) /\ (ok => InPlace(r.world))
  BY <1>0
<1> DEFINE cut(d) == [Moved(w) EXCEPT !.dir = d]
           written == cut("new")
           loaded == LoadPlugin(written, p)
           done == [loaded EXCEPT !.bak = "none"]
<1>1. \A d \in Content : /\ cut(d) \in World /\ cut(d).plug = NoObj
                         /\ cut(d).dir = d /\ (ok => cut(d).bak \in Whole)
                         /\ cut(d).sandbox = w.sandbox /\ cut(d).host = w.host
  BY DEF World, Content, Moved
<1>3. \/ \E d \in Content \ Whole : r = Rollback(cut(d), p, was)
      \/ r = IF ~CanLoad(written, "new") THEN Rollback(written, p, was)
             ELSE IF ~was THEN Return(done)
             ELSE IF EnableRefused(loaded) THEN Rollback(loaded, p, was)
             ELSE EnableBegins(loaded, p, "update", was)
  BY <1>2 DEF Swap
<1> HIDE DEF cut
<1>4. \A d \in Content : NoWorker(cut(d)) /\ ~IsEnabled(cut(d))
  BY <1>1 DEF NoWorker, IsEnabled
<1>5. \A d \in Content : /\ Tracked(ok, Rollback(cut(d), p, was))
                         /\ ok => InPlace(Rollback(cut(d), p, was).world)
  BY <1>1, <1>4, RollbackTracked
<1>6. "new" \in Content /\ "new" \in Whole
  BY DEF Content, Whole
<1>7. loaded \in World /\ Idle(loaded) /\ loaded.dir = "new" /\ (ok => loaded.bak \in Whole)
  <2>1. written \in World /\ NoWorker(written) /\ written.dir = "new" /\ (ok => written.bak \in Whole)
    BY <1>1, <1>4, <1>6
  <2> QED
    BY <2>1, LoadIdle, LoadPluginIs DEF SameFiles
<1> HIDE DEF loaded
<1>8. Tracked(ok, Return(done)) /\ InPlace(Return(done).world)
  <2>1. /\ done.dir = "new" /\ done.plug = loaded.plug /\ done.obj = loaded.obj
        /\ done.sandbox = loaded.sandbox /\ done.host = loaded.host /\ done.hooks = loaded.hooks
    BY <1>7 DEF World
  <2> HIDE DEF done
  <2>2. Idle(done)
    BY <1>7, <2>1 DEF Idle, NoWorker, IsEnabled, Stilled
  <2> QED
    BY <1>6, <2>1, <2>2, IdleTracked DEF InPlace
<1>9. Tracked(ok, Rollback(loaded, p, was)) /\ (ok => InPlace(Rollback(loaded, p, was).world))
  BY <1>7, RollbackTracked DEF Idle
<1>10. ASSUME ~EnableRefused(loaded)
       PROVE  /\ Tracked(ok, EnableBegins(loaded, p, "update", was))
              /\ InPlace(EnableBegins(loaded, p, "update", was).world)
  <2>1. /\ Tracked(ok, EnableBegins(loaded, p, "update", was))
        /\ SameFiles(loaded, EnableBegins(loaded, p, "update", was).world)
    BY <1>6, <1>7, <1>10, EnableBeginsTracked
  <2> QED
    BY <1>6, <1>7, <2>1 DEF SameFiles, InPlace
<1>11. CASE \E d \in Content \ Whole : r = Rollback(cut(d), p, was)
  BY <1>5, <1>11
<1>12. Tracked(ok, Rollback(written, p, was)) /\ (ok => InPlace(Rollback(written, p, was).world))
  BY <1>5, <1>6
<1> HIDE DEF written, done
<1> QED
  BY <1>3, <1>8, <1>9, <1>10, <1>11, <1>12

\* What a call that unloads does once the plugin is disabled.
LEMMA AfterUnloadTracked ==
  ASSUME Now, ~builtIn, NEW w \in World, NoWorker(w), NEW p \in Proc,
         NEW then \in {"uninstall", "update"}, NEW ok \in BOOLEAN,
         ok /\ then = "update" => w.dir \in Whole,
         NEW was \in BOOLEAN, NEW r \in AfterUnload(w, p, then, was)
  PROVE  Tracked(ok, r) /\ (ok => InPlace(r.world) \/ Removed(then, r))
<1> DEFINE out == [w EXCEPT !.plug = NoObj]
           erased == [w EXCEPT !.plug = NoObj, !.entry = NoEntry, !.dir = "none"]
<1>1. /\ then = "uninstall" => r = Return(erased)
      /\ then = "update" => r \in Swap(out, p, was)
  BY DEF AfterUnload
<1>2. /\ out \in World /\ out.plug = NoObj /\ out.dir = w.dir /\ out.sandbox = w.sandbox
      /\ out.host = w.host
      /\ erased.plug = NoObj /\ erased.sandbox = w.sandbox /\ erased.host = w.host
  BY DEF World
<1> HIDE DEF out, erased
<1>3. NoWorker(out) /\ Idle(erased)
  BY <1>2, IdleUnmapped DEF NoWorker
<1>4. CASE then = "uninstall"
  BY <1>1, <1>3, <1>4, IdleTracked, ResultIs DEF Removed
<1>5. CASE then = "update"
  BY <1>1, <1>2, <1>3, <1>5, SwapTracked
<1> QED
  BY <1>4, <1>5

\* Between two calls a plugin that is not enabled has no worker.
LEMMA RestIdle ==
  ASSUME NEW w \in World, NEW c, c.at = "rest", Accounted(w, c), ~IsEnabled(w)
  PROVE  Idle(w)
<1>1. w.sandbox = NoHost /\ NoHost \notin Host
  BY PluginAssumption DEF Accounted
<1> QED
  BY <1>1 DEF Accounted, OnlyWorker, Idle, NoWorker, Stilled

\* Between two calls an enabled plugin is stopped through its registered worker.
LEMMA DisableBeginsTracked ==
  ASSUME NEW w \in World, NEW c, c.at = "rest", Accounted(w, c), IsEnabled(w),
         NEW then \in {"call", "uninstall", "update", "shutdown"}, NEW was,
         NEW ok \in BOOLEAN, ok /\ then = "update" => w.dir \in Whole
  PROVE  /\ Tracked(ok, DisableBegins(w, then, was))
         /\ DisableBegins(w, then, was).world = w
         /\ Stoppable(w)
<1> DEFINE d == [at |-> "stopping", then |-> then, obj |-> w.plug, host |-> w.sandbox,
                 was |-> was]
<1>1. DisableBegins(w, then, was).world = w /\ DisableBegins(w, then, was).call = d
  BY DEF DisableBegins, Result
<1>2. w.sandbox # NoHost /\ OnlyWorker(w, w.sandbox)
  BY DEF Accounted
<1>3. d.at = "stopping" /\ d.then = then /\ d.obj = w.plug /\ d.host = w.sandbox
  OBVIOUS
<1> HIDE DEF d
<1>4. Accounted(w, d) /\ (ok => Versioned(w, d))
  BY <1>2, <1>3 DEF Accounted, Versioned
<1> QED
  BY <1>1, <1>2, <1>4 DEF Tracked, Stoppable

LEMMA UnloadTracked ==
  ASSUME Now, ~builtIn, NEW w \in World, w.plug # NoObj, NEW c, c.at = "rest",
         Accounted(w, c), NEW p \in Proc, NEW then \in {"uninstall", "update"},
         NEW ok \in BOOLEAN, ok /\ then = "update" => w.dir \in Whole, NEW was \in BOOLEAN,
         NEW r \in Unload(w, p, then, was)
  PROVE  /\ Tracked(ok, r)
         /\ ok => InPlace(r.world) \/ Removed(then, r) \/ SameFiles(w, r.world)
<1>1. CASE IsEnabled(w)
  <2>1. /\ Tracked(ok, DisableBegins(w, then, was)) /\ DisableBegins(w, then, was).world = w
        /\ Stoppable(w)
    BY <1>1, DisableBeginsTracked
  <2>2. r = DisableBegins(w, then, was)
    BY <1>1, <2>1 DEF Unload, IsEnabled
  <2> QED
    BY <2>1, <2>2 DEF SameFiles
<1>2. CASE ~IsEnabled(w)
  <2>1. NoWorker(w)
    BY <1>2, RestIdle DEF Idle
  <2>2. r \in AfterUnload(w, p, then, was)
    BY <1>2 DEF Unload, IsEnabled
  <2> QED
    BY <2>1, <2>2, AfterUnloadTracked
<1> QED
  BY <1>1, <1>2

\* Tidying up changes nothing of what is tracked.
LEMMA TidyTracked ==
  ASSUME NEW w \in World, NEW calls \in [Proc -> CallState], NEW c, NEW ok \in BOOLEAN,
         CallOK(FALSE, c), Tracked(ok, [world |-> w, call |-> c])
  PROVE  /\ Accounted(Tidy(w, calls), c)
         /\ ok => Versioned(Tidy(w, calls), c)
         /\ SameFiles(w, Tidy(w, calls))
<1> DEFINE v == Tidy(w, calls)
<1>1. Accounted(w, c) /\ (ok => Versioned(w, c))
  BY DEF Tracked
<1>2. /\ v.plug = w.plug /\ v.sandbox = w.sandbox /\ v.hooks = w.hooks
      /\ v.dir = w.dir /\ v.bak = w.bak
      /\ w.plug # NoObj => v.obj[w.plug] = w.obj[w.plug]
      /\ \A h \in Host : /\ v.host[h].up <=> w.host[h].up
                         /\ w.host[h].up => v.host[h] = w.host[h]
  BY TidyIs
<1> HIDE DEF v
<1>3. IsEnabled(v) <=> IsEnabled(w)
  BY <1>2 DEF IsEnabled
<1>4. w.plug # NoObj => \A h : OnlyWorker(w, h) => OnlyWorker(v, h)
  BY <1>2 DEF OnlyWorker
<1>5. SameFiles(w, v)
  BY <1>2 DEF SameFiles
<1>6. CASE c.at = "rest"
  <2>1. w.plug = NoObj => w.sandbox = NoHost /\ NoHost \notin Host
    BY <1>1, <1>6, PluginAssumption DEF Accounted, IsEnabled
  <2>2. OnlyWorker(v, v.sandbox)
    BY <1>1, <1>2, <1>4, <1>6, <2>1 DEF Accounted, OnlyWorker
  <2>3. v.sandbox # NoHost <=> IsEnabled(v)
    BY <1>1, <1>2, <1>3, <1>6 DEF Accounted
  <2>4. v.plug # NoObj /\ v.obj[v.plug].status = "disabled" => v.hooks = 0
    BY <1>1, <1>2, <1>6 DEF Accounted
  <2>5. Accounted(v, c)
    BY <1>6, <2>2, <2>3, <2>4 DEF Accounted
  <2>6. Versioned(v, c)
    BY <1>6 DEF Versioned
  <2> QED
    BY <1>5, <2>5, <2>6 DEF v
<1>7. CASE c.at # "rest"
  <2>1. w.plug # NoObj
    BY <1>1, <1>7 DEF Accounted, CallOK
  <2>2. c.obj = v.plug /\ OnlyWorker(v, c.host)
    BY <1>1, <1>2, <1>4, <1>7, <2>1 DEF Accounted
  <2>3. /\ c.at = "starting" => c.host = v.sandbox /\ ~IsEnabled(v)
        /\ c.at = "failing" => v.sandbox = NoHost /\ ~IsEnabled(v)
        /\ c.at \in {"stopping", "terminating"} => c.host = v.sandbox /\ c.then # "rollback"
    BY <1>1, <1>2, <1>3 DEF Accounted
  <2>4. Accounted(v, c)
    BY <1>7, <2>2, <2>3 DEF Accounted
  <2>5. ok => Versioned(v, c)
    BY <1>1, <1>2 DEF Versioned
  <2> QED
    BY <1>5, <2>4, <2>5 DEF v
<1> QED
  BY <1>6, <1>7

Serial == strained \/ builtIn \/ SerialOK(loader, proc, wanted, torn)

LEMMA AccountedAtRest ==
  ASSUME NEW w, NEW c, NEW d, c.at = "rest", d.at = "rest", Accounted(w, c)
  PROVE  Accounted(w, d) /\ Versioned(w, d)
BY DEF Accounted, Versioned

\* A call stores what it tracked, when no other call is in progress.
LEMMA BecomeKeepsSerial ==
  ASSUME Base, ~builtIn, NEW p \in Proc, Alone(proc, p), NEW r, r.world \in World,
         r.call \in CallState, CallOK(FALSE, r.call), Become(p, r),
         Tracked(torn' # "reused", r), Kept(r.world, wanted', torn')
  PROVE  SerialOK(loader', proc', wanted', torn')
<1> DEFINE calls == [proc EXCEPT ![p] = r.call]
           v == Tidy(r.world, calls)
           ok == torn' # "reused"
<1>1. /\ calls \in [Proc -> CallState]
      /\ \A q \in Proc : calls[q] = IF q = p THEN r.call ELSE proc[q]
  BY BaseFacts DEF Now
<1>2. proc' = calls /\ loader' = v
  BY DEF Become
<1> HIDE DEF calls
<1>3. Tracked(ok, [world |-> r.world, call |-> r.call])
  BY DEF Tracked
<1>4. Accounted(v, r.call) /\ (ok => Versioned(v, r.call)) /\ SameFiles(r.world, v)
  BY <1>1, <1>3, TidyTracked
<1> HIDE DEF v
<1>5. Alone(calls, p)
  BY <1>1 DEF Alone
<1>6. ASSUME NEW q \in Proc, Alone(calls, q)
      PROVE  Accounted(v, calls[q]) /\ (ok => Versioned(v, calls[q]))
  <2>1. CASE q = p
    BY <1>1, <1>4, <2>1
  <2>2. CASE q # p
    <3>1. r.call.at = "rest" /\ calls[q].at = "rest"
      BY <1>1, <1>6, <2>2 DEF Alone
    <3> QED
      BY <1>4, <3>1, AccountedAtRest
  <2> QED
    BY <2>1, <2>2
<1>7. Kept(v, wanted', torn')
  BY <1>4 DEF Kept, SameFiles
<1> QED
  BY <1>2, <1>5, <1>6, <1>7 DEF SerialOK

\* A start of the process leaves no call and no worker.
LEMMA RebootsKeepsSerial ==
  ASSUME Base, ~builtIn, NEW w, Fit(w), Reboots(w), Kept(w, wanted', torn')
  PROVE  SerialOK(loader', proc', wanted', torn')
<1> DEFINE any == CHOOSE p \in Proc : TRUE
           v == Boot(w, any)
           calls == [q \in Proc |-> AtRest]
<1>1. any \in Proc
  BY PluginAssumption
<1>2. loader' = v /\ proc' = calls
  BY DEF Reboots
<1> HIDE DEF any
<1>3. /\ NoWorker(v) /\ SameFiles(w, v)
      /\ v.plug # NoObj => v.obj[v.plug].status = "installed"
  BY <1>1, BaseFacts, BootIs DEF SameFiles
<1> HIDE DEF v
<1>4. \A q \in Proc : calls[q].at = "rest"
  BY AtRestIs
<1> HIDE DEF calls
<1>5. Idle(v)
  BY <1>3 DEF Idle, IsEnabled, Stilled
<1>6. Accounted(v, AtRest)
  <2>1. Tracked(FALSE, Return(v)) /\ Return(v).world = v
    BY <1>5, IdleTracked
  <2> QED
    BY <2>1, ResultIs DEF Tracked
<1>7. \A q \in Proc : Accounted(v, calls[q]) /\ Versioned(v, calls[q])
  BY <1>4, <1>6, AccountedAtRest, AtRestIs
<1>8. \E p \in Proc : Alone(calls, p)
  BY <1>1, <1>4 DEF Alone
<1>9. Kept(v, wanted', torn')
  BY <1>3 DEF Kept, SameFiles
<1> QED
  BY <1>2, <1>7, <1>8, <1>9 DEF SerialOK

LEMMA KeptFollows ==
  ASSUME NEW w, NEW v, NEW s, NEW t, Kept(w, s, t),
         t # "reused" => InPlace(v) \/ SameFiles(w, v)
  PROVE  Kept(v, s, t)
BY DEF Kept, InPlace, SameFiles

\* A call that arrives and finds none in progress.
LEMMA CallKeepsSerial ==
  ASSUME Base, Serial, NEW p \in Proc, Call(p)
  PROVE  Serial'
<1> SUFFICES ASSUME ~strained', ~builtIn'
             PROVE  SerialOK(loader', proc', wanted', torn')
  BY DEF Serial
<1> DEFINE ok == torn' # "reused"
<1> USE BaseFacts
<1>1. ~strained /\ Busy = {} /\ ~builtIn /\ proc[p].at = "rest"
  <2>1. Arrives(p)
    BY DEF Call, Enable, Disable, Uninstall, Update, Install, SetConfig, SetScope, Shutdown
  <2> QED
    BY <2>1 DEF Arrives
<1>2. loader \in World /\ proc[p] \in CallState
  BY DEF Fit
<1>3. \A q \in Proc : proc[q].at = "rest" /\ Alone(proc, q)
  BY <1>1 DEF Busy, Alone
<1>4. Accounted(loader, proc[p]) /\ Kept(loader, wanted, torn)
  BY <1>1, <1>3 DEF Serial, SerialOK
<1>5. ASSUME NEW r, Sane(builtIn, loader, r), Become(p, r), Tracked(ok, r),
             Kept(r.world, wanted', torn')
      PROVE  SerialOK(loader', proc', wanted', torn')
  <2>1. r.world \in World /\ r.call \in CallState /\ CallOK(FALSE, r.call)
    BY <1>1, <1>5 DEF Sane, CallOK
  <2> QED
    BY <1>1, <1>3, <1>5, <2>1, BecomeKeepsSerial
<1>6. CASE Enable(p)
  <2> DEFINE r == EnableBegins(loader, p, "call", FALSE)
  <2>1. Become(p, r) /\ ~EnableRefused(loader) /\ wanted' = wanted /\ torn' = torn
        /\ ~IsEnabled(loader)
    BY <1>6 DEF Enable, Known, IsEnabled
  <2>2. Sane(builtIn, loader, r)
    BY <2>1, EnableBeginsSound DEF Sound
  <2>3. Idle(loader)
    BY <1>1, <1>2, <1>4, <2>1, RestIdle
  <2>4. Tracked(ok, r) /\ SameFiles(loader, r.world)
    BY <1>1, <1>2, <2>1, <2>3, EnableBeginsTracked
  <2> HIDE DEF r
  <2> QED
    BY <1>4, <1>5, <2>1, <2>2, <2>4, KeptFollows
<1>7. CASE Disable(p)
  <2> DEFINE r == DisableBegins(loader, "call", FALSE)
  <2>1. IsEnabled(loader) /\ wanted' = wanted /\ torn' = torn /\ loader.plug # NoObj
    BY <1>7 DEF Disable, Known, IsEnabled
  <2>2. Tracked(ok, r) /\ r.world = loader /\ Stoppable(loader)
    BY <1>1, <1>2, <1>4, <2>1, DisableBeginsTracked
  <2>3. Become(p, r)
    BY <1>7, <2>2 DEF Disable
  <2>4. Sane(builtIn, loader, r)
    BY <1>1, <2>1, <2>2, DisableBeginsSound DEF Sound
  <2> HIDE DEF r
  <2> QED
    BY <1>4, <1>5, <2>1, <2>2, <2>3, <2>4
<1>8. CASE Uninstall(p)
  <2>1. PICK r \in Unload(loader, p, "uninstall", FALSE) :
          Become(p, r) /\ wanted' = Wanted(r, "uninstall") /\ torn' = torn
    BY <1>8 DEF Uninstall
  <2>2. loader.plug # NoObj
    BY <1>8 DEF Uninstall, Known
  <2>3. Sane(builtIn, loader, r)
    BY <1>1, <2>1, <2>2, UnloadSane
  <2>4. /\ Tracked(ok, r)
        /\ ok => InPlace(r.world) \/ Removed("uninstall", r) \/ SameFiles(loader, r.world)
    BY <1>1, <1>2, <1>4, <2>1, <2>2, UnloadTracked
  <2>5. Kept(r.world, wanted', torn')
    <3>1. CASE Removed("uninstall", r)
      BY <2>1, <3>1, AtRestIs DEF Removed, Wanted, Kept
    <3>2. CASE ~Removed("uninstall", r)
      <4>1. Kept(r.world, wanted, torn)
        BY <1>4, <2>1, <2>4, <3>2, KeptFollows
      <4> QED
        BY <2>1, <4>1 DEF Wanted, Kept
    <3> QED
      BY <3>1, <3>2
  <2> QED
    BY <1>5, <2>1, <2>3, <2>4, <2>5
<1>9. CASE Update(p)
  <2>1. PICK r \in Unload(loader, p, "update", Known({"enabled"})) : Become(p, r)
    BY <1>9 DEF Update
  <2>2. /\ loader.plug # NoObj /\ wanted' = wanted /\ Known({"enabled"}) \in BOOLEAN
        /\ torn' = IF loader.dir \in Whole THEN "no" ELSE "reused"
    BY <1>9 DEF Update, Known
  <2>3. Sane(builtIn, loader, r)
    BY <1>1, <2>1, <2>2, UnloadSane
  <2>4. /\ Tracked(ok, r)
        /\ ok => InPlace(r.world) \/ Removed("update", r) \/ SameFiles(loader, r.world)
    BY <1>1, <1>2, <1>4, <2>1, <2>2, UnloadTracked
  <2>5. ok => InPlace(r.world)
    BY <2>2, <2>4 DEF Removed, SameFiles, InPlace
  <2>6. Kept(r.world, wanted', torn')
    BY <2>2, <2>5 DEF Kept, InPlace
  <2> QED
    BY <1>5, <2>1, <2>3, <2>4, <2>6
<1>10. CASE Install(p)
  <2> DEFINE v == [loader EXCEPT !.dir = "old"]
             u == LoadPlugin(v, p)
  <2>1. Become(p, Return(u)) /\ loader.plug = NoObj
    BY <1>10 DEF Install
  <2>2. v \in World /\ Alike(loader, v) /\ v.host = loader.host /\ v.dir = "old"
    BY <1>2 DEF World, Alike, Content
  <2> HIDE DEF v
  <2>3. Fit(v) /\ v.enabling = loader.enabling
    BY <2>2, AlikeFit DEF Alike
  <2>4. NoWorker(loader)
    BY <1>1, <1>2, <1>4, <2>1, RestIdle DEF Idle, IsEnabled
  <2>5. NoWorker(v)
    BY <2>2, <2>4 DEF NoWorker, Alike
  <2>6. Idle(u) /\ SameFiles(v, u) /\ Fit(u) /\ u.enabling = v.enabling
    BY <2>2, <2>3, <2>5, LoadIdle, LoadFit
  <2> HIDE DEF u
  <2>7. Sane(builtIn, loader, Return(u))
    BY <2>3, <2>6, ResultIs, AtRestIs DEF Sane, Fit
  <2>8. Tracked(ok, Return(u)) /\ Return(u).world = u
    BY <2>6, IdleTracked
  <2>9. Kept(u, wanted', torn')
    BY <2>2, <2>6 DEF Kept, SameFiles, Whole
  <2> QED
    BY <1>5, <2>1, <2>7, <2>8, <2>9
<1>11. CASE \E s \in Setting : SetConfig(p, s)
  <2>1. PICK s \in Setting : SetConfig(p, s)
    BY <1>11
  <2> DEFINE h == loader.sandbox
             told == [loader EXCEPT !.obj[loader.plug].config = s,
                                    !.entry.config = IF loader.entry.on THEN s ELSE @]
  <2>2. /\ loader.plug \in Obj /\ loader.plug # NoObj /\ proc' = proc
        /\ torn' = torn /\ wanted' = IF wanted = "none" THEN wanted ELSE s
        /\ loader' = IF IsEnabled(loader) /\ h # NoHost /\ loader.host[h].up
                     THEN [told EXCEPT !.host[h].config = s] ELSE told
    BY <1>2, <2>1 DEF SetConfig, Known, World, IsEnabled
  <2>3. /\ told.plug = loader.plug /\ told.sandbox = loader.sandbox /\ told.hooks = loader.hooks
        /\ told.dir = loader.dir /\ told.bak = loader.bak /\ told.host = loader.host
        /\ told.obj = [loader.obj EXCEPT ![loader.plug].config = s]
    BY <1>2 DEF World
  <2> HIDE DEF told, h
  <2>4. told.obj[told.plug].config = s /\ told.obj[told.plug].status = loader.obj[loader.plug].status
    BY <1>2, <2>2, <2>3 DEF World
  <2>5. Accounted(loader', proc[p])
    <3>1. CASE IsEnabled(loader) /\ h # NoHost /\ loader.host[h].up
      <4>1. h \in Host
        BY <1>2, <3>1 DEF World, h
      <4>2. loader' = [told EXCEPT !.host[h].config = s]
        BY <2>2, <3>1
      <4>3. /\ loader'.plug = told.plug /\ loader'.sandbox = told.sandbox
            /\ loader'.hooks = told.hooks /\ loader'.obj = told.obj
        BY <1>2, <2>2, <2>3, <4>1, <4>2, BaseFacts DEF World
      <4>4. loader'.host = [loader.host EXCEPT ![h].config = s]
        <5>1. told.host = loader.host /\ loader.host \in [Host -> [up : BOOLEAN, sub : BOOLEAN,
                                                          good : BOOLEAN, config : Setting]]
          BY <1>2, <2>3 DEF World
        <5>2. told \in World
          BY <2>1, <2>2, TellIs, <1>2 DEF told
        <5> QED
          BY <4>1, <4>2, <5>1, <5>2 DEF World
      <4>5. \A g \in Host : loader'.host[g].up => g = h /\ loader'.host[g].config = s
        BY <1>1, <1>2, <1>4, <4>1, <4>4 DEF Accounted, OnlyWorker, World, h
      <4> QED
        BY <1>1, <1>4, <2>3, <2>4, <3>1, <4>3, <4>5 DEF Accounted, OnlyWorker, IsEnabled, h
    <3>2. CASE ~(IsEnabled(loader) /\ h # NoHost /\ loader.host[h].up)
      <4>1. loader' = told
        BY <2>2, <3>2
      <4>2. \A g \in Host : ~loader.host[g].up
        <5>1. \A g \in Host : loader.host[g].up => g = h
          BY <1>1, <1>4 DEF Accounted, OnlyWorker, h
        <5>2. ~IsEnabled(loader) => h = NoHost /\ NoHost \notin Host
          BY <1>1, <1>4, PluginAssumption DEF Accounted, h
        <5>3. h = NoHost => NoHost \notin Host
          BY PluginAssumption
        <5> QED
          BY <3>2, <5>1, <5>2, <5>3
      <4> QED
        BY <1>1, <1>4, <2>3, <2>4, <4>1, <4>2 DEF Accounted, OnlyWorker, IsEnabled
    <3> QED
      BY <3>1, <3>2
  <2>6. SameFiles(loader, loader')
    <3>1. told \in World
      BY <2>1, <2>2, TellIs, <1>2 DEF told
    <3>2. SameFiles(loader, told)
      BY <2>3 DEF SameFiles
    <3>3. loader' = told \/ loader' = [told EXCEPT !.host[h].config = s]
      BY <2>2
    <3> QED
      BY <3>1, <3>2, <3>3 DEF World, SameFiles
  <2>7. Kept(loader', wanted', torn')
    BY <1>4, <2>2, <2>6 DEF Kept, SameFiles
  <2>8. \A q \in Proc : Accounted(loader', proc[q]) /\ Versioned(loader', proc[q])
    BY <1>3, <2>5, AccountedAtRest
  <2> QED
    BY <1>3, <2>2, <2>7, <2>8 DEF SerialOK
<1>12. CASE \E s \in Setting : SetScope(p, s)
  <2>1. PICK s \in Setting : SetScope(p, s)
    BY <1>12
  <2>2. /\ loader.plug \in Obj /\ proc' = proc /\ wanted' = wanted /\ torn' = torn
        /\ loader' = [loader EXCEPT !.obj[loader.plug].scope = s,
                                    !.entry.scope = IF loader.entry.on THEN s ELSE @]
    BY <1>2, <2>1 DEF SetScope, Known, World
  <2>3. /\ loader'.plug = loader.plug /\ loader'.sandbox = loader.sandbox
        /\ loader'.hooks = loader.hooks /\ loader'.host = loader.host
        /\ SameFiles(loader, loader')
        /\ loader'.obj = [loader.obj EXCEPT ![loader.plug].scope = s]
    BY <1>2, <2>2 DEF World, SameFiles
  <2>4. /\ loader'.obj[loader.plug].config = loader.obj[loader.plug].config
        /\ loader'.obj[loader.plug].status = loader.obj[loader.plug].status
    BY <1>2, <2>2, <2>3 DEF World
  <2>5. Accounted(loader', proc[p])
    BY <1>1, <1>4, <2>3, <2>4 DEF Accounted, OnlyWorker, IsEnabled
  <2>6. Kept(loader', wanted', torn')
    BY <1>4, <2>2, <2>3, KeptFollows
  <2>7. \A q \in Proc : Accounted(loader', proc[q]) /\ Versioned(loader', proc[q])
    BY <1>3, <2>5, AccountedAtRest
  <2> QED
    BY <1>3, <2>2, <2>6, <2>7 DEF SerialOK
<1>13. CASE Shutdown(p)
  <2> DEFINE r == DisableBegins(loader, "shutdown", FALSE)
  <2>1. /\ IsEnabled(loader) /\ wanted' = wanted /\ torn' = torn /\ loader.plug # NoObj
        /\ Become(p, r)
    BY <1>13 DEF Shutdown, Known, IsEnabled
  <2>2. Tracked(ok, r) /\ r.world = loader /\ Stoppable(loader)
    BY <1>1, <1>2, <1>4, <2>1, DisableBeginsTracked
  <2>3. Sane(builtIn, loader, r)
    BY <1>1, <2>1, <2>2, DisableBeginsSound DEF Sound
  <2> HIDE DEF r
  <2> QED
    BY <1>4, <1>5, <2>1, <2>2, <2>3
<1> QED
  BY <1>6, <1>7, <1>8, <1>9, <1>10, <1>11, <1>12, <1>13 DEF Call

\* The call was made for the object that is in the map now.
Current(w, c) == w.plug \in Obj /\ c.obj = w.plug

\* EnableFailed() leaves no worker, and a whole version after an update.
LEMMA EnableFailedTracked ==
  ASSUME Now, ~builtIn, NEW w \in World, NoWorker(w), NEW p \in Proc, NEW c \in CallState,
         Current(w, c), NEW ok \in BOOLEAN, ok /\ c.then = "update" => w.bak \in Whole
  PROVE  /\ Tracked(ok, EnableFailed(w, p, c))
         /\ ok => InPlace(EnableFailed(w, p, c).world) \/ SameFiles(w, EnableFailed(w, p, c).world)
<1> DEFINE s == Settle(w, c.obj, "error")
           v == [s EXCEPT !.enabling = FALSE]
<1>1. "error" \in Status /\ c.obj \in Obj
  BY DEF Status, Current
<1>2. /\ s \in World /\ s.plug = w.plug
      /\ s.obj = [w.obj EXCEPT ![c.obj].status = "error"]
      /\ s.obj[c.obj].status = "error"
      /\ EntryOK(builtIn, w) => EntryOK(builtIn, s)
      /\ SameWorkers(w, s)
  BY <1>1, SettleIs
<1> HIDE DEF s
<1>3. /\ v \in World /\ v.plug = w.plug /\ v.obj = s.obj /\ SameFiles(w, v)
      /\ v.sandbox = w.sandbox /\ v.host = w.host
  BY <1>2 DEF World, SameWorkers, SameFiles
<1>4. EnableFailed(w, p, c) = AfterEnable(v, p, c, FALSE)
  BY DEF EnableFailed, s
<1> HIDE DEF v
<1>5. NoWorker(v) /\ ~IsEnabled(v) /\ Idle(v)
  BY <1>2, <1>3 DEF NoWorker, IsEnabled, Idle, Stilled, Current
<1>6. CASE c.then # "update"
  BY <1>3, <1>4, <1>5, <1>6, IdleTracked DEF AfterEnable
<1>7. CASE c.then = "update"
  <2>1. (ok => v.bak \in Whole) /\ c.was \in BOOLEAN
    BY <1>3, <1>7 DEF SameFiles, CallState
  <2> QED
    BY <1>3, <1>4, <1>5, <1>7, <2>1, RollbackTracked DEF AfterEnable
<1> QED
  BY <1>6, <1>7

\* The awaits of the only call in progress.
LEMMA StepKeepsSerial ==
  ASSUME Base, Serial, NEW p \in Proc, Step(p)
  PROVE  Serial'
<1> SUFFICES ASSUME ~strained', ~builtIn'
             PROVE  SerialOK(loader', proc', wanted', torn')
  BY DEF Serial
<1> DEFINE c == proc[p]
           ok == torn # "reused"
<1> USE BaseFacts
<1>1. ~strained /\ ~builtIn /\ torn' = torn
  <2>1. builtIn' = builtIn /\ strained' = strained /\ torn' = torn
    BY DEF Step, Started, StartFails, StartTornDown, Stopped, Terminated
  <2> QED
    BY <2>1
<1>2. loader \in World /\ c \in CallState /\ CallOK(FALSE, c) /\ c.was \in BOOLEAN
  BY <1>1 DEF Fit, CallOK, CallState
<1>3. c.at \in {"starting", "failing", "stopping", "terminating"}
  BY DEF Step, Started, StartFails, StartTornDown, Stopped, Terminated
<1>4. Alone(proc, p) /\ Accounted(loader, c) /\ (ok => Versioned(loader, c))
        /\ Kept(loader, wanted, torn)
  <2>1. PICK q \in Proc : Alone(proc, q)
    BY <1>1 DEF Serial, SerialOK
  <2>2. q = p
    BY <1>3, <2>1 DEF Alone
  <2> QED
    BY <1>1, <2>1, <2>2 DEF Serial, SerialOK
<1>5. /\ c.obj = loader.plug /\ loader.plug \in Obj /\ loader.plug # NoObj
      /\ c.host \in Host /\ c.host # NoHost /\ ~InProcess(c)
      /\ OnlyWorker(loader, c.host) /\ c.then \in ThenOf(c.at)
  BY <1>2, <1>3, <1>4, PluginAssumption DEF Accounted, CallOK, CallState, InProcess
<1>6. ASSUME NEW w, NEW r, Sane(builtIn, w, r), Become(p, r), Tracked(ok, r), Kept(r.world, wanted', torn)
      PROVE  SerialOK(loader', proc', wanted', torn')
  <2>1. r.world \in World /\ r.call \in CallState /\ CallOK(FALSE, r.call)
    BY <1>1, <1>6 DEF Sane, CallOK
  <2> QED
    BY <1>1, <1>4, <1>6, <2>1, BecomeKeepsSerial
<1>7. Dead \in [up : BOOLEAN, sub : BOOLEAN, good : BOOLEAN, config : Setting] /\ ~Dead.up
  BY PluginAssumption DEF Dead
<1>8. CASE Started(p)
  <2> DEFINE s == Settle(loader, c.obj, "enabled")
             world == [s EXCEPT !.enabling = FALSE, !.hooks = loader.hooks]
             done == [world EXCEPT !.bak = "none"]
             r == AfterEnable(world, p, c, TRUE)
  <2>1. c.at = "starting" /\ wanted' = wanted /\ Become(p, r)
    BY <1>5, <1>8 DEF Started
  <2>2. "enabled" \in Status /\ loader.hooks \in 0..MaxHooks
    BY <1>2 DEF Status, World
  <2>3. /\ s \in World /\ SameWorkers(loader, s) /\ s.plug = loader.plug
        /\ s.obj = [loader.obj EXCEPT ![c.obj].status = "enabled"]
        /\ s.obj[c.obj].status = "enabled"
        /\ (EntryOK(builtIn, loader) => EntryOK(builtIn, s))
    BY <1>2, <1>5, <2>2, SettleIs
  <2>4. s.obj[c.obj].config = loader.obj[c.obj].config
    BY <1>2, <1>5, <2>3 DEF World
  <2> HIDE DEF s
  <2>5. /\ world \in World /\ world.plug = loader.plug /\ world.obj = s.obj /\ world.entry = s.entry
        /\ SameFiles(loader, world) /\ ~world.enabling
        /\ world.sandbox = loader.sandbox /\ world.host = loader.host
    BY <2>2, <2>3 DEF World, SameWorkers, SameFiles
  <2> HIDE DEF world
  <2>6. /\ done \in World /\ done.plug = loader.plug /\ done.obj = s.obj
        /\ done.dir = world.dir /\ done.sandbox = loader.sandbox /\ done.host = loader.host
    BY <2>5 DEF World, Content
  <2> HIDE DEF done
  <2>7. loader.sandbox = c.host
    BY <1>4, <2>1 DEF Accounted
  <2>8. ASSUME NEW v, v.plug = loader.plug, v.obj = s.obj, v.sandbox = loader.sandbox,
               v.host = loader.host
        PROVE  Tracked(ok, Return(v)) /\ Return(v).world = v
    <3>1. Return(v).world = v /\ Return(v).call.at = "rest"
      BY ResultIs, AtRestIs
    <3>2. IsEnabled(v) /\ v.sandbox # NoHost
      BY <1>5, <2>3, <2>7, <2>8 DEF IsEnabled
    <3>3. OnlyWorker(v, v.sandbox)
      BY <1>5, <2>4, <2>7, <2>8 DEF OnlyWorker
    <3>4. v.obj[v.plug].status # "disabled"
      BY <3>2 DEF IsEnabled
    <3>5. Accounted(v, Return(v).call)
      BY <3>1, <3>2, <3>3, <3>4 DEF Accounted
    <3>6. Versioned(v, Return(v).call)
      BY <3>1 DEF Versioned
    <3> QED
      BY <3>1, <3>5, <3>6 DEF Tracked
  <2>9. Tracked(ok, r) /\ Kept(r.world, wanted, torn)
    <3>1. CASE c.then = "update"
      <4>1. r = Return(done)
        BY <3>1 DEF AfterEnable, done
      <4>2. Tracked(ok, Return(done)) /\ Return(done).world = done
        BY <2>6, <2>8
      <4>3. ok => loader.dir \in Whole
        BY <1>4, <2>1, <3>1 DEF Versioned
      <4> QED
        BY <2>5, <2>6, <4>1, <4>2, <4>3 DEF Kept, SameFiles
    <3>2. CASE c.then # "update"
      <4>1. r = Return(world)
        BY <3>2 DEF AfterEnable
      <4>2. Tracked(ok, Return(world)) /\ Return(world).world = world
        BY <2>5, <2>8
      <4> QED
        BY <1>4, <2>5, <4>1, <4>2, KeptFollows
    <3> QED
      BY <3>1, <3>2
  <2>10. Fit(world)
    BY <2>3, <2>5 DEF Fit, EntryOK, BuiltInOK
  <2>11. Sane(builtIn, world, r)
    BY <1>1, <1>2, <2>10, AfterEnableSound DEF Sound
  <2> HIDE DEF r
  <2> QED
    BY <1>6, <2>1, <2>9, <2>11
<1>9. CASE StartFails(p)
  <2> DEFINE w == [loader EXCEPT !.sandbox = NoHost]
             d == [c EXCEPT !.at = "failing"]
             r == Result(w, d)
  <2>1. c.at = "starting" /\ wanted' = wanted /\ Become(p, r)
    BY <1>5, <1>9 DEF StartFails
  <2>2. r.world = w /\ r.call = d
    BY ResultIs
  <2>3. /\ w \in World /\ w.plug = loader.plug /\ w.obj = loader.obj /\ w.host = loader.host
        /\ w.sandbox = NoHost /\ SameFiles(loader, w)
    BY <1>2 DEF World, SameFiles
  <2>4. d \in CallState /\ d.at = "failing" /\ d.then = c.then /\ d.obj = c.obj /\ d.host = c.host
    BY <1>2 DEF CallState, At
  <2> HIDE DEF w, d, r
  <2>5. CallOK(FALSE, d)
    BY <1>2, <1>5, <2>1, <2>4 DEF CallOK, ThenOf
  <2>6. ~IsEnabled(w)
    BY <1>4, <2>1, <2>3 DEF Accounted, IsEnabled
  <2>7. Accounted(w, d)
    BY <1>5, <2>3, <2>4, <2>6 DEF Accounted, OnlyWorker
  <2>8. ok => Versioned(w, d)
    BY <1>4, <2>1, <2>3, <2>4 DEF Versioned, SameFiles
  <2>9. Kept(w, wanted, torn)
    BY <1>4, <2>3, KeptFollows
  <2> QED
    BY <1>1, <1>4, <2>1, <2>2, <2>3, <2>4, <2>5, <2>7, <2>8, <2>9, BecomeKeepsSerial DEF Tracked
<1>10. CASE StartTornDown(p)
  <2> DEFINE w == [loader EXCEPT !.host[c.host] = Dead]
             r == EnableFailed(w, p, c)
  <2>1. c.at = "failing" /\ wanted' = wanted /\ Become(p, r)
    BY <1>10 DEF StartTornDown
  <2>2. [loader.host EXCEPT ![c.host] = Dead]
          \in [Host -> [up : BOOLEAN, sub : BOOLEAN, good : BOOLEAN, config : Setting]]
    BY <1>2, <1>7 DEF World
  <2>3. /\ w \in World /\ Alike(loader, w) /\ SameFiles(loader, w)
        /\ w.host = [loader.host EXCEPT ![c.host] = Dead]
    BY <1>2, <2>2 DEF World, Alike, SameFiles
  <2> HIDE DEF w
  <2>4. NoWorker(w)
    <3>1. w.sandbox = NoHost
      BY <1>4, <2>1, <2>3 DEF Accounted, Alike
    <3>2. \A g \in Host : w.host[g] = IF g = c.host THEN Dead ELSE loader.host[g]
      BY <1>2, <2>3 DEF World
    <3> QED
      BY <1>5, <1>7, <3>1, <3>2 DEF NoWorker, OnlyWorker
  <2>5. ok /\ c.then = "update" => w.bak \in Whole
    BY <1>4, <2>1, <2>3 DEF Versioned, SameFiles
  <2>6. Tracked(ok, r) /\ (ok => InPlace(r.world) \/ SameFiles(w, r.world))
    BY <1>1, <1>2, <1>5, <2>3, <2>4, <2>5, EnableFailedTracked DEF Alike, Current
  <2>7. Kept(r.world, wanted, torn)
    BY <1>4, <2>3, <2>6, KeptFollows
  <2>8. Fit(w)
    BY <2>3, AlikeFit
  <2>9. Sane(builtIn, [w EXCEPT !.enabling = FALSE], r)
    BY <1>1, <1>2, <1>5, <2>8, EnableFailedSound DEF Sound
  <2> HIDE DEF r
  <2> QED
    BY <1>6, <2>1, <2>6, <2>7, <2>9
<1>11. CASE Stopped(p)
  <2> DEFINE d == [c EXCEPT !.at = "terminating"]
             r == Result(loader, d)
  <2>1. c.at = "stopping" /\ wanted' = wanted /\ Become(p, r)
    BY <1>5, <1>11 DEF Stopped
  <2>2. r.world = loader /\ r.call = d
    BY ResultIs
  <2>3. d \in CallState /\ d.at = "terminating" /\ d.then = c.then /\ d.obj = c.obj /\ d.host = c.host
    BY <1>2 DEF CallState, At
  <2> HIDE DEF d, r
  <2>4. CallOK(FALSE, d)
    BY <1>2, <1>5, <2>1, <2>3 DEF CallOK, ThenOf
  <2>5. Accounted(loader, d) /\ (ok => Versioned(loader, d))
    BY <1>4, <2>1, <2>3 DEF Accounted, Versioned
  <2> QED
    BY <1>1, <1>2, <1>4, <2>1, <2>2, <2>3, <2>4, <2>5, BecomeKeepsSerial DEF Tracked
<1>12. CASE Terminated(p)
  <2> DEFINE v == [loader EXCEPT !.host[c.host] = Dead, !.sandbox = NoHost]
             w == Disabled(v, c.obj)
  <2>1. c.at = "terminating"
    BY <1>12 DEF Terminated
  <2>2. [loader.host EXCEPT ![c.host] = Dead]
          \in [Host -> [up : BOOLEAN, sub : BOOLEAN, good : BOOLEAN, config : Setting]]
    BY <1>2, <1>7 DEF World
  <2>3. /\ v \in World /\ v.plug = loader.plug /\ v.obj = loader.obj /\ v.entry = loader.entry
        /\ v.sandbox = NoHost /\ SameFiles(loader, v) /\ v.enabling = loader.enabling
        /\ v.host = [loader.host EXCEPT ![c.host] = Dead]
    BY <1>2, <2>2 DEF World, SameFiles
  <2>4. IF c.then = "shutdown" THEN Reboots(w) /\ wanted' = wanted
        ELSE \E r \in AfterDisable(w, p, c) : Become(p, r) /\ wanted' = Wanted(r, c.then)
    BY <1>12 DEF Terminated
  <2> HIDE DEF v
  <2>5. NoWorker(v)
    <3>1. \A g \in Host : v.host[g] = IF g = c.host THEN Dead ELSE loader.host[g]
      BY <1>2, <2>3 DEF World
    <3> QED
      BY <1>5, <1>7, <2>3, <3>1 DEF NoWorker, OnlyWorker
  <2>6. /\ w \in World /\ SameWorkers(v, w) /\ w.hooks = 0 /\ w.plug = loader.plug
        /\ w.obj[c.obj].status = "disabled"
    BY <1>5, <2>3, DisabledIs
  <2>7. Fit(v)
    BY <2>3 DEF Fit, EntryOK, BuiltInOK
  <2>8. Fit(w)
    BY <1>5, <2>7, DisabledFit
  <2> HIDE DEF w
  <2>9. Idle(w) /\ SameFiles(loader, w)
    BY <1>5, <2>3, <2>5, <2>6 DEF Idle, NoWorker, IsEnabled, Stilled, SameWorkers, SameFiles
  <2>10. Kept(w, wanted, torn)
    BY <1>4, <2>9, KeptFollows
  <2>11. CASE c.then = "shutdown"
    BY <1>1, <2>4, <2>8, <2>10, <2>11, RebootsKeepsSerial
  <2>12. CASE c.then # "shutdown"
    <3>1. c.then \in {"call", "uninstall", "update"}
      BY <1>4, <1>5, <2>1, <2>12 DEF ThenOf, Accounted
    <3>2. PICK r \in AfterDisable(w, p, c) : Become(p, r) /\ wanted' = Wanted(r, c.then)
      BY <2>4, <2>12
    <3>3. Sane(builtIn, w, r)
      BY <1>1, <1>2, <2>8, <3>1, <3>2, AfterDisableSane
    <3>4. CASE c.then = "call"
      <4>1. r = Return(w) /\ wanted' = wanted
        BY <3>2, <3>4 DEF AfterDisable, Wanted
      <4> QED
        BY <1>6, <2>9, <2>10, <3>2, <3>3, <4>1, IdleTracked
    <3>5. CASE c.then # "call"
      <4>1. r \in AfterUnload(w, p, c.then, c.was)
        BY <3>2, <3>5 DEF AfterDisable
      <4>2. ok /\ c.then = "update" => w.dir \in Whole
        BY <1>4, <2>1, <2>9 DEF Versioned, SameFiles
      <4>3. Tracked(ok, r) /\ (ok => InPlace(r.world) \/ Removed(c.then, r))
        BY <1>1, <1>2, <2>6, <2>9, <3>1, <3>5, <4>1, <4>2, AfterUnloadTracked DEF Idle
      <4>4. Kept(r.world, wanted', torn)
        BY <3>2, <4>3, AtRestIs DEF Kept, InPlace, Removed, Wanted
      <4> QED
        BY <1>6, <3>2, <3>3, <4>3, <4>4
    <3> QED
      BY <3>4, <3>5
  <2> QED
    BY <2>11, <2>12
<1> QED
  BY <1>8, <1>9, <1>10, <1>11, <1>12 DEF Step

\* A worker subscribes or exits: only one that was accounted for.
LEMMA WorkerKeepsSerial ==
  ASSUME Base, Serial, NEW h \in Host, Subscribe(h) \/ WorkerExits(h)
  PROVE  Serial'
<1> SUFFICES ASSUME ~strained', ~builtIn'
             PROVE  SerialOK(loader', proc', wanted', torn')
  BY DEF Serial
<1> USE BaseFacts
<1>1. UNCHANGED <<builtIn, proc, wanted, strained, torn>>
  BY DEF Subscribe, WorkerExits
<1>2. SerialOK(loader, proc, wanted, torn) /\ loader \in World
  BY <1>1 DEF Serial, Fit
<1>3. /\ loader'.plug = loader.plug /\ loader'.obj = loader.obj
      /\ loader'.sandbox = loader.sandbox /\ SameFiles(loader, loader')
  BY <1>2 DEF Subscribe, WorkerExits, World, SameFiles
<1>4. \A g \in Host : loader'.host[g].up => /\ loader.host[g].up
                                            /\ loader'.host[g].config = loader.host[g].config
  <2>1. CASE Subscribe(h)
    <3>1. loader'.host = [loader.host EXCEPT ![h].sub = TRUE]
      BY <1>2, <2>1 DEF Subscribe, World
    <3> QED
      BY <1>2, <3>1 DEF World
  <2>2. CASE WorkerExits(h)
    <3>1. loader'.host = [loader.host EXCEPT ![h] = Dead]
      BY <1>2, <2>2 DEF WorkerExits, World
    <3> QED
      BY <1>2, <3>1 DEF World, Dead
  <2> QED
    BY <2>1, <2>2
<1>5. loader'.hooks = loader.hooks \/ loader.host[h].up
  BY <1>2 DEF Subscribe, WorkerExits, World
<1>6. ASSUME NEW p \in Proc, Alone(proc, p)
      PROVE  Accounted(loader', proc[p]) /\ (torn # "reused" => Versioned(loader', proc[p]))
  <2>1. Accounted(loader, proc[p]) /\ (torn # "reused" => Versioned(loader, proc[p]))
    BY <1>2, <1>6 DEF SerialOK
  <2>2. \A g : OnlyWorker(loader, g) => OnlyWorker(loader', g)
    BY <1>3, <1>4 DEF OnlyWorker
  <2>3. IsEnabled(loader') <=> IsEnabled(loader)
    BY <1>3 DEF IsEnabled
  <2>4. proc[p].at = "rest" /\ loader.plug # NoObj /\ loader.obj[loader.plug].status = "disabled"
          => loader'.hooks = 0
    <3> SUFFICES ASSUME proc[p].at = "rest", loader.plug # NoObj,
                        loader.obj[loader.plug].status = "disabled"
                 PROVE  loader'.hooks = 0
      OBVIOUS
    <3>1. loader.hooks = 0 /\ Idle(loader)
      BY <1>2, <2>1, RestIdle DEF Accounted, IsEnabled
    <3> QED
      BY <1>5, <3>1 DEF Idle, NoWorker
  <2>5. Accounted(loader', proc[p])
    BY <1>3, <2>1, <2>2, <2>3, <2>4 DEF Accounted
  <2> QED
    BY <1>3, <2>1, <2>5 DEF Versioned, SameFiles
<1>7. Kept(loader', wanted', torn')
  BY <1>1, <1>2, <1>3, KeptFollows DEF SerialOK
<1> QED
  BY <1>1, <1>2, <1>6, <1>7 DEF SerialOK

\* The process dies, in the swap of the only call in progress too.
LEMMA DeathKeepsSerial ==
  ASSUME Base, Serial, Killed \/ (\E p \in Proc : DiesInSwap(p)) \/ DiesInInstall
  PROVE  Serial'
<1> SUFFICES ASSUME ~strained', ~builtIn'
             PROVE  SerialOK(loader', proc', wanted', torn')
  BY DEF Serial
<1> USE BaseFacts
<1>1. ~strained /\ ~builtIn /\ wanted' = wanted
        /\ (Killed \/ DiesInInstall => torn' = torn)
  BY DEF Killed, DiesInSwap, DiesInInstall
<1>2. SerialOK(loader, proc, wanted, torn) /\ loader \in World /\ Kept(loader, wanted, torn)
  BY <1>1 DEF Serial, Fit, SerialOK
<1>3. CASE Killed
  BY <1>1, <1>2, <1>3, RebootsKeepsSerial DEF Killed
<1>4. CASE \E p \in Proc : DiesInSwap(p)
  <2>1. PICK p \in Proc : DiesInSwap(p)
    BY <1>4
  <2>2. PICK d \in Content :
          /\ Reboots([Moved(loader) EXCEPT !.dir = d])
          /\ torn' = IF loader.dir \notin Whole THEN "reused"
                 ELSE IF d \in Whole THEN "no" ELSE "cut"
    BY <2>1 DEF DiesInSwap
  <2> DEFINE v == [Moved(loader) EXCEPT !.dir = d]
  <2>3. v \in World /\ Alike(loader, v) /\ v.bak = loader.dir /\ v.dir = d
    BY <1>2 DEF World, Alike, Content, Moved
  <2> HIDE DEF v
  <2>4. Kept(v, wanted, torn')
    <3>1. CASE loader.dir \notin Whole
      BY <2>2, <3>1 DEF Kept
    <3>2. CASE loader.dir \in Whole /\ d \notin Whole
      BY <2>2, <2>3, <3>2 DEF Kept
    <3>3. CASE loader.dir \in Whole /\ d \in Whole
      BY <2>2, <2>3, <3>3 DEF Kept
    <3> QED
      BY <3>1, <3>2, <3>3
  <2>5. Fit(v)
    BY <2>3, AlikeFit
  <2> QED
    BY <1>1, <2>2, <2>4, <2>5, RebootsKeepsSerial DEF v
<1>5. CASE DiesInInstall
  <2>1. PICK d \in Content : Reboots([loader EXCEPT !.dir = d])
    BY <1>5 DEF DiesInInstall
  <2> DEFINE v == [loader EXCEPT !.dir = d]
  <2>2. v \in World /\ Alike(loader, v) /\ v.bak = loader.bak
    BY <1>2 DEF World, Alike
  <2>3. loader.dir \notin Whole
    BY <1>5 DEF DiesInInstall, Whole
  <2> HIDE DEF v
  <2>4. Fit(v) /\ Kept(v, wanted, torn')
    BY <1>1, <1>2, <1>5, <2>2, <2>3, AlikeFit DEF Kept
  <2> QED
    BY <1>1, <2>1, <2>4, RebootsKeepsSerial DEF v
<1> QED
  BY <1>3, <1>4, <1>5

LEMMA InitSerial == Init => Serial
<1> SUFFICES ASSUME Init, ~builtIn
             PROVE  SerialOK(loader, proc, wanted, torn)
  BY DEF Serial
<1> DEFINE any == CHOOSE p \in Proc : TRUE
<1>1. /\ Now /\ Fit(Blank) /\ any \in Proc /\ loader = Boot(Blank, any)
      /\ proc = [p \in Proc |-> AtRest] /\ wanted = "none"
  BY InitIs
<1> HIDE DEF any
<1>2. /\ NoWorker(loader)
      /\ loader.plug # NoObj => loader.obj[loader.plug].status = "installed"
  BY <1>1, BootIs
<1>3. Idle(loader)
  BY <1>2 DEF Idle, IsEnabled, Stilled
<1>4. Accounted(loader, AtRest)
  <2>1. Tracked(FALSE, Return(loader)) /\ Return(loader).world = loader
    BY <1>3, IdleTracked
  <2> QED
    BY <2>1, ResultIs DEF Tracked
<1>5. \A q \in Proc : proc[q].at = "rest"
  BY <1>1, AtRestIs
<1>6. \A q \in Proc : Accounted(loader, proc[q]) /\ Versioned(loader, proc[q])
  BY <1>4, <1>5, AccountedAtRest, AtRestIs
<1> QED
  BY <1>1, <1>5, <1>6 DEF SerialOK, Alone, Kept

LEMMA NextSerial == Base /\ Serial /\ [Next]_vars => Serial'
<1> SUFFICES ASSUME Base, Serial, [Next]_vars
             PROVE  Serial'
  OBVIOUS
<1>1. CASE UNCHANGED vars
  BY <1>1 DEF vars, Serial
<1> QED
  BY <1>1, CallKeepsSerial, StepKeepsSerial, WorkerKeepsSerial, DeathKeepsSerial DEF Next

LEMMA IInvAlways == Spec => []IInv
<1>1. Init => IInv
  BY InitBase, InitSerial DEF IInv, Serial
<1>2. IInv /\ [Next]_vars => IInv'
  BY NextBase, NextSerial DEF IInv, Serial
<1> QED
  BY <1>1, <1>2, PTL DEF Spec

\* The lock, and what it protects: calls that did not overlap leave one worker
\* for an enabled plugin and none otherwise, with the settings last saved, and no
\* handler of a disabled plugin.
THEOREM EnablesAreAccounted == Spec => []EnablesAccounted
<1>1. IInv => WorkerAccounted
  <2> SUFFICES ASSUME IInv, ~strained, Busy = {}, ~builtIn
               PROVE  /\ loader.sandbox # NoHost <=> Known({"enabled"})
                      /\ \A h \in Host : loader.host[h].up =>
                           h = loader.sandbox
                             /\ loader.host[h].config = loader.obj[loader.plug].config
                      /\ Known({"disabled"}) => loader.hooks = 0
    BY DEF WorkerAccounted
  <2>1. PICK p \in Proc : Alone(proc, p)
    BY DEF IInv, SerialOK
  <2>2. Accounted(loader, proc[p]) /\ proc[p].at = "rest"
    BY <2>1 DEF IInv, SerialOK, Busy
  <2>3. OnlyWorker(loader, loader.sandbox) /\ (loader.sandbox # NoHost <=> IsEnabled(loader))
    BY <2>2 DEF Accounted
  <2>4. Known({"disabled"}) => loader.hooks = 0
    BY <2>2 DEF Accounted, Known
  <2>5. Known({"enabled"}) <=> IsEnabled(loader)
    BY DEF Known, IsEnabled
  <2> QED
    BY <2>3, <2>4, <2>5 DEF OnlyWorker
<1> QED
  BY <1>1, IInvAlways, OneEnableAtATime, PTL DEF EnablesAccounted

\* Calls that never overlap keep a whole version of the plugin in its directory,
\* wherever an update fails; after a death in a swap, in the directory or in the
\* backup until the next update begins, about which nothing is claimed.
THEOREM AVersionSurvives == Spec => []VersionKeptUnstrained
<1>1. IInv => VersionKeptUnstrained
  BY DEF IInv, SerialOK, Kept, VersionKeptUnstrained
<1> QED
  BY <1>1, IInvAlways, PTL

=============================================================================
