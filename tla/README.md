# A TLA+ model of the OpenWA gateway

The repository is a WhatsApp API gateway: a NestJS service (`src/src`) that keeps one
WhatsApp *engine* per session, sends and receives messages through it, stores them, tells
webhooks and plugins about them, and survives restarts. This directory holds TLA+ modules
translated from that source, the TLC configurations that check them, and proofs checked by
TLAPS.

## 1. The system

| component | state it keeps | operations | interacts with |
|---|---|---|---|
| session lifecycle (`modules/session/session.service.ts`) | maps of engines, stop marks, start reservations, reconnect states; `sessions.status` | start, stop, forceKill, delete, reconnect timer, engine callbacks, start-up reset | engines (calls and callbacks), hooks, webhooks, database |
| engine adapters (`engine/adapters/*`) | socket or browser, status, QR code, own reconnect timer, intentional-close flag | initialize, disconnect, destroy, send, connection events | session callbacks, the WhatsApp libraries |
| messages (`modules/message/message.service.ts` and the ack, revoke and reaction callbacks of the session service) | `messages` rows: delivery status, remote id, reactions | send (two saves), ack, revoke, reaction, inbound save | engine, hooks, webhooks |
| bulk batches (`modules/message/bulk-message.service.ts`) | `message_batches` rows, a map of running batches | create, process, cancel, start-up repair | engine, messages |
| webhooks (`modules/webhook`, `modules/queue`) | `webhooks` rows, a job queue or in-process retries | dispatch, deliver, retry | session, hooks, HTTP receivers |
| hooks (`core/hooks`) | handler lists by event | register, unregister, execute | plugins, every service |
| plugins (`core/plugins`, `modules/plugins`) | loaded plugins, their workers, the registry, two directories each | load, enable, disable, update, uninstall, install; RPC with a worker | hooks, the file system |
| Baileys' messages and identities (`baileys-*-store`, `engine/identity`) | the newest messages, the last one of each chat, which lid is which phone | put, evict, learn, resolve | adapters, history, webhook filters |
| translation extension (`plugins/extensions/translation`) | a document per group, a circuit breaker | message, command | hooks, a translation server |
| event gateway and the page's socket (`modules/events`, `dashboard/src/hooks`) | rooms, the key of a connection; retries, flags | connect, subscribe, unsubscribe, emit, reconnect | authentication, sessions, pages |
| chat page (`dashboard/src/pages/Chats.tsx`) | the bubbles of the open chat | send, echo, ack, revoke, history | messages, event gateway |
| sessions page (`dashboard/src/pages/Sessions.tsx`) | the list, the QR dialog and its poll | create, start, stop, kill, delete, status events | session lifecycle, event gateway |
| infrastructure administration (`modules/infra`, `docker`, `main.ts`) and its page | the saved configuration, containers, a form | save, restart, orchestrate, export, import | the process, Docker, the database, the files |
| media storage, cache, authentication, templates, shutdown | files in two places; a Redis client; keys and uncounted uses; named rows; a draining flag | see `PROJECT.json` | requests |
| statistics, audit, settings, request screening, validation of the environment | nothing another handler depends on | | |

Everything runs in one Node.js process: a handler runs without interruption up to its next
`await`, and every other handler, timer or callback may run there. That, the process dying
at any moment, calls that reject or hang, and several statements about one row in the
database being in flight at once are what is hard about this code; the list of hazards,
line by line, is in `PROJECT.json`.

## 2. What makes each component correct

- **Session lifecycle.** One start at a time and never a wedged session; the status column
  follows the engine that is registered, never a superseded one; a stop wins over a start
  or reconnect in progress; no engine is left running that no call can reach; a dropped
  session is reconnected, given up as FAILED, or stopped.
- **Messages.** What the caller of a send was told stays true of the row; the delivery
  status only advances; receipts that overtake the save of the id are not lost; reactions
  are not lost to each other.
- **Bulk batches.** No message is sent twice, also over a restart; progress adds up in every
  saved state; a cancel stops the batch and stays; the final report is exact; a batch does
  not stay PROCESSING.
- **Webhooks.** An event is delivered to every matching active webhook at most once per
  idempotency key as long as the receiver deduplicates; retries stop; a failing receiver
  does not keep the others from being served.
- **Hooks and plugins.** A chain skips no handler it began with and no plugin can stall it;
  a plugin that is off is not called; one enable at a time, with its worker accounted for;
  what the operator configured is what the plugin has; a whole version survives an update.
- **Engine adapters.** One socket at a time, no reconnect after an intentional close, no
  drop forgotten; seen from the session, each adapter is the same kind of engine. A message
  is told once, an effect that took place is never answered with an error.
- **Stores and identities.** The newest messages are the ones kept; the history and the
  webhook filters agree on who a sender is.
- **Dashboard.** Each event reaches the page once; no message is drawn twice and no tick goes
  back; the list of sessions shows what the service has, each session once; a save does not undo what nobody edited.
- **Administration.** The built-in services a process needs run after a restart; what was
  exported can be imported, and an import is all or nothing, unless other writes of the
  server get in between (section 4 says which).
- **Authentication, cache, rows with names.** No use is counted twice; no call loses
  a client that was connected; a name stands for one row.

## 3. The modules

| module | what it is |
|---|---|
| `SessionLifecycle` | one session: API calls, reconnects, engine callbacks, the status column |
| `SessionLifecycleProofs` | its theorems |
| `MessageDelivery` | one message: the handler that sends or stores it, receipts, reactions, a revocation |
| `MessageDeliveryProofs` | its theorems |
| `BulkBatch` | one bulk batch: the worker, cancellations, a restart |
| `BulkBatchProofs` | its theorems |
| `WebhookDelivery` | events on their way to the webhooks of a session, with and without the job queue |
| `WebhookDeliveryProofs` | its theorems |
| `EngineStates`, `EngineContract` | the engine that `SessionLifecycle` assumes, as a specification of its own |
| `BaileysAdapter`, `WebJsAdapter` | the two adapters' connections, which implement it |
| `EngineCalls` | a request passed on to an engine: every operation of both adapters, step by step |
| `WebJsInbound` | what whatsapp-web.js reports, completed and told |
| `BaileysStore` | the messages the Baileys adapter keeps |
| `AdapterProofs` | theorems on the adapters: connections, requests, messages told, messages kept |
| `LidIdentity` | lids, phones and neutral ids |
| `HookChain` | one event going round its handlers, a sandboxed one among them |
| `PluginLoader` | one plugin, its calls, workers, registry entry and directories |
| `PluginLoaderProofs` | its theorems |
| `WorkerBridge` | the correlated calls between a plugin's host and its worker |
| `Translation` | the translation extension in one group |
| `HandlerProofs` | theorems on hooks, on the calls into a worker and its configuration, and on translations |
| `EventStream`, `ChatView` | the page's socket with the gateway; the chat page's messages |
| `SessionsPage` | the sessions page: its list, its requests, the QR dialog |
| `InfraConfig`, `InfraRestart` | the settings and the restart, page and server |
| `DataTransfer`, `StorageFiles` | export and import of the database, of the files |
| `CacheClient` | the Redis client shared by the calls of the cache |
| `Access` | one API key and the count of its uses |
| `NamedRows` | sessions and templates, whose names are unique |
| `ServiceProofs` | theorems on identities, API keys, files, the cache, named rows, configuration and restarts, the database's export and import, the pages (their socket, the chats, the list of sessions), and on `MCServices` as a whole |
| `MC*` | instances for TLC; the bounds are in the `.cfg` files and in `MCServices` |

An action is a stretch of a handler between two `await`s. Where the variable of an action
says how far a handler has come (`proc[p].at`, `at`, `worker.at`, `cancels[c].at`), its value
names the `await` the handler is in. `PROJECT.json` gives the source lines of every
definition. Definitions whose name ends the name of another (`TakenIfStarting`,
`AfterMissGiveUp`...) and that are introduced as *mutant of* it belong to no specification:
each is a plausible bug in the code that the named property finds.

### SessionLifecycle

Nothing the service keeps is shared by two session ids, so one session stands for all.

| variable | code |
|---|---|
| `row`, `writes`, `missed` | `sessions.status`; the updates of it that were issued and not yet settled; whether the last that settled was rejected |
| `map` | `engines.get(id)` |
| `stopping`, `initializing` | `stoppingSessions.has(id)`, `initializingSessions.has(id)` |
| `rec`, `loose` | `reconnectStates.get(id)`; timers armed by states that have been replaced |
| `phase`, `st` | engine objects and the status each reports |
| `proc` | the API calls and reconnects in progress, what each awaits, the engine it holds |

`updateStatus()` is called in two ways: awaited (the caller's `proc` waits for its write) and
as `void this.updateStatus(..)` by the callbacks. Both queue an update; they settle in
the order in which they were issued, as on the single connection of the default SQLite
database, each applied or, for the callers in `WriteFails`, rejected (`WriteRefused`): a `start()`
then throws and leaves an engine registered that was never initialized, a reconnect is tried
again, a `stop()` throws with its work done, and what a callback wrote is lost. `Spare` engines may be used again, which is sound because a dead engine that
nothing refers to cannot act. The engines' own behaviour is `EngineMoves`: every status move
that either adapter can report; their internal reconnects are inside it. Left out: webhooks
of status changes (they do not write state), `create()`, read-only queries, the choice of the
sessions to start at start-up (it calls `start()`).

### MessageDelivery

`origin` says how the message came about (a text with its plugin hook, media without it, a
forwarded copy whose id may be unknown, one of a bulk send, an inbound one); `row` is its
row; `at` the handler; `out` that WhatsApp has it. `repository.save(entity)` loads the row and
writes what differs, in a transaction: it makes the row equal to the entity, so a copy read
before another's update undoes that update. `update()` with a condition (receipts,
revocation) is one atomic statement. A rejected statement changes nothing. `reactions` holds
the chain of `reactionChains` in the order of arrival, `copy` the entity a handler holds
across its await. The text, media and recipient of a message are left out; so are the
message history and the templates, which change no state.

### BulkBatch

`row` is the batch's row, `flag` the entry of `processingBatches`, `worker` the run of
`processBatch()` with the entity it holds, `cancels` the calls of `cancelBatch()` with theirs,
`outcome` and `attempts` what became of each message. Calls in `Remote` are served by another
instance: they write the row but not this instance's flag. `Restart` is the death of the
process at any point followed by the start-up repair (`Boot`). Rendering of templates, the
pauses between messages and the persistence of each sent message (that is
`MessageDelivery` with origin "bulk") are left out; the batch size, the existing-id check and
the other refusals of `createBatch()` happen before the row exists.
`EarlyCancel` says whether a cancel may overtake the very first read of `processBatch()`.

### WebhookDelivery

| variable | code |
|---|---|
| `queued` | `queueEnabled`: jobs in the queue, or `deliverWebhook()` inside `dispatch()` |
| `webhooks` | the rows: `active`, `retryCount` |
| `disp` | the calls of `dispatch()`: looking up the webhooks, walking over them, over |
| `dl[e][w]` | one delivery: what it awaits, `attempt - 1` or `job.attemptsMade`, whether `webhook:error` has run, a request given up on that may still arrive |
| `recurs`, `seen`, `processed` | whether the events are of a kind whose key has a time in it; the receivers' keys and what they processed |

`Answered`, `Marked`, `Reported`, `Refused`, `TimesOut` and `MarkFails` stand for `process()` of the
processor and for `deliverWebhook()` alike, which make the same request and the same update;
they differ in who decides on another attempt (`Retried`, `JobRetried`) and who runs
`webhook:error` when (`IsFinalAttempt`). Receivers behave as
`docs/06-api-specification.md` tells them to. BullMQ is external: it runs a job again until
`attempts` are used up, and one it finds stalled without counting the attempt. The events
of an instance share their content, so their keys can differ in the time only; which
webhooks subscribe and pass the filters is a free choice. Left out: headers, signatures,
`create()`, `test()`.

### Engines

`SessionLifecycle` lets an engine move along `EngineMoves` and be torn down. `EngineContract` is
that engine alone, with its two variables `phase` and `st`; `BaileysAdapter` and
`WebJsAdapter` implement it under the refinement mappings at their ends: the phase is read off
`began`, `intentionalClose` and the socket in the one, off `this.client` in the other. QR_READY and
AUTHENTICATING are one status, "linking", throughout.

| variable | code |
|---|---|
| `bStatus`, `closing`, `connecting`, `attempts`, `timer`, `sock` | `status`, `intentionalClose`, the guard of `connect()`, `reconnectAttempts`, `reconnectTimer`, `sock` |
| `live`, `rendering`, `leaving` | what each socket last reported; the awaits of `handleQrCode()` and `logout()` |
| `wStatus`, `client` | `status`, `this.client` |
| `launch`, `page`, `ends` | `client.initialize()`, what the browser shows, the calls that end the adapter |

The libraries are external. A Baileys socket reports "close" once, as the last thing it does;
whatsapp-web.js closes its browser in `destroy()`. Two constants say what is assumed of time
and of the library: `LateQr` (other events may overtake the few milliseconds in which a QR
code is rendered; if they do, QR_READY covers a newer status and the contract is broken) and
`Stubborn` (`destroy()` may reject and leave the browser running; `disconnect()` then forgets a
client that still reports).

`EngineCalls` lists each operation of both adapters as the sequence of what it awaits (`load`,
`ask`, `find`, `group`, `send`, `act`, `recover`) and runs such a sequence while the session's
engine starts, drops or is torn down. The services of groups, contacts, labels, channels, the
catalogue and status posts are thin layers over it, and mapped there. `WebJsInbound` keeps, per message, what
its handler awaits (`inJob`), what is built so far and what has been told, beside the events of
the page that may overtake it. `BaileysStore` has a job per message being handled at the awaits
of `put()` and `enforceLimit()`; `storeRow` is `createdAt`, `last` the entry of `lastMessages`, `seen` the
messages recorded there so far. `InOrder` says whether statements are executed as issued.

### Identities

`lidLocal`, `contact` are what an adapter has learnt, `lidCache` and `lidsOf` the two indexes of
`LidMappingStoreService`, `lidRow` and `writes` its table and the upserts on their way, `stored` the
neutral id a message was stored under. An id is a kind and a user, never a string; the
conversions (`Neutral`, `Candidates`, `Matches`) do what the code's do.

### Plugins

`HookChain` keeps every array the event's handlers have had: `register()` changes the current one
in place, `unregisterPlugin()` makes a new one, and a chain walks the one it began with.
`hookPending` is the map of that name, `hookJob` the other side of it. The re-entrancy guard
(`AsyncLocalStorage`) is the field `cause`: a chain fired by a handler of the same event calls nobody.
`PluginLoader` has the loader's maps, the hosts, the registry and the two directories in one
record `loader`, a call in `proc` for each of the awaits, and the ways the process dies as a
constant. `strained` marks histories in which calls overlapped; what the code promises of workers
and versions it promises of the others. `torn` follows the one version that the death of a swap has
cut: while it is "cut" the version is in the backup, which the restart loads; an update that begins
there makes it "reused".
`WorkerBridge` numbers the calls of one host; `brDown` and `brUp` are the two message queues, and a worker
that exits leaves what is in them. `brMissed` marks the one gap: a configuration saved while the
plugin is being enabled reaches no worker.
`Translation` gives each message its own copy of the group's document, as `load()` does, and
saves all of it; `heard` is what everybody read in the document a message found.

### The page and the gateway

`EventStream` has both ends of one socket: `wsLink`, `wsTries`, `connectionFailed`,
`selectedSession` in the browser, `wsOpen`, `wsKnown`, `wsChecking`, `wsRooms` in the gateway, and
`toServer`, the messages between them in order. `wsPage`, `keyScope` and `keyValid` are the page and the key.
`ChatView` has what feeds the page (`chatRow`, `named`, `out`, `echoed`, `post`, `gone`), the events under
way, and `bubbles`, the list the page draws, with an id of three kinds: the placeholder's, the
row's, WhatsApp's.
`SessionsPage` has the rows and the events about them (`pageRow`, `pageEvents`, `pageHeard`), the list
on the screen (`pageList`), the QR dialog with its name and its poll (`dialog`, `dialogName`, `qrPoll`),
and in `pageCalls` a record per request with the list its handler keeps (`seen`) and the list the
service answered (`got`). Most handlers write `seen` back. The history variable `astray` collects
the sessions whose entry is thereby older than what was shown, or whose event the socket missed, until
a later list finds them; the page is right about the others once nothing is under way. The interval of
the QR dialog fires whether or not the poll before has ended: `qrPoll` has several at once (`QrFetch`).
`LatePoll` says whether a QR dialog may open while a poll of another one has not ended.

### Administration

`InfraConfig` has the saved file (a section of connection keys, a cache, the engine's keys),
what the process runs with, and the form with what filled it last. A section stands for the
database and for the storage, which are saved by the same steps. `InfraRestart` has containers,
the process with its grace and boot, two restart requests walking over their lists, and the
page's polling. Stopping a container is a request to the Docker daemon (`SendStop`) that ends by itself
(`StopLands`), after the exit of the process too; `late` are the containers that a boot found running
with such a stop under way. The container of somebody else whose name contains a service's (`foreign`)
is stopped and removed in one step; `BuiltInsRun` speaks of histories where there is none.
`DataTransfer` has the rows, the dump, and the import's transaction for each database. With PostgreSQL
the import sees the rows it began with and its own (`dbView`), and who writes a row it holds waits.
With SQLite all requests share one connection and TypeORM's one query runner: `dbDepth` and `dbFrame`
are the transactions open in one another, of which a commit or a rollback ends the innermost, whoever
asked for it, and what others write or delete during an import goes into it. Sessions have unique names
(`NameOf`) and new identifiers; a webhook, as a message, may be saved again under the identifier it had.
`StorageFiles` has both backends and the entries an import has not reached; archives made elsewhere may
have a name twice, or one that is refused or huge.

### Small services

`CacheClient`: `cacheClient` is `this.redis`, `cacheWire` the connection of each client that was built, `cacheCall`
how far each call is in `isAvailable()` and after it, and the client its PING was sent on. A client whose
`connect()` rejected is forgotten and goes on to retry (`cacheRefused`): it may answer a PING that waits for
it while `this.redis` is null, or another client. The call then meets a TypeError, which the `try` around it
caught: a miss. Such a client may also connect and stay open, and a shutdown does not quit it. `Access`: `keyRow` with a copy per request and per administrator,
`pendingUsage` the uncounted uses; a save writes the entity as it was read. `NamedRows`: what a
request read (`rowCall`), the tables, and how it was answered.

## 4. What is checked

The runs, all by `tlc -config <cfg> <module>`:

| run | bounds | what it shows |
|---|---|---|
| `SessionSerial` | 2 engines, 1 call or reconnect at a time, 2 attempts, 3 writes and 2 timers in flight, any of the updates of the status rejected | with calls one after another, but engine events, timers, restarts, rejected teardowns and rejected updates anywhere, nothing is left over (`NothingLeftOver`: no orphaned engine, no status column left active without one), a drop is resolved |
| `SessionOverlap` | 3 engines, 2 calls or reconnects interleaved, 1 attempt, updates of start, stop and reconnect rejected | one start at a time; the column follows the registered engine; the stop mark wins |
| `SessionOrphan` | 2 engines, 2 calls, no rejected teardown | **violated**: an orphaned engine, see below |
| `SessionDeleted` | the same | **violated**: a live engine of a deleted session |
| `MessageRow` | 4 origins, 2 receipts, 2 reactions of 2 senders, any statement rejected, a restart | outcomes, reactions, order of statuses, late receipts |
| `MessageDowngrade` | 2 receipts, 1 reaction, no failures | **violated**: a delivery status goes back |
| `BatchProgress` | 3 messages, progress saved every 2, a local and a remote cancel, a restart | counters, report, no resend, cancel stops, the batch settles |
| `BatchCancel` | 2 messages, 1 cancel | **violated**: a cancel is overwritten |
| `Webhooks` | 2 events and 1 webhook, or 1 event and 2 webhooks, a `retryCount` of 0 or 2, any update rejected, a restart | processed once, nothing reported as delivered that was dropped, errors exactly for what is over, jobs survive; every webhook is served, whatever the one before it does |
| `PluginCalls` | 2 calls at a time, 3 objects, 3 hosts, 2 settings, every failure, the process killed at any moment | one enable at a time; configuration, registry and object agree, but for the session settings of a restarted built-in; workers accounted for and a whole version kept when calls do not overlap |
| `Services` | one of 19 machines, see below | the other components |
| `EventsSilent` | 2 sessions, 2 attempts, 4 messages under way | **violated**: a page without events that does not say so |

`MCServices` extends nineteen of the other components; they share no state with each other. `which`, chosen by
`Init`, says which one runs; its variables move, the others' are parked. Its properties are
named by what they have in common and speak of the machine that runs:

| property | machines and bounds | what it says |
|---|---|---|
| `HooksRun` | hooks: 2 executions, 2 jobs, 2 arrays | no handler skipped, no chain stalled |
| `SocketsAccounted`, `BaileysIsEngine` | baileys: 3 sockets, 2 reconnects | sockets accounted for; the contract implemented |
| `WebJsIsEngine` | webjs: 2 calls that end it | the contract implemented |
| `ReportsAreTrue` | calls: every operation, 1 request; files: 2 files, 1 unsafe, 1 huge entry; translation: 3 people, 3 languages, 2 messages at once, a new group or one of the groups of `GroupScenario`; inbound: 1 message, 2 peers; bridge: 2 configurations, 1 capability | what is answered, counted, archived or told is what happened |
| `LastIsNewest` | store: 2 messages, 2 jobs, a limit of 1 | the last message of a chat is the newest that came |
| `HistoryAgreesWithFilters` | lids: 2 lids, 2 phones, 1 write under way | two readers agree on a sender |
| `PageAgrees` | events: 2 sessions; chat: 1 message, 2 chats, 1 history, 2 events; page: 2 sessions, one waiting for its code and the other missing or ready (`PageScenario`), 2 requests and 2 polls at once, 2 clicks or changes, 1 event | each event once, no message drawn or session listed twice, the list right but for what an older list or a lost event spoilt |
| `InstallationHolds` | config: one engine, no type beside the file, 2 edited fields (`ConfigScenario`, `MaxTouched`); restart: 1 service, 2 requests, 2 starts, 2 checks of the health; transfer: 3 sessions of which 2 want one name, 1 webhook, 2 writes or transactions of the server; cache: 2 calls, 2 clients, 2 attempts; names: 2 calls, 2 rows and names of each kind; bridge; lids; store | no leftovers, services run, exports import, clients and names in order, tables caught up and bounded |
| `NeverCountedTwice` | access: 2 requests, 1 administrator, 2 uses | no use counted twice |
| `StepsKeep` | hooks, store, chat, config, transfer, names | what no step may do: call a disabled plugin, evict a recent message, move a tick back, overwrite what nobody edited, half an import, an error without a race |

Why the bounds are enough to be interesting: two procedures are what every race of the
session service needs (a start and a stop, a reconnect and a delete), three engines let a
superseded engine, the registered one and one being torn down exist at once, and more
than one loose timer or write in flight exercises their order. Two receipts and two reactions
overlap with each other and with the send. In the batch, three messages with a cadence of two have a
saved, an unsaved and a last index; two cancels, one of each kind, overlap with the worker's
re-reads and saves. Two events are what a shared key needs; a `retryCount` of 0 and of 2 are the
cases of no attempt left and one more. Two webhooks are what one waiting for another needs. What these bounds cannot show for larger numbers the theorems do.
In the services two of whatever competes (calls, requests, jobs, messages of a chat) are there, and one
of what is only walked over: one message suffices where handlers of different messages touch no
common state, one restartable service where the lists are walked element by element. Three languages are what it
takes for a message to have a reader who reads neither the language it is in nor its sender's; two
clients of the cache are one that was given up with a call's `PING` in its queue and one in use.
`MessageRow` leaves out media, which is the text without the hook (the theorems have it).

### Fairness

- `SessionLifecycle`: handlers whose promises settle go on, a queued write is applied or rejected, an
  armed timer fires. The fairness is strong because a step also waits for room in the
  model's bounds (`Room`, a free element of `Proc`), which come and go. Nothing obliges an
  API call, an engine event or a restart to happen.
- `MessageDelivery`: weak fairness of the sending handler and of each receipt's handler: the
  database answers and a timer fires. `PromptSave` says that the 750 ms of
  `ACK_RECONCILE_DELAY_MS` outlast the statement that stores the message's id; without it the
  second attempt may come too early as well, and nothing in the code excludes that.
- `BulkBatch`: weak fairness of the worker. An engine call that never settles would leave
  the batch PROCESSING: the code has no timeout there, so this is an assumption.
- `WebhookDelivery`: weak fairness of each dispatch and each delivery: hooks and statements
  settle, a request settles at its `AbortSignal.timeout()` at the latest, a delay ends, and
  BullMQ runs the jobs it has. A receiver owes nothing, and a late request need not arrive.

Deadlock is checked in the session and plugin runs. A message, a batch, a delivery or a bounded
service is done at some point, so their runs allow the model to stop. `PluginLoader` and the
services state safety only.

### What the violated runs found

- *An orphaned engine* (`NoOrphan`). `start()` registers an engine and awaits the write of
  INITIALIZING. A `stop()` that arrives there disconnects the engine (not yet initialised, so
  nothing happens) and removes it from the map; `start()` goes on to `initialize()` it, and
  finds no engine in the map to undo.
- *A deleted session's engine* (`DeletedIsDown`). `delete()` clears the stop mark when it is
  done; a start or reconnect that still awaits `initialize()` finds no mark afterwards.
- *A delivery status goes back* (`StatusOnlyAdvances`). `applyReaction()` reads the message,
  then saves the whole entity; a receipt applied in between is undone.
- *A cancel is overwritten* (`CancelWins`). A cancel that lands between the worker's last
  look at the row and its last save is answered with success, and the batch ends COMPLETED.
- *A page that is silently stale* (`NeverSilentlyStale`). The page subscribes as soon as its
  socket connects. If the gateway handles that before it has heard from `validateApiKey()`, it
  disconnects the socket, socket.io does not retry, and the banner promised by `connectionFailed`
  never shows.

What else the models show, without a run of its own:

- *A save undoes settings nobody edited* (`InfraConfig!SaveKeepsUnseen`, which does not hold). The page fills
  its form from `GET /infra/config`, then again from the status of the running process, whenever
  that answers; a save after the second sends the running values. Saves from a form that the saved
  file filled last are in order (`FilledKeepsUnseen`, checked).
- *A session list that goes back* (`SessionsPage`, `astray`): an answer to a stop, a delete or a create puts
  back the list of the moment its button was drawn, over the events that came since; a change of
  status between the first list and the subscription is never heard.
- *A QR code under another name* (`LatePoll`): a poll of a dialog that was closed answers after the next
  one has opened; it shows its own session's code under the name of the other (Sessions.tsx:90).
- *A 409 for a missing session* (`NamedRows`). `isUniqueViolation()` takes any constraint error
  of SQLite for a taken name, the foreign key's included. An update whose template is deleted
  between its lookup and its `save()` inserts it again.
- *A built-in plugin without its session settings* (`PluginLoader!LoadPlugin`). After a restart
  `registerBuiltInPlugin()` (plugin-loader.service.ts:849-862) takes the config of the registry but neither
  `activeSessions` nor `sessionConfig`, which `loadPlugin()` (199-210) does and whose comments (465, 490) do
  not tell the two apart. `ConfigAgrees` excepts them.
- *An update that removes the only version* (`torn`). When the process dies between the rename and the
  last file of an update, the restart loads the plugin from `<id>.bak`. The next update removes that backup
  (plugins.service.ts:351) before its rename, which finds no directory and throws. `VersionKeptUnstrained` claims
  nothing of what follows such an update.
- *Readers who get nothing* (`Translation`). `targetLanguages()` leaves out the sender's own language, so that of
  a message written in another one (a Spanish text of somebody who reads English, in a group that reads both
  and French) the others who read the sender's language get no translation, unless no third language is left.
  `ReadersAsked` says what the code does.
- *An import that meets other writes* (`DataTransfer`, `dbMingled`, `PayloadMet`). On SQLite a session that is
  created or deleted during an import shares its transaction: whichever began last is the one that ends, so
  a rollback may take the other's rows or leave its own. A session created under an exported name, or a row
  saved again under its identifier, refuses the import. Neither is excluded by the code (infra.controller.ts:658-831).
- *A stop that lands after the boot* (`InfraRestart`, `late`). A restart request may be cut off by the exit of the
  process while Docker stops a container for it; the next boot may still find it running and take it for started.
- *An export that is cut by the bucket* (`StorageFiles`, `moved`). When the bucket first answers while an export reads
  local files, the rest is looked for in the bucket and left out of the archive without an error.
- *Sessions after a rejected update* (`SessionLifecycle`, `missed`): the column keeps the status of before, until the
  next update.
- *A configuration that misses its plugin* (`WorkerBridge`, `brMissed`): saved while the plugin is
  being enabled, it is stored and sent to nobody until the next change.
- *An API key's row* (`Access`): the save of a counted use writes back the entity as it was read, so a
  revocation between the two is undone and a deleted key inserted again.
- *A late QR code* (`LateQr`): a rendering that a drop overtakes sets QR_READY over the newer
  status.
- *A stop that keeps its engine*: `executeReconnect()` calls `destroy()` unguarded
  (session.service.ts:934).
- *Lost with the process*: a message row stays PENDING when the process dies between its two
  saves (message.service.ts:57), a batch when it dies before PROCESSING (bulk-message.service.ts:142),
  direct webhook deliveries in progress (webhook.service.ts:330).

## 5. What is proved

TLAPS checks these for every value of the constants, under the assumptions named in the
modules. `BoundsAssumption`, `MessageAssumption`, `BatchAssumption`, `WebhookAssumption`,
`PluginAssumption`, `HookAssumption`, `BridgeAssumption`, `TrAssumption`, `StoreAssumption`,
`FilesAssumption`, `CacheAssumption`, `TransferAssumption`, `KeyAssumption`, `RestartAssumption`,
`LidAssumption`, `BaileysAssumption`, `ChatAssumption`, `StreamAssumption` and `PageAssumption` say that
bounds are numbers, switches Boolean and finite sets finite; `NullAssumption`, `NamesAssumption`,
`FilesAssumption` and the last four that what stands for "none", "not known" or "unsafe" is nothing else; `SpareAssumption` that the model has an object and
a host more than calls can hold. TLC evaluates each of them on a run.

Sessions, messages, batches, webhooks, plugins:

| theorem | statement | inductive invariant |
|---|---|---|
| `SessionLifecycleProofs!TypeCorrect` | `[]TypeOK` | `TypeOK` |
| `SessionLifecycleProofs!StartExclusive` | `[]StartMutex` | itself, with `TypeOK`: every step leaves the starts alone, ends one and releases, or begins one when none is there |
| `SessionLifecycleProofs!RowFollowsEngine` | `[]RowTracksEngine` | `RowInv`: the *last* write in the queue, or the row if there is none, shows the registered engine's status or FAILED |
| `SessionLifecycleProofs!StopWins` | `[]StopHolds`, if the teardown inside a reconnect does not reject | `StopInv`: with the mark set, a running registered engine is in the hands of a call that will look at the mark or tear it down |
| `SessionLifecycleProofs!NothingIsLeftOver` | `[]NothingLeftOver`, for calls one after another, if the teardown of `delete()` does not reject | `SerialInv`: only the registered engine is up, the one call holds the registered one, and what leaves the map has queued the write of its end, unless the last update was rejected |
| `SessionLifecycleProofs!DropsAreOwned` | `[]DropIsOwned`, for calls one after another | itself, with what `SerialInv` knows of calls and engines: no start or delete is past its hook with an engine registered |
| `MessageDeliveryProofs!TypeCorrect` | `[]TypeOK` | `TypeOK` |
| `MessageDeliveryProofs!OutcomeIsTold` | `[]RowTellsOutcome` | `RowInv`: a row is named only when its handler has ended, so only then do receipts reach it and reactions copy it, and the copies satisfy what the row does |
| `MessageDeliveryProofs!OnlyForward` | `OnlyReactionsUndo` | `RowInv` |
| `MessageDeliveryProofs!ReactionsCount` | `[]EveryReactionCounts` | `ReactInv`: at most one reaction is between its read and its save, all earlier ones are settled, and its copy has the row's reactions |
| `MessageDeliveryProofs!ReceiptsDecide` | `AckDecides` by every step, if `PromptSave` | `AckInv`: what is acknowledged is past its hook; and a row that has an id is there |
| `BulkBatchProofs!TypeCorrect` | `[]TypeOK` | `TypeInv`: also, the loop variable is an index while a message is handled |
| `BulkBatchProofs!SentOnce`, `FailureStops` | `[]NeverResent`, `[]StopsOnError` | `SendInv`: whatever is at or after the loop variable is untouched |
| `BulkBatchProofs!CountersAddUp` | `[]ProgressAddsUp`, if no cancel overtakes the first read | `CountInv`: every copy of the row that will be saved is sound, and the worker's copy is short of exactly the messages from the loop variable on |
| `BulkBatchProofs!CancelStops` | `CancelStopsSending` | `MarkInv`: the flag is set before the row says PROCESSING, and never again |
| `BulkBatchProofs!ReportsAreExact` | `[]ReportIsExact` | `ReportInv`: the worker's copy counts exactly the outcomes, and what is before the loop variable, and only that, has one |
| `BulkBatchProofs!BatchesAreAttended` | `[]Attended` | `AttendInv`: what the worker and the cancels will save to end a batch does not say PROCESSING, and after a restart no worker drives it on |
| `WebhookDeliveryProofs!TypeCorrect`, `ErrorsAreFinal` | `[]TypeOK`, `[]ErrorMeansOver` | `TypeInv`: a delivery that may be attempted has an attempt left, and one whose error is being told has none |
| `WebhookDeliveryProofs!Deduplicated`, `NothingMistaken` | `[]ProcessedOnce`, `[]DeliveredIsProcessed` | `ReceiverInv`: a receiver has a key exactly if it has processed, once, one of the dispatches that share it; what was accepted is known |
| `WebhookDeliveryProofs!ServedInTurn` | `[]InTurn`, and `JobStays` by every step | itself: what waits for its turn, or has it, belongs to a loop that runs |
| `PluginLoaderProofs!PluginTypes`, `OneEnableAtATime`, `SettingsAgree` | `[]TypeOK`, the lock, `[]ConfigAgrees` | `Base`: a call past the check of the lock has the lock, and an object and its entry differ only in the hands of one that will write the entry |
| `PluginLoaderProofs!EnablesAreAccounted`, `AVersionSurvives` | `[]EnablesAccounted`, `[]VersionKeptUnstrained` | `IInv`: `Base`, and while calls have not overlapped, one call at most, its worker the only one, and at each of its steps a whole version in the directory, or in its backup after a swap was cut |

Adapters, handlers of plugins, services:

| theorem | statement | inductive invariant |
|---|---|---|
| `AdapterProofs!SocketsAreAccounted` | `[]SocketsAccounted`, if not `LateQr` | `BaileysInv`: exactly one of an open socket, the timer and a `connect()` is responsible while the status says the adapter works, none afterwards |
| `AdapterProofs!BaileysAdapterIsEngine` | `BaileysIsEngine`, if not `LateQr` | `BaileysInv`; every step is a step of `EngineContract` or a stutter |
| `AdapterProofs!WebJsAdapterIsEngine` | `WebJsIsEngine`, if not `Stubborn` | `WebJsInv`: an open browser shows the status, a client that is gone has none |
| `AdapterProofs!WhatIsDoneIsTold` | `[]DoneIsTold` | `CallInv`: in every operation of both adapters nothing that may fail comes after what takes effect, but for what is caught |
| `AdapterProofs!MessagesAreToldOnce` | `[]ToldOnce` | `InboundInv`: what was told of a message is what its handler has come to, and built from its own event |
| `AdapterProofs!TheLastIsNewest`, `TheNewestAreKept` | `[]LastIsNewest`; `KeepsNewest` by every step, if `InOrder` | `StoreInv`: a row is no younger than a date still to be written, so a cut that spared enough rows spares them until it is executed |
| `AdapterProofs!TheStoreIsBounded` | `[]StoreBounded` | `SizeInv`: what no deletion under way will take is within the limit unless somebody has still to look |
| `HandlerProofs!HooksAreTyped`, `HooksAlwaysRun`, `TheDisabledAreLeftAlone` | `[]HookTypeOK`, `[]HooksRun`, `LeftAlone` by every step | `HookInv`: whom a chain still owes a call is ahead of it in its own array, however the array changed; a waiting chain and a pending job are each other's |
| `HandlerProofs!AnswersAreOwn` | `[]AnswersAreTheirOwn` | `BridgeInv`: the maps of the host have the open calls, a good result is on its way only from a handler that ended well |
| `HandlerProofs!TheConfigArrives` | `[]ConfigArrives` | `ConfigLeads`, with `BridgeInv`: the *last* message under way that carries a configuration carries the plugin's, and the load comes before all others |
| `HandlerProofs!TranslationsReach` | `[](TrTypeOK /\ ReadersAsked /\ AnnouncedStays)` | `TrInv`: a handler's copy of the group has everybody else as they were in the document its message found |
| `ServiceProofs!UsesCountedOnce` | `[]NeverCountedTwice` | `UseInv`: no entity that somebody will save has, with the uses that wait, counted more than were accepted |
| `ServiceProofs!SendersAgree` | `[]HistoryAgreesWithFilters` | `LidInv`: the two indexes are each other's inverse and what is stored is neutral |
| `ServiceProofs!TheRowsCatchUp` | `[]RowsCatchUp` | `CacheLeads`, with `LidInv`: the *last* write under way for a lid writes what is known of it |
| `ServiceProofs!FilesAreAccounted` | `[](CountIsExact /\ ArchiveIsTrue)` | `FilesInv`: what is counted, skipped and left is the archive that is imported; what is archived, unread and left is what was listed, while the backend is the same |
| `ServiceProofs!TheClientIsThere` | `[]ClientIsThere` | `CacheInv`: one call connects exactly while `connecting` is set, and every client that is waited for or open is the present one or was refused |
| `ServiceProofs!ANameIsOneRow`, `OnlyRacesAreErrors` | `[]NamesAgree`, `ErrorsAreRaces` by every answer | `NamesInv`: names are unique at every write, whatever was looked up before |
| `ServiceProofs!NoKeysAreLeft`, `FilledSavesKeep` | `[]NoLeftovers`, `FilledKeepsUnseen` by every save | `ConfigInv`: a form that the file filled last follows it in every field nobody touched |
| `ServiceProofs!TheBuiltInsRun` | `[]BuiltInsRun` | `RestartInv`: what the orchestration at boot has reached runs, with no stop under way that it did not meet, until the next request; and no request outlives its process |
| `ServiceProofs!ExportsAreImportable`, `ImportsAreWhole` | `[]ExportIsImportable`, `AllOrNothing` | `TransferInv`: an export nobody disturbed keeps keys, names and references; what the import sees is what it has inserted of it and what the server wrote, and the frame of its own transaction is what it began with |
| `ServiceProofs!MessagesAreDrawnOnce`, `TicksGoOn` | `[]NobodyDrawnTwice`, `TicksOnlyAdvance` | `ChatInv`: a message has one bubble under the remote id, and one placeholder only while its request is under way |
| `ServiceProofs!EventsComeOnce` | `[]SettledIsSubscribed` | `StreamInv`: the *last* message under way for a room the page wants is a subscribe, unless the room is being checked, has been joined or is not for the key; and each page joins only the kind of room it wants |
| `ServiceProofs!TheListAgrees` | `[](ListedOnce /\ ListAgrees)` | `PageInv`: the *last* event under way for a session tells its row; what an answer will do to the list is right for every session of which it has missed nothing; and the page shows such a session as it is, or the answer that will is still to come |
| `ServiceProofs!CodesAreNamed` | `[]NameAgrees`, if not `LatePoll` | `DialogInv`: the name that is kept is that of the open dialog and of every poll under way, or none |
| `ServiceProofs!TheMachinesRun` | the specification of each machine `MCServices` extends | each step of the composition is a step of that machine or leaves it alone |
| `ServiceProofs!TheServicesAreTyped` | `[]ServicesTypeOK` | the types of each machine (`BridgesAreTyped`, `BaileysIsTyped`, `WebJsIsTyped`, `KeysAreTyped` and the like), by `TheMachinesRun`. A call of the bridge stays typed because its counter is above the number of every call that anybody remembers; both adapters keep their types with `LateQr` and `Stubborn` too |
| `ServiceProofs!WhatIsReportedIsTrue`, `TheInstallationHolds`, `ThePagesAgree`, `NoStepBreaks` | `[]ReportsAreTrue`, `[]InstallationHolds`, `[]PageAgrees` if not `LatePoll`, `StepsKeep` | those above, by `TheMachinesRun` |

The two refinements are what justifies the engine that `SessionLifecycle` assumes: whatever
`SessionLifecycleProofs` shows of engines that move along `EngineMoves` concerns both adapters,
under the assumptions of their theorems. The theorems about single services are about their
own specifications; `TheMachinesRun` carries them over to `MCServices`, so that the last five
state the very properties that the run `Services` checks.

The hypotheses are needed. `StopWins`: `executeReconnect()` calls `destroy()` unguarded, and
when that rejects a stopped session keeps a live engine. `NothingIsLeftOver`: overlapping calls do leave
something over (`SessionOrphan`), and a `delete()` whose teardown rejects, and whose transaction then
fails as well, writes no status at all and leaves the old one. `CountersAddUp`: two
cancels that found the batch before its worker read it may save counters older than the
worker's. `TheNewestAreKept` and `NoStepBreaks`: a driver with several connections may execute an
older put after a newer one has been counted. `CodesAreNamed`, `ThePagesAgree`: with
`LatePoll` a code does show under another session's name (Sessions.tsx:90).

Only model-checked: the liveness properties (`DropIsResolved`, `AckLands`, `BatchSettles`,
`EveryoneServed`, `QueuedSurvives`), which are out of the prover's reach with ENABLED, induction over
data and RECURSIVE operators. Every invariant and action property of the passing runs is a theorem.
Of each liveness property the safety half is proved, for every value of the constants: as long as
something is owed, somebody is there who owes it (`DropsAreOwned`, `BatchesAreAttended`,
`ServedInTurn`), and nobody stops before it is done (`ReceiptsDecide`, `ServedInTurn`). What is left
to fairness is that whoever is there moves. `DropIsOwned` needs calls that do not overlap, and so does
`DropIsResolved`, for a reason in the code: a `start()` whose hook was still running while a reconnect
registered an engine replaces the reconnect state the engine's drop was counted in, and a `delete()` that
fails clears its mark after the timer of an overlapping start's engine was ignored because of it.

## 6. What is not modelled, and the plan

Not modelled by intention: validation of requests in controllers and DTOs, read-only queries,
rendering and formatting, the contents of messages and their mapping, statistics, metrics and
audit (queries and append-only logs), settings, the screening of addresses (stateless), the
SDKs, and the pages of the dashboard that only show what the API answers. Which parts those
are, one by one, is in `PROJECT.json`; what a "partly" modelled component leaves out is in its note.

Left for later, in this order:

1. Acknowledgements, reactions and pairing codes of the Baileys adapter, as `WebJsInbound` has
   them for the other.
2. The chat list beside the messages, and reactions in the page.
3. Several instances on one database: the start-up repair of one meets the running batches of
   another.
