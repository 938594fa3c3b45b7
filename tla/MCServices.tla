----------------------------- MODULE MCServices -----------------------------
(***************************************************************************)
(* The components that stand beside sessions, messages and webhooks, for   *)
(* TLC.  They share no state, so a behaviour is one of them, chosen in     *)
(* Init, while the variables of the others keep a value no step touches.   *)
(* The modules this one extends name their variables and operators apart.  *)
(***************************************************************************)
EXTENDS BaileysAdapter, WebJsAdapter, HookChain, BaileysStore, LidIdentity, Access,
  EngineCalls, Translation, WebJsInbound, WorkerBridge, StorageFiles, InfraConfig,
  InfraRestart, DataTransfer, CacheClient, NamedRows, ChatView, EventStream, SessionsPage

VARIABLE which  \* the machine that runs

\* The priority of the built-in handler and of the sandboxed plugin's.
HandlerPriority == [h \in {"late", "shim"} |-> IF h = "shim" THEN 50 ELSE 100]

\* The session each webhook belongs to.
WebhookOwner == [w \in {"w1"} |-> "s1"]

\* The name of each session: two of them want the same.
SessionName == [s \in {"s1", "s2", "s3"} |-> IF s = "s2" THEN "n2" ELSE "n1"]

-----------------------------------------------------------------------------
\* Bound: one engine, and no type in .env beside the saved file.
ConfigScenario == cfgEngine = "set" /\ cfgEnv = "unset" /\ cfgCache.enabled

\* Bound: a new group, or one of three languages in which one participant may be about
\* to change his and another may be pinned or ignored.
GroupScenario ==
  \/ trDoc = NewGroup
  \/ \E pending \in {NoLang, "es"}, pinned, enabled \in BOOLEAN :
       trDoc = [active |-> TRUE, announced |-> TRUE,
                people |-> [p \in Person |->
                  CASE p = "a" -> [NewParticipant EXCEPT !.lang = "en", !.pending = pending]
                    [] p = "b" -> [NewParticipant EXCEPT !.lang = "es", !.pinned = pinned]
                    [] OTHER   -> [NewParticipant EXCEPT !.lang = "fr", !.enabled = enabled]]]

\* Bound: two sessions of the page, which it treats alike.
PageScenario ==
  <<pageRow["a"], pageRow["b"]>> \in {<<"coming", "absent">>, <<"coming", "ready">>}

\* Bound: a machine that does not run has one initial state.
OthersChosen ==
  /\ IF which = "calls" THEN TRUE ELSE callAdapter = "webjs"
  /\ IF which = "translation" THEN GroupScenario ELSE trDoc = NewGroup
  /\ IF which = "files" THEN TRUE ELSE type = "local" /\ disk = {} /\ bucket = {}
  /\ IF which = "config" THEN TRUE
     ELSE /\ cfgFile = MinimalSection /\ cfgCache = [enabled |-> FALSE, conn |-> "unset"]
          /\ cfgEngine = "unset" /\ cfgEnv = "unset"
  /\ IF which = "restart" THEN TRUE
     ELSE wanted = {} /\ container = [p \in Profile |-> "absent"] /\ foreign = "absent" /\ docker = TRUE
  /\ IF which = "transfer" THEN TRUE ELSE dbDialect = "sqlite" /\ db = {} /\ dbOdd = {}
  /\ IF which = "names" THEN TRUE ELSE rowDialect = "sqlite"
  /\ IF which = "events" THEN TRUE ELSE wsPage = "Chats" /\ keyScope = PageSession /\ keyValid = TRUE
  /\ IF which = "page" THEN TRUE ELSE pageRow = [s \in Sid |-> "absent"]

Machines ==
  {"hooks", "baileys", "webjs", "calls", "store", "lids", "translation", "events",
   "chat", "config", "restart", "transfer", "files", "cache", "access", "inbound",
   "names", "bridge", "page"}

ServicesInit ==
  /\ which \in Machines /\ OthersChosen
  /\ HookInit /\ BaileysInit /\ WebJsInit /\ StoreInit /\ LidInit /\ KeyInit /\ CallInit /\ TrInit
  /\ InboundInit /\ BridgeInit /\ FilesInit /\ ConfigInit /\ RestartInit /\ TransferInit
  /\ CacheInit /\ NamesInit /\ ChatInit /\ StreamInit /\ PageInit
  /\ which = "config" => ConfigScenario
  /\ which = "page" => PageScenario

HooksStep ==
  /\ which = "hooks"
  /\ UNCHANGED <<which, baileysVars, webjsVars, callVars, storeVars, lidVars, trVars,
       streamVars, chatVars, configVars, restartVars, transferVars, filesVars,
       cacheVars, keyVars, inboundVars, namesVars,
       bridgeVars, pageVars>>
  /\ HookNext

BaileysStep ==
  /\ which = "baileys"
  /\ UNCHANGED <<which, hookVars, webjsVars, callVars, storeVars, lidVars, trVars,
       streamVars, chatVars, configVars, restartVars, transferVars, filesVars,
       cacheVars, keyVars, inboundVars, namesVars,
       bridgeVars, pageVars>>
  /\ BaileysNext

WebJsStep ==
  /\ which = "webjs"
  /\ UNCHANGED <<which, hookVars, baileysVars, callVars, storeVars, lidVars, trVars,
       streamVars, chatVars, configVars, restartVars, transferVars, filesVars,
       cacheVars, keyVars, inboundVars, namesVars,
       bridgeVars, pageVars>>
  /\ WebJsNext

CallsStep ==
  /\ which = "calls"
  /\ UNCHANGED <<which, hookVars, baileysVars, webjsVars, storeVars, lidVars, trVars,
       streamVars, chatVars, configVars, restartVars, transferVars, filesVars,
       cacheVars, keyVars, inboundVars, namesVars,
       bridgeVars, pageVars>>
  /\ CallNext

StoreStep ==
  /\ which = "store"
  /\ UNCHANGED <<which, hookVars, baileysVars, webjsVars, callVars, lidVars, trVars,
       streamVars, chatVars, configVars, restartVars, transferVars, filesVars,
       cacheVars, keyVars, inboundVars, namesVars,
       bridgeVars, pageVars>>
  /\ StoreNext

LidsStep ==
  /\ which = "lids"
  /\ UNCHANGED <<which, hookVars, baileysVars, webjsVars, callVars, storeVars, trVars,
       streamVars, chatVars, configVars, restartVars, transferVars, filesVars,
       cacheVars, keyVars, inboundVars, namesVars,
       bridgeVars, pageVars>>
  /\ LidNext

TranslatorStep ==
  /\ which = "translation"
  /\ UNCHANGED <<which, hookVars, baileysVars, webjsVars, callVars, storeVars, lidVars, streamVars,
       chatVars, configVars, restartVars, transferVars, filesVars, cacheVars, keyVars, inboundVars, namesVars,
       bridgeVars, pageVars>>
  /\ TrNext

StreamStep ==
  /\ which = "events"
  /\ UNCHANGED <<which, hookVars, baileysVars, webjsVars, callVars, storeVars, lidVars,
       trVars, chatVars, configVars, restartVars, transferVars, filesVars,
       cacheVars, keyVars, inboundVars, namesVars,
       bridgeVars, pageVars>>
  /\ StreamNext

ChatsStep ==
  /\ which = "chat"
  /\ UNCHANGED <<which, hookVars, baileysVars, webjsVars, callVars, storeVars, lidVars,
       trVars, streamVars, configVars, restartVars, transferVars, filesVars,
       cacheVars, keyVars, inboundVars, namesVars,
       bridgeVars, pageVars>>
  /\ ChatNext

ConfigStep ==
  /\ which = "config"
  /\ UNCHANGED <<which, hookVars, baileysVars, webjsVars, callVars, storeVars, lidVars,
       trVars, streamVars, chatVars, restartVars, transferVars, filesVars,
       cacheVars, keyVars, inboundVars, namesVars,
       bridgeVars, pageVars>>
  /\ ConfigNext

RestartsStep ==
  /\ which = "restart"
  /\ UNCHANGED <<which, hookVars, baileysVars, webjsVars, callVars, storeVars, lidVars,
       trVars, streamVars, chatVars, configVars, transferVars, filesVars,
       cacheVars, keyVars, inboundVars, namesVars,
       bridgeVars, pageVars>>
  /\ RestartNext

TransferStep ==
  /\ which = "transfer"
  /\ UNCHANGED <<which, hookVars, baileysVars, webjsVars, callVars, storeVars, lidVars,
       trVars, streamVars, chatVars, configVars, restartVars, filesVars,
       cacheVars, keyVars, inboundVars, namesVars,
       bridgeVars, pageVars>>
  /\ TransferNext

FilesStep ==
  /\ which = "files"
  /\ UNCHANGED <<which, hookVars, baileysVars, webjsVars, callVars, storeVars, lidVars,
       trVars, streamVars, chatVars, configVars, restartVars, transferVars,
       cacheVars, keyVars, inboundVars, namesVars,
       bridgeVars, pageVars>>
  /\ FilesNext

CacheStep ==
  /\ which = "cache"
  /\ UNCHANGED <<which, hookVars, baileysVars, webjsVars, callVars, storeVars, lidVars,
       trVars, streamVars, chatVars, configVars, restartVars, transferVars,
       filesVars, keyVars, inboundVars, namesVars,
       bridgeVars, pageVars>>
  /\ CacheNext

KeysStep ==
  /\ which = "access"
  /\ UNCHANGED <<which, hookVars, baileysVars, webjsVars, callVars, storeVars, lidVars,
       trVars, streamVars, chatVars, configVars, restartVars, transferVars,
       filesVars, cacheVars, inboundVars, namesVars,
       bridgeVars, pageVars>>
  /\ KeyNext

InboundStep ==
  /\ which = "inbound"
  /\ UNCHANGED <<which, hookVars, baileysVars, webjsVars, callVars, storeVars, lidVars,
       trVars, streamVars, chatVars, configVars, restartVars, transferVars,
       filesVars, cacheVars, keyVars, namesVars,
       bridgeVars, pageVars>>
  /\ InboundNext

BridgeStep ==
  /\ which = "bridge"
  /\ UNCHANGED <<which, hookVars, baileysVars, webjsVars, callVars, storeVars, lidVars,
       trVars, streamVars, chatVars, configVars, restartVars, transferVars,
       filesVars, cacheVars, keyVars, inboundVars, namesVars, pageVars>>
  /\ BridgeNext

NamesStep ==
  /\ which = "names"
  /\ UNCHANGED <<which, hookVars, baileysVars, webjsVars, callVars, storeVars, lidVars,
       trVars, streamVars, chatVars, configVars, restartVars, transferVars,
       filesVars, cacheVars, keyVars, inboundVars, bridgeVars, pageVars>>
  /\ NamesNext

PageStep ==
  /\ which = "page"
  /\ UNCHANGED <<which, hookVars, baileysVars, webjsVars, callVars, storeVars, lidVars,
       trVars, streamVars, chatVars, configVars, restartVars, transferVars,
       filesVars, cacheVars, keyVars, inboundVars, namesVars, bridgeVars>>
  /\ PageNext

ServicesNext ==
  \/ HooksStep \/ BaileysStep \/ WebJsStep \/ CallsStep \/ StoreStep \/ LidsStep
  \/ TranslatorStep \/ StreamStep \/ ChatsStep \/ ConfigStep \/ RestartsStep
  \/ TransferStep \/ FilesStep \/ CacheStep \/ KeysStep
  \/ InboundStep \/ NamesStep \/ BridgeStep \/ PageStep

servicesVars == <<which, hookVars, baileysVars, webjsVars, callVars, storeVars, lidVars, trVars,
  streamVars, chatVars, configVars, restartVars, transferVars, filesVars, cacheVars,
  keyVars, inboundVars, namesVars, bridgeVars, pageVars>>

ServicesSpec == ServicesInit /\ [][ServicesNext]_servicesVars

-----------------------------------------------------------------------------
\* Every variable of the machine that runs has its type.
ServicesTypeOK ==
  /\ which = "hooks" => HookTypeOK
  /\ which = "baileys" => BaileysTypeOK
  /\ which = "webjs" => WebJsTypeOK
  /\ which = "calls" => CallTypeOK
  /\ which = "store" => StoreTypeOK
  /\ which = "lids" => LidTypeOK
  /\ which = "translation" => TrTypeOK
  /\ which = "events" => StreamTypeOK
  /\ which = "chat" => ChatTypeOK
  /\ which = "config" => ConfigTypeOK
  /\ which = "restart" => RestartTypeOK
  /\ which = "transfer" => TransferTypeOK
  /\ which = "files" => FilesTypeOK
  /\ which = "cache" => CacheTypeOK
  /\ which = "access" => KeyTypeOK
  /\ which = "inbound" => InboundTypeOK
  /\ which = "names" => NamesTypeOK
  /\ which = "bridge" => BridgeTypeOK
  /\ which = "page" => PageTypeOK

\* What is reported was done: an engine call that took effect is not answered
\* with an error, a call into a worker is answered by its own handler, an import
\* counts the entries it wrote, an archive has every file that could be read while
\* the backend stayed the same, translations are asked for in every language others
\* read but the message's and its sender's, and every message whatsapp-web.js delivers
\* is told once, whatever fails on the way.
ReportsAreTrue ==
  /\ which = "calls" => DoneIsTold
  /\ which = "files" => CountIsExact /\ ArchiveIsTrue
  /\ which = "translation" => ReadersAsked /\ AnnouncedStays
  /\ which = "inbound" => ToldOnce
  /\ which = "bridge" => AnswersAreTheirOwn

\* The dashboard: once a page's socket has settled each event reaches it once, no
\* message is drawn twice and no session listed twice, a list goes wrong only by an
\* older list or a lost event, and a QR code has the name of its session.
PageAgrees ==
  /\ which = "events" => SettledIsSubscribed
  /\ which = "chat" => NobodyDrawnTwice
  /\ which = "page" => ListedOnce /\ ListAgrees /\ NameAgrees

\* The installation: no connection keys are left over from another type, the
\* built-in services of the process run, an export that nothing disturbed can be
\* imported unless a row of it is met, a call loses no cache client but one that was
\* refused, a name stands for one row,
\* a plugin's worker has its configuration, and the tables of lids and of stored
\* messages catch up and stay bounded.
InstallationHolds ==
  /\ which = "config" => NoLeftovers
  /\ which = "restart" => BuiltInsRun
  /\ which = "transfer" => ExportIsImportable
  /\ which = "cache" => ClientIsThere
  /\ which = "names" => NamesAgree
  /\ which = "bridge" => ConfigArrives
  /\ which = "lids" => RowsCatchUp
  /\ which = "store" => StoreBounded

\* What no step may do: hand an event to a disabled plugin, evict one of the
\* newest messages, move a tick back, save over what the administrator did not
\* edit, end an import half done where no other transaction is in it, or answer with
\* an error unless two requests met.
StepsKeep ==
  [][/\ which = "hooks" => LeftAlone
     /\ which = "store" => KeepsNewest
     /\ which = "chat" => [TicksAdvance]_bubbles
     /\ which = "config" => [FilledKeepsUnseen]_cfgSaved
     /\ which = "transfer" => [EndsAllOrNothing]_dbImport
     /\ which = "names" => [ErrorsAreRaces]_rowAnswer]_servicesVars
=============================================================================
