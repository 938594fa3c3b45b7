----------------------------- MODULE WebJsAdapter -----------------------------
(***************************************************************************)
(* One WhatsAppWebJsAdapter: its client with a browser of its own, the     *)
(* events of the client, and the calls that end it, which overlap.  The    *)
(* library is external: initialize() launches the browser and resolves or  *)
(* rejects; the page reports QR codes, "authenticated", "ready" in this    *)
(* order and an end; destroy() closes the browser, whose launch then fails *)
(* and which reports nothing more; it may reject when nothing runs any more.   *)
(***************************************************************************)
EXTENDS EngineStates

CONSTANTS
  Call,    \* calls of disconnect(), destroy(), logout() and forceDestroy()
  Stubborn \* TRUE: destroy() and logout() may reject and leave the browser running

VARIABLES
  webjsStatus, \* this.status
  webjsClient, \* this.client: not yet made, present, or null again
  launch,      \* client.initialize()
  webjsPage,   \* what the browser shows
  ends         \* how far each call that ends the adapter is

webjsVars == <<webjsStatus, webjsClient, launch, webjsPage, ends>>

Kind == {"disconnect", "destroy", "logout", "forceDestroy"}
AtEnd == {"idle", "over", "fallback"} \cup Kind

WebJsTypeOK ==
  /\ webjsStatus \in EngineStatus
  /\ webjsClient \in {"unmade", "here", "null"}
  /\ launch \in {"idle", "running", "over"}
  /\ webjsPage \in {"closed", "boot", "linking", "ready"}
  /\ ends \in [Call -> AtEnd]

WebJsInit ==
  /\ webjsStatus = "disconnected"
  /\ webjsClient = "unmade"
  /\ launch = "idle"
  /\ webjsPage = "closed"
  /\ ends = [c \in Call |-> "idle"]

-----------------------------------------------------------------------------
(* initialize() and setupEventHandlers().                                   *)

\* The client is made and listened to before its initialize() is awaited.
WebJsInitialize ==
  /\ webjsClient = "unmade"
  /\ webjsClient' = "here"
  /\ webjsStatus' = "initializing"
  /\ launch' = "running" /\ webjsPage' = "boot"
  /\ UNCHANGED ends

Initialized ==
  /\ launch = "running" /\ webjsPage # "closed"
  /\ launch' = "over"
  /\ UNCHANGED <<webjsStatus, webjsClient, webjsPage, ends>>

\* It rejects, by itself or because the browser was closed under it: FAILED and onError.
InitializeFails ==
  /\ launch = "running"
  /\ launch' = "over" /\ webjsPage' = "closed"
  /\ webjsStatus' = "failed"
  /\ UNCHANGED <<webjsClient, ends>>

\* "qr", whose rendering may fail and is not overtaken here, and "authenticated".
Linking ==
  /\ webjsPage \in {"boot", "linking"}
  /\ webjsPage' = "linking"
  /\ webjsStatus' \in {"linking", webjsStatus}
  /\ UNCHANGED <<webjsClient, launch, ends>>

Ready ==
  /\ webjsPage \in {"boot", "linking"}
  /\ webjsPage' = "ready"
  /\ webjsStatus' = "ready"
  /\ UNCHANGED <<webjsClient, launch, ends>>

\* "disconnected": the adapter leaves a reconnect to SessionService.
Disconnected ==
  /\ webjsPage # "closed" /\ launch = "over"
  /\ webjsPage' = "closed"
  /\ webjsStatus' = "disconnected"
  /\ UNCHANGED <<webjsClient, launch, ends>>

\* "auth_failure" is final: the code must be scanned again.
AuthFailure ==
  /\ webjsPage \in {"boot", "linking"}
  /\ webjsPage' = "closed"
  /\ webjsStatus' = "failed"
  /\ UNCHANGED <<webjsClient, launch, ends>>

-----------------------------------------------------------------------------
(* disconnect(), destroy(), logout() and forceDestroy().                    *)

\* Mutant of Begin: the client is dropped before it is awaited.
BeginDropped(c, k) ==
  /\ ends[c] = "idle"
  /\ ends' = [ends EXCEPT ![c] = IF webjsClient = "here" THEN k ELSE "over"]
  /\ webjsClient' = IF webjsClient = "here" THEN "null" ELSE webjsClient
  /\ webjsStatus' = IF webjsClient = "here" THEN "disconnected" ELSE webjsStatus
  /\ UNCHANGED <<launch, webjsPage>>

\* Each looks for a client, and awaits it; forceDestroy() kills the browser first.
Begin(c, k) ==
  /\ ends[c] = "idle"
  /\ ends' = [ends EXCEPT ![c] = IF webjsClient = "here" THEN k ELSE "over"]
  /\ webjsPage' = IF webjsClient = "here" /\ k = "forceDestroy" THEN "closed" ELSE webjsPage
  /\ UNCHANGED <<webjsStatus, webjsClient, launch>>

\* The client is gone: this.client = null and DISCONNECTED.
Gone(c) ==
  /\ webjsClient' = "null"
  /\ webjsStatus' = "disconnected"
  /\ ends' = [ends EXCEPT ![c] = "over"]
  /\ UNCHANGED launch

\* client.destroy() or client.logout() resolves.
Resolves(c) ==
  /\ ends[c] \in Kind \cup {"fallback"}
  /\ webjsPage' = "closed"
  /\ Gone(c)

\* It rejects.  disconnect(), forceDestroy() and the destroy() that logout() falls
\* back to go on; destroy() leaves everything as it is.
Rejects(c) ==
  /\ webjsPage = "closed" \/ Stubborn
  /\ \/ /\ ends[c] \in {"disconnect", "forceDestroy", "fallback"}
        /\ Gone(c)
     \/ /\ ends[c] \in {"logout", "destroy"}
        /\ ends' = [ends EXCEPT ![c] = IF @ = "logout" THEN "fallback" ELSE "over"]
        /\ UNCHANGED <<webjsStatus, webjsClient, launch>>
  /\ UNCHANGED webjsPage

-----------------------------------------------------------------------------
WebJsNext ==
  \/ WebJsInitialize \/ Initialized \/ InitializeFails
  \/ Linking \/ Ready \/ Disconnected \/ AuthFailure
  \/ \E c \in Call : Resolves(c) \/ Rejects(c) \/ \E k \in Kind : Begin(c, k)

WebJsSpec == WebJsInit /\ [][WebJsNext]_webjsVars

WebJsEngine == INSTANCE EngineContract WITH
  phase <- [unmade |-> "new", here |-> "live", null |-> "dead"][webjsClient],
  st <- webjsStatus

\* The adapter is an engine as SessionLifecycle assumes it.
WebJsIsEngine == WebJsEngine!Spec
=============================================================================
