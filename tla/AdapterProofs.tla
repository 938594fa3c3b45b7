---------------------------- MODULE AdapterProofs -----------------------------
(***************************************************************************)
(* Either adapter is an engine as SessionLifecycle assumes it, for any     *)
(* number of sockets, reconnects and overlapping calls that end it; a      *)
(* BaileysAdapter accounts for its sockets, as long as nothing overtakes   *)
(* the rendering of a QR code, and its message store keeps the newest; the *)
(* operations of both answer for what they did, and whatsapp-web.js's      *)
(* messages are told once.                                                 *)
(***************************************************************************)
EXTENDS BaileysAdapter, WebJsAdapter, BaileysStore, EngineCalls, WebJsInbound,
  FiniteSetTheorems, TLAPS

-----------------------------------------------------------------------------
(* BaileysAdapter.                                                         *)

\* No event overtakes the rendering of a QR code.
Setting == ~LateQr /\ NoSock \notin Sock /\ MaxReconnects \in Nat

\* The adapter has a socket that has not closed.
Up == sock # NoSock /\ live[sock] # "closed"

\* initialize() was called, and the adapter is not torn down.
InUse == began /\ ~Ending

\* Nothing has happened to an adapter before its initialize().
Fresh ==
  /\ sock = NoSock /\ bStatus = "disconnected"
  /\ ~connecting /\ ~timer /\ ~leaving /\ ~rendering

\* Who is responsible for the connection: the socket, the timer or a connect(), never
\* two of them.
OneOwner ==
  /\ \A s \in Sock : live[s] # "closed" => s = sock
  /\ connecting => ~Up /\ ~timer
  /\ timer => ~Up

\* What intentionalClose says of the others.
WhenClosing ==
  /\ closing => ~timer
  /\ leaving => closing
  /\ closing /\ ~leaving => sock = NoSock

\* The status of an adapter in use tells who is responsible.
StatusTells ==
  /\ bStatus \in {"disconnected", "failed"} => ~Up /\ ~timer /\ ~connecting
  /\ ~closing /\ bStatus \notin {"disconnected", "failed"} => Up \/ timer \/ connecting
  /\ connecting => bStatus = "initializing"
  /\ sock # NoSock /\ live[sock] = "new" => bStatus \in {"initializing", "linking"}

BaileysInv ==
  /\ BaileysTypeOK
  /\ ~began => Fresh
  /\ OneOwner
  /\ WhenClosing
  /\ rendering => sock # NoSock /\ live[sock] = "new"
  /\ InUse => StatusTells

-----------------------------------------------------------------------------
(* The invariant.                                                          *)

\* Booleans are what TypeOK says of the flags.
LEMMA Flags ==
  BaileysTypeOK <=> /\ bStatus \in EngineStatus /\ attempts \in 0..MaxReconnects
             /\ sock \in Sock \cup {NoSock} /\ live \in [Sock -> SockAt]
             /\ began \in BOOLEAN /\ closing \in BOOLEAN /\ connecting \in BOOLEAN
             /\ timer \in BOOLEAN /\ rendering \in BOOLEAN /\ leaving \in BOOLEAN
BY DEF BaileysTypeOK

LEMMA FlagsNext ==
  BaileysTypeOK' <=> /\ bStatus' \in EngineStatus /\ attempts' \in 0..MaxReconnects
              /\ sock' \in Sock \cup {NoSock} /\ live' \in [Sock -> SockAt]
              /\ began' \in BOOLEAN /\ closing' \in BOOLEAN /\ connecting' \in BOOLEAN
              /\ timer' \in BOOLEAN /\ rendering' \in BOOLEAN /\ leaving' \in BOOLEAN
BY DEF BaileysTypeOK

\* end() closes the adapter's socket, and leaves none open.
LEMMA EndedAll ==
  ASSUME Setting, BaileysTypeOK, OneOwner
  PROVE  /\ AllEnded \in [Sock -> SockAt]
         /\ \A s \in Sock : AllEnded[s] = "closed"
BY DEF Setting, BaileysTypeOK, OneOwner, AllEnded, Ended, SockAt

LEMMA BaileysInitHolds == ASSUME Setting, BaileysInit PROVE BaileysInv
<1>1. BaileysTypeOK
  <2>1. attempts \in 0..MaxReconnects
    BY DEF Setting, BaileysInit
  <2>2. live \in [Sock -> SockAt] /\ sock \in Sock \cup {NoSock} /\ bStatus \in EngineStatus
    BY DEF BaileysInit, SockAt, EngineStatus
  <2> QED BY <2>1, <2>2, Flags DEF BaileysInit
<1>2. Fresh /\ ~InUse /\ ~rendering
  BY DEF BaileysInit, Fresh, InUse
<1>3. OneOwner /\ WhenClosing
  BY DEF BaileysInit, OneOwner, WhenClosing
<1> QED BY <1>1, <1>2, <1>3 DEF BaileysInv

\* connectInner() after its awaits.
LEMMA ConnectedKeeps == ASSUME Setting, BaileysInv, Connected PROVE BaileysInv'
<1>1. CASE closing
  BY <1>1, Flags, FlagsNext DEF BaileysInv, Setting, Connected, Fresh, OneOwner, WhenClosing, InUse, Ending,
    StatusTells, Up
<1>2. CASE ~closing
  <2>1. PICK s \in Sock : sock' = s /\ live' = [AllEnded EXCEPT ![s] = "new"]
    BY <1>2 DEF Connected
  <2>2. /\ live' \in [Sock -> SockAt] /\ live'[s] = "new"
        /\ \A t \in Sock : live'[t] # "closed" => t = s
    BY <2>1, EndedAll DEF BaileysInv, SockAt
  <2>3. began /\ InUse /\ bStatus = "initializing" /\ ~timer /\ ~rendering /\ ~leaving
    BY <1>2 DEF BaileysInv, Connected, Fresh, InUse, Ending, StatusTells, OneOwner, WhenClosing,
      Undisturbed, Setting
  <2> QED BY <1>2, <2>1, <2>2, <2>3, Flags, FlagsNext DEF BaileysInv, Setting, Connected, Fresh, OneOwner,
      WhenClosing, InUse, Ending, StatusTells, Up
<1> QED BY <1>1, <1>2

\* "close": the one responsible goes, and hands over to the timer or says so.
LEMMA ClosesKeeps ==
  ASSUME Setting, BaileysInv, NEW loggedOut \in BOOLEAN, SocketCloses(loggedOut)
  PROVE  BaileysInv'
<1>1. /\ Up /\ began /\ ~rendering /\ ~timer /\ ~connecting /\ sock \in Sock
      /\ InUse /\ bStatus \notin {"disconnected", "failed"}
  BY Flags DEF BaileysInv, Setting, SocketCloses, Reports, Undisturbed, Up, Fresh, OneOwner,
    WhenClosing, InUse, Ending, StatusTells
<1>2. live' \in [Sock -> SockAt] /\ \A t \in Sock : live'[t] = "closed"
  BY <1>1, Flags, FlagsNext DEF BaileysInv, SocketCloses, Ended, SockAt, OneOwner
<1>3. CASE closing \/ loggedOut
  BY <1>1, <1>2, <1>3, Flags, FlagsNext DEF BaileysInv, Setting, SocketCloses, Closed, Fresh, OneOwner,
    WhenClosing, InUse, Ending, StatusTells, Up, EngineStatus
<1>4. CASE ~(closing \/ loggedOut)
  <2>1. Dropped
    BY <1>4 DEF SocketCloses, Closed
  <2>2. attempts' \in 0..MaxReconnects /\ bStatus' \in EngineStatus
    BY <2>1, Flags, FlagsNext DEF BaileysInv, Dropped, Setting, EngineStatus
  <2>3. \/ bStatus' = "failed" /\ timer' = timer
        \/ bStatus' = bStatus /\ timer' = TRUE
    BY <2>1 DEF Dropped
  <2>4. /\ began' = began /\ closing' = closing /\ connecting' = connecting /\ sock' = sock
        /\ rendering' = rendering /\ leaving' = leaving /\ ~closing
    BY <1>4 DEF SocketCloses
  <2>5. BaileysTypeOK'
    BY <1>1, <1>2, <2>2, <2>3, <2>4, Flags, FlagsNext DEF BaileysInv
  <2>6. ~Up' /\ OneOwner' /\ WhenClosing'
    BY <1>1, <1>2, <2>4 DEF BaileysInv, OneOwner, WhenClosing, Up
  <2>7. StatusTells'
    BY <1>1, <1>2, <2>3, <2>4 DEF StatusTells, Up
  <2> QED BY <1>1, <2>4, <2>5, <2>6, <2>7 DEF BaileysInv
<1> QED BY <1>3, <1>4

\* disconnect(), destroy(), forceDestroy() and the end of logout() leave nothing.
LEMMA EndKeeps == ASSUME Setting, BaileysInv, Disconnect \/ LogoutEnds PROVE BaileysInv'
<1>1. ~rendering
  BY DEF Disconnect, LogoutEnds, Undisturbed, Setting
<1>2. live' \in [Sock -> SockAt] /\ \A t \in Sock : live'[t] = "closed"
  BY EndedAll DEF BaileysInv, Disconnect, LogoutEnds
<1>3. /\ closing' = TRUE /\ timer' = FALSE /\ sock' = NoSock /\ bStatus' = "disconnected"
      /\ began' = began /\ connecting' = connecting /\ rendering' = rendering
      /\ attempts' = attempts /\ (leaving' = leaving \/ leaving' = FALSE)
  <2>1. CASE Disconnect
    BY <2>1 DEF Disconnect, Silenced
  <2>2. CASE LogoutEnds
    <3>1. closing = TRUE /\ timer = FALSE
      BY <2>2, Flags DEF BaileysInv, LogoutEnds, WhenClosing
    <3> QED BY <2>2, <3>1 DEF LogoutEnds
  <2> QED BY <2>1, <2>2
<1>4. BaileysTypeOK'
  <2>1. bStatus' \in EngineStatus /\ leaving' \in BOOLEAN
    BY <1>3, Flags DEF BaileysInv, EngineStatus
  <2> QED BY <1>2, <1>3, <2>1, Flags, FlagsNext DEF BaileysInv
<1>5. OneOwner' /\ WhenClosing' /\ ~InUse'
  BY <1>2, <1>3 DEF OneOwner, WhenClosing, InUse, Ending, Up
<1>6. ~began' => Fresh'
  BY <1>3 DEF BaileysInv, Fresh
<1> QED BY <1>1, <1>3, <1>4, <1>5, <1>6 DEF BaileysInv

LEMMA BaileysNextKeeps == ASSUME Setting, BaileysInv, [BaileysNext]_baileysVars PROVE BaileysInv'
<1>1. CASE Initialize
  BY <1>1, Flags, FlagsNext DEF BaileysInv, Setting, Initialize, Connect, Fresh, OneOwner, WhenClosing, InUse,
    Ending, StatusTells, Up, EngineStatus
<1>2. CASE Connected
  BY <1>2, ConnectedKeeps
<1>3. CASE ConnectFails
  BY <1>3, Flags, FlagsNext DEF BaileysInv, Setting, ConnectFails, Undisturbed, Fresh, OneOwner, WhenClosing,
    InUse, Ending, StatusTells, Up, EngineStatus
<1>4. CASE QrCode
  BY <1>4, Flags, FlagsNext DEF BaileysInv, Setting, QrCode, Reports, Undisturbed, Fresh, OneOwner, WhenClosing,
    InUse, Ending, StatusTells, Up
<1>5. CASE Rendered
  BY <1>5, Flags, FlagsNext DEF BaileysInv, Setting, Rendered, Fresh, OneOwner, WhenClosing, InUse, Ending,
    StatusTells, Up, EngineStatus
<1>6. CASE Connecting
  BY <1>6, Flags, FlagsNext DEF BaileysInv, Setting, Connecting, Reports, Undisturbed, Fresh, OneOwner,
    WhenClosing, InUse, Ending, StatusTells, Up, EngineStatus
<1>7. CASE Opened
  <2>1. /\ live' \in [Sock -> SockAt] /\ live'[sock] = "open"
        /\ \A t \in Sock \ {sock} : live'[t] = live[t]
    BY <1>7, Flags, FlagsNext DEF BaileysInv, Opened, Reports, SockAt
  <2>2. attempts' \in 0..MaxReconnects
    BY <1>7 DEF Opened, Setting
  <2> QED BY <1>7, <2>1, <2>2, Flags, FlagsNext DEF BaileysInv, Setting, Opened, Reports, Undisturbed, Fresh,
      OneOwner, WhenClosing, InUse, Ending, StatusTells, Up, EngineStatus
<1>8. ASSUME NEW loggedOut \in BOOLEAN, SocketCloses(loggedOut) PROVE BaileysInv'
  BY <1>8, ClosesKeeps
<1>9. CASE TimerFires
  BY <1>9, Flags, FlagsNext DEF BaileysInv, Setting, TimerFires, Connect, Undisturbed, Fresh, OneOwner,
    WhenClosing, InUse, Ending, StatusTells, Up, EngineStatus
<1>10. CASE Disconnect \/ LogoutEnds
  BY <1>10, EndKeeps
<1>11. CASE Logout
  BY <1>11, Flags, FlagsNext DEF BaileysInv, Setting, Logout, Silenced, Undisturbed, Fresh, OneOwner, WhenClosing,
    InUse, Ending, StatusTells, Up, EngineStatus
<1>12. CASE UNCHANGED baileysVars
  BY <1>12, Flags, FlagsNext DEF baileysVars, BaileysInv, Fresh, OneOwner, WhenClosing, InUse, Ending, StatusTells, Up
<1> QED BY <1>1, <1>2, <1>3, <1>4, <1>5, <1>6, <1>7, <1>8, <1>9, <1>10, <1>11, <1>12 DEF BaileysNext

\* baileys.adapter.ts: however drops, reconnects, stops and logouts interleave, no
\* socket but the current one is open, none after the adapter was told to stop, and no
\* drop is forgotten.
THEOREM SocketsAreAccounted == ~LateQr => (BaileysSpec => []SocketsAccounted)
<1> SUFFICES ASSUME Setting PROVE BaileysSpec => []SocketsAccounted
  BY BaileysAssumption DEF Setting
<1>1. BaileysInit => BaileysInv
  BY BaileysInitHolds
<1>2. BaileysInv /\ [BaileysNext]_baileysVars => BaileysInv'
  BY BaileysNextKeeps
<1>3. BaileysInv => SocketsAccounted
  <2> SUFFICES ASSUME BaileysInv PROVE SocketsAccounted
    OBVIOUS
  <2>1. Live = {} <=> ~Up
    BY Flags DEF BaileysInv, Live, Up, OneOwner, Setting
  <2>2. Ending => ~Up /\ ~timer
    BY DEF BaileysInv, Ending, WhenClosing, Up
  <2> QED BY <2>1, <2>2 DEF BaileysInv, SocketsAccounted, Live, OneOwner, InUse, Ending, StatusTells
<1> QED BY <1>1, <1>2, <1>3, PTL DEF BaileysSpec

-----------------------------------------------------------------------------
(* The refinement.                                                         *)

\* The engine's phase, as BaileysIsEngine reads it off the adapter.
Phase == IF ~began THEN "new" ELSE IF Ending THEN "dead" ELSE "live"

\* A step of an engine, in terms of the adapter.
BaileysEngineStep ==
  \/ Phase = "new" /\ Phase' = "live" /\ bStatus' = "initializing"
  \/ Phase = "live" /\ Phase' = "live" /\ bStatus' \in EngineMoves(bStatus)
  \/ Phase = "live" /\ Phase' = "dead" /\ bStatus' = "disconnected"
  \/ Phase = "dead" /\ Phase' = "dead" /\ bStatus' \in {"failed", "disconnected"}
  \/ Phase' = Phase /\ bStatus' = bStatus

LEMMA BaileysStepIsEngineStep ==
  BaileysEngineStep => [BaileysEngine!Next]_BaileysEngine!engineVars
BY DEF BaileysEngineStep, Phase, BaileysEngine!Next, BaileysEngine!Open, BaileysEngine!Move, BaileysEngine!TearDown,
  BaileysEngine!Complain, BaileysEngine!engineVars, EngineMoves, BaileysEngine!EngineMoves

LEMMA BaileysMoves == ASSUME Setting, BaileysInv, [BaileysNext]_baileysVars PROVE BaileysEngineStep
<1> USE DEF Setting, BaileysEngineStep, Phase, EngineMoves
<1>1. CASE Initialize
  BY <1>1 DEF BaileysInv, Initialize, Connect, Fresh, Ending
<1>2. CASE Connected
  BY <1>2 DEF BaileysInv, Connected, Ending
<1>3. CASE ConnectFails
  BY <1>3 DEF BaileysInv, ConnectFails, Fresh, Ending, InUse, StatusTells
<1>4. CASE QrCode
  BY <1>4 DEF QrCode, Ending
<1>5. CASE Rendered
  BY <1>5 DEF BaileysInv, Rendered, Fresh, Ending, InUse, StatusTells, WhenClosing
<1>6. CASE Connecting \/ Opened
  BY <1>6 DEF BaileysInv, Connecting, Opened, Reports, Fresh, Ending, InUse, StatusTells, WhenClosing
<1>7. ASSUME NEW loggedOut \in BOOLEAN, SocketCloses(loggedOut) PROVE BaileysEngineStep
  <2>1. /\ InUse /\ bStatus \notin {"disconnected", "failed"} /\ Phase' = Phase
        /\ bStatus' \in {"disconnected", "failed", bStatus}
    BY <1>7 DEF BaileysInv, SocketCloses, Reports, Closed, Dropped, Fresh, Ending, InUse, StatusTells,
      WhenClosing, Up
  <2> QED BY <2>1, Flags, FlagsNext DEF BaileysInv, InUse, EngineStatus
<1>8. CASE TimerFires
  BY <1>8, Flags, FlagsNext DEF BaileysInv, TimerFires, Connect, Fresh, Ending, InUse, StatusTells, WhenClosing,
    OneOwner, EngineStatus
<1>9. CASE Disconnect \/ LogoutEnds
  <2>1. began' = began /\ Ending' /\ bStatus' = "disconnected"
    BY <1>9 DEF BaileysInv, Disconnect, LogoutEnds, Silenced, Ending, WhenClosing
  <2>2. ~began => bStatus = "disconnected"
    BY DEF BaileysInv, Fresh
  <2> QED BY <2>1, <2>2
<1>10. CASE Logout
  BY <1>10 DEF BaileysInv, Logout, Silenced, Fresh, Ending, WhenClosing
<1>11. CASE UNCHANGED baileysVars
  BY <1>11 DEF baileysVars, Ending
<1> QED BY <1>1, <1>2, <1>3, <1>4, <1>5, <1>6, <1>7, <1>8, <1>9, <1>10, <1>11 DEF BaileysNext

\* The adapter's status moves as SessionLifecycle expects of an engine, and after a
\* teardown it shows nothing but the failure of the connect() that was overtaken.
THEOREM BaileysAdapterIsEngine == ~LateQr => (BaileysSpec => BaileysIsEngine)
<1> SUFFICES ASSUME Setting PROVE BaileysSpec => BaileysIsEngine
  BY BaileysAssumption DEF Setting
<1>1. BaileysInit => BaileysInv
  BY BaileysInitHolds
<1>2. BaileysInv /\ [BaileysNext]_baileysVars => BaileysInv'
  BY BaileysNextKeeps
<1>3. BaileysInit => BaileysEngine!Init
  BY DEF BaileysInit, BaileysEngine!Init
<1>4. BaileysInv /\ [BaileysNext]_baileysVars => [BaileysEngine!Next]_BaileysEngine!engineVars
  BY BaileysMoves, BaileysStepIsEngineStep
<1> QED BY <1>1, <1>2, <1>3, <1>4, PTL DEF BaileysSpec, BaileysIsEngine, BaileysEngine!Spec

-----------------------------------------------------------------------------
(* WhatsAppWebJsAdapter.                                                   *)

\* A call that awaits the client.
Waits(c) == ends[c] \in Kind \cup {"fallback"}

\* Before initialize() there is nothing to wait for.
Unmade ==
  /\ webjsPage = "closed" /\ launch = "idle" /\ webjsStatus = "disconnected"
  /\ \A c \in Call : ~Waits(c)

\* What an open browser shows is the status, and no launch ends in DISCONNECTED.
PageTells ==
  /\ webjsPage \in {"boot", "linking"} => webjsStatus \in {"initializing", "linking"}
  /\ webjsPage = "ready" => webjsStatus = "ready"
  /\ launch = "running" => webjsStatus # "disconnected"

WebJsInv ==
  /\ WebJsTypeOK
  /\ webjsClient = "unmade" => Unmade
  /\ webjsClient = "here" => PageTells
  /\ webjsClient = "null" => webjsPage = "closed"

-----------------------------------------------------------------------------
LEMMA WebJsInitHolds == ASSUME WebJsInit PROVE WebJsInv
BY DEF WebJsInit, WebJsInv, WebJsTypeOK, EngineStatus, AtEnd, Unmade, Waits, Kind

\* Forgetting a client whose browser is closed.
LEMMA GoneKeeps ==
  ASSUME WebJsInv, NEW c \in Call, Gone(c), webjsPage' = "closed"
  PROVE  WebJsInv'
BY DEF WebJsInv, Gone, WebJsTypeOK, EngineStatus, AtEnd

LEMMA WebJsNextKeeps == ASSUME ~Stubborn, WebJsInv, [WebJsNext]_webjsVars PROVE WebJsInv'
<1> USE DEF WebJsInv, WebJsTypeOK
<1>1. CASE WebJsInitialize
  BY <1>1 DEF WebJsInitialize, PageTells, EngineStatus
<1>2. CASE Initialized \/ InitializeFails
  BY <1>2 DEF Initialized, InitializeFails, Unmade, PageTells, EngineStatus
<1>3. CASE Linking \/ Ready
  BY <1>3 DEF Linking, Ready, Unmade, PageTells, EngineStatus
<1>4. CASE Disconnected \/ AuthFailure
  BY <1>4 DEF Disconnected, AuthFailure, Unmade, PageTells, EngineStatus
<1>5. ASSUME NEW c \in Call, NEW k \in Kind, Begin(c, k)
      PROVE  WebJsInv'
  <2>1. WebJsTypeOK' /\ webjsClient' = webjsClient /\ webjsStatus' = webjsStatus /\ launch' = launch
        /\ webjsPage' \in {webjsPage, "closed"}
    BY <1>5 DEF Begin, AtEnd, Kind
  <2>2. webjsClient = "unmade" => Unmade'
    BY <1>5 DEF Begin, Unmade, Waits, Kind
  <2> QED BY <2>1, <2>2 DEF PageTells
<1>6. ASSUME NEW c \in Call, Resolves(c) PROVE WebJsInv'
  BY <1>6, GoneKeeps DEF Resolves
<1>7. ASSUME NEW c \in Call, Rejects(c) PROVE WebJsInv'
  <2>1. CASE Gone(c)
    BY <1>7, <2>1, GoneKeeps DEF Rejects
  <2>2. CASE ~Gone(c)
    <3>1. Waits(c) /\ UNCHANGED <<webjsStatus, webjsClient, launch, webjsPage>>
          /\ ends' = [ends EXCEPT ![c] = IF @ = "logout" THEN "fallback" ELSE "over"]
      BY <1>7, <2>2 DEF Rejects, Waits, Kind
    <3>2. webjsClient # "unmade"
      BY <3>1 DEF Unmade
    <3>3. ends' \in [Call -> AtEnd]
      BY <3>1 DEF AtEnd
    <3> QED BY <3>1, <3>2, <3>3 DEF PageTells
  <2> QED BY <2>1, <2>2
<1>8. CASE UNCHANGED webjsVars
  BY <1>8 DEF webjsVars, Unmade, Waits, PageTells
<1> QED BY <1>1, <1>2, <1>3, <1>4, <1>5, <1>6, <1>7, <1>8 DEF WebJsNext

-----------------------------------------------------------------------------
\* A step of an engine, in terms of the adapter.
WebJsEngineStep ==
  \/ webjsClient = "unmade" /\ webjsClient' = "here" /\ webjsStatus' = "initializing"
  \/ webjsClient = "here" /\ webjsClient' = "here" /\ webjsStatus' \in EngineMoves(webjsStatus)
  \/ webjsClient = "here" /\ webjsClient' = "null" /\ webjsStatus' = "disconnected"
  \/ webjsClient = "null" /\ webjsClient' = "null" /\ webjsStatus' \in {"failed", "disconnected"}
  \/ webjsClient' = webjsClient /\ webjsStatus' = webjsStatus

LEMMA WebJsStepIsEngineStep ==
  ASSUME WebJsEngineStep PROVE [WebJsEngine!Next]_WebJsEngine!engineVars
<1> DEFINE phase == [unmade |-> "new", here |-> "live", null |-> "dead"][webjsClient]
<1>1. /\ webjsClient = "unmade" => phase = "new"
      /\ webjsClient = "here" => phase = "live"
      /\ webjsClient = "null" => phase = "dead"
  OBVIOUS
<1>2. /\ webjsClient' = "unmade" => phase' = "new"
      /\ webjsClient' = "here" => phase' = "live"
      /\ webjsClient' = "null" => phase' = "dead"
  OBVIOUS
<1>3. webjsClient' = webjsClient => phase' = phase
  OBVIOUS
<1>4. \/ phase = "new" /\ phase' = "live" /\ webjsStatus' = "initializing"
      \/ phase = "live" /\ phase' = "live" /\ webjsStatus' \in EngineMoves(webjsStatus)
      \/ phase = "live" /\ phase' = "dead" /\ webjsStatus' = "disconnected"
      \/ phase = "dead" /\ phase' = "dead" /\ webjsStatus' \in {"failed", "disconnected"}
      \/ phase' = phase /\ webjsStatus' = webjsStatus
  <2> HIDE DEF phase
  <2> QED BY <1>1, <1>2, <1>3 DEF WebJsEngineStep
<1> QED BY <1>4 DEF WebJsEngine!Next, WebJsEngine!Open, WebJsEngine!Move, WebJsEngine!TearDown, WebJsEngine!Complain,
    WebJsEngine!engineVars, WebJsEngine!EngineMoves, EngineMoves

LEMMA WebJsMoves == ASSUME ~Stubborn, WebJsInv, [WebJsNext]_webjsVars PROVE WebJsEngineStep
<1> USE DEF WebJsInv, WebJsTypeOK, WebJsEngineStep, EngineMoves
<1>1. CASE WebJsInitialize
  BY <1>1 DEF WebJsInitialize
<1>2. CASE Initialized \/ InitializeFails
  BY <1>2 DEF Initialized, InitializeFails, Unmade, PageTells, EngineStatus
<1>3. CASE Linking \/ Ready
  BY <1>3 DEF Linking, Ready, Unmade, PageTells
<1>4. CASE Disconnected \/ AuthFailure
  BY <1>4 DEF Disconnected, AuthFailure, Unmade, PageTells
<1>5. ASSUME NEW c \in Call, NEW k \in Kind, Begin(c, k) PROVE WebJsEngineStep
  BY <1>5 DEF Begin
<1>6. ASSUME NEW c \in Call, Resolves(c) \/ Rejects(c) PROVE WebJsEngineStep
  <2>1. Waits(c)
    BY <1>6 DEF Resolves, Rejects, Waits, Kind
  <2>2. webjsClient \in {"here", "null"}
    BY <2>1 DEF Unmade
  <2>3. \/ webjsClient' = "null" /\ webjsStatus' = "disconnected"
        \/ webjsClient' = webjsClient /\ webjsStatus' = webjsStatus
    BY <1>6 DEF Resolves, Rejects, Gone
  <2> QED BY <2>2, <2>3
<1>7. CASE UNCHANGED webjsVars
  BY <1>7 DEF webjsVars
<1> QED BY <1>1, <1>2, <1>3, <1>4, <1>5, <1>6, <1>7 DEF WebJsNext

\* whatsapp-web-js.adapter.ts: however its events and the calls that end it overlap, its
\* status moves as SessionLifecycle expects of an engine, provided that destroy() does
\* not reject while the browser still runs.
THEOREM WebJsAdapterIsEngine == ~Stubborn => (WebJsSpec => WebJsIsEngine)
<1> SUFFICES ASSUME ~Stubborn PROVE WebJsSpec => WebJsIsEngine
  OBVIOUS
<1>1. WebJsInit => WebJsInv
  BY WebJsInitHolds
<1>2. WebJsInv /\ [WebJsNext]_webjsVars => WebJsInv'
  BY WebJsNextKeeps
<1>3. WebJsInit => WebJsEngine!Init
  BY DEF WebJsInit, WebJsEngine!Init
<1>4. WebJsInv /\ [WebJsNext]_webjsVars => [WebJsEngine!Next]_WebJsEngine!engineVars
  BY WebJsMoves, WebJsStepIsEngineStep
<1> QED BY <1>1, <1>2, <1>3, <1>4, PTL DEF WebJsSpec, WebJsIsEngine, WebJsEngine!Spec

-----------------------------------------------------------------------------
(* The types of the adapters, whatever overtakes a QR code and whether or   *)
(* not destroy() leaves a browser behind.                                   *)

\* What is not a flag, and the flags.
BaileysValues ==
  /\ bStatus \in EngineStatus /\ attempts \in 0..MaxReconnects
  /\ sock \in Sock \cup {NoSock} /\ live \in [Sock -> SockAt]
BaileysFlags ==
  /\ began \in BOOLEAN /\ closing \in BOOLEAN /\ connecting \in BOOLEAN
  /\ timer \in BOOLEAN /\ rendering \in BOOLEAN /\ leaving \in BOOLEAN

LEMMA BaileysValuesKeep == BaileysValues /\ [BaileysNext]_baileysVars => BaileysValues'
<1> SUFFICES ASSUME BaileysValues, [BaileysNext]_baileysVars PROVE BaileysValues'
  OBVIOUS
<1>t. /\ bStatus \in EngineStatus /\ attempts \in 0..MaxReconnects
      /\ sock \in Sock \cup {NoSock} /\ live \in [Sock -> SockAt]
  BY DEF BaileysValues
<1>1. AllEnded \in [Sock -> SockAt] /\ \A s \in Sock : Ended(s) \in [Sock -> SockAt]
  BY <1>t DEF AllEnded, Ended, SockAt
<1>2. CASE Initialize \/ TimerFires
  BY <1>2, <1>t DEF Initialize, TimerFires, Connect, BaileysValues, EngineStatus
<1>3. CASE Connected
  <2>1. CASE closing
    BY <1>3, <1>t, <2>1 DEF Connected, BaileysValues
  <2>2. CASE ~closing
    <3>1. PICK s \in Sock : sock' = s /\ live' = [AllEnded EXCEPT ![s] = "new"]
      BY <1>3, <2>2 DEF Connected
    <3>2. live' \in [Sock -> SockAt] /\ sock' \in Sock
      BY <1>1, <3>1 DEF SockAt
    <3> QED BY <1>3, <1>t, <3>2 DEF Connected, BaileysValues
  <2> QED BY <2>1, <2>2
<1>4. CASE ConnectFails \/ QrCode \/ Rendered \/ Connecting \/ Logout
  BY <1>4, <1>t DEF ConnectFails, QrCode, Rendered, Connecting, Logout, BaileysValues, EngineStatus
<1>5. CASE Opened
  <2>1. live' \in [Sock -> SockAt]
    BY <1>5, <1>t DEF Opened, SockAt
  <2>2. 0 \in 0..MaxReconnects
    BY BaileysAssumption
  <2> QED BY <1>5, <1>t, <2>1, <2>2 DEF Opened, BaileysValues, EngineStatus
<1>6. ASSUME NEW loggedOut \in BOOLEAN, SocketCloses(loggedOut) PROVE BaileysValues'
  <2>1. live' \in [Sock -> SockAt] /\ sock' = sock /\ Closed(loggedOut)
    BY <1>6, <1>1, <1>t DEF SocketCloses, Reports
  <2>2. CASE Dropped
    <3>1. attempts' \in 0..MaxReconnects
      BY <1>t, <2>2, BaileysAssumption DEF Dropped
    <3>2. bStatus' \in {"failed", bStatus}
      BY <2>2 DEF Dropped
    <3> QED BY <1>t, <2>1, <3>1, <3>2 DEF BaileysValues, EngineStatus
  <2>3. CASE ~Dropped
    BY <1>t, <2>1, <2>3 DEF Closed, BaileysValues, EngineStatus
  <2> QED BY <2>2, <2>3
<1>7. CASE Disconnect \/ LogoutEnds
  BY <1>7, <1>1, <1>t DEF Disconnect, LogoutEnds, BaileysValues, EngineStatus
<1>8. CASE UNCHANGED baileysVars
  BY <1>8 DEF baileysVars, BaileysValues
<1> QED BY <1>2, <1>3, <1>4, <1>5, <1>6, <1>7, <1>8 DEF BaileysNext

LEMMA BaileysFlagsKeep == BaileysFlags /\ [BaileysNext]_baileysVars => BaileysFlags'
<1> SUFFICES ASSUME BaileysFlags, [BaileysNext]_baileysVars PROVE BaileysFlags'
  OBVIOUS
<1> USE DEF BaileysFlags
<1>1. CASE Initialize \/ Connected \/ ConnectFails
  BY <1>1 DEF Initialize, Connect, Connected, ConnectFails
<1>2. CASE QrCode \/ Rendered \/ Connecting \/ Opened
  BY <1>2 DEF QrCode, Rendered, Connecting, Opened
<1>3. ASSUME NEW loggedOut \in BOOLEAN, SocketCloses(loggedOut) PROVE BaileysFlags'
  <2>1. timer' = timer \/ timer' = TRUE
    BY <1>3 DEF SocketCloses, Closed, Dropped
  <2>2. timer' \in BOOLEAN
    BY <2>1
  <2> QED BY <1>3, <2>2 DEF SocketCloses
<1>4. CASE TimerFires
  <2>1. connecting' = connecting \/ connecting' = TRUE
    BY <1>4 DEF TimerFires, Connect
  <2>2. connecting' \in BOOLEAN
    BY <2>1
  <2> QED BY <1>4, <2>2 DEF TimerFires
<1>5. CASE Disconnect \/ Logout \/ LogoutEnds
  <2>1. /\ closing' = TRUE \/ closing' = closing
        /\ timer' = FALSE \/ timer' = timer
        /\ leaving' = leaving \/ leaving' = FALSE \/ leaving' = TRUE
        /\ UNCHANGED <<began, connecting, rendering>>
    BY <1>5 DEF Disconnect, Logout, LogoutEnds, Silenced
  <2> QED BY <2>1
<1>6. CASE UNCHANGED baileysVars
  BY <1>6 DEF baileysVars
<1> QED BY <1>1, <1>2, <1>3, <1>4, <1>5, <1>6 DEF BaileysNext

\* baileys.adapter.ts: no more reconnects are counted than are allowed, also where other
\* events overtake a QR code.
THEOREM BaileysIsTyped == BaileysSpec => []BaileysTypeOK
<1>1. BaileysInit => BaileysValues /\ BaileysFlags
  <2> SUFFICES ASSUME BaileysInit PROVE BaileysValues /\ BaileysFlags
    OBVIOUS
  <2>1. 0 \in 0..MaxReconnects
    BY BaileysAssumption
  <2>2. BaileysValues
    BY <2>1 DEF BaileysInit, BaileysValues, EngineStatus, SockAt
  <2>3. BaileysFlags
    BY DEF BaileysInit, BaileysFlags
  <2> QED BY <2>2, <2>3
<1>2. BaileysValues /\ BaileysFlags => BaileysTypeOK
  BY DEF BaileysValues, BaileysFlags, BaileysTypeOK
<1> QED BY <1>1, <1>2, BaileysValuesKeep, BaileysFlagsKeep, PTL DEF BaileysSpec

LEMMA WebJsTypesKeep == WebJsTypeOK /\ [WebJsNext]_webjsVars => WebJsTypeOK'
<1> SUFFICES ASSUME WebJsTypeOK, [WebJsNext]_webjsVars PROVE WebJsTypeOK'
  OBVIOUS
<1> USE DEF WebJsTypeOK
<1>1. CASE WebJsInitialize \/ Initialized \/ InitializeFails
  BY <1>1 DEF WebJsInitialize, Initialized, InitializeFails, EngineStatus
<1>2. CASE Linking \/ Ready \/ Disconnected \/ AuthFailure
  BY <1>2 DEF Linking, Ready, Disconnected, AuthFailure, EngineStatus
<1>3. ASSUME NEW c \in Call, NEW k \in Kind, Begin(c, k) PROVE WebJsTypeOK'
  BY <1>3 DEF Begin, AtEnd
<1>4. ASSUME NEW c \in Call, Gone(c), webjsPage' \in {"closed", webjsPage} PROVE WebJsTypeOK'
  BY <1>4 DEF Gone, AtEnd, EngineStatus
<1>5. ASSUME NEW c \in Call, Resolves(c) PROVE WebJsTypeOK'
  BY <1>4, <1>5 DEF Resolves
<1>6. ASSUME NEW c \in Call, Rejects(c) PROVE WebJsTypeOK'
  <2>1. CASE Gone(c)
    BY <1>4, <1>6, <2>1 DEF Rejects
  <2>2. CASE ~Gone(c)
    BY <1>6, <2>2 DEF Rejects, AtEnd
  <2> QED BY <2>1, <2>2
<1>7. CASE UNCHANGED webjsVars
  BY <1>7 DEF webjsVars
<1> QED BY <1>1, <1>2, <1>3, <1>5, <1>6, <1>7 DEF WebJsNext

\* whatsapp-web-js.adapter.ts, also where destroy() rejects and the browser runs on.
THEOREM WebJsIsTyped == WebJsSpec => []WebJsTypeOK
<1>1. WebJsInit => WebJsTypeOK
  BY DEF WebJsInit, WebJsTypeOK, EngineStatus, AtEnd
<1> QED BY <1>1, WebJsTypesKeep, PTL DEF WebJsSpec

-----------------------------------------------------------------------------
(* BaileysStore.  A cutoff that was found keeps Limit newer rows for as long *)
(* as a deletion waits for it: they are only deleted by a newer cutoff, with *)
(* Limit rows of its own, and only made newer by a statement in order.      *)

\* Whether a row is newer than a cutoff.
Beyond(n, c) == storeRow[n] > c.at \/ (storeRow[n] = c.at /\ n > c.msg)

Spared(c) == {n \in Stored : Beyond(n, c)}

\* What a job says of its message.
JobHolds(e) ==
  /\ e.at # "idle" => e.msg \in Message
  /\ e.at = "upserting" => e.stamp # 0 /\ e.stamp <= storeNow
  /\ \A c, d \in e.cut : c = d

\* No row is younger than the clock, nor than a date still to be written.
DatesInOrder ==
  InOrder => \A m \in Message :
    /\ storeRow[m] <= storeNow
    /\ \A j \in StoreJob : storeJob[j].at = "upserting" => storeRow[m] <= storeJob[j].stamp

CutsKeep ==
  InOrder /\ parent => \A j \in StoreJob : storeJob[j].at = "deleting" =>
    \A c \in storeJob[j].cut : Cardinality(Spared(c)) >= Limit

StoreInv ==
  /\ StoreTypeOK
  /\ IsFiniteSet(Stored)
  /\ \A j \in StoreJob : JobHolds(storeJob[j])
  /\ DatesInOrder
  /\ CutsKeep
  /\ LastIsNewest

StoreJobType == [at : {"idle", "mapping", "put", "upserting", "finding", "deleting"},
                 msg : Message \cup {0}, stamp : 0..MaxClock,
                 cut : SUBSET [msg : Message, at : 1..MaxClock]]

LEMMA StoreTypes ==
  ASSUME StoreInv
  PROVE  /\ storeRow \in [Message -> 0..MaxClock] /\ storeNow \in 1..MaxClock
         /\ parent \in BOOLEAN /\ missed \in BOOLEAN
         /\ last \in Message \cup {0} /\ seen \subseteq Message
         /\ storeJob \in [StoreJob -> StoreJobType]
         /\ \A j \in StoreJob : /\ storeJob[j] \in StoreJobType /\ JobHolds(storeJob[j])
                                /\ storeJob[j].stamp \in 0..MaxClock
         /\ \A m \in Message : m \in Nat \ {0} /\ storeRow[m] \in Nat
         /\ IsFiniteSet(Stored)
<1>1. /\ storeRow \in [Message -> 0..MaxClock] /\ storeNow \in 1..MaxClock
      /\ parent \in BOOLEAN /\ missed \in BOOLEAN
      /\ last \in Message \cup {0} /\ seen \subseteq Message
      /\ storeJob \in [StoreJob -> StoreJobType] /\ IsFiniteSet(Stored)
  BY DEF StoreInv, StoreTypeOK, StoreJobType
<1>2. \A j \in StoreJob : JobHolds(storeJob[j])
  BY DEF StoreInv
<1>3. \A j \in StoreJob : storeJob[j] \in StoreJobType
  BY <1>1
<1>4. \A j \in StoreJob : storeJob[j].stamp \in 0..MaxClock
  BY <1>3 DEF StoreJobType
<1>5. \A m \in Message : m \in Nat \ {0} /\ storeRow[m] \in Nat
  BY <1>1, StoreAssumption
<1> QED BY <1>1, <1>2, <1>3, <1>4, <1>5

LEMMA CutTypes ==
  ASSUME StoreInv, NEW j \in StoreJob, NEW c \in storeJob[j].cut
  PROVE  c.at \in Nat /\ c.msg \in Nat /\ \A b \in storeJob[j].cut : b = c
<1>1. storeJob[j] \in StoreJobType /\ JobHolds(storeJob[j])
  BY StoreTypes
<1>2. c \in [msg : Message, at : 1..MaxClock]
  BY <1>1 DEF StoreJobType
<1>3. c.msg \in Message /\ c.at \in 1..MaxClock
  BY <1>2
<1>4. \A a, b \in storeJob[j].cut : a = b
  BY <1>1 DEF JobHolds
<1>5. c.msg \in Nat
  BY <1>3, StoreAssumption
<1>6. c.at \in Nat
  BY <1>3, StoreAssumption
<1> QED BY <1>4, <1>5, <1>6

\* An idle job is of the type.
LEMMA IdleJob == Idle \in StoreJobType /\ JobHolds(Idle) /\ Idle.at = "idle" /\ Idle.cut = {}
<1>1. 0 \in 0..MaxClock
  BY StoreAssumption
<1> QED BY <1>1 DEF Idle, StoreJobType, JobHolds

\* What a cutoff spares stays a finite set, and where more is spared the count is
\* no smaller.
LEMMA SparedFacts ==
  ASSUME StoreInv
  PROVE  /\ \A c : IsFiniteSet(Spared(c)) /\ Cardinality(Spared(c)) \in Nat
         /\ \A m : IsFiniteSet(NewerThan(m)) /\ Cardinality(NewerThan(m)) \in Nat
<1>1. IsFiniteSet(Stored)
  BY DEF StoreInv
<1>2. \A c : Spared(c) \subseteq Stored
  BY DEF Spared
<1>3. \A m : NewerThan(m) \subseteq Stored
  BY DEF NewerThan
<1> QED BY <1>1, <1>2, <1>3, FS_Subset, FS_CardinalityType

\* Of two rows the older one has more newer rows.
LEMMA OlderHasMore ==
  ASSUME StoreInv, NEW a \in Stored, NEW b \in Stored, Older(a, b)
  PROVE  Cardinality(NewerThan(a)) # Cardinality(NewerThan(b))
<1>1. \A k \in Stored : storeRow[k] \in Nat /\ k \in Nat
  BY StoreTypes DEF Stored
<1>2. ASSUME NEW k \in Stored, Older(b, k) PROVE Older(a, k)
  <2>1. /\ storeRow[k] \in Nat /\ storeRow[a] \in Nat /\ storeRow[b] \in Nat
        /\ k \in Nat /\ a \in Nat /\ b \in Nat
    BY <1>1
  <2> QED BY <2>1, <1>2 DEF Older
<1>3. NewerThan(b) \subseteq NewerThan(a)
  BY <1>2 DEF NewerThan
<1>4. b \in NewerThan(a) /\ b \notin NewerThan(b)
  BY <1>1 DEF NewerThan, Older
<1> QED BY <1>3, <1>4, SparedFacts, FS_Subset

\* One row is the first too many.
LEMMA OneCutoff == ASSUME StoreInv, NEW m \in Cutoff, NEW n \in Cutoff PROVE m = n
<1>1. /\ m \in Message /\ n \in Message /\ m \in Stored /\ n \in Stored
      /\ Cardinality(NewerThan(m)) = Limit /\ Cardinality(NewerThan(n)) = Limit
  BY DEF Cutoff, Stored
<1>2. /\ storeRow[m] \in Nat /\ storeRow[n] \in Nat /\ m \in Nat /\ n \in Nat
      /\ \A k \in Stored : storeRow[k] \in Nat /\ k \in Nat
  BY <1>1, StoreTypes DEF Stored
<1>3. ~Older(m, n) /\ ~Older(n, m)
  BY <1>1, OlderHasMore
<1> QED BY <1>1, <1>2, <1>3 DEF Older

LEMMA StoreInitially == StoreInit => StoreInv
<1> SUFFICES ASSUME StoreInit PROVE StoreInv
  OBVIOUS
<1>1. 0 \in 0..MaxClock /\ 1 \in 1..MaxClock
  BY StoreAssumption
<1>2. StoreTypeOK
  BY <1>1, IdleJob DEF StoreInit, StoreTypeOK, StoreJobType
<1>3. Stored = {}
  BY DEF StoreInit, Stored
<1>4. IsFiniteSet(Stored)
  BY <1>3, FS_EmptySet
<1>5. \A j \in StoreJob : storeJob[j] = Idle
  BY DEF StoreInit
<1>6. DatesInOrder /\ CutsKeep /\ LastIsNewest
  BY <1>5, IdleJob DEF StoreInit, DatesInOrder, CutsKeep, LastIsNewest
<1> QED BY <1>2, <1>4, <1>5, <1>6, IdleJob DEF StoreInv

\* A job goes on and leaves the table alone.
LEMMA JobGoesOn ==
  ASSUME StoreInv, NEW j \in StoreJob, NEW e \in StoreJobType, Becomes(j, e), JobHolds(e),
         UNCHANGED <<storeRow, parent, storeNow>>, missed' \in BOOLEAN,
         last' \in Message \cup {0}, seen' \subseteq Message, LastIsNewest',
         e.at = "upserting" => e.stamp = storeNow,
         e.at = "deleting" => \A c \in e.cut : Cardinality(Spared(c)) >= Limit
  PROVE  StoreInv'
<1>t. storeJob \in [StoreJob -> StoreJobType] /\ storeJob' = [storeJob EXCEPT ![j] = e]
  BY StoreTypes DEF Becomes
<1>1. StoreTypeOK'
  <2>1. storeJob' \in [StoreJob -> StoreJobType]
    BY <1>t
  <2> QED BY <2>1, StoreTypes DEF StoreTypeOK, StoreJobType
<1>2. Stored' = Stored /\ \A c : Spared(c)' = Spared(c)
  BY DEF Stored, Spared, Beyond
<1>3. \A k \in StoreJob : JobHolds(storeJob[k])'
  BY <1>t, StoreTypes DEF JobHolds
<1>4. DatesInOrder'
  BY <1>t DEF StoreInv, DatesInOrder
<1>5. CutsKeep'
  BY <1>t, <1>2 DEF StoreInv, CutsKeep
<1> QED BY <1>1, <1>2, <1>3, <1>4, <1>5 DEF StoreInv

\* What a cutoff spares in a table whose rows of its are as new as before, or
\* newer, is at least as much.
LEMMA SparedGrows ==
  ASSUME StoreInv, IsFiniteSet(Stored'), NEW c, NEW d, Cardinality(Spared(c)) >= Limit,
         \A n \in Spared(c) : n \in Stored' /\ Beyond(n, d)'
  PROVE  Cardinality(Spared(d)') >= Limit
<1>1. Spared(d)' = {n \in Stored' : Beyond(n, d)'}
  BY DEF Spared
<1>2. Spared(c) \subseteq Spared(d)'
  BY <1>1 DEF Spared
<1>3. IsFiniteSet(Spared(d)')
  BY <1>1, FS_Subset
<1>4. Cardinality(Spared(c)) <= Cardinality(Spared(d)')
        /\ Cardinality(Spared(c)) \in Nat /\ Cardinality(Spared(d)') \in Nat
  BY <1>2, <1>3, FS_Subset, FS_CardinalityType, SparedFacts
<1> QED BY <1>4, StoreAssumption

LEMMA UpsertKeeps == ASSUME StoreInv, NEW j \in StoreJob, Upserted(j), parent PROVE StoreInv'
<1> DEFINE m == storeJob[j].msg
           e == [storeJob[j] EXCEPT !.at = "finding"]
<1>1. /\ storeRow' = [storeRow EXCEPT ![m] = storeJob[j].stamp]
      /\ storeJob' = [storeJob EXCEPT ![j] = e] /\ storeJob[j].at = "upserting"
      /\ UNCHANGED <<parent, missed, last, seen, storeNow>>
  BY DEF Upserted, Becomes
<1>2. /\ m \in Message /\ storeJob[j].stamp \in 0..MaxClock /\ storeJob[j].stamp # 0
      /\ storeJob[j].stamp <= storeNow
  BY <1>1, StoreTypes DEF JobHolds
<1>3. e \in StoreJobType /\ e.at = "finding" /\ e.msg = m /\ e.cut = storeJob[j].cut
  BY StoreTypes DEF StoreJobType
<1> HIDE DEF e
<1>4. storeJob' \in [StoreJob -> StoreJobType] /\ storeRow' \in [Message -> 0..MaxClock]
  BY <1>1, <1>2, <1>3, StoreTypes
<1>5. StoreTypeOK'
  BY <1>1, <1>4, StoreTypes DEF StoreTypeOK, StoreJobType
<1>6. Stored' = Stored \cup {m}
  BY <1>1, <1>2, StoreTypes DEF Stored
<1>7. IsFiniteSet(Stored')
  BY <1>6, StoreTypes, FS_AddElement
<1>8. \A k \in StoreJob : JobHolds(storeJob[k])'
  BY <1>1, <1>2, <1>3, StoreTypes DEF JobHolds
<1>9. DatesInOrder'
  <2> SUFFICES ASSUME InOrder, NEW n \in Message
               PROVE  /\ storeRow'[n] <= storeNow
                      /\ \A k \in StoreJob : storeJob'[k].at = "upserting" =>
                                               storeRow'[n] <= storeJob'[k].stamp
    BY <1>1 DEF DatesInOrder
  <2>1. \A k \in StoreJob : storeJob'[k].at = "upserting" =>
           k # j /\ storeJob[k].at = "upserting" /\ storeJob'[k] = storeJob[k]
           /\ storeJob[k].stamp >= storeJob[j].stamp
    BY <1>1, <1>3, StoreTypes DEF Upserted
  <2>2. CASE n = m
    BY <1>1, <1>2, <2>1, <2>2, StoreTypes
  <2>3. CASE n # m
    BY <1>1, <2>1, <2>3, StoreTypes DEF StoreInv, DatesInOrder
  <2> QED BY <2>2, <2>3
<1>10. CutsKeep'
  <2> SUFFICES ASSUME InOrder, parent, NEW k \in StoreJob, storeJob'[k].at = "deleting",
                      NEW c \in storeJob'[k].cut
               PROVE  Cardinality(Spared(c)') >= Limit
    BY <1>1 DEF CutsKeep
  <2>1. k # j /\ storeJob'[k] = storeJob[k]
    BY <1>1, <1>3, StoreTypes
  <2>2. Cardinality(Spared(c)) >= Limit
    BY <2>1 DEF StoreInv, CutsKeep
  <2>3. ASSUME NEW n \in Spared(c) PROVE n \in Stored' /\ Beyond(n, c)'
    <3>1. n \in Stored /\ n \in Message /\ Beyond(n, c)
      BY DEF Spared, Stored
    <3>2. storeRow'[n] >= storeRow[n] /\ storeRow'[n] \in Nat /\ storeRow[n] \in Nat
      BY <3>1, <1>1, <1>2, StoreTypes DEF StoreInv, DatesInOrder
    <3>3. c.at \in Nat /\ c.msg \in Nat /\ n \in Nat
      BY <2>1, <3>1, CutTypes, StoreTypes
    <3>4. Beyond(n, c)'
      BY <3>1, <3>2, <3>3 DEF Beyond
    <3> QED BY <3>1, <3>4, <1>6
  <2> QED BY <2>2, <2>3, <1>7, SparedGrows
<1> QED BY <1>1, <1>5, <1>7, <1>8, <1>9, <1>10 DEF StoreInv, LastIsNewest

\* What a deletion takes away are the rows that its cutoff is not older than.
LEMMA DeletionTakes ==
  ASSUME StoreInv, NEW j \in StoreJob, storeJob[j].at = "deleting"
  PROVE  \A n \in Stored : n \in Evicted(storeJob[j].cut)
           <=> \E c \in storeJob[j].cut : ~Beyond(n, c)
<1> SUFFICES ASSUME NEW n \in Stored
             PROVE  n \in Evicted(storeJob[j].cut)
                      <=> \E c \in storeJob[j].cut : ~Beyond(n, c)
  OBVIOUS
<1>1. storeRow[n] \in Nat /\ n \in Nat
  BY StoreTypes DEF Stored
<1>2. \A c \in storeJob[j].cut : c.at \in Nat /\ c.msg \in Nat
  BY CutTypes
<1> QED BY <1>1, <1>2 DEF Evicted, Beyond

LEMMA DeleteKeeps == ASSUME StoreInv, NEW j \in StoreJob, Deleted(j) PROVE StoreInv'
<1> DEFINE gone == Evicted(storeJob[j].cut)
<1>1. /\ storeRow' = [m \in Message |-> IF m \in gone THEN 0 ELSE storeRow[m]]
      /\ storeJob' = [storeJob EXCEPT ![j] = Idle] /\ storeJob[j].at = "deleting"
      /\ UNCHANGED <<parent, missed, last, seen, storeNow>>
  BY DEF Deleted, Becomes
<1>2. \A n \in Stored : n \in gone <=> \E c \in storeJob[j].cut : ~Beyond(n, c)
  BY <1>1, DeletionTakes
<1> HIDE DEF gone
<1>3. storeJob' \in [StoreJob -> StoreJobType] /\ storeRow' \in [Message -> 0..MaxClock]
  <2>1. 0 \in 0..MaxClock
    BY StoreAssumption
  <2> QED BY <1>1, <2>1, IdleJob, StoreTypes
<1>4. StoreTypeOK'
  BY <1>1, <1>3, StoreTypes DEF StoreTypeOK, StoreJobType
<1>5. Stored' = Stored \ gone
  BY <1>1 DEF Stored
<1>6. IsFiniteSet(Stored')
  BY <1>5, StoreTypes, FS_Subset
<1>7. \A k \in StoreJob : JobHolds(storeJob[k])'
  BY <1>1, IdleJob, StoreTypes DEF JobHolds
<1>8. DatesInOrder'
  <2>1. \A n \in Message : storeRow'[n] <= storeRow[n] /\ storeRow'[n] \in Nat
    BY <1>1, StoreTypes
  <2>2. \A k \in StoreJob : storeJob'[k].at = "upserting" => storeJob'[k] = storeJob[k]
    BY <1>1, IdleJob, StoreTypes
  <2> QED BY <1>1, <2>1, <2>2, StoreTypes DEF StoreInv, DatesInOrder
<1>9. CutsKeep'
  <2> SUFFICES ASSUME InOrder, parent, NEW k \in StoreJob, storeJob'[k].at = "deleting",
                      NEW d \in storeJob'[k].cut
               PROVE  Cardinality(Spared(d)') >= Limit
    BY <1>1 DEF CutsKeep
  <2>1. k # j /\ storeJob'[k] = storeJob[k] /\ d \in storeJob[k].cut
    BY <1>1, IdleJob, StoreTypes
  <2>2. \A n \in Stored : n \notin gone =>
           n \in Stored' /\ \A c : Beyond(n, c) => Beyond(n, c)'
    BY <1>1, <1>5 DEF Beyond, Stored
  <2>3. CASE \E c \in storeJob[j].cut : \E n \in Spared(d) : ~Beyond(n, c)
    <3>1. PICK c \in storeJob[j].cut : \E n \in Spared(d) : ~Beyond(n, c)
      BY <2>3
    <3>2. Cardinality(Spared(c)) >= Limit
      BY <1>1 DEF StoreInv, CutsKeep
    <3>3. /\ c.at \in Nat /\ c.msg \in Nat /\ d.at \in Nat /\ d.msg \in Nat
          /\ \A b \in storeJob[j].cut : b = c
      BY <2>1, CutTypes
    <3>4. \A n \in Stored : n \in Message /\ n \in Nat /\ storeRow[n] \in Nat
      BY StoreTypes DEF Stored
    <3>5. c.at > d.at \/ (c.at = d.at /\ c.msg > d.msg)
      <4>1. PICK n \in Spared(d) : ~Beyond(n, c)
        BY <3>1
      <4>2. n \in Stored /\ Beyond(n, d)
        BY DEF Spared
      <4> QED BY <3>3, <3>4, <4>1, <4>2 DEF Beyond
    <3>6. ASSUME NEW n \in Spared(c) PROVE n \in Stored' /\ Beyond(n, d)'
      <4>1. n \in Stored /\ Beyond(n, c)
        BY DEF Spared
      <4>2. n \notin gone
        BY <4>1, <1>2, <3>3
      <4>3. Beyond(n, d)
        BY <4>1, <3>3, <3>4, <3>5 DEF Beyond
      <4> QED BY <4>1, <4>2, <4>3, <2>2
    <3> QED BY <3>2, <3>6, <1>6, SparedGrows
  <2>4. CASE ~\E c \in storeJob[j].cut : \E n \in Spared(d) : ~Beyond(n, c)
    <3>1. Cardinality(Spared(d)) >= Limit
      BY <2>1 DEF StoreInv, CutsKeep
    <3>2. ASSUME NEW n \in Spared(d) PROVE n \in Stored' /\ Beyond(n, d)'
      <4>1. n \in Stored /\ Beyond(n, d)
        BY DEF Spared
      <4>2. n \notin gone
        BY <4>1, <1>2, <2>4
      <4> QED BY <4>1, <4>2, <2>2
    <3> QED BY <3>1, <3>2, <1>6, SparedGrows
  <2> QED BY <2>3, <2>4
<1> QED BY <1>1, <1>4, <1>6, <1>7, <1>8, <1>9 DEF StoreInv, LastIsNewest

\* The cutoff that is found spares Limit rows.
LEMMA FindKeeps == ASSUME StoreInv, NEW j \in StoreJob, Found(j) PROVE StoreInv'
<1> DEFINE cut == {[msg |-> m, at |-> storeRow[m]] : m \in Cutoff}
           e == [storeJob[j] EXCEPT !.at = "deleting", !.cut = cut]
<1>1. /\ storeJob[j].at = "finding" /\ missed' \in BOOLEAN
      /\ UNCHANGED <<storeRow, parent, last, seen, storeNow>>
      /\ Becomes(j, IF Cutoff = {} THEN Idle ELSE e)
  BY DEF Found
<1>2. \A m \in Cutoff : /\ m \in Message /\ storeRow[m] \in 1..MaxClock
                        /\ Cardinality(NewerThan(m)) = Limit
  BY StoreTypes DEF Cutoff, Stored
<1>3. cut \subseteq [msg : Message, at : 1..MaxClock]
  BY <1>2
<1>4. \A c, d \in cut : c = d
  BY OneCutoff
<1>5. ASSUME NEW c \in cut PROVE Cardinality(Spared(c)) >= Limit
  <2>1. PICK m \in Cutoff : c = [msg |-> m, at |-> storeRow[m]]
    OBVIOUS
  <2>2. c.msg = m /\ c.at = storeRow[m]
    BY <2>1
  <2>3. \A n \in Stored : Beyond(n, c) <=> Older(m, n)
    <3>1. \A n \in Stored : n \in Nat /\ storeRow[n] \in Nat
      BY StoreTypes DEF Stored
    <3> QED BY <3>1, <2>2, <1>2, StoreTypes DEF Beyond, Older
  <2>4. Spared(c) = NewerThan(m)
    BY <2>3 DEF Spared, NewerThan
  <2> QED BY <2>4, <1>2, StoreAssumption
<1> HIDE DEF cut
<1>6. LastIsNewest'
  BY <1>1 DEF StoreInv, LastIsNewest
<1>7. CASE Cutoff = {}
  BY <1>1, <1>6, <1>7, IdleJob, StoreTypes, JobGoesOn
<1>8. CASE Cutoff # {}
  <2>1. storeJob[j] \in StoreJobType /\ JobHolds(storeJob[j])
    BY StoreTypes
  <2>2. e \in StoreJobType /\ e.at = "deleting" /\ e.cut = cut /\ e.msg = storeJob[j].msg
    BY <2>1, <1>3 DEF StoreJobType
  <2> HIDE DEF e
  <2>3. JobHolds(e)
    BY <2>1, <2>2, <1>1, <1>4 DEF JobHolds
  <2> QED BY <1>1, <1>5, <1>6, <1>8, <2>2, <2>3, StoreTypes, JobGoesOn
<1> QED BY <1>7, <1>8

LEMMA StoreKeeps == StoreInv /\ [StoreNext]_storeVars => StoreInv'
<1> SUFFICES ASSUME StoreInv, [StoreNext]_storeVars PROVE StoreInv'
  OBVIOUS
<1>l. ASSUME UNCHANGED <<last, seen>> PROVE LastIsNewest'
  BY <1>l DEF StoreInv, LastIsNewest
<1>1. ASSUME NEW j \in StoreJob, NEW m \in Message, Received(j, m) \/ Sent(j, m) PROVE StoreInv'
  <2>1. PICK at \in {"mapping", "put"} : Becomes(j, [Idle EXCEPT !.at = at, !.msg = m])
    BY <1>1 DEF Received, Sent
  <2> DEFINE e == [Idle EXCEPT !.at = at, !.msg = m]
  <2>2. e \in StoreJobType /\ e.at \in {"mapping", "put"} /\ JobHolds(e)
    BY IdleJob DEF Idle, StoreJobType, JobHolds
  <2>3. UNCHANGED <<storeRow, parent, missed, last, seen, storeNow>>
    BY <1>1 DEF Received, Sent
  <2> HIDE DEF e
  <2> QED BY <1>l, <2>1, <2>2, <2>3, StoreTypes, JobGoesOn DEF e
<1>2. ASSUME NEW j \in StoreJob, Mapped(j) PROVE StoreInv'
  <2> DEFINE e == [storeJob[j] EXCEPT !.at = "put"]
             m == storeJob[j].msg
  <2>1. /\ storeJob[j].at = "mapping" /\ Becomes(j, e) /\ last' = Recorded(m)
        /\ seen' = seen \cup {m} /\ UNCHANGED <<storeRow, parent, missed, storeNow>>
    BY <1>2 DEF Mapped
  <2>2. m \in Message
    BY <2>1, StoreTypes DEF JobHolds
  <2>3. e \in StoreJobType /\ e.at = "put" /\ JobHolds(e)
    BY <2>2, StoreTypes DEF StoreJobType, JobHolds
  <2> HIDE DEF e
  <2>4. last' \in Message \cup {0} /\ seen' \subseteq Message
    BY <2>1, <2>2, StoreTypes DEF Recorded
  <2>5. LastIsNewest'
    <3>1. last \in Nat /\ m \in Nat /\ \A n \in seen : n \in Nat /\ last >= n
      BY <2>2, StoreTypes DEF StoreInv, LastIsNewest
    <3> QED BY <2>1, <3>1 DEF LastIsNewest, Recorded
  <2> QED BY <2>1, <2>3, <2>4, <2>5, StoreTypes, JobGoesOn
<1>3. ASSUME NEW j \in StoreJob, MessageDropped(j) \/ Fails(j) PROVE StoreInv'
  <2>1. /\ Becomes(j, Idle) /\ missed' \in BOOLEAN
        /\ UNCHANGED <<storeRow, parent, last, seen, storeNow>>
    BY <1>3, StoreTypes DEF MessageDropped, Fails
  <2> QED BY <1>l, <2>1, IdleJob, StoreTypes, JobGoesOn
<1>4. ASSUME NEW j \in StoreJob, Dated(j) PROVE StoreInv'
  <2> DEFINE e == [storeJob[j] EXCEPT !.at = "upserting", !.stamp = storeNow]
  <2>1. /\ storeJob[j].at = "put" /\ Becomes(j, e)
        /\ UNCHANGED <<storeRow, parent, missed, last, seen, storeNow>>
    BY <1>4 DEF Dated
  <2>2. storeNow \in 0..MaxClock /\ storeNow # 0 /\ storeNow <= storeNow
    BY StoreTypes, StoreAssumption
  <2>3. /\ e \in StoreJobType /\ e.at = "upserting" /\ e.stamp = storeNow
        /\ e.msg = storeJob[j].msg /\ e.cut = storeJob[j].cut
    BY <2>2, StoreTypes DEF StoreJobType
  <2> HIDE DEF e
  <2>4. JobHolds(e)
    BY <2>1, <2>2, <2>3, StoreTypes DEF JobHolds
  <2> QED BY <1>l, <2>1, <2>3, <2>4, StoreTypes, JobGoesOn
<1>5. ASSUME NEW j \in StoreJob, Upserted(j) PROVE StoreInv'
  <2>1. CASE parent
    BY <1>5, <2>1, UpsertKeeps
  <2>2. CASE ~parent
    <3>1. Becomes(j, Idle) /\ UNCHANGED <<storeRow, parent, missed, last, seen, storeNow>>
      BY <1>5, <2>2 DEF Upserted
    <3> QED BY <1>l, <3>1, IdleJob, StoreTypes, JobGoesOn
  <2> QED BY <2>1, <2>2
<1>6. CASE SessionDeleted
  <2>1. /\ parent' = FALSE /\ storeRow' = [m \in Message |-> 0]
        /\ UNCHANGED <<missed, last, seen, storeJob, storeNow>>
    BY <1>6 DEF SessionDeleted
  <2>2. 0 \in 0..MaxClock
    BY StoreAssumption
  <2>3. StoreTypeOK'
    BY <2>1, <2>2 DEF StoreInv, StoreTypeOK
  <2>4. Stored' = {}
    BY <2>1 DEF Stored
  <2>5. IsFiniteSet(Stored')
    BY <2>4, FS_EmptySet
  <2>6. \A j \in StoreJob : JobHolds(storeJob[j])'
    BY <2>1, StoreTypes DEF JobHolds
  <2>7. DatesInOrder'
    BY <2>1, StoreTypes DEF DatesInOrder
  <2> QED BY <2>1, <2>3, <2>5, <2>6, <2>7, <1>l DEF StoreInv, CutsKeep
<1>7. CASE Tick
  <2>1. /\ storeNow < MaxClock /\ storeNow' = storeNow + 1
        /\ UNCHANGED <<storeRow, parent, missed, last, seen, storeJob>>
    BY <1>7 DEF Tick
  <2>2. storeNow' \in 1..MaxClock /\ storeNow \in Nat /\ storeNow' \in Nat
    BY <2>1, StoreTypes, StoreAssumption
  <2>3. StoreTypeOK'
    BY <2>1, <2>2 DEF StoreInv, StoreTypeOK
  <2>4. Stored' = Stored /\ \A c : Spared(c)' = Spared(c)
    BY <2>1 DEF Stored, Spared, Beyond
  <2>5. \A j \in StoreJob : JobHolds(storeJob[j])'
    BY <2>1, <2>2, StoreTypes DEF JobHolds
  <2>6. DatesInOrder'
    BY <2>1, <2>2, StoreTypes DEF StoreInv, DatesInOrder
  <2>7. CutsKeep'
    BY <2>1, <2>4 DEF StoreInv, CutsKeep
  <2> QED BY <2>1, <2>3, <2>4, <2>5, <2>6, <2>7, <1>l DEF StoreInv
<1>8. CASE UNCHANGED storeVars
  BY <1>8 DEF storeVars, StoreInv, StoreTypeOK, Stored, JobHolds, DatesInOrder, CutsKeep,
              LastIsNewest, Spared, Beyond
<1> QED BY <1>1, <1>2, <1>3, <1>4, <1>5, <1>6, <1>7, <1>8, FindKeeps, DeleteKeeps DEF StoreNext

\* However long their media take to download, the last message of the chat is the
\* newest of those that came.
THEOREM TheLastIsNewest == StoreSpec => []LastIsNewest
<1>1. StoreInv => LastIsNewest
  BY DEF StoreInv
<1> QED BY <1>1, StoreInitially, StoreKeeps, PTL DEF StoreSpec

\* When the writes are executed in the order they were issued, no interleaving of
\* puts, of cutoffs read and of deletions evicts one of the newest Limit messages.
THEOREM TheNewestAreKept == InOrder => (StoreSpec => [][KeepsNewest]_storeVars)
<1> SUFFICES ASSUME InOrder PROVE StoreSpec => [][KeepsNewest]_storeVars
  OBVIOUS
<1>1. StoreInv /\ [StoreNext]_storeVars => [KeepsNewest]_storeVars
  <2> SUFFICES ASSUME StoreInv, StoreNext, parent', NEW m \in Stored, storeRow'[m] = 0
               PROVE  Cardinality({n \in NewerThan(m) : storeRow'[n] # 0}) >= Limit
    BY DEF KeepsNewest, storeVars
  <2>1. m \in Message /\ storeRow[m] # 0
    BY DEF Stored
  <2>2. PICK j \in StoreJob : Deleted(j)
    <3>1. \A j \in StoreJob : Upserted(j) => storeRow'[m] # 0
      BY <2>1, StoreTypes DEF Upserted, JobHolds
    <3> QED BY <2>1, <3>1 DEF StoreNext, Received, Sent, Mapped, MessageDropped, Dated, Found,
                              Fails, SessionDeleted, Tick
  <2> DEFINE gone == Evicted(storeJob[j].cut)
  <2>3. /\ storeRow' = [n \in Message |-> IF n \in gone THEN 0 ELSE storeRow[n]]
        /\ storeJob[j].at = "deleting" /\ parent
    BY <2>2 DEF Deleted
  <2>4. \A n \in Stored : n \in gone <=> \E c \in storeJob[j].cut : ~Beyond(n, c)
    BY <2>3, DeletionTakes
  <2> HIDE DEF gone
  <2>5. PICK c \in storeJob[j].cut : ~Beyond(m, c)
    BY <2>1, <2>3, <2>4
  <2>6. c.at \in Nat /\ c.msg \in Nat /\ \A b \in storeJob[j].cut : b = c
    BY CutTypes
  <2>7. Cardinality(Spared(c)) >= Limit
    BY <2>3 DEF StoreInv, CutsKeep
  <2> DEFINE T == {n \in NewerThan(m) : storeRow'[n] # 0}
  <2>8. Spared(c) \subseteq T
    <3> SUFFICES ASSUME NEW n \in Spared(c) PROVE n \in NewerThan(m) /\ storeRow'[n] # 0
      OBVIOUS
    <3>1. n \in Stored /\ Beyond(n, c)
      BY DEF Spared
    <3>2. /\ n \in Message /\ n \in Nat /\ m \in Nat /\ storeRow[n] \in Nat
          /\ storeRow[m] \in Nat /\ storeRow[n] # 0
      BY <2>1, <3>1, StoreTypes DEF Stored
    <3>3. Older(m, n)
      BY <2>5, <2>6, <3>1, <3>2 DEF Older, Beyond
    <3>4. n \notin gone
      BY <2>4, <2>6, <3>1
    <3> QED BY <2>3, <3>1, <3>2, <3>3, <3>4 DEF NewerThan
  <2>9. IsFiniteSet(T) /\ Cardinality(Spared(c)) \in Nat /\ Cardinality(T) \in Nat
    BY SparedFacts, FS_Subset, FS_CardinalityType
  <2> HIDE DEF T
  <2>10. Cardinality(Spared(c)) <= Cardinality(T)
    BY <2>8, <2>9, FS_Subset
  <2>11. Cardinality(T) >= Limit
    BY <2>7, <2>9, <2>10, StoreAssumption
  <2> QED BY <2>11 DEF T
<1> QED BY <1>1, StoreInitially, StoreKeeps, PTL DEF StoreSpec

-----------------------------------------------------------------------------
(* The size of the table.  What no deletion under way will take are Limit   *)
(* rows at most, as soon as nobody has still to look.                       *)

\* A deletion under way will take it.
Doomed(m) ==
  \E j \in StoreJob : storeJob[j].at = "deleting" /\ m \in Evicted(storeJob[j].cut)

Kept == {m \in Stored : ~Doomed(m)}

SizeInv ==
  ~missed /\ (\A j \in StoreJob : storeJob[j].at # "finding") => Cardinality(Kept) <= Limit

\* In a table of more than Limit rows one has exactly Limit newer ones: the numbers
\* of newer rows are all different and smaller than the number of rows.
LEMMA CutoffExists == ASSUME StoreInv, Cutoff = {} PROVE Cardinality(Stored) <= Limit
<1> DEFINE n == Cardinality(Stored)
           f == [m \in Stored |-> Cardinality(NewerThan(m))]
<1>1. IsFiniteSet(Stored) /\ n \in Nat /\ Limit \in Nat
  BY StoreTypes, FS_CardinalityType, StoreAssumption
<1>2. ASSUME NEW m \in Stored PROVE Cardinality(NewerThan(m)) \in 0..(n - 1)
  <2>1. NewerThan(m) \subseteq Stored /\ m \notin NewerThan(m)
    <3>1. storeRow[m] \in Nat /\ m \in Nat
      BY StoreTypes DEF Stored
    <3> QED BY <3>1 DEF NewerThan, Older
  <2>2. Cardinality(NewerThan(m)) <= n /\ Cardinality(NewerThan(m)) # n
    BY <1>1, <2>1, FS_Subset
  <2> QED BY <1>1, <2>2, SparedFacts
<1>3. ASSUME NEW a \in Stored, NEW b \in Stored,
             Cardinality(NewerThan(a)) = Cardinality(NewerThan(b))
      PROVE  a = b
  <2>1. ASSUME NEW c \in Stored, NEW d \in Stored, Older(c, d),
               Cardinality(NewerThan(c)) = Cardinality(NewerThan(d))
        PROVE  FALSE
    BY <2>1, OlderHasMore
  <2>2. storeRow[a] \in Nat /\ storeRow[b] \in Nat /\ a \in Nat /\ b \in Nat
    BY StoreTypes DEF Stored
  <2>3. ~Older(a, b) /\ ~Older(b, a)
    BY <1>3, <2>1
  <2> QED BY <2>2, <2>3 DEF Older
<1> SUFFICES ASSUME n > Limit PROVE FALSE
  BY <1>1
<1>4. f \in Injection(Stored, 0..(n - 1))
  BY <1>2, <1>3 DEF Injection, IsInjective
<1>5. IsFiniteSet(0..(n - 1)) /\ Cardinality(0..(n - 1)) = n
  <2> HIDE DEF n
  <2>1. 0 \in Int /\ n - 1 \in Int /\ ~(0 > n - 1) /\ (n - 1) - 0 + 1 = n
    BY <1>1
  <2> QED BY <2>1, FS_Interval
<1>6. f \in Surjection(Stored, 0..(n - 1))
  BY <1>4, <1>5, FS_Injection
<1>7. Limit \in 0..(n - 1)
  BY <1>1
<1>8. PICK m \in Stored : f[m] = Limit
  BY <1>6, <1>7 DEF Surjection
<1>9. m \in Cutoff
  BY <1>8 DEF Cutoff
<1> QED BY <1>9

\* A job goes on, none has a deletion under way that had not before, and the table
\* is the same.
LEMMA SizeGoesOn ==
  ASSUME StoreInv, SizeInv, NEW j \in StoreJob, NEW e, Becomes(j, e),
         UNCHANGED <<storeRow, missed>>, e.at \notin {"deleting"},
         storeJob[j].at \notin {"finding", "deleting"}
  PROVE  SizeInv'
<1>1. storeJob' = [storeJob EXCEPT ![j] = e] /\ storeJob \in [StoreJob -> StoreJobType]
  BY StoreTypes DEF Becomes
<1>2. Stored' = Stored /\ \A c : Evicted(c)' = Evicted(c)
  BY DEF Stored, Evicted
<1>3. \A m : Doomed(m)' <=> Doomed(m)
  BY <1>1, <1>2 DEF Doomed
<1>4. Kept' = Kept
  BY <1>2, <1>3 DEF Kept
<1>5. (\A k \in StoreJob : storeJob'[k].at # "finding")
        => \A k \in StoreJob : storeJob[k].at # "finding"
  BY <1>1
<1> QED BY <1>4, <1>5 DEF SizeInv

LEMMA FindBounds == ASSUME StoreInv, StoreInv', NEW j \in StoreJob, Found(j) PROVE SizeInv'
<1>1. Stored' = Stored /\ Cutoff' = Cutoff /\ \A c : Evicted(c)' = Evicted(c)
  BY DEF Found, Stored, Evicted, Cutoff, NewerThan, Older
<1>2. Kept' \subseteq Stored
  BY <1>1 DEF Kept
<1>3. IsFiniteSet(Stored) /\ IsFiniteSet(Kept')
  BY <1>2, StoreTypes, FS_Subset
<1>4. CASE Cutoff = {}
  <2>1. Cardinality(Stored) <= Limit /\ Cardinality(Kept') <= Cardinality(Stored)
    BY <1>2, <1>3, <1>4, CutoffExists, FS_Subset
  <2>2. Cardinality(Stored) \in Nat /\ Cardinality(Kept') \in Nat /\ Limit \in Nat
    BY <1>3, FS_CardinalityType, StoreAssumption
  <2> QED BY <2>1, <2>2 DEF SizeInv
<1>5. CASE Cutoff # {}
  <2>1. PICK m \in Cutoff : TRUE
    BY <1>5
  <2>2. m \in Stored /\ Cardinality(NewerThan(m)) = Limit
    BY DEF Cutoff
  <2>3. /\ storeJob'[j].at = "deleting"
        /\ storeJob'[j].cut = {[msg |-> k, at |-> storeRow[k]] : k \in Cutoff}
    BY <1>5, StoreTypes DEF Found, Becomes, StoreJobType
  <2>4. [msg |-> m, at |-> storeRow[m]] \in storeJob'[j].cut
    BY <2>3
  <2>5. ASSUME NEW k \in Stored, k \notin NewerThan(m) PROVE Doomed(k)'
    <3>1. storeRow[k] \in Nat /\ k \in Nat /\ storeRow[m] \in Nat /\ m \in Nat
      BY <2>2, StoreTypes DEF Stored
    <3>2. storeRow[k] < storeRow[m] \/ (storeRow[k] = storeRow[m] /\ k <= m)
      BY <2>5, <3>1 DEF NewerThan, Older
    <3>3. k \in Evicted(storeJob'[j].cut)
      BY <2>4, <3>2 DEF Evicted
    <3> QED BY <1>1, <2>3, <3>3 DEF Doomed
  <2>6. Kept' \subseteq NewerThan(m)
    BY <1>1, <2>5 DEF Kept
  <2>7. Cardinality(Kept') <= Limit
    BY <2>2, <2>6, SparedFacts, FS_Subset
  <2> QED BY <2>7 DEF SizeInv
<1> QED BY <1>4, <1>5

LEMMA DeleteBounds ==
  ASSUME StoreInv, StoreInv', SizeInv, NEW j \in StoreJob, Deleted(j) PROVE SizeInv'
<1> DEFINE gone == Evicted(storeJob[j].cut)
<1>1. /\ storeRow' = [m \in Message |-> IF m \in gone THEN 0 ELSE storeRow[m]]
      /\ storeJob' = [storeJob EXCEPT ![j] = Idle] /\ storeJob[j].at = "deleting"
      /\ UNCHANGED missed
  BY DEF Deleted, Becomes
<1>2. \A k \in StoreJob : k # j => storeJob'[k] = storeJob[k]
  BY <1>1, StoreTypes
<1>3. storeJob'[j].at = "idle"
  BY <1>1, StoreTypes, IdleJob
<1>4. Stored' = Stored \ gone
  <2> HIDE DEF gone
  <2> QED BY <1>1 DEF Stored
<1>5. Kept' \subseteq Kept
  <2> SUFFICES ASSUME NEW m \in Kept' PROVE ~Doomed(m)
    BY <1>4 DEF Kept
  <2>1. m \in Stored' /\ m \in Stored /\ m \notin gone /\ storeRow'[m] = storeRow[m]
    BY <1>1, <1>4 DEF Kept, Stored
  <2>2. ASSUME NEW k \in StoreJob, storeJob[k].at = "deleting", m \in Evicted(storeJob[k].cut)
        PROVE  FALSE
    <3>1. k # j
      BY <2>1, <2>2
    <3>2. m \in Evicted(storeJob[k].cut)'
      BY <2>1, <2>2, <3>1, <1>2 DEF Evicted
    <3> QED BY <2>2, <3>1, <3>2, <1>2 DEF Kept, Doomed
  <2> QED BY <2>2 DEF Doomed
<1>6. IsFiniteSet(Kept) /\ Cardinality(Kept') <= Cardinality(Kept)
      /\ Cardinality(Kept) \in Nat /\ Cardinality(Kept') \in Nat
  <2>1. IsFiniteSet(Kept)
    BY StoreTypes, FS_Subset DEF Kept
  <2> QED BY <1>5, <2>1, FS_Subset, FS_CardinalityType
<1>7. (\A k \in StoreJob : storeJob'[k].at # "finding")
        => \A k \in StoreJob : storeJob[k].at # "finding"
  BY <1>1, <1>2
<1> QED BY <1>1, <1>6, <1>7, StoreAssumption DEF SizeInv

LEMMA SizeInitially == StoreInit => SizeInv
<1> SUFFICES ASSUME StoreInit PROVE Cardinality(Kept) <= Limit
  BY DEF SizeInv
<1>1. Kept = {}
  BY DEF StoreInit, Kept, Stored
<1> QED BY <1>1, FS_EmptySet, StoreAssumption

LEMMA SizeStep == StoreInv /\ StoreInv' /\ SizeInv /\ [StoreNext]_storeVars => SizeInv'
<1> SUFFICES ASSUME StoreInv, StoreInv', SizeInv, [StoreNext]_storeVars PROVE SizeInv'
  OBVIOUS
<1>1. ASSUME NEW j \in StoreJob, NEW m \in Message, Received(j, m) \/ Sent(j, m) PROVE SizeInv'
  <2>1. PICK at \in {"mapping", "put"} : Becomes(j, [Idle EXCEPT !.at = at, !.msg = m])
    BY <1>1 DEF Received, Sent
  <2>2. [Idle EXCEPT !.at = at, !.msg = m].at \notin {"deleting"}
    BY DEF Idle
  <2>3. UNCHANGED <<storeRow, missed>> /\ storeJob[j].at = "idle"
    BY <1>1 DEF Received, Sent
  <2> QED BY <2>1, <2>2, <2>3, SizeGoesOn
<1>2. ASSUME NEW j \in StoreJob, NEW e, Becomes(j, e), UNCHANGED <<storeRow, missed>>,
             e.at # "deleting", storeJob[j].at \in {"mapping", "put", "upserting"}
      PROVE  SizeInv'
  BY <1>2, SizeGoesOn
<1>3. ASSUME NEW j \in StoreJob, Mapped(j) PROVE SizeInv'
  <2>1. [storeJob[j] EXCEPT !.at = "put"].at = "put"
    BY StoreTypes DEF StoreJobType
  <2> QED BY <1>2, <1>3, <2>1 DEF Mapped
<1>4. ASSUME NEW j \in StoreJob, Dated(j) PROVE SizeInv'
  <2>1. [storeJob[j] EXCEPT !.at = "upserting", !.stamp = storeNow].at = "upserting"
    BY StoreTypes DEF StoreJobType
  <2> QED BY <1>2, <1>4, <2>1 DEF Dated
<1>5. ASSUME NEW j \in StoreJob, MessageDropped(j) PROVE SizeInv'
  BY <1>2, <1>5, IdleJob DEF MessageDropped
<1>6. ASSUME NEW j \in StoreJob, Upserted(j) PROVE SizeInv'
  <2>1. CASE parent
    <3>1. storeJob'[j].at = "finding"
      BY <1>6, <2>1, StoreTypes DEF Upserted, Becomes, StoreJobType
    <3> QED BY <3>1 DEF SizeInv
  <2>2. CASE ~parent
    BY <1>2, <1>6, <2>2, IdleJob DEF Upserted
  <2> QED BY <2>1, <2>2
<1>7. ASSUME NEW j \in StoreJob, Fails(j) PROVE SizeInv'
  <2>1. CASE storeJob[j].at = "upserting"
    <3>1. missed' = missed
      BY <1>7, <2>1, StoreTypes DEF Fails
    <3> QED BY <1>2, <1>7, <2>1, <3>1, IdleJob DEF Fails
  <2>2. CASE storeJob[j].at # "upserting"
    BY <1>7, <2>2 DEF Fails, SizeInv
  <2> QED BY <2>1, <2>2
<1>8. CASE SessionDeleted
  <2>1. Kept' = {}
    BY <1>8 DEF SessionDeleted, Kept, Stored
  <2>2. Cardinality(Kept') <= Limit
    BY <2>1, FS_EmptySet, StoreAssumption
  <2> QED BY <2>2 DEF SizeInv
<1>9. CASE Tick \/ UNCHANGED storeVars
  <2>1. UNCHANGED <<storeRow, storeJob, missed>>
    BY <1>9 DEF Tick, storeVars
  <2>2. Kept' = Kept
    BY <2>1 DEF Kept, Stored, Doomed, Evicted
  <2> QED BY <2>1, <2>2 DEF SizeInv
<1> QED BY <1>1, <1>3, <1>4, <1>5, <1>6, <1>7, <1>8, <1>9, FindBounds, DeleteBounds DEF StoreNext

\* When nothing is under way the table holds Limit rows at most, in whatever order
\* the writes are executed, unless an eviction failed and nobody has looked since.
THEOREM TheStoreIsBounded == StoreSpec => []StoreBounded
<1>1. SizeInv => StoreBounded
  <2> SUFFICES ASSUME SizeInv, ~missed, \A j \in StoreJob : storeJob[j] = Idle
               PROVE  Cardinality(Stored) <= Limit
    BY DEF StoreBounded
  <2>1. \A j \in StoreJob : storeJob[j].at = "idle"
    BY IdleJob
  <2>2. Kept = Stored
    BY <2>1 DEF Kept, Doomed
  <2> QED BY <2>1, <2>2 DEF SizeInv
<1> QED BY <1>1, StoreInitially, StoreKeeps, SizeInitially, SizeStep, PTL DEF StoreSpec

-----------------------------------------------------------------------------
(* Requests that the adapters answer                                       *)

\* Steps of an operation whose effect, if any, is the last of them.
EndsInEffect(steps) ==
  /\ Len(steps) \in 0..4
  /\ \A i \in 1..Len(steps) : steps[i] \in Effect => i = Len(steps)

\* An operation: nothing but the search for the id of what was sent comes after an
\* effect, and such an operation reports its failures.
Orderly(op) ==
  /\ Len(op.steps) \in 0..4 /\ op.quiet \in BOOLEAN
  /\ \A i, j \in 1..Len(op.steps) : op.steps[i] \in Effect /\ i < j =>
       ~op.quiet /\ op.steps[j] = "recover"

\* By the steps of a family of operations.
LEMMA FamilyIsOrderly ==
  ASSUME NEW names, NEW steps, EndsInEffect(steps)
  PROVE  /\ \A op \in Plain(names, steps) : Orderly(op)
         /\ \A op \in Quiet(names, steps) : Orderly(op)
<1>1. \A i, j \in 1..Len(steps) : steps[i] \in Effect => ~(i < j)
  BY DEF EndsInEffect
<1>2. ASSUME NEW op, op.steps = steps, op.quiet \in BOOLEAN PROVE Orderly(op)
  BY <1>1, <1>2 DEF Orderly, EndsInEffect
<1> QED BY <1>2 DEF Plain, Quiet

LEMMA StepsOfOperations ==
  /\ EndsInEffect(<<>>) /\ EndsInEffect(<<"ask">>) /\ EndsInEffect(<<"send">>)
  /\ EndsInEffect(<<"unsupported">>) /\ EndsInEffect(<<"load", "send">>)
  /\ EndsInEffect(<<"ask", "load">>) /\ EndsInEffect(<<"ask", "act">>)
  /\ EndsInEffect(<<"find", "send">>) /\ EndsInEffect(<<"ask", "find", "act">>)
  /\ EndsInEffect(<<"ask", "group", "act">>) /\ EndsInEffect(<<"ask", "find", "load">>)
  /\ EndsInEffect(<<"ask", "group", "load">>)
<1> USE DEF EndsInEffect, Effect
<1>1. EndsInEffect(<<>>) /\ EndsInEffect(<<"ask">>) /\ EndsInEffect(<<"send">>)
  OBVIOUS
<1>2. EndsInEffect(<<"unsupported">>) /\ EndsInEffect(<<"load", "send">>)
  OBVIOUS
<1>3. EndsInEffect(<<"ask", "load">>) /\ EndsInEffect(<<"ask", "act">>)
  OBVIOUS
<1>4. EndsInEffect(<<"find", "send">>) /\ EndsInEffect(<<"ask", "find", "act">>)
  OBVIOUS
<1>5. EndsInEffect(<<"ask", "group", "act">>) /\ EndsInEffect(<<"ask", "find", "load">>)
  OBVIOUS
<1>6. EndsInEffect(<<"ask", "group", "load">>)
  OBVIOUS
<1> QED BY <1>1, <1>2, <1>3, <1>4, <1>5, <1>6

LEMMA ForwardIsOrderly == \A op \in WebJsForward : Orderly(op)
<1>1. ASSUME NEW op, op.steps = <<"ask", "find", "act", "recover">>, op.quiet = FALSE
      PROVE  Orderly(op)
  <2>1. Len(op.steps) = 4 /\ op.steps[4] = "recover"
    BY <1>1
  <2>2. \A i \in 1..4 : op.steps[i] \in Effect => i = 3
    BY <1>1 DEF Effect
  <2>3. ASSUME NEW i \in 1..4, NEW j \in 1..4, op.steps[i] \in Effect, i < j
        PROVE  op.steps[j] = "recover"
    <3>1. i = 3
      BY <2>2, <2>3
    <3>2. j = 4
      BY <2>3, <3>1
    <3> QED BY <2>1, <3>2
  <2>4. Len(op.steps) \in 0..4 /\ op.quiet = FALSE
    BY <1>1, <2>1
  <2> QED BY <2>1, <2>3, <2>4 DEF Orderly
<1> QED BY <1>1 DEF WebJsForward, Plain

LEMMA AllAreOrderly == \A a \in DOMAIN Operations : \A op \in Operations[a] : Orderly(op)
<1> USE FamilyIsOrderly, StepsOfOperations
<1>1. \A op \in WebJsSends \cup WebJsContacts \cup WebJsMoreSends : Orderly(op)
  BY DEF WebJsSends, WebJsContacts, WebJsMoreSends
<1>2. \A op \in WebJsReply \cup WebJsGroups \cup WebJsGroupSettings \cup WebJsReactions : Orderly(op)
  BY DEF WebJsReply, WebJsGroups, WebJsGroupSettings, WebJsReactions
<1>3. \A op \in WebJsLabels \cup WebJsHistory \cup WebJsDelete \cup WebJsStubs : Orderly(op)
  BY DEF WebJsLabels, WebJsHistory, WebJsDelete, WebJsStubs
<1>4. \A op \in WebJsChannels \cup WebJsBlocking \cup WebJsChats \cup WebJsUnsupported : Orderly(op)
  BY DEF WebJsChannels, WebJsBlocking, WebJsChats, WebJsUnsupported
<1>5. \A op \in BaileysSends \cup BaileysById \cup BaileysGroups : Orderly(op)
  BY DEF BaileysSends, BaileysById, BaileysGroups
<1>6. \A op \in BaileysBlocking \cup BaileysChats \cup BaileysUnsupported : Orderly(op)
  BY DEF BaileysBlocking, BaileysChats, BaileysUnsupported
<1> QED BY <1>1, <1>2, <1>3, <1>4, <1>5, <1>6, ForwardIsOrderly DEF Operations
CallRecord == [op : SUBSET Operations[callAdapter], at : 0..4, up : BOOLEAN,
               did : BOOLEAN, answer : Answer]

\* A request that waits is at a step of its operation; what it has done was done by
\* an earlier step, and is not answered with an error.
CallFits(c) ==
  /\ c.did => c.answer \in {"none", "ok"}
  /\ c.answer = "none" => \A op \in c.op :
       /\ c.at \in 1..Len(op.steps)
       /\ c.did => \E k \in 1..Len(op.steps) : k < c.at /\ op.steps[k] \in Effect

CallInv == CallTypeOK /\ \A r \in CallRequest : CallFits(apiCall[r])

LEMMA FailuresAreAnswers ==
  ASSUME NEW op, NEW step, NEW why \in Answer
  PROVE  Failed(op, step, why) \in Answer /\ (why # "none" => Failed(op, step, why) # "none")
BY DEF Failed, Nulls, Answer

\* The next step of an operation begins, or the operation ends.
LEMMA TheNextIsReached ==
  ASSUME CallTypeOK, NEW op \in Operations[callAdapter], NEW c \in CallRecord, NEW i \in 1..5,
         i <= Len(op.steps) + 1, c.op = {op}, c.answer = "none",
         c.did => \E k \in 1..Len(op.steps) : k < i /\ op.steps[k] \in Effect
  PROVE  Reached(c, op, i) \in CallRecord /\ CallFits(Reached(c, op, i))
<1>1. Orderly(op)
  BY AllAreOrderly DEF CallTypeOK
<1>2. CASE i > Len(op.steps)
  <2>1. Reached(c, op, i) = [c EXCEPT !.answer = "ok"]
    BY <1>2 DEF Reached
  <2> QED BY <2>1 DEF CallRecord, CallFits, Answer
<1>3. CASE i <= Len(op.steps) /\ op.steps[i] \in Through /\ ~c.up
  <2>1. Reached(c, op, i) = [c EXCEPT !.answer = Failed(op, op.steps[i], "crash")]
    BY <1>1, <1>3 DEF Reached, Orderly
  <2>2. Failed(op, op.steps[i], "crash") \in Answer \ {"none"}
    BY FailuresAreAnswers DEF Answer
  <2>3. c.did => op.steps[i] = "recover" /\ ~op.quiet
    BY <1>1, <1>3 DEF Orderly
  <2>4. c.did => Failed(op, op.steps[i], "crash") = "ok"
    BY <2>3 DEF Failed
  <2> QED BY <2>1, <2>2, <2>4 DEF CallRecord, CallFits
<1>4. CASE i <= Len(op.steps) /\ ~(op.steps[i] \in Through /\ ~c.up)
  <2>1. Reached(c, op, i) = [c EXCEPT !.at = i]
    BY <1>1, <1>4 DEF Reached, Orderly
  <2>2. Len(op.steps) \in 0..4
    BY <1>1 DEF Orderly
  <2> QED BY <1>4, <2>1, <2>2 DEF CallRecord, CallFits
<1>5. Len(op.steps) \in 0..4
  BY <1>1 DEF Orderly
<1> QED BY <1>2, <1>3, <1>4, <1>5

LEMMA CallKeeps == CallInv /\ [CallNext]_callVars => CallInv'
<1> SUFFICES ASSUME CallInv, [CallNext]_callVars PROVE CallInv'
  OBVIOUS
<1> USE DEF CallInv
<1> CallTypeOK
  OBVIOUS
<1>r. apiCall \in [CallRequest -> CallRecord]
  BY DEF CallTypeOK, CallRecord
<1>n. ASSUME callAdapter' = callAdapter, callEngine' = callEngine, NEW r \in CallRequest,
             NEW c \in CallRecord, CallFits(c), apiCall' = [apiCall EXCEPT ![r] = c]
      PROVE  CallInv'
  <2>1. apiCall' \in [CallRequest -> CallRecord]
    BY <1>r, <1>n
  <2>2. CallTypeOK'
    BY <2>1, <1>n DEF CallTypeOK, CallRecord
  <2> QED BY <2>2, <1>n, <1>r DEF CallFits
<1>1. ASSUME NEW r \in CallRequest, NEW op \in Operations[callAdapter], BeginCall(r, op)
      PROVE  CallInv'
  <2> DEFINE c == [NoCall EXCEPT !.op = {op}]
  <2>1. NoCall \in CallRecord /\ NoCall.answer = "none" /\ NoCall.did = FALSE
    BY DEF NoCall, CallRecord, Answer
  <2>2. c \in CallRecord /\ c.op = {op} /\ c.answer = "none" /\ c.did = FALSE
    BY <2>1 DEF CallRecord
  <2> HIDE DEF c
  <2>3. CASE Refusals(op) = {}
    <3>1. Len(op.steps) \in 0..4
      BY AllAreOrderly DEF CallTypeOK, Orderly
    <3>2. 1 \in 1..5 /\ 1 <= Len(op.steps) + 1
      BY <3>1
    <3>4. Reached(c, op, 1) \in CallRecord /\ CallFits(Reached(c, op, 1))
      BY <2>2, <3>2, TheNextIsReached
    <3>3. apiCall' = [apiCall EXCEPT ![r] = Reached(c, op, 1)]
      BY <1>1, <2>3 DEF BeginCall, c
    <3> QED BY <3>4, <3>3, <1>n, <1>1 DEF BeginCall
  <2>4. CASE Refusals(op) # {}
    <3> DEFINE a == CHOOSE x \in Refusals(op) : TRUE
    <3>1. a \in Refusals(op)
      BY <2>4
    <3>2. Refusals(op) \subseteq Answer \ {"none"}
      BY DEF Refusals, Answer
    <3>3. a \in Answer \ {"none"}
      BY <3>1, <3>2
    <3>4. apiCall' = [apiCall EXCEPT ![r] = [c EXCEPT !.answer = a]]
      BY <1>1, <2>4 DEF BeginCall, c
    <3> HIDE DEF a
    <3>5. [c EXCEPT !.answer = a] \in CallRecord /\ CallFits([c EXCEPT !.answer = a])
      BY <2>2, <3>3 DEF CallRecord, CallFits
    <3> QED BY <3>4, <3>5, <1>n, <1>1 DEF BeginCall
  <2> QED BY <2>3, <2>4
<1>2. ASSUME NEW r \in CallRequest, NEW op \in Operations[callAdapter], StepSucceeds(r, op)
      PROVE  CallInv'
  <2> DEFINE c == [apiCall[r] EXCEPT !.did = @ \/ op.steps[apiCall[r].at] \in Effect]
  <2>1. apiCall[r] \in CallRecord /\ apiCall[r].op = {op} /\ apiCall[r].answer = "none"
    BY <1>2, <1>r DEF StepSucceeds
  <2>2. apiCall[r].at \in 1..Len(op.steps) /\ Len(op.steps) \in 0..4
    BY <2>1, AllAreOrderly DEF CallTypeOK, Orderly, CallFits
  <2>3. /\ c \in CallRecord /\ c.op = {op} /\ c.answer = "none" /\ c.at = apiCall[r].at
        /\ c.did = (apiCall[r].did \/ op.steps[apiCall[r].at] \in Effect)
    BY <2>1 DEF CallRecord
  <2>4. apiCall[r].did => \E k \in 1..Len(op.steps) : k < apiCall[r].at /\ op.steps[k] \in Effect
    BY <2>1 DEF CallFits
  <2>5. apiCall' = [apiCall EXCEPT ![r] = Reached(c, op, c.at + 1)]
    BY <1>2 DEF StepSucceeds
  <2> HIDE DEF c
  <2>6. c.did => \E k \in 1..Len(op.steps) : k < c.at + 1 /\ op.steps[k] \in Effect
    <3>1. CASE apiCall[r].did
      BY <3>1, <2>2, <2>3, <2>4
    <3>2. CASE op.steps[apiCall[r].at] \in Effect
      BY <3>2, <2>2, <2>3
    <3> QED BY <3>1, <3>2, <2>3
  <2> DEFINE i == c.at + 1
  <2>8. i \in 1..5 /\ i <= Len(op.steps) + 1
    BY <2>2, <2>3
  <2>9. c.did => \E k \in 1..Len(op.steps) : k < i /\ op.steps[k] \in Effect
    BY <2>6
  <2> HIDE DEF i
  <2>10. Reached(c, op, i) \in CallRecord /\ CallFits(Reached(c, op, i))
    BY <2>3, <2>8, <2>9, TheNextIsReached
  <2>7. Reached(c, op, c.at + 1) \in CallRecord /\ CallFits(Reached(c, op, c.at + 1))
    BY <2>10 DEF i
  <2> QED BY <2>5, <2>7, <1>n, <1>2 DEF StepSucceeds
<1>3. ASSUME NEW r \in CallRequest, NEW op \in Operations[callAdapter], StepFails(r, op)
      PROVE  CallInv'
  <2> DEFINE step == op.steps[apiCall[r].at]
  <2>1. PICK why \in {"error", "absent"} : apiCall' = [apiCall EXCEPT ![r].answer = Failed(op, step, why)]
    BY <1>3 DEF StepFails
  <2> DEFINE a == Failed(op, step, why)
  <2>2. a \in Answer \ {"none"}
    BY FailuresAreAnswers DEF Answer
  <2>3. apiCall[r] \in CallRecord /\ apiCall[r].op = {op} /\ apiCall[r].answer = "none"
    BY <1>3, <1>r DEF StepFails
  <2>4. apiCall[r].did => step = "recover" /\ ~op.quiet
    <3>1. Orderly(op)
      BY AllAreOrderly DEF CallTypeOK
    <3>2. /\ apiCall[r].at \in 1..Len(op.steps)
          /\ apiCall[r].did =>
               \E k \in 1..Len(op.steps) : k < apiCall[r].at /\ op.steps[k] \in Effect
      BY <2>3 DEF CallFits
    <3> QED BY <3>1, <3>2 DEF Orderly
  <2>5. apiCall[r].did => a = "ok"
    BY <2>4 DEF Failed
  <2>6. apiCall' = [apiCall EXCEPT ![r] = [apiCall[r] EXCEPT !.answer = a]]
    BY <2>1, <1>r
  <2> HIDE DEF a
  <2>7. [apiCall[r] EXCEPT !.answer = a] \in CallRecord /\ CallFits([apiCall[r] EXCEPT !.answer = a])
    BY <2>2, <2>3, <2>5 DEF CallRecord, CallFits
  <2> QED BY <2>6, <2>7, <1>n, <1>3 DEF StepFails
<1>4. ASSUME NEW r \in CallRequest, CallAnswered(r) PROVE CallInv'
  <2>1. NoCall \in CallRecord /\ CallFits(NoCall)
    BY DEF NoCall, CallRecord, CallFits, Answer
  <2> QED BY <2>1, <1>n, <1>4 DEF CallAnswered
<1>5. CASE SessionMoves
  <2>1. callEngine' \in {"none", "starting", "ready"}
    BY <1>5 DEF SessionMoves, CallTypeOK
  <2> QED BY <1>5, <2>1 DEF SessionMoves, CallTypeOK, CallFits
<1>6. CASE CallTearDown
  <2>1. apiCall' \in [CallRequest -> CallRecord]
    BY <1>6, <1>r DEF CallTearDown, CallRecord
  <2>2. CallTypeOK'
    BY <1>6, <2>1 DEF CallTearDown, CallTypeOK, CallRecord
  <2>3. \A r \in CallRequest : /\ apiCall'[r].op = apiCall[r].op /\ apiCall'[r].at = apiCall[r].at
                              /\ apiCall'[r].did = apiCall[r].did
                              /\ apiCall'[r].answer = apiCall[r].answer
    BY <1>6, <1>r DEF CallTearDown, CallRecord
  <2> QED BY <2>2, <2>3 DEF CallFits
<1>7. CASE UNCHANGED callVars
  BY <1>7 DEF callVars, CallTypeOK, CallFits
<1> QED BY <1>1, <1>2, <1>3, <1>4, <1>5, <1>6, <1>7 DEF CallNext

LEMMA CallStarts == CallInit => CallInv
BY DEF CallInit, CallInv, CallTypeOK, CallFits, NoCall, Answer

\* What an engine did for a request is not answered with an error, for every number of
\* requests and whatever fails or is torn down: the operations of both adapters do
\* nothing after their effect that could fail the request.
THEOREM WhatIsDoneIsTold == CallSpec => []DoneIsTold
<1>1. CallInv => DoneIsTold
  BY DEF CallInv, CallFits, DoneIsTold
<1> QED BY <1>1, CallStarts, CallKeeps, PTL DEF CallSpec

-----------------------------------------------------------------------------
(* Messages of the page of whatsapp-web.js.                                *)

EventOf(k, m) == [kind |-> k, of |-> m]

EventKind == {"message", "created"} \cup Later

Completing == {"contact", "media", "quote"}

\* What has been told of a message follows from how far its handler is and from what
\* the page still reports of it.
ToldAsFar(m) ==
  /\ Times("message", m) = IF inJob[m] = "done" /\ ~FromMe(raw[m]) THEN 1 ELSE 0
  /\ Times("created", m) = IF inJob[m] = "done" /\ FromMe(raw[m]) THEN 1 ELSE 0
  /\ \A k \in Later : Times(k, m) = IF inJob[m] = "none" \/ k \in later[m] THEN 0 ELSE 1
  /\ \A k \in {"revoke", "reaction"} : inJob[m] # "none" /\ k \notin later[m] =>
       told[EventOf(k, m)].chat = ChatOf(raw[m])

BuiltAsFar(m) ==
  /\ inJob[m] # "none" => built[m].chat = ChatOf(raw[m])
  /\ inJob[m] = "none" => later[m] = {}
  /\ inJob[m] \in Completing => ~FromMe(raw[m])
  /\ built[m].media = "data" => raw[m].media = "small"
  /\ built[m].media = "omitted" => raw[m].media = "big"
  /\ inJob[m] \in {"none", "contact", "media"} => built[m].media = "none"

InboundInv == InboundTypeOK /\ \A m \in PageMessage : ToldAsFar(m) /\ BuiltAsFar(m)

AnyChat == Peer \cup {Self, NoChat}
Account == [times : 0..2, chat : AnyChat]

LEMMA EventsDiffer ==
  /\ \A k \in EventKind, m \in PageMessage : EventOf(k, m) \in Event
  /\ \A k, l, m, n : EventOf(k, m) = EventOf(l, n) <=> k = l /\ m = n
<1>1. ASSUME NEW k \in EventKind, NEW m \in PageMessage PROVE EventOf(k, m) \in Event
  BY DEF EventOf, EventKind, Event
<1>2. ASSUME NEW k, NEW l, NEW m, NEW n, EventOf(k, m) = EventOf(l, n) PROVE k = l /\ m = n
  <2>1. EventOf(k, m).kind = EventOf(l, n).kind /\ EventOf(k, m).of = EventOf(l, n).of
    BY <1>2
  <2> QED BY <2>1 DEF EventOf
<1> QED BY <1>1, <1>2

LEMMA KindsOfLater ==
  /\ "message" \in EventKind /\ "created" \in EventKind /\ Later \subseteq EventKind
  /\ "message" \notin Later /\ "created" \notin Later /\ {"revoke", "reaction"} \subseteq Later
BY DEF EventKind, Later

\* Telling of an event changes the account of that event.
LEMMA Telling ==
  ASSUME InboundTypeOK, NEW k \in EventKind, NEW m \in PageMessage, NEW chat \in AnyChat,
         Times(k, m) = 0, Tell(k, m, chat)
  PROVE  /\ told' \in [Event -> Account]
         /\ \A l \in EventKind, n \in PageMessage :
              /\ l = k /\ n = m => Times(l, n)' = 1 /\ told'[EventOf(l, n)].chat = chat
              /\ ~(l = k /\ n = m) => told'[EventOf(l, n)] = told[EventOf(l, n)]
<1>1. told \in [Event -> Account] /\ EventOf(k, m) \in Event
  BY EventsDiffer DEF InboundTypeOK, Account, AnyChat
<1>2. told[EventOf(k, m)].times = 0 /\ told[EventOf(k, m)] \in Account
  BY <1>1 DEF Times, EventOf
<1>3. told' = [told EXCEPT ![EventOf(k, m)] = [times |-> 1, chat |-> chat]]
  BY <1>2 DEF Tell, EventOf
<1>4. [times |-> 1, chat |-> chat] \in Account
  BY DEF Account
<1>5. told' \in [Event -> Account]
  BY <1>1, <1>3, <1>4
<1>6. ASSUME NEW l \in EventKind, NEW n \in PageMessage
      PROVE  told'[EventOf(l, n)] = IF l = k /\ n = m THEN [times |-> 1, chat |-> chat]
                                                      ELSE told[EventOf(l, n)]
  <2>1. EventOf(l, n) \in Event /\ (EventOf(l, n) = EventOf(k, m) <=> l = k /\ n = m)
    BY EventsDiffer
  <2> QED BY <1>1, <1>3, <2>1
<1>7. ASSUME NEW l \in EventKind, NEW n \in PageMessage PROVE Times(l, n)' = told'[EventOf(l, n)].times
  BY DEF Times, EventOf
<1> QED BY <1>5, <1>6, <1>7

LEMMA InboundStarts == InboundInit => InboundInv
<1> SUFFICES ASSUME InboundInit PROVE InboundInv
  OBVIOUS
<1>1. InboundTypeOK
  <2>1. Unbuilt \in [chat : Peer \cup {Self, NoChat}, contact : {"push", "saved"},
                     media : {"none", "data", "omitted"}, quoted : BOOLEAN]
    BY DEF Unbuilt
  <2>2. [times |-> 0, chat |-> NoChat] \in [times : 0 .. 2, chat : Peer \cup {Self, NoChat}]
    OBVIOUS
  <2>3. [from |-> Self, to |-> Self, media |-> "none", quotes |-> FALSE] \in Raw
    BY DEF Raw
  <2> QED BY <2>1, <2>2, <2>3 DEF InboundInit, InboundTypeOK
<1>2. ASSUME NEW m \in PageMessage PROVE ToldAsFar(m) /\ BuiltAsFar(m)
  <2>1. \A k \in EventKind : Times(k, m) = 0
    BY EventsDiffer DEF InboundInit, Times, EventOf
  <2>2. inJob[m] = "none" /\ later[m] = {} /\ built[m].media = "none"
    BY DEF InboundInit, Unbuilt
  <2> QED BY <2>1, <2>2 DEF ToldAsFar, BuiltAsFar, EventKind, Completing
<1> QED BY <1>1, <1>2 DEF InboundInv

LEMMA InboundKeeps == InboundInv /\ [InboundNext]_inboundVars => InboundInv'
<1> SUFFICES ASSUME InboundInv, [InboundNext]_inboundVars PROVE InboundInv'
  OBVIOUS
<1>t. /\ InboundTypeOK /\ raw \in [PageMessage -> Raw]
      /\ inJob \in [PageMessage -> {"none", "contact", "media", "quote", "done"}]
      /\ built \in [PageMessage -> [chat : AnyChat, contact : {"push", "saved"},
                                    media : {"none", "data", "omitted"}, quoted : BOOLEAN]]
      /\ told \in [Event -> Account] /\ later \in [PageMessage -> SUBSET Later] /\ inUp \in BOOLEAN
  BY DEF InboundInv, InboundTypeOK, AnyChat, Account
<1>i. \A m \in PageMessage : ToldAsFar(m) /\ BuiltAsFar(m)
  BY DEF InboundInv
\* What leaves the messages but m alone.
<1>o. ASSUME NEW m \in PageMessage, InboundTypeOK', ToldAsFar(m)', BuiltAsFar(m)',
             \A n \in PageMessage \ {m} :
               /\ raw'[n] = raw[n] /\ inJob'[n] = inJob[n] /\ built'[n] = built[n]
               /\ later'[n] = later[n]
               /\ \A k \in EventKind : told'[EventOf(k, n)] = told[EventOf(k, n)]
      PROVE  InboundInv'
  <2>1. ASSUME NEW n \in PageMessage \ {m} PROVE ToldAsFar(n)' /\ BuiltAsFar(n)'
    <3>1. \A k \in EventKind : Times(k, n)' = Times(k, n)
      BY <1>o DEF Times, EventOf
    <3>2. ToldAsFar(n) /\ BuiltAsFar(n)
      BY <1>i
    <3>3. ToldAsFar(n)'
      BY <3>1, <3>2, <1>o, KindsOfLater DEF ToldAsFar
    <3>4. BuiltAsFar(n)'
      BY <3>2, <1>o DEF BuiltAsFar
    <3> QED BY <3>3, <3>4
  <2> QED BY <2>1, <1>o DEF InboundInv
<1>1. ASSUME NEW m \in PageMessage, NEW r \in Raw, Arrive(m, r) PROVE InboundInv'
  <2>1. /\ inJob[m] = "none" /\ UNCHANGED inUp /\ raw' = [raw EXCEPT ![m] = r]
        /\ built' = [built EXCEPT ![m].chat = ChatOf(r)] /\ later' = [later EXCEPT ![m] = Later]
    BY <1>1 DEF Arrive
  <2>2. ChatOf(r) \in AnyChat
    BY DEF ChatOf, Raw, AnyChat
  <2>3. /\ raw' \in [PageMessage -> Raw] /\ later' \in [PageMessage -> SUBSET Later]
        /\ built' \in [PageMessage -> [chat : AnyChat, contact : {"push", "saved"},
                                    media : {"none", "data", "omitted"}, quoted : BOOLEAN]]
    BY <2>1, <2>2, <1>t
  <2>4. /\ raw'[m] = r /\ later'[m] = Later /\ built'[m].chat = ChatOf(r)
        /\ built'[m].media = "none"
    BY <2>1, <1>t, <1>i DEF BuiltAsFar
  <2>5. \A k \in EventKind : Times(k, m) = 0
    BY <2>1, <1>i DEF ToldAsFar, EventKind
  <2>6. CASE OnMessageCreate(m, r)
    <3>1. FromMe(r) /\ inJob' = [inJob EXCEPT ![m] = "done"] /\ Tell("created", m, ChatOf(r))
      BY <2>6 DEF OnMessageCreate
    <3>2. /\ told' \in [Event -> Account]
          /\ \A l \in EventKind, n \in PageMessage :
              /\ l = "created" /\ n = m => Times(l, n)' = 1
              /\ ~(l = "created" /\ n = m) => told'[EventOf(l, n)] = told[EventOf(l, n)]
      BY <1>t, <2>2, <2>5, <3>1, Telling DEF EventKind
    <3>3. InboundTypeOK'
      BY <2>1, <2>3, <3>1, <3>2, <1>t DEF InboundTypeOK, Account, AnyChat
    <3>4. Times("created", m)' = 1 /\ \A k \in EventKind \ {"created"} : Times(k, m)' = 0
      BY <2>5, <3>2 DEF Times, EventOf, EventKind
    <3>5. inJob'[m] = "done"
      BY <3>1, <1>t
    <3>6. ToldAsFar(m)' /\ BuiltAsFar(m)'
      BY <2>4, <3>1, <3>4, <3>5 DEF ToldAsFar, BuiltAsFar, EventKind, Completing, Later
    <3> QED BY <2>1, <3>1, <3>2, <3>3, <3>6, <1>t, <1>o
  <2>7. CASE OnMessage(m, r)
    <3>1. ~FromMe(r) /\ inJob' = [inJob EXCEPT ![m] = "contact"] /\ UNCHANGED told
      BY <2>7 DEF OnMessage
    <3>2. InboundTypeOK'
      BY <2>1, <2>3, <3>1, <1>t DEF InboundTypeOK, Account, AnyChat
    <3>3. inJob'[m] = "contact" /\ \A k \in EventKind : Times(k, m)' = 0
      BY <2>5, <3>1, <1>t DEF Times
    <3>4. ToldAsFar(m)' /\ BuiltAsFar(m)'
      BY <2>4, <3>1, <3>3 DEF ToldAsFar, BuiltAsFar, EventKind, Completing, Later
    <3> QED BY <2>1, <3>1, <3>2, <3>4, <1>t, <1>o
  <2> QED BY <1>1, <2>6, <2>7 DEF Arrive
<1>2. ASSUME NEW m \in PageMessage, GetContact(m) PROVE InboundInv'
  <2>1. PICK c \in {"push", "saved"} : built' = [built EXCEPT ![m].contact = c]
    BY <1>2 DEF GetContact
  <2>2. inJob[m] = "contact" /\ inJob' = [inJob EXCEPT ![m] = "media"] /\ UNCHANGED <<inUp, raw, told, later>>
    BY <1>2 DEF GetContact
  <2>3. InboundTypeOK'
    BY <2>1, <2>2, <1>t DEF InboundTypeOK, Account, AnyChat
  <2>4. /\ inJob'[m] = "media" /\ built'[m].chat = built[m].chat /\ built'[m].media = built[m].media
        /\ \A k \in EventKind : Times(k, m)' = Times(k, m)
    BY <2>1, <2>2, <1>t DEF Times
  <2>6. raw'[m] = raw[m] /\ later'[m] = later[m] /\ told' = told /\ inJob[m] = "contact"
    BY <2>2
  <2>7. ToldAsFar(m)'
    BY <2>4, <2>6, <1>i, KindsOfLater DEF ToldAsFar
  <2>8. BuiltAsFar(m)'
    BY <2>4, <2>6, <1>i DEF BuiltAsFar, Completing
  <2>5. ToldAsFar(m)' /\ BuiltAsFar(m)'
    BY <2>7, <2>8
  <2> QED BY <2>1, <2>2, <2>3, <2>5, <1>t, <1>o
<1>3. ASSUME NEW m \in PageMessage, DownloadMedia(m) PROVE InboundInv'
  <2>1. PICK size \in {raw[m].media, "none"} : built' = [built EXCEPT ![m].media = Capped(size)]
    BY <1>3 DEF DownloadMedia
  <2>2. inJob[m] = "media" /\ inJob' = [inJob EXCEPT ![m] = "quote"] /\ UNCHANGED <<inUp, raw, told, later>>
    BY <1>3 DEF DownloadMedia
  <2>3. raw[m].media \in {"none", "small", "big"}
    BY <1>t DEF Raw
  <2>4. /\ Capped(size) \in {"none", "data", "omitted"}
        /\ Capped(size) = "data" => raw[m].media = "small"
        /\ Capped(size) = "omitted" => raw[m].media = "big"
    BY <2>3 DEF Capped
  <2>5. InboundTypeOK'
    BY <2>1, <2>2, <2>4, <1>t DEF InboundTypeOK, Account, AnyChat
  <2>6. /\ inJob'[m] = "quote" /\ built'[m].chat = built[m].chat /\ built'[m].media = Capped(size)
        /\ \A k \in EventKind : Times(k, m)' = Times(k, m)
    BY <2>1, <2>2, <1>t DEF Times
  <2>8. raw'[m] = raw[m] /\ later'[m] = later[m] /\ told' = told /\ inJob[m] = "media"
    BY <2>2
  <2>9. ToldAsFar(m)'
    BY <2>6, <2>8, <1>i, KindsOfLater DEF ToldAsFar
  <2>10. BuiltAsFar(m)'
    BY <2>4, <2>6, <2>8, <1>i DEF BuiltAsFar, Completing
  <2>7. ToldAsFar(m)' /\ BuiltAsFar(m)'
    BY <2>9, <2>10
  <2> QED BY <2>1, <2>2, <2>5, <2>7, <1>t, <1>o
<1>4. ASSUME NEW m \in PageMessage, GetQuoted(m) PROVE InboundInv'
  <2>1. PICK found \in BOOLEAN : built' = [built EXCEPT ![m].quoted = raw[m].quotes /\ found]
    BY <1>4 DEF GetQuoted
  <2>2. /\ inJob[m] = "quote" /\ inJob' = [inJob EXCEPT ![m] = "done"]
        /\ UNCHANGED <<inUp, raw, later>> /\ Tell("message", m, built[m].chat)
    BY <1>4 DEF GetQuoted, TellsAnyway
  <2> DEFINE q == raw[m].quotes /\ found
  <2>11. q \in BOOLEAN /\ built' = [built EXCEPT ![m].quoted = q]
    BY <2>1
  <2> HIDE DEF q
  <2>3. built' \in [PageMessage -> [chat : AnyChat, contact : {"push", "saved"},
                                 media : {"none", "data", "omitted"}, quoted : BOOLEAN]]
    BY <2>11, <1>t
  <2>4. Times("message", m) = 0 /\ built[m].chat \in AnyChat /\ ~FromMe(raw[m])
    BY <2>2, <1>i, <1>t DEF ToldAsFar, BuiltAsFar, Completing
  <2>5. /\ told' \in [Event -> Account]
        /\ \A l \in EventKind, n \in PageMessage :
            /\ l = "message" /\ n = m => Times(l, n)' = 1
            /\ ~(l = "message" /\ n = m) => told'[EventOf(l, n)] = told[EventOf(l, n)]
    BY <1>t, <2>2, <2>4, Telling DEF EventKind
  <2>6. InboundTypeOK'
    BY <2>2, <2>3, <2>5, <1>t DEF InboundTypeOK, Account, AnyChat
  <2>7. /\ inJob'[m] = "done" /\ built'[m].chat = built[m].chat /\ built'[m].media = built[m].media
        /\ Times("message", m)' = 1 /\ \A k \in EventKind \ {"message"} : Times(k, m)' = Times(k, m)
    BY <2>1, <2>2, <2>5, <1>t DEF Times, EventOf, EventKind
  <2>8. \A k \in Later : told'[EventOf(k, m)] = told[EventOf(k, m)]
    BY <2>5 DEF EventKind, Later
  <2>9. ToldAsFar(m)'
    BY <2>2, <2>4, <2>7, <2>8, <1>i DEF ToldAsFar, EventKind, Later
  <2>10. BuiltAsFar(m)'
    BY <2>2, <2>4, <2>7, <1>i DEF BuiltAsFar, Completing
  <2> QED BY <2>1, <2>2, <2>5, <2>6, <2>9, <2>10, <1>t, <1>o
<1>5. ASSUME NEW m \in PageMessage, NEW kind \in Later, Report(m, kind) PROVE InboundInv'
  <2> DEFINE chat == CASE kind = "ack" -> NoChat [] kind = "revoke" -> ChatOfRevoked(raw[m])
                       [] kind = "reaction" -> ChatOf(raw[m])
  <2>1. /\ kind \in later[m] /\ later' = [later EXCEPT ![m] = @ \ {kind}] /\ Tell(kind, m, chat)
        /\ UNCHANGED <<inUp, raw, inJob, built>>
    BY <1>5 DEF Report
  <2>2. chat \in AnyChat /\ (kind \in {"revoke", "reaction"} => chat = ChatOf(raw[m]))
    BY <1>t DEF AnyChat, ChatOf, ChatOfRevoked, FromMe, Raw, Later
  <2> HIDE DEF chat
  <2>3. Times(kind, m) = 0 /\ inJob[m] # "none"
    BY <2>1, <1>i DEF ToldAsFar, BuiltAsFar
  <2>4. /\ told' \in [Event -> Account]
        /\ \A l \in EventKind, n \in PageMessage :
            /\ l = kind /\ n = m => Times(l, n)' = 1 /\ told'[EventOf(l, n)].chat = chat
            /\ ~(l = kind /\ n = m) => told'[EventOf(l, n)] = told[EventOf(l, n)]
    <3>1. kind \in EventKind
      BY KindsOfLater
    <3> QED BY <1>t, <2>1, <2>2, <2>3, <3>1, Telling
  <2>5. InboundTypeOK'
    BY <2>1, <2>4, <1>t DEF InboundTypeOK, Account, AnyChat
  <2>6. Times(kind, m)' = 1 /\ \A k \in EventKind \ {kind} : Times(k, m)' = Times(k, m)
    BY <2>4 DEF Times, EventOf, EventKind
  <2>7. later'[m] = later[m] \ {kind} /\ inJob'[m] = inJob[m] /\ raw'[m] = raw[m] /\ built'[m] = built[m]
    BY <2>1, <1>t
  <2>8. told'[EventOf(kind, m)].chat = chat
        /\ \A k \in EventKind \ {kind} : told'[EventOf(k, m)] = told[EventOf(k, m)]
    BY <2>4 DEF EventKind
  <2>9. ToldAsFar(m)'
    BY <2>2, <2>3, <2>6, <2>7, <2>8, <1>i DEF ToldAsFar, EventKind, Later
  <2>10. BuiltAsFar(m)'
    BY <2>3, <2>7, <1>i DEF BuiltAsFar
  <2> QED BY <2>1, <2>4, <2>5, <2>9, <2>10, <1>t, <1>o
<1>6. CASE BrowserGone \/ UNCHANGED inboundVars
  <2>1. UNCHANGED <<raw, inJob, built, told, later>> /\ inUp' \in BOOLEAN
    BY <1>6, <1>t DEF BrowserGone, inboundVars
  <2>2. InboundTypeOK'
    BY <2>1, <1>t DEF InboundTypeOK
  <2>3. \A m \in PageMessage : ToldAsFar(m)' /\ BuiltAsFar(m)'
    BY <2>1, <1>i DEF ToldAsFar, BuiltAsFar, Times
  <2> QED BY <2>2, <2>3 DEF InboundInv
<1> QED BY <1>1, <1>2, <1>3, <1>4, <1>5, <1>6 DEF InboundNext

LEMMA InboundInvGives == InboundInv => ToldOnce
<1> SUFFICES ASSUME InboundInv, NEW m \in PageMessage, inJob[m] = "done"
             PROVE  /\ Times("message", m) + Times("created", m) = 1
                    /\ FromMe(raw[m]) <=> Times("created", m) = 1
                    /\ built[m].media = "data" => raw[m].media = "small"
                    /\ built[m].media = "omitted" => raw[m].media = "big"
                    /\ \A kind \in {"revoke", "reaction"} : Times(kind, m) = 1 =>
                         told[[kind |-> kind, of |-> m]].chat = built[m].chat
  BY DEF ToldOnce
<1>1. ToldAsFar(m) /\ BuiltAsFar(m)
  BY DEF InboundInv
<1> QED BY <1>1 DEF ToldAsFar, BuiltAsFar, EventOf, Later

\* A message of the page is told once, as what it is and in its chat, for any number of
\* messages and conversations, whatever overtakes it and whatever fails on the way.
THEOREM MessagesAreToldOnce == InboundSpec => []ToldOnce
BY InboundStarts, InboundKeeps, InboundInvGives, PTL DEF InboundSpec
=============================================================================
