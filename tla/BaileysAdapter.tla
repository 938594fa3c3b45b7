---------------------------- MODULE BaileysAdapter ----------------------------
(***************************************************************************)
(* One BaileysAdapter: its socket, its own reconnects with backoff, and    *)
(* the calls that end it.  The library is external: a socket reports       *)
(* "connecting", QR codes and "open" in this order and "close" once, the   *)
(* last thing it does; end() makes it report "close" before it returns.    *)
(***************************************************************************)
EXTENDS EngineStates, Naturals

CONSTANTS
  Sock,           \* socket objects; one that is closed and dropped is used again
  NoSock,
  MaxReconnects,  \* MAX_RECONNECT_ATTEMPTS
  LateQr          \* TRUE: other events may overtake the rendering of a QR code

ASSUME BaileysAssumption == NoSock \notin Sock /\ MaxReconnects \in Nat

VARIABLES
  bStatus,     \* this.status
  began,       \* initialize() was called
  closing,     \* intentionalClose
  connecting,  \* connectInner() awaits the library, the credentials, the version
  attempts,    \* reconnectAttempts
  timer,       \* reconnectTimer # undefined
  sock,        \* this.sock
  live,        \* the sockets that have not closed, with what they last reported
  rendering,   \* handleQrCode() awaits the picture
  leaving      \* logout() awaits the server

baileysVars == <<bStatus, began, closing, connecting, attempts, timer, sock, live, rendering, leaving>>

SockAt == {"closed", "new", "open"}

BaileysTypeOK ==
  /\ bStatus \in EngineStatus
  /\ attempts \in 0..MaxReconnects
  /\ sock \in Sock \cup {NoSock}
  /\ live \in [Sock -> SockAt]
  /\ {began, closing, connecting, timer, rendering, leaving} \subseteq BOOLEAN

Live == {s \in Sock : live[s] # "closed"}
Ended(s) == [live EXCEPT ![s] = "closed"]
AllEnded == IF sock = NoSock THEN live ELSE Ended(sock)

BaileysInit ==
  /\ bStatus = "disconnected"
  /\ began = FALSE /\ closing = FALSE /\ connecting = FALSE
  /\ timer = FALSE /\ rendering = FALSE /\ leaving = FALSE
  /\ attempts = 0
  /\ sock = NoSock
  /\ live = [s \in Sock |-> "closed"]

\* A few milliseconds pass until a code is rendered.
Undisturbed == rendering => LateQr

-----------------------------------------------------------------------------
(* initialize(), connect() and connectInner().                              *)

\* One connect() at a time: another returns at once.
Connect ==
  /\ connecting' = TRUE
  /\ bStatus' = IF connecting THEN bStatus ELSE "initializing"

\* SessionService calls it once for each adapter object.
Initialize ==
  /\ ~began
  /\ began' = TRUE /\ closing' = FALSE
  /\ Connect
  /\ UNCHANGED <<attempts, timer, sock, live, rendering, leaving>>

\* Mutant of Connected: the adapter is not asked again after the awaits.
ConnectedUnchecked ==
  /\ Undisturbed
  /\ connecting /\ connecting' = FALSE
  /\ \E s \in Sock \ (Live \cup {sock}) :
       /\ sock' = s
       /\ live' = [AllEnded EXCEPT ![s] = "new"]
  /\ UNCHANGED <<bStatus, began, closing, attempts, timer, rendering, leaving>>

\* The awaits are over.  Stopped meanwhile, no socket is made; else the previous
\* one is silenced and ended, and the new one listened to.
Connected ==
  /\ Undisturbed
  /\ connecting /\ connecting' = FALSE
  /\ IF closing
     THEN UNCHANGED <<sock, live>>
     ELSE \E s \in Sock \ (Live \cup {sock}) :
            /\ sock' = s
            /\ live' = [AllEnded EXCEPT ![s] = "new"]
  /\ UNCHANGED <<bStatus, began, closing, attempts, timer, rendering, leaving>>

\* One of the awaits rejects: FAILED and onError, in initialize() and in the timer.
ConnectFails ==
  /\ Undisturbed
  /\ connecting /\ connecting' = FALSE
  /\ bStatus' = "failed"
  /\ UNCHANGED <<began, closing, attempts, timer, sock, live, rendering, leaving>>

-----------------------------------------------------------------------------
(* handleConnectionUpdate().                                                *)

Reports == Undisturbed /\ sock # NoSock /\ live[sock] # "closed"

\* The code is rendered in the background.
QrCode ==
  /\ Reports /\ live[sock] = "new"
  /\ rendering' = TRUE
  /\ UNCHANGED <<bStatus, began, closing, connecting, attempts, timer, sock, live, leaving>>

\* handleQrCode() after its await; an error is logged.
Rendered ==
  /\ rendering /\ rendering' = FALSE
  /\ bStatus' \in {"linking", bStatus}
  /\ UNCHANGED <<began, closing, connecting, attempts, timer, sock, live, leaving>>

Connecting ==
  /\ Reports /\ live[sock] = "new"
  /\ bStatus' = "initializing"
  /\ UNCHANGED <<began, closing, connecting, attempts, timer, sock, live, rendering, leaving>>

Opened ==
  /\ Reports /\ live[sock] = "new"
  /\ live' = [live EXCEPT ![sock] = "open"]
  /\ attempts' = 0
  /\ bStatus' = "ready"
  /\ UNCHANGED <<began, closing, connecting, timer, sock, rendering, leaving>>

\* Mutant of Dropped: out of attempts, it just waits.
DroppedSilently ==
  /\ bStatus' = bStatus
  /\ attempts' = IF attempts >= MaxReconnects THEN attempts ELSE attempts + 1
  /\ timer' = (timer \/ attempts < MaxReconnects)

\* A drop that may be repaired: a timer for the next attempt, or FAILED.  The
\* status stays what it was until the timer fires.
Dropped ==
  IF attempts >= MaxReconnects
  THEN bStatus' = "failed" /\ UNCHANGED <<attempts, timer>>
  ELSE attempts' = attempts + 1 /\ timer' = TRUE /\ UNCHANGED bStatus

\* Mutant of Closed: a close that was asked for is taken for a drop.
ClosedAnyway(loggedOut) ==
  IF loggedOut THEN bStatus' = "disconnected" /\ UNCHANGED <<attempts, timer>> ELSE Dropped

\* "close": asked for, logged out, or a drop.
Closed(loggedOut) ==
  IF closing \/ loggedOut
  THEN bStatus' = "disconnected" /\ UNCHANGED <<attempts, timer>>
  ELSE Dropped

SocketCloses(loggedOut) ==
  /\ Reports
  /\ live' = Ended(sock)
  /\ Closed(loggedOut)
  /\ UNCHANGED <<began, closing, connecting, sock, rendering, leaving>>

TimerFires ==
  /\ Undisturbed
  /\ timer /\ timer' = FALSE
  /\ IF closing THEN UNCHANGED <<connecting, bStatus>> ELSE Connect
  /\ UNCHANGED <<began, closing, attempts, sock, live, rendering, leaving>>

-----------------------------------------------------------------------------
(* The calls that end it.                                                   *)

\* Mutant of Silenced: the timer is left armed.
SilencedExceptTimer == closing' = TRUE /\ UNCHANGED timer

Silenced == closing' = TRUE /\ timer' = FALSE

\* disconnect(), destroy() and forceDestroy(): the socket is ended, and dropped.
Disconnect ==
  /\ Undisturbed
  /\ Silenced
  /\ live' = AllEnded
  /\ sock' = NoSock
  /\ bStatus' = "disconnected"
  /\ UNCHANGED <<began, connecting, attempts, rendering, leaving>>

Logout ==
  /\ Undisturbed
  /\ ~leaving
  /\ Silenced
  /\ leaving' = (sock # NoSock)
  /\ bStatus' = IF sock = NoSock THEN "disconnected" ELSE bStatus
  /\ UNCHANGED <<began, connecting, attempts, sock, live, rendering>>

\* The server has answered and the library closed the socket, or it failed and
\* the adapter ends it.
LogoutEnds ==
  /\ Undisturbed
  /\ leaving /\ leaving' = FALSE
  /\ live' = AllEnded
  /\ sock' = NoSock
  /\ bStatus' = "disconnected"
  /\ UNCHANGED <<began, closing, connecting, attempts, timer, rendering>>

-----------------------------------------------------------------------------
BaileysNext ==
  \/ Initialize \/ Connected \/ ConnectFails
  \/ QrCode \/ Rendered \/ Connecting \/ Opened
  \/ \E loggedOut \in BOOLEAN : SocketCloses(loggedOut)
  \/ TimerFires
  \/ Disconnect \/ Logout \/ LogoutEnds

BaileysSpec == BaileysInit /\ [][BaileysNext]_baileysVars

\* Torn down, but for a logout() that waits for the server.
Ending == closing /\ (leaving => sock = NoSock)

\* Every socket that is still open is the adapter's, none is once it was told to
\* stop, and no drop is forgotten: an adapter that shows neither DISCONNECTED nor
\* FAILED has a socket, a timer or a connect() under way.
SocketsAccounted ==
  /\ Live \subseteq {sock}
  /\ Ending => Live = {} /\ ~timer
  /\ began /\ ~closing /\ bStatus \notin {"disconnected", "failed"} =>
       Live # {} \/ timer \/ connecting

\* A disconnect() before initialize() is forgotten by it.
BaileysEngine == INSTANCE EngineContract WITH
  phase <- IF ~began THEN "new" ELSE IF Ending THEN "dead" ELSE "live",
  st <- bStatus

\* An adapter is an engine as SessionLifecycle assumes it.
BaileysIsEngine == BaileysEngine!Spec
=============================================================================
