----------------------------- MODULE EventStream -----------------------------
(***************************************************************************)
(* One page of the dashboard and its event socket:                         *)
(*   - src/src/modules/events/events.gateway.ts, the server's side: it     *)
(*     validates the key after the socket is accepted and once more, across *)
(*     an await, on every subscribe; unsubscribe is synchronous;           *)
(*   - src/dashboard/src/hooks/useWebSocket.ts, the browser's side: the    *)
(*     socket, its retries and the two flags the page shows;               *)
(*   - the subscribing effects of pages/Chats.tsx (the selected session,   *)
(*     left when another is selected) and pages/Sessions.tsx (all of them). *)
(* One subscribe names all the event types of its page, so a room stands   *)
(* for the rooms of one session, "*" for those of every session.           *)
(***************************************************************************)
EXTENDS Naturals, Sequences, FiniteSets, SequencesExt

CONSTANTS
    PageSession,     \* the sessions a page may select
    NoSelection,     \* nothing is selected yet
    SocketAttempts,  \* reconnectionAttempts (5 in the code)
    MaxQueue,        \* bound: messages of the page not yet handled by the server
    MaxChecks        \* bound: key checks in flight for one room

ASSUME StreamAssumption ==
    /\ "*" \notin PageSession /\ NoSelection \notin PageSession
    /\ SocketAttempts \in Nat \ {0} /\ MaxQueue \in Nat /\ MaxChecks \in Nat

Room == PageSession \cup {"*"}

VARIABLES
    wsPage,            \* the page that holds the socket: "Chats" or "Sessions"
    keyScope,          \* the sessions the key may read; all of them: unrestricted
    keyValid,          \* whether validateApiKey() still accepts the key
    wsLink,            \* the browser's socket: "up", "retrying", "down", "left"
    wsTries,           \* attempts left before reconnect_failed
    connectionFailed,  \* connectionFailed, the banner with the retry button
    selectedSession,   \* selectedSessionId
    wsOpen,            \* the server's end of the socket is connected
    wsKnown,           \* client.data.rawApiKey is set
    toServer,          \* messages of the page on their way, in order
    wsChecking,        \* per room: subscribes awaiting validateApiKey()
    wsRooms            \* the rooms the server's socket has joined

streamVars == <<wsPage, keyScope, keyValid, wsLink, wsTries, connectionFailed, selectedSession,
  wsOpen, wsKnown, toServer, wsChecking, wsRooms>>
browser == <<wsLink, wsTries, connectionFailed, selectedSession>>
server == <<wsOpen, wsKnown, wsChecking, wsRooms>>
setting == <<wsPage, keyScope>>

StreamTypeOK ==
    /\ wsPage \in {"Chats", "Sessions"} /\ keyScope \in SUBSET PageSession /\ keyValid \in BOOLEAN
    /\ wsLink \in {"up", "retrying", "down", "left"} /\ wsTries \in 0 .. SocketAttempts
    /\ connectionFailed \in BOOLEAN /\ selectedSession \in PageSession \cup {NoSelection}
    /\ wsOpen \in BOOLEAN /\ wsKnown \in BOOLEAN
    /\ toServer \in Seq([kind : {"subscribe", "unsubscribe"}, room : Room])
    /\ wsChecking \in [Room -> Nat] /\ wsRooms \in SUBSET Room

\* The room the page's effect subscribes to, if any.
Wanted == CASE wsPage = "Sessions" -> {"*"}
            [] wsPage = "Chats" /\ selectedSession # NoSelection -> {selectedSession}
            [] OTHER -> {}

\* isSessionSubscriptionAllowed(): a restricted key may not read "*".
Allowed(r) == keyScope = PageSession \/ r \in keyScope

Sends(kind, rs) == [i \in 1 .. Cardinality(rs) |-> [kind |-> kind, room |-> SetToSeq(rs)[i]]]

NoChecks == [r \in Room |-> 0]

StreamInit ==
    /\ wsPage \in {"Chats", "Sessions"} /\ keyScope \in (SUBSET PageSession) \ {{}} /\ keyValid \in BOOLEAN
    /\ wsLink = "retrying" /\ wsTries = SocketAttempts /\ connectionFailed = FALSE
    /\ selectedSession = NoSelection
    /\ wsOpen = FALSE /\ wsKnown = FALSE
    /\ toServer = <<>> /\ wsChecking = NoChecks /\ wsRooms = {}

-----------------------------------------------------------------------------
(* The browser.                                                            *)

\* As a plausible change: the effect does not depend on isConnected.
GreetingForgotten == <<>>

\* What is sent when the socket comes up: the effect depends on isConnected.
Greeting == Sends("subscribe", Wanted)

\* 'connect': the flags are set, the effect subscribes; the gateway's
\* handleConnection() starts to validate the key on the other side.
SocketConnected ==
    /\ wsLink = "retrying"
    /\ wsLink' = "up" /\ connectionFailed' = FALSE /\ wsTries' = SocketAttempts
    /\ wsOpen' = TRUE /\ wsKnown' = FALSE /\ wsChecking' = NoChecks /\ wsRooms' = {}
    /\ toServer' = Greeting
    /\ UNCHANGED <<setting, keyValid, selectedSession>>

\* An attempt fails; after the last one 'reconnect_failed' sets the banner.
AttemptFails ==
    /\ wsLink = "retrying" /\ wsTries > 0
    /\ wsTries' = wsTries - 1
    /\ IF wsTries = 1 THEN wsLink' = "down" /\ connectionFailed' = TRUE
                      ELSE UNCHANGED <<wsLink, connectionFailed>>
    /\ UNCHANGED <<setting, keyValid, selectedSession, server, toServer>>

\* The transport drops: socket.io retries by itself; the rooms are gone.
TransportDrops ==
    /\ wsLink = "up" /\ wsOpen = TRUE
    /\ wsLink' = "retrying" /\ wsTries' = SocketAttempts
    /\ wsOpen' = FALSE /\ wsRooms' = {} /\ wsChecking' = NoChecks /\ wsKnown' = FALSE
    /\ toServer' = <<>>
    /\ UNCHANGED <<setting, keyValid, connectionFailed, selectedSession>>

\* The server's disconnect packet arrives: 'disconnect' resets isConnected;
\* socket.io does not retry after a disconnect the server asked for.
ToldToGo ==
    /\ wsLink = "up" /\ wsOpen = FALSE
    /\ wsLink' = "down" /\ toServer' = <<>>
    /\ UNCHANGED <<setting, keyValid, wsTries, connectionFailed, selectedSession, server>>

\* The retry button, which Chats.tsx draws while connectionFailed.
Reconnect ==
    /\ wsPage = "Chats" /\ wsLink = "down" /\ connectionFailed = TRUE
    /\ wsLink' = "retrying" /\ wsTries' = SocketAttempts /\ connectionFailed' = FALSE
    /\ UNCHANGED <<setting, keyValid, selectedSession, server, toServer>>

\* The user selects a session: the effect's cleanup unsubscribes the old one,
\* the effect subscribes the new one, if the socket is connected.
Select(s) ==
    /\ wsPage = "Chats" /\ wsLink # "left" /\ s # selectedSession
    /\ Len(toServer) + 2 <= MaxQueue
    /\ selectedSession' = s
    /\ toServer' = IF wsLink = "up"
                   THEN toServer \o Sends("unsubscribe", Wanted) \o Sends("subscribe", {s})
                   ELSE toServer
    /\ UNCHANGED <<setting, keyValid, wsLink, wsTries, connectionFailed, server>>

\* The page is left: the effect's cleanup disconnects.
Leave ==
    /\ wsLink # "left"
    /\ wsLink' = "left" /\ wsOpen' = FALSE /\ wsKnown' = FALSE /\ wsRooms' = {} /\ wsChecking' = NoChecks
    /\ toServer' = <<>>
    /\ UNCHANGED <<setting, keyValid, wsTries, connectionFailed, selectedSession>>

-----------------------------------------------------------------------------
(* The gateway.                                                            *)

\* client.disconnect(): handlers still waiting find a socket that is gone.
Cut == wsOpen' = FALSE /\ wsKnown' = FALSE /\ wsRooms' = {} /\ wsChecking' = NoChecks

\* handleConnection() hears from validateApiKey().
Greeted ==
    /\ wsOpen = TRUE /\ wsKnown = FALSE
    /\ IF keyValid THEN wsKnown' = TRUE /\ UNCHANGED <<wsOpen, wsChecking, wsRooms>> ELSE Cut
    /\ UNCHANGED <<setting, keyValid, browser, toServer>>

\* handleSubscribe() up to its await: without a validated key it disconnects.
TakeSubscribe ==
    /\ wsOpen = TRUE /\ toServer # <<>> /\ Head(toServer).kind = "subscribe"
    /\ wsChecking[Head(toServer).room] < MaxChecks
    /\ toServer' = Tail(toServer)
    /\ IF wsKnown
       THEN /\ wsChecking' = [wsChecking EXCEPT ![Head(toServer).room] = @ + 1]
            /\ UNCHANGED <<wsOpen, wsKnown, wsRooms>>
       ELSE Cut
    /\ UNCHANGED <<setting, keyValid, browser>>

\* The rooms handleUnsubscribe() leaves.
RoomsLeft(r) == IF r = "*" THEN Room ELSE {r}

TakeUnsubscribe ==
    /\ wsOpen = TRUE /\ toServer # <<>> /\ Head(toServer).kind = "unsubscribe"
    /\ toServer' = Tail(toServer)
    /\ wsRooms' = wsRooms \ RoomsLeft(Head(toServer).room)
    /\ UNCHANGED <<setting, keyValid, browser, wsOpen, wsKnown, wsChecking>>

\* handleSubscribe() after its await: the key as it is now decides.
Checked(r) ==
    /\ wsOpen = TRUE /\ wsChecking[r] > 0
    /\ IF keyValid
       THEN /\ wsChecking' = [wsChecking EXCEPT ![r] = @ - 1]
            /\ wsRooms' = IF Allowed(r) THEN wsRooms \cup {r} ELSE wsRooms
            /\ UNCHANGED <<wsOpen, wsKnown>>
       ELSE Cut
    /\ UNCHANGED <<setting, keyValid, browser, toServer>>

\* The key is revoked or expires.
Revoke ==
    /\ keyValid /\ keyValid' = FALSE
    /\ UNCHANGED <<setting, browser, server, toServer>>

\* emitToRooms(): the copies of an event of session s this socket is sent.
Copies(s) == Cardinality(wsRooms \cap {s, "*"})

StreamNext ==
    \/ SocketConnected \/ AttemptFails \/ TransportDrops \/ ToldToGo \/ Reconnect \/ Leave
    \/ \E s \in PageSession : Select(s)
    \/ Greeted \/ TakeSubscribe \/ TakeUnsubscribe \/ Revoke
    \/ \E r \in Room : Checked(r)

StreamSpec == StreamInit /\ [][StreamNext]_streamVars

-----------------------------------------------------------------------------
(* Properties.                                                             *)

Settled == wsLink = "up" /\ wsOpen = TRUE /\ wsKnown = TRUE /\ toServer = <<>> /\ wsChecking = NoChecks

\* Whatever the order in which subscribes, unsubscribes, key checks and
\* reconnections interleave, once nothing is in flight the page is sent every
\* event of the session it shows, once.
SettledIsSubscribed ==
    Settled => \A r \in Wanted : Allowed(r) =>
        \A s \in PageSession : r \in {s, "*"} => Copies(s) = 1

\* The comment on connectionFailed in useWebSocket.ts: a page whose socket has
\* given up says so instead of silently going stale. The code does not hold it:
\* a subscribe handled before the key check of the connection has finished is
\* answered with a disconnect, after which socket.io does not retry.
NeverSilentlyStale == wsLink = "down" /\ keyValid = TRUE => connectionFailed = TRUE
=============================================================================
