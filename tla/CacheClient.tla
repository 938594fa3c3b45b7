----------------------------- MODULE CacheClient -----------------------------
(***************************************************************************)
(* src/src/common/cache/cache.service.ts: the Redis clients that are built *)
(* on first use, the calls that share one, and its end at shutdown.  Every *)
(* read and write first awaits isAvailable() and uses `this.redis!` after  *)
(* the await, while another call may be connecting.  A PING stays with the *)
(* client it was sent on: it waits while that client connects, and a       *)
(* client whose connect() rejected, and which is forgotten, goes on to     *)
(* retry and may still connect and answer.                                 *)
(***************************************************************************)
EXTENDS Naturals, FiniteSets

CONSTANTS
    CacheCall,     \* calls of the cache at one time
    CacheObject,   \* bound: the clients that are ever built
    NoClient,      \* null
    CacheAttempts  \* maxConnectionAttempts (5 in the code)

ASSUME CacheAssumption == CacheAttempts \in Nat /\ NoClient \notin CacheObject

VARIABLES
    cacheClient,      \* this.redis
    cacheWire,        \* client -> "unbuilt", "connecting", "ready", "ended"
    cacheRefused,     \* history: the clients whose connect() rejected
    cacheConnecting,  \* this.connecting
    cacheAttempts,    \* connectionAttempts
    cacheCall,        \* Call -> its step in isAvailable() and after it, and the client it waits for
    cacheClosed,      \* onModuleDestroy: "no", "quitting", "yes"
    cacheQuits        \* the client it quits

cacheClients == <<cacheClient, cacheWire, cacheRefused, cacheConnecting>>
cacheEnd == <<cacheClosed, cacheQuits>>
cacheVars == <<cacheClients, cacheAttempts, cacheCall, cacheEnd>>

CacheSteps == {"idle", "connects", "asks", "pings", "available", "unavailable", "broken"}

CacheTypeOK ==
    /\ cacheClient \in CacheObject \cup {NoClient} /\ cacheQuits \in CacheObject \cup {NoClient}
    /\ cacheWire \in [CacheObject -> {"unbuilt", "connecting", "ready", "ended"}]
    /\ cacheRefused \subseteq CacheObject
    /\ cacheConnecting \in BOOLEAN /\ cacheAttempts \in 0 .. CacheAttempts
    /\ cacheCall \in [CacheCall -> [at : CacheSteps, of : CacheObject \cup {NoClient}]]
    /\ cacheClosed \in {"no", "quitting", "yes"}

CacheInit ==
    /\ cacheClient = NoClient /\ cacheWire = [k \in CacheObject |-> "unbuilt"] /\ cacheRefused = {}
    /\ cacheConnecting = FALSE /\ cacheAttempts = 0
    /\ cacheCall = [c \in CacheCall |-> [at |-> "idle", of |-> NoClient]]
    /\ cacheClosed = "no" /\ cacheQuits = NoClient

CacheGoes(c, step, k) == cacheCall' = [cacheCall EXCEPT ![c] = [at |-> step, of |-> k]]

\* ping(): false without a client; otherwise a command on the client of the moment.
AsksClient(c) ==
    IF cacheClient = NoClient THEN CacheGoes(c, "unavailable", NoClient) ELSE CacheGoes(c, "pings", cacheClient)

\* isAvailable(): without a client, and with attempts left, tryConnect(); a call that
\* finds one, connected or not, goes on to the ping.
BeginCacheCall(c) ==
    /\ cacheCall[c].at = "idle"
    /\ IF cacheClient = NoClient /\ cacheAttempts < CacheAttempts /\ cacheConnecting = FALSE
       THEN \E k \in CacheObject :
              /\ cacheWire[k] = "unbuilt" /\ cacheWire' = [cacheWire EXCEPT ![k] = "connecting"]
              /\ cacheClient' = k /\ cacheConnecting' = TRUE /\ cacheAttempts' = cacheAttempts + 1
              /\ CacheGoes(c, "connects", k)
       ELSE AsksClient(c) /\ UNCHANGED <<cacheClient, cacheWire, cacheConnecting, cacheAttempts>>
    /\ UNCHANGED <<cacheRefused, cacheEnd>>

\* redis.connect() resolves.
RedisConnects(c) ==
    /\ cacheCall[c].at = "connects" /\ cacheWire[cacheCall[c].of] = "connecting"
    /\ cacheWire' = [cacheWire EXCEPT ![cacheCall[c].of] = "ready"]
    /\ cacheConnecting' = FALSE /\ cacheAttempts' = 0
    /\ CacheGoes(c, "asks", NoClient)
    /\ UNCHANGED <<cacheClient, cacheRefused, cacheEnd>>

\* It rejects at the first close: the client is forgotten, and goes on to retry.
RedisRefuses(c) ==
    /\ cacheCall[c].at = "connects"
    /\ cacheClient' = NoClient /\ cacheConnecting' = FALSE
    /\ cacheRefused' = cacheRefused \cup {cacheCall[c].of}
    /\ CacheGoes(c, "asks", NoClient)
    /\ UNCHANGED <<cacheWire, cacheAttempts, cacheEnd>>

\* Whoever has awaited tryConnect() pings.
Pings(c) ==
    /\ cacheCall[c].at = "asks"
    /\ AsksClient(c)
    /\ UNCHANGED <<cacheClients, cacheAttempts, cacheEnd>>

PingAnswered(c) ==
    /\ cacheCall[c].at = "pings" /\ cacheWire[cacheCall[c].of] = "ready"
    /\ CacheGoes(c, "available", cacheCall[c].of)
    /\ UNCHANGED <<cacheClients, cacheAttempts, cacheEnd>>

\* As a plausible change: a ping that fails forgets the client, so that the
\* next call connects anew.
ClientAfterFailedPingForgotten == NoClient

\* What a failed ping leaves of the client.
ClientAfterFailedPing == cacheClient

PingFails(c) ==
    /\ cacheCall[c].at = "pings"
    /\ cacheClient' = ClientAfterFailedPing
    /\ CacheGoes(c, "unavailable", NoClient)
    /\ UNCHANGED <<cacheWire, cacheRefused, cacheConnecting, cacheAttempts, cacheEnd>>

\* this.redis!.get / setex, under a try: the client of the moment, whichever answered
\* the ping; without one it is a TypeError.
UseClient(c) ==
    /\ cacheCall[c].at = "available"
    /\ IF cacheClient = NoClient THEN CacheGoes(c, "broken", cacheCall[c].of) ELSE CacheGoes(c, "idle", NoClient)
    /\ UNCHANGED <<cacheClients, cacheAttempts, cacheEnd>>

\* A miss, the caught TypeError too: the caller goes on without the cache.
SkipCache(c) ==
    /\ cacheCall[c].at \in {"unavailable", "broken"}
    /\ CacheGoes(c, "idle", NoClient)
    /\ UNCHANGED <<cacheClients, cacheAttempts, cacheEnd>>

\* A connection drops and comes back, which is a forgotten client's first; after the
\* third retry the client ends, and no call makes another one for it.  The event
\* 'connect', which comes before the client is ready, resets the attempts.
Connects(k) == cacheConnecting = TRUE /\ cacheClient = k
RedisDrops(k) ==
    /\ cacheWire[k] = "ready"
    /\ cacheWire' = [cacheWire EXCEPT ![k] = "connecting"]
    /\ UNCHANGED <<cacheClient, cacheRefused, cacheConnecting, cacheAttempts, cacheCall, cacheEnd>>
RedisGreets(k) ==
    /\ cacheWire[k] = "connecting" /\ cacheAttempts' = 0
    /\ UNCHANGED <<cacheClients, cacheCall, cacheEnd>>
RedisReturns(k) ==
    /\ cacheWire[k] = "connecting" /\ ~Connects(k)
    /\ cacheWire' = [cacheWire EXCEPT ![k] = "ready"] /\ cacheAttempts' = 0
    /\ UNCHANGED <<cacheClient, cacheRefused, cacheConnecting, cacheCall, cacheEnd>>
ClientGivesUp(k) ==
    /\ cacheWire[k] = "connecting" /\ ~Connects(k)
    /\ cacheWire' = [cacheWire EXCEPT ![k] = "ended"]
    /\ UNCHANGED <<cacheClient, cacheRefused, cacheConnecting, cacheAttempts, cacheCall, cacheEnd>>

\* onModuleDestroy(): QUIT on the client of the moment, or the deadline that disconnects
\* it by force.  Calls may still come.
QuitCache ==
    /\ cacheClosed = "no"
    /\ cacheClosed' = (IF cacheClient = NoClient THEN "yes" ELSE "quitting") /\ cacheQuits' = cacheClient
    /\ UNCHANGED <<cacheClients, cacheAttempts, cacheCall>>
CacheQuitDone ==
    /\ cacheClosed = "quitting"
    /\ cacheClosed' = "yes" /\ cacheWire' = [cacheWire EXCEPT ![cacheQuits] = "ended"]
    /\ UNCHANGED <<cacheClient, cacheRefused, cacheConnecting, cacheAttempts, cacheCall, cacheQuits>>

CacheNext ==
    \/ \E c \in CacheCall : \/ BeginCacheCall(c) \/ RedisConnects(c) \/ RedisRefuses(c) \/ Pings(c)
                            \/ PingAnswered(c) \/ PingFails(c) \/ UseClient(c) \/ SkipCache(c)
    \/ \E k \in CacheObject : RedisDrops(k) \/ RedisGreets(k) \/ RedisReturns(k) \/ ClientGivesUp(k)
    \/ QuitCache \/ CacheQuitDone

CacheSpec == CacheInit /\ [][CacheNext]_cacheVars

-----------------------------------------------------------------------------
(* Properties.                                                             *)

\* Only a client whose connect() rejected is ever lost: a call that waits for a PING, has
\* its answer, or failed for want of a client either pinged the client that is still
\* there or one that was refused; a connection that is open or retried is this.redis or
\* such a one; and while one call connects no other does.
ClientIsThere ==
    /\ \A c \in CacheCall : cacheCall[c].at \in {"pings", "available", "broken"} =>
          cacheCall[c].of \in cacheRefused \cup ({cacheClient} \ {NoClient})
    /\ \A k \in CacheObject : cacheWire[k] \in {"connecting", "ready"} => k \in cacheRefused \cup {cacheClient}
    /\ Cardinality({c \in CacheCall : cacheCall[c].at = "connects"}) <= 1
=============================================================================
