------------------------------- MODULE Access -------------------------------
(***************************************************************************)
(* src/src/modules/auth: one API key.  Requests validate it and count      *)
(* their use, the count is written at most once per window, and an         *)
(* administrator updates, revokes or deletes the key meanwhile.  A save    *)
(* writes the whole entity as it was read before the await, and inserts it *)
(* when the row is gone.                                                   *)
(***************************************************************************)
EXTENDS Naturals

CONSTANTS
    Request, \* requests in validateApiKey() at one time
    Admin,   \* administrative calls at one time
    MaxUses, \* bound on the requests that are accepted
    MaxTime  \* bound on the clock; one unit is STAT_FLUSH_INTERVAL_MS

ASSUME KeyAssumption == MaxUses \in Nat /\ MaxTime \in Nat \ {0}

VARIABLES
    keyRow,       \* [there, active, config, stamp, uses] in the main database
    pendingUsage, \* pendingUsage of the key
    request,      \* Request -> [at, copy]
    admin,        \* Admin -> [at, op, copy]
    keyClock,     \* in windows
    accepted      \* history: validations that passed every check

keyVars == <<keyRow, pendingUsage, request, admin, keyClock, accepted>>

\* lastUsedAt is 0 for a key that was never used.
KeyRow == [there : BOOLEAN, active : BOOLEAN, config : {"first", "second"},
           stamp : 0 .. MaxTime, uses : 0 .. MaxUses]
NewKey == [there |-> TRUE, active |-> TRUE, config |-> "first", stamp |-> 0, uses |-> 0]
Ops == {"update", "revoke", "delete"}

KeyTypeOK ==
    /\ keyRow \in KeyRow /\ pendingUsage \in 0 .. MaxUses
    /\ request \in [Request -> [at : {"idle", "checks", "saves"}, copy : KeyRow]]
    /\ admin \in [Admin -> [at : {"idle", "changes", "saves"}, op : Ops, copy : KeyRow]]
    /\ keyClock \in 1 .. MaxTime /\ accepted \in 0 .. MaxUses

\* The key that onModuleInit() seeds, or that createApiKey() saved.
KeyInit ==
    /\ keyRow = NewKey /\ pendingUsage = 0 /\ keyClock = 1 /\ accepted = 0
    /\ request = [r \in Request |-> [at |-> "idle", copy |-> NewKey]]
    /\ admin = [a \in Admin |-> [at |-> "idle", op |-> "update", copy |-> NewKey]]

WindowPasses ==
    /\ keyClock < MaxTime /\ keyClock' = keyClock + 1
    /\ UNCHANGED <<keyRow, pendingUsage, request, admin, accepted>>

\* findOne({ keyHash }); the checks follow once it resolves.
Finds(r) ==
    /\ request[r].at = "idle" /\ keyRow.there /\ accepted < MaxUses
    /\ request' = [request EXCEPT ![r] = [at |-> "checks", copy |-> keyRow]]
    /\ UNCHANGED <<keyRow, pendingUsage, admin, keyClock, accepted>>

\* A revoked or expired key, an address or a session that is not listed.
Refused(r) ==
    /\ request[r].at = "checks"
    /\ request' = [request EXCEPT ![r].at = "idle"]
    /\ UNCHANGED <<keyRow, pendingUsage, admin, keyClock, accepted>>

CountedClearedLate(r) ==
    LET copy == request[r].copy
        used == [copy EXCEPT !.stamp = keyClock, !.uses = @ + pendingUsage + 1]
        due  == keyClock > copy.stamp
    IN /\ pendingUsage' = pendingUsage + 1
       /\ request' = [request EXCEPT ![r] = [at |-> IF due THEN "saves" ELSE "idle", copy |-> used]]

\* The use joins those that wait; when the window is over they are taken out
\* of the map before the save is awaited.
Counted(r) ==
    LET copy == request[r].copy
        used == [copy EXCEPT !.stamp = keyClock, !.uses = @ + pendingUsage + 1]
        due  == keyClock > copy.stamp
    IN /\ pendingUsage' = IF due THEN 0 ELSE pendingUsage + 1
       /\ request' = [request EXCEPT ![r] = [at |-> IF due THEN "saves" ELSE "idle", copy |-> used]]

Accepts(r) ==
    /\ request[r].at = "checks" /\ request[r].copy.active /\ accepted < MaxUses
    /\ Counted(r)
    /\ accepted' = accepted + 1
    /\ UNCHANGED <<keyRow, admin, keyClock>>

\* save(): the entity as this request knows it, whatever happened to the row.
Saves(r) ==
    /\ request[r].at = "saves"
    /\ keyRow' = request[r].copy
    /\ request' = [request EXCEPT ![r].at = "idle"]
    /\ UNCHANGED <<pendingUsage, admin, keyClock, accepted>>

SaveFails(r) ==
    /\ request[r].at = "saves"
    /\ request' = [request EXCEPT ![r].at = "idle"]
    /\ UNCHANGED <<keyRow, pendingUsage, admin, keyClock, accepted>>

\* update(), revoke() and delete() find the key first; a missing one is 404.
AdminFinds(a, op) ==
    /\ admin[a].at = "idle" /\ keyRow.there
    /\ admin' = [admin EXCEPT ![a] = [at |-> "changes", op |-> op, copy |-> keyRow]]
    /\ UNCHANGED <<keyRow, pendingUsage, request, keyClock, accepted>>

\* revoke() and delete() drop the uses that are not written yet.
AdminChanges(a) ==
    /\ admin[a].at = "changes"
    /\ pendingUsage' = IF admin[a].op = "update" THEN pendingUsage ELSE 0
    /\ admin' = [admin EXCEPT ![a].at = "saves",
            ![a].copy = CASE admin[a].op = "update" -> [@ EXCEPT !.config = "second"]
                          [] admin[a].op = "revoke" -> [@ EXCEPT !.active = FALSE]
                          [] admin[a].op = "delete" -> [@ EXCEPT !.there = FALSE]]
    /\ UNCHANGED <<keyRow, request, keyClock, accepted>>

AdminSaves(a) ==
    /\ admin[a].at = "saves"
    /\ keyRow' = admin[a].copy
    /\ admin' = [admin EXCEPT ![a].at = "idle"]
    /\ UNCHANGED <<pendingUsage, request, keyClock, accepted>>

\* The process ends: the uses that were not written are lost.
Restart ==
    /\ pendingUsage' = 0
    /\ request' = [r \in Request |-> [request[r] EXCEPT !.at = "idle"]]
    /\ admin' = [a \in Admin |-> [admin[a] EXCEPT !.at = "idle"]]
    /\ UNCHANGED <<keyRow, keyClock, accepted>>

KeyNext ==
    \/ WindowPasses \/ Restart
    \/ \E r \in Request : Finds(r) \/ Refused(r) \/ Accepts(r) \/ Saves(r) \/ SaveFails(r)
    \/ \E a \in Admin : AdminChanges(a) \/ AdminSaves(a) \/ \E op \in Ops : AdminFinds(a, op)

KeySpec == KeyInit /\ [][KeyNext]_keyVars

-----------------------------------------------------------------------------

\* However validations, flushes and administrative saves interleave, no use is
\* counted twice: what is stored and what waits to be stored never exceed the
\* requests that were accepted.
NeverCountedTwice == keyRow.uses + pendingUsage <= accepted
=============================================================================
