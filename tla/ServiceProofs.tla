---------------------------- MODULE ServiceProofs ----------------------------
(***************************************************************************)
(* The services: the count of an API key's uses; the agreement of the      *)
(* history and the filters on senders, and the catching up of the table of *)
(* lids; the stored files and their archives; the client of the cache; the *)
(* rows with names; the configuration, its form and the restart it asks    *)
(* for; the export and import of the database; the messages of the chat    *)
(* page, the socket of a page and the list of the sessions page.  At the   *)
(* end, what the machines that MCServices runs beside each other keep, by  *)
(* the theorems about each.                                                *)
(***************************************************************************)
EXTENDS AdapterProofs, HandlerProofs, MCServices

-----------------------------------------------------------------------------
(* The uses of an API key.                                                 *)

\* Whoever will save an entity has not counted more into it, together with the uses
\* that wait, than were accepted.  A request that is idle holds an entity it has
\* counted into already, which nobody will save.
CountInv ==
    /\ keyRow.uses + pendingUsage <= accepted
    /\ \A r \in Request : request[r].at # "idle" => request[r].copy.uses + pendingUsage <= accepted
    /\ \A a \in Admin : admin[a].at # "idle" => admin[a].copy.uses + pendingUsage <= accepted

\* TypeOK without its bounds.
StoredKey == [there : BOOLEAN, active : BOOLEAN, config : {"first", "second"},
            stamp : Nat, uses : Nat]
RequestType == [at : {"idle", "checks", "saves"}, copy : StoredKey]
AdminType == [at : {"idle", "changes", "saves"}, op : Ops, copy : StoredKey]

KeyTyped ==
    /\ keyRow \in StoredKey /\ pendingUsage \in Nat /\ keyClock \in Nat /\ accepted \in Nat
    /\ request \in [Request -> RequestType]
    /\ admin \in [Admin -> AdminType]

UseInv == KeyTyped /\ CountInv

-----------------------------------------------------------------------------
LEMMA UseInit == ASSUME KeyInit PROVE UseInv
BY DEF KeyInit, UseInv, KeyTyped, CountInv, NewKey, StoredKey, RequestType, AdminType, Ops

\* Counting into an entity changes nothing else about it.
LEMMA CountedInto ==
  ASSUME NEW k \in StoredKey, NEW t \in Nat, NEW u \in Nat
  PROVE  /\ [k EXCEPT !.stamp = t, !.uses = @ + u + 1] \in StoredKey
         /\ [k EXCEPT !.stamp = t, !.uses = @ + u + 1].uses = k.uses + u + 1
<1>1. ASSUME NEW v \in Nat
      PROVE  /\ [k EXCEPT !.stamp = t, !.uses = v] \in StoredKey
             /\ [k EXCEPT !.stamp = t, !.uses = v].uses = v
  BY <1>1 DEF StoredKey
<1>2. k.uses \in Nat
  BY DEF StoredKey
<1>3. k.uses + u + 1 \in Nat
  BY <1>2
<1> QED BY <1>1, <1>3, Zenon

\* A use is moved from those that wait into the entity to be saved, or added to them:
\* either way the one that was accepted makes room for it.
LEMMA AcceptKeeps == ASSUME UseInv, NEW r \in Request, Accepts(r) PROVE UseInv'
<1> DEFINE copy == request[r].copy
           used == [copy EXCEPT !.stamp = keyClock, !.uses = @ + pendingUsage + 1]
           due  == keyClock > copy.stamp
<1>1. /\ request[r] \in RequestType /\ copy \in StoredKey
      /\ copy.uses \in Nat /\ keyRow.uses \in Nat /\ pendingUsage \in Nat /\ accepted \in Nat /\ keyClock \in Nat
  BY DEF UseInv, KeyTyped, RequestType, StoredKey
<1>2. used \in StoredKey /\ used.uses = copy.uses + pendingUsage + 1
  BY <1>1, CountedInto
<1>3. /\ pendingUsage' = (IF due THEN 0 ELSE pendingUsage + 1)
      /\ request' = [request EXCEPT ![r] = [at |-> IF due THEN "saves" ELSE "idle", copy |-> used]]
      /\ accepted' = accepted + 1 /\ UNCHANGED <<keyRow, admin, keyClock>>
      /\ request[r].at = "checks"
  BY DEF Accepts, Counted
<1>4. KeyTyped'
  <2>1. [at |-> IF due THEN "saves" ELSE "idle", copy |-> used] \in RequestType
    BY <1>2 DEF RequestType
  <2>2. request' \in [Request -> RequestType]
    BY <1>3, <2>1 DEF UseInv, KeyTyped
  <2>3. pendingUsage' \in Nat
    BY <1>1, <1>3
  <2> QED BY <1>1, <1>3, <2>2, <2>3 DEF UseInv, KeyTyped
<1>5. \A n \in Nat : n + pendingUsage <= accepted => n + pendingUsage' <= accepted'
  BY <1>1, <1>3
<1>6. keyRow'.uses + pendingUsage' <= accepted'
  BY <1>1, <1>3, <1>5 DEF UseInv, CountInv
<1>7. ASSUME NEW q \in Request, request'[q].at # "idle"
      PROVE  request'[q].copy.uses + pendingUsage' <= accepted'
  <2>1. CASE q = r
    <3>1. due /\ request'[q].copy = used
      BY <1>3, <1>7, <2>1 DEF UseInv, KeyTyped
    <3>2. copy.uses + pendingUsage <= accepted
      BY <1>3 DEF UseInv, CountInv
    <3> HIDE DEF copy, used, due
    <3>3. pendingUsage' = 0
      BY <1>3, <3>1
    <3> QED BY <1>1, <1>2, <1>3, <3>1, <3>2, <3>3
  <2>2. CASE q # r
    <3>1. request'[q] = request[q]
      BY <1>3, <2>2 DEF UseInv, KeyTyped
    <3>2. request[q].copy.uses \in Nat
      BY DEF UseInv, KeyTyped, RequestType, StoredKey
    <3> QED BY <1>5, <1>7, <3>1, <3>2 DEF UseInv, CountInv
  <2> QED BY <2>1, <2>2
<1>8. ASSUME NEW a \in Admin, admin'[a].at # "idle"
      PROVE  admin'[a].copy.uses + pendingUsage' <= accepted'
  <2>1. admin[a].copy.uses \in Nat
    BY DEF UseInv, KeyTyped, AdminType, StoredKey
  <2> QED BY <1>3, <1>5, <1>8, <2>1 DEF UseInv, CountInv
<1> QED BY <1>4, <1>6, <1>7, <1>8 DEF UseInv, CountInv

LEMMA LessStays ==
  ASSUME NEW n \in Nat, NEW p \in Nat, NEW q \in Nat, NEW m \in Nat, n + p <= m, q <= p
  PROVE  n + q <= m
OBVIOUS

\* A revocation or deletion drops uses; an update keeps them.  No entity counts more.
LEMMA ChangeKeeps == ASSUME UseInv, NEW a \in Admin, AdminChanges(a) PROVE UseInv'
<1>1. /\ admin[a] \in AdminType /\ admin[a].copy \in StoredKey /\ admin[a].op \in Ops
      /\ pendingUsage \in Nat /\ accepted \in Nat
  BY DEF UseInv, KeyTyped, AdminType
<1>2. PICK changed \in StoredKey :
        /\ changed.uses = admin[a].copy.uses
        /\ admin' = [admin EXCEPT ![a].at = "saves", ![a].copy = changed]
  <2>1. CASE admin[a].op = "update"
    <3>1. admin' = [admin EXCEPT ![a].at = "saves", ![a].copy = [@ EXCEPT !.config = "second"]]
      BY <2>1 DEF AdminChanges
    <3>2. [admin[a].copy EXCEPT !.config = "second"] \in StoredKey
      BY <1>1 DEF StoredKey
    <3>3. [admin[a].copy EXCEPT !.config = "second"].uses = admin[a].copy.uses
      BY <1>1 DEF StoredKey
    <3> QED BY <3>1, <3>2, <3>3
  <2>2. CASE admin[a].op = "revoke"
    <3>1. admin' = [admin EXCEPT ![a].at = "saves", ![a].copy = [@ EXCEPT !.active = FALSE]]
      BY <2>2 DEF AdminChanges
    <3>2. [admin[a].copy EXCEPT !.active = FALSE] \in StoredKey
      BY <1>1 DEF StoredKey
    <3>3. [admin[a].copy EXCEPT !.active = FALSE].uses = admin[a].copy.uses
      BY <1>1 DEF StoredKey
    <3> QED BY <3>1, <3>2, <3>3
  <2>3. CASE admin[a].op = "delete"
    <3>1. admin' = [admin EXCEPT ![a].at = "saves", ![a].copy = [@ EXCEPT !.there = FALSE]]
      BY <2>3 DEF AdminChanges
    <3>2. [admin[a].copy EXCEPT !.there = FALSE] \in StoredKey
      BY <1>1 DEF StoredKey
    <3>3. [admin[a].copy EXCEPT !.there = FALSE].uses = admin[a].copy.uses
      BY <1>1 DEF StoredKey
    <3> QED BY <3>1, <3>2, <3>3
  <2> QED BY <1>1, <2>1, <2>2, <2>3 DEF Ops
<1>3. /\ pendingUsage' \in Nat /\ pendingUsage' <= pendingUsage
      /\ keyRow' = keyRow /\ request' = request /\ keyClock' = keyClock /\ accepted' = accepted
  BY <1>1 DEF AdminChanges
<1>4. ASSUME NEW n \in Nat, n + pendingUsage <= accepted PROVE n + pendingUsage' <= accepted'
  BY <1>1, <1>3, <1>4, LessStays
<1>5. admin' \in [Admin -> AdminType]
  BY <1>1, <1>2 DEF UseInv, KeyTyped, AdminType
<1>6. ASSUME NEW b \in Admin, admin'[b].at # "idle"
      PROVE  admin'[b].copy.uses + pendingUsage' <= accepted'
  <2>1. admin'[b].copy.uses = admin[b].copy.uses /\ admin[b].at # "idle"
    BY <1>2, <1>6 DEF AdminChanges, UseInv, KeyTyped, AdminType
  <2>2. admin[b].copy.uses \in Nat
    BY DEF UseInv, KeyTyped, AdminType, StoredKey
  <2> QED BY <1>4, <2>1, <2>2 DEF UseInv, CountInv
<1>7. keyRow'.uses + pendingUsage' <= accepted'
  BY <1>3, <1>4 DEF UseInv, CountInv, KeyTyped, StoredKey
<1>8. ASSUME NEW r \in Request, request'[r].at # "idle"
      PROVE  request'[r].copy.uses + pendingUsage' <= accepted'
  <2>1. request[r].copy.uses \in Nat
    BY DEF UseInv, KeyTyped, RequestType, StoredKey
  <2> QED BY <1>3, <1>4, <1>8, <2>1 DEF UseInv, CountInv
<1> QED BY <1>3, <1>5, <1>6, <1>7, <1>8 DEF UseInv, KeyTyped, CountInv

LEMMA UseNext == ASSUME UseInv, [KeyNext]_keyVars PROVE UseInv'
<1>1. CASE WindowPasses
  BY <1>1 DEF WindowPasses, UseInv, KeyTyped, CountInv
<1>2. CASE Restart
  <2>1. \A n \in Nat : n + pendingUsage <= accepted => n <= accepted
    BY DEF UseInv, KeyTyped
  <2> QED BY <1>2, <2>1 DEF Restart, UseInv, KeyTyped, CountInv, RequestType, AdminType, StoredKey
<1>3. ASSUME NEW r \in Request, Finds(r) \/ Refused(r) \/ Saves(r) \/ SaveFails(r)
      PROVE  UseInv'
  BY <1>3 DEF Finds, Refused, Saves, SaveFails, UseInv, KeyTyped, CountInv, RequestType
<1>4. ASSUME NEW r \in Request, Accepts(r) PROVE UseInv'
  BY <1>4, AcceptKeeps
<1>5. ASSUME NEW a \in Admin, AdminSaves(a) \/ \E op \in Ops : AdminFinds(a, op)
      PROVE  UseInv'
  BY <1>5 DEF AdminSaves, AdminFinds, UseInv, KeyTyped, CountInv, AdminType
<1>6. ASSUME NEW a \in Admin, AdminChanges(a) PROVE UseInv'
  BY <1>6, ChangeKeeps
<1>7. CASE UNCHANGED keyVars
  BY <1>7 DEF keyVars, UseInv, KeyTyped, CountInv
<1> QED BY <1>1, <1>2, <1>3, <1>4, <1>5, <1>6, <1>7 DEF KeyNext

\* AuthService.validateApiKey(): however many requests validate a key while its count
\* is written, updated, revoked or lost, no use is counted twice.
THEOREM UsesCountedOnce == KeySpec => []NeverCountedTwice
<1>1. KeyInit => UseInv
  BY UseInit
<1>2. UseInv /\ [KeyNext]_keyVars => UseInv'
  BY UseNext
<1>3. UseInv => NeverCountedTwice
  BY DEF UseInv, CountInv, NeverCountedTwice
<1> QED BY <1>1, <1>2, <1>3, PTL DEF KeySpec

-----------------------------------------------------------------------------
(* The senders.                                                            *)

\* The two indexes of LidMappingStoreService are each other's inverse.
LidsInverse == \A p \in Phone, l \in Lid : l \in lidsOf[p] <=> lidCache[l] = p

\* What a message is stored under: never the raw dialect of baileys.
NeutralIds == {id \in Ids : id.kind # "s.whatsapp.net"}

LidTyped ==
  /\ lidCache \in [Lid -> Phone \cup {None}] /\ lidRow \in [Lid -> Phone \cup {None}]
  /\ lidsOf \in [Phone -> SUBSET Lid]
  /\ writes \in Seq(Lid \X Phone)
  /\ lidLocal \in [Session -> [Lid -> Phone \cup {None}]]
  /\ contact \in [Session -> [Lid -> Phone \cup {None}]]

LidInv == LidTyped /\ LidsInverse /\ stored \subseteq NeutralIds

-----------------------------------------------------------------------------
(* The conversions.                                                        *)

\* An identity is a user's, a lid, or of neither kind.
LEMMA IdCases ==
  ASSUME NEW id \in Ids
  PROVE  \/ id.kind \in UserKinds /\ id.user \in Phone
         \/ id.kind = "lid" /\ id.user \in Lid
         \/ id.kind \in {"g.us", "newsletter", "broadcast"}
BY DEF Ids, UserKinds

\* fromEngineJid().toNeutral() leaves nothing in the raw dialect.
LEMMA NeutralIsNeutral ==
  ASSUME NEW id \in Ids, NEW phone \in Phone \cup {None}
  PROVE  Neutral(id, phone) \in NeutralIds
<1>1. CASE id.kind \in UserKinds
  <2>1. id.user \in Phone
    BY <1>1, IdCases DEF UserKinds
  <2> QED BY <1>1, <2>1 DEF Neutral, NeutralIds, Ids
<1>2. CASE id.kind = "lid"
  BY <1>2 DEF Neutral, NeutralIds, Ids, UserKinds
<1>3. CASE id.kind \in {"g.us", "newsletter", "broadcast"}
  BY <1>3 DEF Neutral, NeutralIds, UserKinds
<1> QED BY <1>1, <1>2, <1>3, IdCases

\* resolvePhone() answers with a phone or none.
LEMMA PhoneIsPhone ==
  ASSUME LidTyped, NEW s \in Session, NEW l \in Lid
  PROVE  PhoneOf(s, l) \in Phone \cup {None}
BY DEF LidTyped, PhoneOf

-----------------------------------------------------------------------------
(* The invariant.                                                          *)

\* index() keeps the two maps each other's inverse.
LEMMA IndexKeeps ==
  ASSUME LidTyped, LidsInverse, NEW l \in Lid, NEW p \in Phone,
         lidCache' = [lidCache EXCEPT ![l] = p], lidsOf' = Indexed(l, p)
  PROVE  /\ LidsInverse'
         /\ lidCache' \in [Lid -> Phone \cup {None}]
         /\ lidsOf' \in [Phone -> SUBSET Lid]
BY DEF LidTyped, LidsInverse, Indexed

LEMMA LidInitHolds == LidInit => LidInv
BY LidAssumption DEF LidInit, Empty, LidInv, LidTyped, LidsInverse, NeutralIds

LEMMA LidNextKeeps == ASSUME LidInv, [LidNext]_lidVars PROVE LidInv'
<1> USE LidAssumption DEF LidInv
<1>1. ASSUME NEW s \in Session, NEW l \in Lid, NEW p \in Phone, Learn(s, l, p)
      PROVE  LidInv'
  <2>1. lidLocal' \in [Session -> [Lid -> Phone \cup {None}]]
    BY <1>1 DEF Learn, LidTyped
  <2>2. CASE lidCache[l] = p
    BY <1>1, <2>1, <2>2 DEF Learn, Remember, LidTyped, LidsInverse
  <2>3. CASE lidCache[l] # p
    <3>1. lidCache' = [lidCache EXCEPT ![l] = p] /\ lidsOf' = Indexed(l, p)
          /\ writes' = Append(writes, <<l, p>>)
      BY <1>1, <2>3 DEF Learn, Remember
    <3>2. writes' \in Seq(Lid \X Phone)
      BY <3>1 DEF LidTyped
    <3> QED BY <1>1, <2>1, <3>1, <3>2, IndexKeeps DEF Learn, LidTyped
  <2> QED BY <2>2, <2>3
<1>2. ASSUME NEW s \in Session, NEW l \in Lid, NEW p \in Phone, UpsertContact(s, l, p)
      PROVE  LidInv'
  BY <1>2 DEF UpsertContact, LidTyped, LidsInverse
<1>3. ASSUME NEW s \in Session, NEW id \in Ids, Store(s, id)
      PROVE  LidInv'
  <2>1. NeutralIn(s, id) \in NeutralIds
    <3>1. CASE id.kind = "lid"
      BY <3>1, IdCases, PhoneIsPhone, NeutralIsNeutral DEF NeutralIn, UserKinds
    <3>2. CASE id.kind # "lid"
      BY <3>2, NeutralIsNeutral DEF NeutralIn
    <3> QED BY <3>1, <3>2
  <2> QED BY <1>3, <2>1 DEF Store, LidTyped, LidsInverse
<1>4. CASE Written
  <2>1. Head(writes) \in Lid \X Phone /\ Tail(writes) \in Seq(Lid \X Phone)
    BY <1>4 DEF Written, LidTyped
  <2> QED BY <1>4, <2>1 DEF Written, LidTyped, LidsInverse
<1>5. CASE WriteFails
  <2>1. Tail(writes) \in Seq(Lid \X Phone)
    BY <1>5 DEF WriteFails, LidTyped
  <2> QED BY <1>5, <2>1 DEF WriteFails, LidTyped, LidsInverse
<1>6. ASSUME NEW s \in Session, NewAdapter(s)
      PROVE  LidInv'
  BY <1>6 DEF NewAdapter, Empty, LidTyped, LidsInverse
<1>7. ASSUME NEW wasLoaded \in BOOLEAN, Boots(wasLoaded)
      PROVE  LidInv'
  <2>1. writes' \in Seq(Lid \X Phone)
    BY <1>7 DEF Boots
  <2>2. LidsInverse'
    <3>1. CASE wasLoaded
      BY <1>7, <3>1 DEF Boots, LidsInverse, LidTyped
    <3>2. CASE ~wasLoaded
      BY <1>7, <3>2 DEF Boots, LidsInverse, Empty
    <3> QED BY <3>1, <3>2
  <2> QED BY <1>7, <2>1, <2>2 DEF Boots, Empty, LidTyped
<1>8. CASE UNCHANGED lidVars
  BY <1>8 DEF lidVars, LidTyped, LidsInverse
<1> QED BY <1>1, <1>2, <1>3, <1>4, <1>5, <1>6, <1>7, <1>8 DEF LidNext

-----------------------------------------------------------------------------
\* With inverse indexes, looking a phone up from the one side finds what looking a
\* lid up from the other side does.
LEMMA AgreeIfInverse == ASSUME LidInv PROVE HistoryAgreesWithFilters
<1> USE LidAssumption
<1> SUFFICES ASSUME NEW id \in stored, NEW p \in Phone
             PROVE  id \in Candidates(p) <=> Matches(p, id)
  BY DEF HistoryAgreesWithFilters
<1>1. id \in Ids /\ id.kind # "s.whatsapp.net"
  BY DEF LidInv, NeutralIds
<1>2. id = [kind |-> id.kind, user |-> id.user]
  BY <1>1 DEF Ids
<1>3. CASE id.kind \in UserKinds
  <2>1. id \in Candidates(p) <=> id.user = p
    BY <1>2, <1>3 DEF Candidates, UserKinds
  <2>2. Matches(p, id) <=> id.user = p
    BY <1>3 DEF Matches, Neutral
  <2> QED BY <2>1, <2>2
<1>4. CASE id.kind = "lid"
  <2>1. id.user \in Lid
    BY <1>1, <1>4, IdCases DEF UserKinds
  <2>2. id \in Candidates(p) <=> id.user \in lidsOf[p]
    BY <1>2, <1>4, <2>1 DEF Candidates, UserKinds
  <2>3. Matches(p, id) <=> lidCache[id.user] = p
    BY <1>4, <2>1 DEF Matches, Neutral, UserKinds
  <2> QED BY <2>1, <2>2, <2>3 DEF LidInv, LidsInverse
<1>5. CASE id.kind \in {"g.us", "newsletter", "broadcast"}
  BY <1>5 DEF Candidates, Matches, Neutral, UserKinds
<1> QED BY <1>1, <1>3, <1>4, <1>5, IdCases

\* LidMappingStoreService: whatever is learnt, forgotten, lost on its way to the table
\* or assigned to another phone, the history answers a phone with exactly the messages
\* a webhook filter on this phone matches.
THEOREM SendersAgree == LidSpec => []HistoryAgreesWithFilters
<1>1. LidInit => LidInv
  BY LidInitHolds
<1>2. LidInv /\ [LidNext]_lidVars => LidInv'
  BY LidNextKeeps
<1>3. LidInv => HistoryAgreesWithFilters
  BY AgreeIfInverse
<1> QED BY <1>1, <1>2, <1>3, PTL DEF LidSpec

-----------------------------------------------------------------------------
Writes(l) == \E i \in 1..Len(writes) : writes[i][1] = l
LastOf(i) == \A j \in 1..Len(writes) : j > i => writes[j][1] # writes[i][1]

\* The last write on its way for a lid has the phone the cache has; a lid with none has
\* it in its row, unless the write failed.
CacheLeads ==
  /\ \A i \in 1..Len(writes) : LastOf(i) => writes[i][2] = lidCache[writes[i][1]]
  /\ \A l \in Lid \ lidFailed : ~Writes(l) /\ lidCache[l] # None => lidRow[l] = lidCache[l]

LEMMA LeadsAtFirst == LidInit => CacheLeads
BY DEF LidInit, CacheLeads, Empty

\* A write leaves the queue: its lid has no other, or the last one is still there.
LEMMA WriteLeaves ==
  ASSUME LidTyped, CacheLeads, writes # <<>>, writes' = Tail(writes), UNCHANGED lidCache,
         \A l \in Lid : l # Head(writes)[1] => lidRow'[l] = lidRow[l] /\ (l \in lidFailed => l \in lidFailed'),
         Head(writes)[1] \notin lidFailed' => lidRow'[Head(writes)[1]] = Head(writes)[2]
  PROVE  CacheLeads'
<1> DEFINE n == Len(writes)
<1>1. writes \in Seq(Lid \X Phone) /\ n \in Nat /\ n > 0 /\ Head(writes) = writes[1]
  BY DEF LidTyped
<1>2. Len(writes') = n - 1 /\ \A i \in 1..n - 1 : writes'[i] = writes[i + 1]
  BY <1>1
<1>3. \A i \in 1..n : writes[i] \in Lid \X Phone
  BY <1>1
<1>4. ASSUME NEW i \in 1..Len(writes'), LastOf(i)'
      PROVE  writes'[i][2] = lidCache'[writes'[i][1]]
  <2>1. i + 1 \in 1..n /\ writes'[i] = writes[i + 1]
    BY <1>1, <1>2
  <2>2. ASSUME NEW j \in 1..n, j > i + 1 PROVE writes[j][1] # writes[i + 1][1]
    <3>1. j - 1 \in 1..n - 1 /\ j - 1 > i /\ writes'[j - 1] = writes[(j - 1) + 1] /\ (j - 1) + 1 = j
      BY <1>1, <1>2, <2>1, <2>2
    <3>2. writes'[j - 1][1] # writes'[i][1]
      BY <1>2, <1>4, <3>1 DEF LastOf
    <3> QED BY <2>1, <3>1, <3>2
  <2> QED BY <2>1, <2>2 DEF CacheLeads, LastOf
<1>5. ASSUME NEW l \in Lid \ lidFailed', ~Writes(l)', lidCache'[l] # None
      PROVE  lidRow'[l] = lidCache'[l]
  <2>1. ASSUME NEW j \in 1..n, j > 1 PROVE writes[j][1] # l
    <3>1. j - 1 \in 1..n - 1 /\ (j - 1) + 1 = j
      BY <1>1, <2>1
    <3>2. writes'[j - 1] = writes[j] /\ j - 1 \in 1..Len(writes')
      BY <1>2, <3>1
    <3> QED BY <1>5, <3>2 DEF Writes
  <2>2. CASE l = writes[1][1]
    <3>1. LastOf(1) /\ 1 \in 1..n
      BY <1>1, <2>1, <2>2 DEF LastOf
    <3> QED BY <1>1, <1>5, <2>2, <3>1 DEF CacheLeads
  <2>3. CASE l # writes[1][1]
    <3>1. ~Writes(l)
      BY <1>1, <2>1, <2>3 DEF Writes
    <3> QED BY <1>1, <1>5, <2>3, <3>1 DEF CacheLeads
  <2> QED BY <2>2, <2>3
<1> QED BY <1>4, <1>5 DEF CacheLeads

LEMMA LeadKeeps == ASSUME LidInv, CacheLeads, [LidNext]_lidVars PROVE CacheLeads'
<1>t. LidTyped
  BY DEF LidInv
<1>1. ASSUME NEW s \in Session, NEW l \in Lid, NEW p \in Phone, Learn(s, l, p)
      PROVE  CacheLeads'
  <2>1. CASE lidCache[l] = p
    BY <1>1, <2>1 DEF Learn, Remember, CacheLeads, Writes, LastOf
  <2>2. CASE lidCache[l] # p
    <3> DEFINE n == Len(writes)
    <3>1. /\ lidCache' = [lidCache EXCEPT ![l] = p] /\ writes' = Append(writes, <<l, p>>)
          /\ UNCHANGED <<lidRow, lidFailed>>
      BY <1>1, <2>2 DEF Learn, Remember
    <3>2. /\ n \in Nat /\ Len(writes') = n + 1 /\ writes'[n + 1] = <<l, p>>
          /\ \A i \in 1..n : writes'[i] = writes[i] /\ writes[i] \in Lid \X Phone
      BY <1>t, <3>1 DEF LidTyped
    <3> HIDE DEF n
    <3>3. ASSUME NEW i \in 1..n + 1, LastOf(i)'
          PROVE  writes'[i][2] = lidCache'[writes'[i][1]]
      <4>1. CASE i = n + 1
        BY <1>t, <3>1, <3>2, <4>1 DEF LidTyped
      <4>2. CASE i # n + 1
        <5>1. i \in 1..n /\ n + 1 \in 1..n + 1 /\ n + 1 > i
          BY <3>2, <4>2
        <5>2. writes[i][1] # l
          BY <3>2, <3>3, <5>1 DEF LastOf
        <5>3. LastOf(i)
          <6> SUFFICES ASSUME NEW j \in 1..n, j > i PROVE writes[j][1] # writes[i][1]
            BY DEF LastOf, n
          <6>1. j \in 1..Len(writes')
            BY <3>2
          <6> QED BY <3>2, <3>3, <5>1, <6>1 DEF LastOf
        <5>4. writes[i][2] = lidCache[writes[i][1]]
          BY <5>1, <5>3 DEF CacheLeads, n
        <5> QED BY <1>t, <3>1, <3>2, <5>1, <5>2, <5>4 DEF LidTyped
      <4> QED BY <4>1, <4>2
    <3>4. ASSUME NEW k \in Lid \ lidFailed', ~Writes(k)', lidCache'[k] # None
          PROVE  lidRow'[k] = lidCache'[k]
      <4>1. k # l
        BY <3>2, <3>4 DEF Writes
      <4>2. ~Writes(k)
        <5> SUFFICES ASSUME NEW i \in 1..n, writes[i][1] = k PROVE FALSE
          BY DEF Writes, n
        <5>1. i \in 1..Len(writes')
          BY <3>2
        <5> QED BY <3>2, <3>4, <5>1 DEF Writes
      <4> QED BY <1>t, <3>1, <3>4, <4>1, <4>2 DEF CacheLeads, LidTyped
    <3> QED BY <3>2, <3>3, <3>4 DEF CacheLeads
  <2> QED BY <2>1, <2>2
<1>2. ASSUME NEW s \in Session, NEW l \in Lid, NEW p \in Phone, UpsertContact(s, l, p)
      PROVE  CacheLeads'
  BY <1>2 DEF UpsertContact, CacheLeads, Writes, LastOf
<1>3. ASSUME NEW s \in Session, NEW id \in Ids, Store(s, id)
      PROVE  CacheLeads'
  BY <1>3 DEF Store, CacheLeads, Writes, LastOf
<1>4. CASE Written
  <2>1. Head(writes) \in Lid \X Phone
    BY <1>t, <1>4 DEF Written, LidTyped
  <2> QED BY <1>t, <1>4, <2>1, WriteLeaves DEF Written, LidTyped
<1>5. CASE WriteFails
  BY <1>t, <1>5, WriteLeaves DEF WriteFails
<1>6. ASSUME NEW s \in Session, NewAdapter(s)
      PROVE  CacheLeads'
  BY <1>6 DEF NewAdapter, CacheLeads, Writes, LastOf
<1>7. ASSUME NEW wasLoaded \in BOOLEAN, Boots(wasLoaded)
      PROVE  CacheLeads'
  BY <1>7 DEF Boots, CacheLeads, Empty
<1>8. CASE UNCHANGED lidVars
  BY <1>8 DEF lidVars, CacheLeads, Writes, LastOf
<1> QED BY <1>1, <1>2, <1>3, <1>4, <1>5, <1>6, <1>7, <1>8 DEF LidNext

\* What has been written to the table catches up with what is known in memory, but for
\* writes that failed, whatever was learnt, assigned anew or forgotten meanwhile.
THEOREM TheRowsCatchUp == LidSpec => []RowsCatchUp
<1>1. LidInit => LidInv /\ CacheLeads
  BY LidInitHolds, LeadsAtFirst
<1>2. LidInv /\ CacheLeads /\ [LidNext]_lidVars => LidInv' /\ CacheLeads'
  BY LidNextKeeps, LeadKeeps
<1>3. CacheLeads => RowsCatchUp
  BY DEF CacheLeads, RowsCatchUp, Writes
<1> QED BY <1>1, <1>2, <1>3, PTL DEF LidSpec

-----------------------------------------------------------------------------
(* The stored files, exported and imported.                                *)

Once(s) == \A i, j \in 1..Len(s) : s[i] = s[j] => i = j
Among(s, S) == \A i \in 1..Len(s) : s[i] \in S
Apart(s, S) == \A i \in 1..Len(s) : s[i] \notin S

InStore == disk \cup bucket

\* Where an imported file was written.
PutIsStored == \A p \in put : p[3] \in (IF p[2] = "bucket" THEN bucket ELSE disk)

Exporting ==
  /\ Once(archive) /\ Among(archive, InStore) /\ listed \subseteq InStore
  /\ filesExport = "reading" => Apart(archive, listed)

\* While the backend stays the same, what was listed is still to be read, was read or
\* could not be.
Whole ==
  /\ filesExport = "reading" /\ ~moved =>
       /\ listed \subseteq StoredFiles /\ listed \subseteq planned /\ listed \cap unread = {}
       /\ ToSet(archive) = planned \ (listed \cup unread)
  /\ filesExport = "done" /\ ~moved => ToSet(archive) = planned \ unread

Importing ==
  /\ IsFiniteSet(put) /\ PutIsStored
  /\ filesImport # "none" => count = Cardinality(put)
  /\ \A p \in put : p[1] <= entries
  /\ filesImport = "running" => /\ entries <= MaxEntries /\ count + skipped = entries
                                /\ entries + Len(left) = total
  /\ filesImport = "done" => count + skipped = total

FilesInv == FilesTypeOK /\ Exporting /\ Importing

\* What an export has of FilesTypeOK.
ExportTyped ==
  /\ listed \subseteq File /\ planned \subseteq File /\ unread \subseteq File
  /\ moved \in BOOLEAN /\ archive \in Seq(Name) /\ filesExport \in {"none", "reading", "done"}

LEMMA AnotherOnce ==
  ASSUME NEW S, NEW s \in Seq(S), NEW x \in S, Once(s), Apart(s, {x})
  PROVE  /\ Append(s, x) \in Seq(S) /\ Once(Append(s, x))
         /\ \A T : Among(s, T) /\ x \in T => Among(Append(s, x), T)
         /\ \A T : Apart(s, T) /\ x \notin T => Apart(Append(s, x), T)
<1>1. /\ Append(s, x) \in Seq(S) /\ Len(Append(s, x)) = Len(s) + 1 /\ Len(s) \in Nat
      /\ Append(s, x)[Len(s) + 1] = x
      /\ \A i \in 1..Len(s) : Append(s, x)[i] = s[i]
  OBVIOUS
<1> DEFINE t == Append(s, x)
<1> HIDE DEF t
<1>2. /\ t \in Seq(S) /\ Len(t) = Len(s) + 1 /\ Len(s) \in Nat /\ t[Len(s) + 1] = x
      /\ \A i \in 1..Len(s) : t[i] = s[i]
  BY <1>1 DEF t
<1>3. Once(t)
  BY <1>2 DEF Once, Apart
<1>4. \A T : Among(s, T) /\ x \in T => Among(t, T)
  BY <1>2 DEF Among
<1>5. \A T : Apart(s, T) /\ x \notin T => Apart(t, T)
  BY <1>2 DEF Apart
<1> QED BY <1>2, <1>3, <1>4, <1>5 DEF t

LEMMA FilesStart == FilesInit => FilesInv
<1> SUFFICES ASSUME FilesInit PROVE FilesInv
  OBVIOUS
<1> USE FilesAssumption DEF FilesInit
<1>4. <<>> \in Seq(Name) /\ 0 \in 0..MaxEntries + 1 /\ {} \subseteq (1..MaxEntries) \X {"disk", "bucket"} \X File
  OBVIOUS
<1>1. FilesTypeOK
  BY <1>4 DEF FilesTypeOK
<1>2. Exporting
  BY DEF Exporting, Once, Among, Apart
<1>3. IsFiniteSet(put) /\ PutIsStored
  BY FS_EmptySet DEF PutIsStored
<1> QED BY <1>1, <1>2, <1>3 DEF FilesInv, Importing

LEMMA FilesKeep == FilesInv /\ [FilesNext]_filesVars => FilesInv'
<1> SUFFICES ASSUME FilesInv, [FilesNext]_filesVars PROVE FilesInv'
  OBVIOUS
<1> USE FilesAssumption DEF FilesInv
<1>t. FilesTypeOK /\ Exporting /\ Importing
  OBVIOUS
<1>y. ASSUME UNCHANGED <<type, available, files, importing>>, ExportTyped' PROVE FilesTypeOK'
  BY <1>y, <1>t DEF FilesTypeOK, ExportTyped, files, importing
\* What leaves an export or an import and the files alone.
<1>x. UNCHANGED <<files, exporting>> => Exporting'
  BY <1>t DEF files, exporting, Exporting, InStore, Once, Among, Apart
<1>i. UNCHANGED <<files, importing>> => Importing'
  BY <1>t DEF files, importing, Importing, PutIsStored, Once, Apart
<1>1. CASE BucketAnswers
  <2>1. FilesTypeOK'
    BY <1>1, <1>t DEF BucketAnswers, FilesTypeOK, files, exporting, importing
  <2>2. Exporting'
    BY <1>1, <1>t DEF BucketAnswers, files, Exporting, InStore, Once, Among, Apart
  <2> QED BY <1>1, <1>i, <2>1, <2>2 DEF BucketAnswers
<1>2. CASE ExportLists
  <2>1. StoredFiles \subseteq File /\ StoredFiles \subseteq InStore
    BY <1>t DEF StoredFiles, InStore, FilesTypeOK
  <2>5. /\ filesExport' = "reading" /\ listed' = StoredFiles /\ archive' = <<>>
        /\ planned' = StoredFiles /\ unread' = {} /\ moved' = FALSE
    BY <1>2 DEF ExportLists
  <2>6. <<>> \in Seq(Name)
    OBVIOUS
  <2>4. ExportTyped'
    BY <2>1, <2>5, <2>6, Zenon DEF ExportTyped
  <2>2. FilesTypeOK'
    BY <1>2, <1>y, <2>4 DEF ExportLists
  <2>3. Exporting'
    BY <1>2, <2>1 DEF ExportLists, Exporting, InStore, Once, Among, Apart, files
  <2> QED BY <1>2, <1>i, <2>2, <2>3 DEF ExportLists
<1>3. ASSUME NEW f \in File, ExportReads(f) PROVE FilesInv'
  <2>1. /\ listed' = listed \ {f} /\ f \in listed /\ filesExport = "reading"
        /\ UNCHANGED <<type, available, files, filesExport, importing>>
        /\ planned' = planned /\ moved' = moved /\ unread' \in {unread, unread \cup {f}}
    BY <1>3 DEF ExportReads
  <2>5. ExportTyped
    BY <1>t DEF ExportTyped, FilesTypeOK
  <2>2. Apart(archive, {f}) /\ Apart(archive, listed) /\ f \in InStore /\ f \in Name
    BY <2>1, <1>t DEF Exporting, Apart, Name
  <2>3. CASE archive' = Append(archive, f)
    <3>1. archive \in Seq(Name) /\ Once(archive) /\ Among(archive, InStore)
      BY <1>t DEF FilesTypeOK, Exporting
    <3>2. /\ Append(archive, f) \in Seq(Name) /\ Once(Append(archive, f))
          /\ Among(Append(archive, f), InStore)
          /\ \A T : Apart(archive, T) /\ f \notin T => Apart(Append(archive, f), T)
      BY <2>2, <3>1, AnotherOnce
    <3>3. Apart(Append(archive, f), listed \ {f})
      <4>1. Apart(archive, listed \ {f})
        BY <2>2 DEF Apart
      <4> QED BY <4>1, <3>2
    <3>4. FilesTypeOK'
      <4>1. ExportTyped'
        BY <2>1, <2>3, <2>5, <3>2 DEF ExportTyped
      <4> QED BY <4>1, <2>1, <1>y
    <3>5. Exporting'
      BY <2>1, <2>3, <3>2, <3>3, <1>t DEF Exporting, InStore, files
    <3> QED BY <2>1, <1>i, <3>4, <3>5
  <2>4. CASE UNCHANGED archive
    <3>1. FilesTypeOK'
      <4>1. ExportTyped'
        BY <2>1, <2>4, <2>5 DEF ExportTyped
      <4> QED BY <4>1, <2>1, <1>y
    <3>2. Exporting'
      BY <2>1, <2>2, <2>4, <1>t DEF Exporting, InStore, files, Once, Among, Apart
    <3> QED BY <2>1, <1>i, <3>1, <3>2
  <2> QED BY <1>3, <2>3, <2>4 DEF ExportReads
<1>4. CASE ExportEnds
  <2>1. FilesTypeOK'
    BY <1>4, <1>t DEF ExportEnds, FilesTypeOK, files, importing
  <2>2. Exporting'
    BY <1>4, <1>t DEF ExportEnds, Exporting, InStore, files, Once, Among, Apart
  <2> QED BY <1>4, <1>i, <2>1, <2>2 DEF ExportEnds
<1>5. CASE Sweep
  <2>1. FilesTypeOK'
    BY <1>5, <1>t DEF Sweep, FilesTypeOK, files, importing
  <2>2. Exporting'
    BY <1>5, <1>t DEF Sweep, Exporting, InStore, files, Once, Among, Apart
  <2> QED BY <1>5, <1>i, <2>1, <2>2 DEF Sweep
<1>6. ASSUME NEW t \in {"local", "s3"}, RestartWith(t) PROVE FilesInv'
  <2>1. FilesTypeOK'
    BY <1>6, <1>t DEF RestartWith, FilesTypeOK, files, exporting, importing
  <2> QED BY <1>6, <1>x, <1>i, <2>1 DEF RestartWith
<1>7. ASSUME NEW a \in Seq(Name), ImportBegins(a) PROVE FilesInv'
  <2>1. FilesTypeOK'
    BY <1>7, <1>t DEF ImportBegins, FilesTypeOK, files, exporting
  <2>2. /\ left' = a /\ put' = {} /\ count' = 0 /\ entries' = 0 /\ filesImport' = "running"
        /\ total' = Len(a) /\ skipped' = 0 /\ Len(a) \in Nat
        /\ UNCHANGED <<files, exporting>>
    BY <1>7 DEF ImportBegins
  <2>3. Importing'
    BY <2>2, FS_EmptySet DEF Importing, PutIsStored
  <2> QED BY <1>x, <2>1, <2>2, <2>3
<1>8. ASSUME NEW a \in Foreign PROVE a \in Seq(Name)
  <2>1. CASE \E u \in Unsafe \cup Huge, f \in File : a = <<u, f>>
    BY <2>1 DEF Name
  <2>2. CASE \E f, g \in File : a = <<f, f, g>>
    BY <2>2 DEF Name
  <2> QED BY <1>8, <2>1, <2>2 DEF Foreign
<1>9. CASE ImportEntry
  <2> DEFINE f == Head(left)
  <2>1. /\ filesImport = "running" /\ left # <<>> /\ entries' = entries + 1
        /\ UNCHANGED <<type, available, exporting, total>>
    BY <1>9 DEF ImportEntry
  <2>2. /\ f \in Name /\ Tail(left) \in Seq(Name) /\ Len(left) \in Nat \ {0}
        /\ Len(Tail(left)) = Len(left) - 1
    BY <1>t, <2>1 DEF FilesTypeOK
  <2>3. count + skipped = entries /\ entries + Len(left) = total /\ \A p \in put : p[1] <= entries
    BY <1>t, <2>1 DEF Importing
  <2>4. entries + 1 \in 0..MaxEntries + 1 /\ entries \in 0..MaxEntries
    BY <1>t, <2>1 DEF Importing, FilesTypeOK
  <2>n. count \in Nat /\ skipped \in Nat /\ total \in Nat
    BY <1>t DEF FilesTypeOK
  <2>p. \A p \in put : p[1] \in Nat
    BY <1>t DEF FilesTypeOK
  <2>5. CASE TooMany \/ f \in Huge
    <3>1. filesImport' = "failed" /\ left' = <<>> /\ UNCHANGED <<files, count, skipped, put>>
      BY <1>9, <2>5 DEF ImportEntry
    <3>2. FilesTypeOK'
      BY <2>1, <2>4, <3>1, <1>t DEF FilesTypeOK, files, exporting
    <3>4. \A p \in put : p[1] <= entries + 1
      BY <2>3, <2>4, <2>p
    <3>3. Importing'
      BY <2>1, <3>1, <3>4, <1>t DEF Importing, PutIsStored, files
    <3> QED BY <2>1, <3>1, <3>2, <3>3, <1>x
  <2>6. CASE ~TooMany /\ left' = Tail(left) /\ skipped' = skipped + 1
             /\ UNCHANGED <<filesImport, files, count, put>>
    <3>1. FilesTypeOK'
      BY <2>1, <2>2, <2>4, <2>6, <1>t DEF FilesTypeOK, files, exporting
    <3>2. entries + 1 <= MaxEntries
      BY <2>4, <2>6 DEF TooMany
    <3>4. \A p \in put : p[1] <= entries + 1
      BY <2>3, <2>4, <2>p
    <3>5. count + (skipped + 1) = entries + 1 /\ (entries + 1) + (Len(left) - 1) = total
      BY <2>2, <2>3, <2>4, <2>n
    <3>3. Importing'
      BY <2>1, <2>2, <2>6, <3>2, <3>4, <3>5, <1>t DEF Importing, PutIsStored, files
    <3> QED BY <2>1, <2>6, <3>1, <3>3, <1>x
  <2>7. CASE /\ ~TooMany /\ left' = Tail(left) /\ UNCHANGED <<filesImport, skipped>>
             /\ f \in File /\ count' = count + 1 /\ put' = put \cup {<<entries', Backend, f>>}
             /\ disk' = (IF Backend = "bucket" THEN disk ELSE disk \cup {f})
             /\ bucket' = (IF Backend = "bucket" THEN bucket \cup {f} ELSE bucket)
    <3> DEFINE b == Backend
               n == entries + 1
    <3>1. b \in {"disk", "bucket"}
      BY DEF Backend
    <3>10. n <= MaxEntries /\ n \in 1..MaxEntries
      BY <2>4, <2>7 DEF TooMany
    <3>2. put' = put \cup {<<n, b, f>>} /\ <<n, b, f>> \notin put
      <4>1. ASSUME <<n, b, f>> \in put PROVE FALSE
        <5>1. <<n, b, f>>[1] <= entries
          BY <4>1, <2>3
        <5> QED BY <5>1, <2>4
      <4> QED BY <4>1, <2>1, <2>7
    <3>3. /\ <<n, b, f>>[1] = n /\ <<n, b, f>>[2] = b /\ <<n, b, f>>[3] = f
          /\ <<n, b, f>> \in (1..MaxEntries) \X {"disk", "bucket"} \X File
      BY <2>7, <3>1, <3>10
    <3>4. /\ disk' = (IF b = "bucket" THEN disk ELSE disk \cup {f})
          /\ bucket' = (IF b = "bucket" THEN bucket \cup {f} ELSE bucket)
      BY <2>7
    <3>13. \A p \in put' : p[1] <= n
      BY <2>3, <2>4, <2>p, <3>2, <3>3
    <3>14. (count + 1) + skipped = n /\ n + (Len(left) - 1) = total
      BY <2>2, <2>3, <2>4, <2>n
    <3>15. entries' = n
      BY <2>1
    <3> HIDE DEF b, f, n
    <3>5. FilesTypeOK'
      <4>1. put' \subseteq (1..MaxEntries) \X {"disk", "bucket"} \X File
        BY <3>2, <3>3, <1>t DEF FilesTypeOK
      <4>2. entries' \in 0..MaxEntries + 1
        BY <2>1, <2>4
      <4>3. disk' \subseteq File /\ bucket' \subseteq File
        BY <2>7, <3>4, <1>t DEF FilesTypeOK
      <4> QED BY <2>1, <2>2, <2>7, <4>1, <4>2, <4>3, <1>t DEF FilesTypeOK, exporting
    <3>6. IsFiniteSet(put') /\ Cardinality(put') = Cardinality(put) + 1
      BY <3>2, <1>t, FS_AddElement DEF Importing
    <3>7. PutIsStored'
      BY <3>2, <3>3, <3>4, <1>t DEF PutIsStored, Importing
    <3>11. Importing'
      BY <2>1, <2>2, <2>7, <3>6, <3>7, <3>10, <3>13, <3>14, <3>15, <1>t DEF Importing
    <3>12. Exporting'
      BY <2>1, <3>4, <1>t DEF Exporting, InStore, exporting, Among, Once, Apart
    <3> QED BY <3>5, <3>11, <3>12
  <2> QED BY <1>9, <2>5, <2>6, <2>7 DEF ImportEntry, Counts, files
<1>10. CASE ImportEnds
  <2>1. FilesTypeOK'
    BY <1>10, <1>t DEF ImportEnds, FilesTypeOK, files, exporting
  <2>3. left \in Seq(Name) /\ left = <<>> => Len(left) = 0
    OBVIOUS
  <2>2. Importing'
    BY <1>10, <2>3, <1>t DEF ImportEnds, Importing, PutIsStored, files, FilesTypeOK
  <2> QED BY <1>10, <1>x, <2>1, <2>2 DEF ImportEnds
<1>11. CASE UNCHANGED filesVars
  <2>1. FilesTypeOK'
    BY <1>11, <1>t DEF filesVars, FilesTypeOK
  <2> QED BY <1>11, <1>x, <1>i, <2>1 DEF filesVars, files, exporting, importing
<1>12. archive \in Seq(Name)
  BY <1>t DEF FilesTypeOK
<1> QED BY <1>1, <1>2, <1>3, <1>4, <1>5, <1>6, <1>7, <1>8, <1>9, <1>10, <1>11, <1>12
        DEF FilesNext

LEMMA StartsWhole == FilesInit => Whole
BY DEF FilesInit, Whole

\* An export that nothing disturbs leaves out only what cannot be read.
LEMMA WholeKeeps == FilesInv /\ Whole /\ [FilesNext]_filesVars => Whole'
<1> SUFFICES ASSUME FilesInv, Whole, [FilesNext]_filesVars PROVE Whole'
  OBVIOUS
<1>t. archive \in Seq(Name) /\ listed \subseteq File
  BY DEF FilesInv, FilesTypeOK
\* Files that are added, and nothing else that an export looks at.
<1>x. ASSUME UNCHANGED <<type, available, exporting>>, disk \subseteq disk', bucket \subseteq bucket'
      PROVE  Whole'
  <2>1. StoredFiles \subseteq StoredFiles'
    BY <1>x DEF StoredFiles, Backend
  <2> QED BY <1>x, <2>1 DEF Whole, exporting
<1>1. CASE BucketAnswers
  BY <1>1 DEF BucketAnswers, Whole, files
<1>2. CASE ExportLists
  <2>1. ToSet(<<>>) = {} /\ StoredFiles' = StoredFiles
    BY <1>2 DEF ToSet, ExportLists, StoredFiles, Backend, files
  <2> QED BY <1>2, <2>1 DEF ExportLists, Whole
<1>3. ASSUME NEW f \in File, ExportReads(f) PROVE Whole'
  <2>1. /\ listed' = listed \ {f} /\ f \in listed /\ filesExport = "reading"
        /\ filesExport' = "reading" /\ moved' = moved /\ planned' = planned
        /\ StoredFiles' = StoredFiles
    BY <1>3 DEF ExportReads, StoredFiles, Backend, files
  <2>2. CASE moved
    BY <2>1, <2>2 DEF Whole
  <2>3. CASE ~moved
    <3>1. /\ listed \subseteq StoredFiles /\ listed \subseteq planned /\ listed \cap unread = {}
          /\ ToSet(archive) = planned \ (listed \cup unread) /\ f \in StoredFiles
      BY <2>1, <2>3 DEF Whole
    <3>2. CASE archive' = Append(archive, f) /\ UNCHANGED unread
      <4>1. archive \in Seq(Name) /\ f \in Name
        BY <1>t DEF Name
      <4>2. ToSet(Append(archive, f)) = ToSet(archive) \cup {f}
        BY <4>1 DEF ToSet
      <4>3. ToSet(archive') = ToSet(archive) \cup {f}
        BY <3>2, <4>2
      <4> HIDE DEF ToSet
      <4>4. ToSet(archive)' = planned \ ((listed \ {f}) \cup unread)
        BY <2>1, <3>1, <4>3 DEF ToSet
      <4> QED BY <2>1, <3>1, <3>2, <4>4 DEF Whole
    <3>3. CASE unread' = unread \cup {f} /\ UNCHANGED archive
      BY <2>1, <3>1, <3>3 DEF Whole, ToSet
    <3> QED BY <1>3, <3>1, <3>2, <3>3 DEF ExportReads
  <2> QED BY <2>2, <2>3
<1>4. CASE ExportEnds
  BY <1>4 DEF ExportEnds, Whole, ToSet
<1>5. CASE Sweep
  BY <1>5 DEF Sweep, Whole
<1>6. ASSUME NEW t \in {"local", "s3"}, RestartWith(t) PROVE Whole'
  BY <1>6 DEF RestartWith, Whole, exporting, ToSet
<1>7. ASSUME NEW a, ImportBegins(a) PROVE Whole'
  BY <1>7, <1>x DEF ImportBegins, files
<1>9. CASE ImportEntry
  <2>1. UNCHANGED <<type, available, exporting>> /\ disk \subseteq disk' /\ bucket \subseteq bucket'
    BY <1>9 DEF ImportEntry, files
  <2> QED BY <2>1, <1>x
<1>10. CASE ImportEnds
  BY <1>10, <1>x DEF ImportEnds, files
<1>11. CASE UNCHANGED filesVars
  BY <1>11, <1>x DEF filesVars, exporting
<1> QED BY <1>1, <1>2, <1>3, <1>4, <1>5, <1>6, <1>7, <1>9, <1>10, <1>11 DEF FilesNext

LEMMA FilesInvGives == FilesInv /\ Whole => CountIsExact /\ ArchiveIsTrue
<1> SUFFICES ASSUME FilesInv, Whole PROVE CountIsExact /\ ArchiveIsTrue
  OBVIOUS
<1>1. archive \in Seq(Name) /\ DOMAIN archive = 1..Len(archive)
  BY DEF FilesInv, FilesTypeOK
<1>2. IsInjective(archive) /\ ToSet(archive) \subseteq disk \cup bucket
  BY <1>1 DEF FilesInv, Exporting, Once, Among, InStore, IsInjective, ToSet
<1>3. ArchiveIsTrue
  BY <1>2 DEF Whole, ArchiveIsTrue
<1> QED BY <1>3 DEF FilesInv, Importing, CountIsExact, PutIsStored

\* However many files there are and whatever an archive holds, the count an import
\* answers with is that of the entries it wrote, which are in the store, and what it
\* leaves out was skipped; an archive has files of the store, each once, and all that
\* were in it when the export began but those that could not be read, unless the backend
\* changed meanwhile.
THEOREM FilesAreAccounted == FilesSpec => [](CountIsExact /\ ArchiveIsTrue)
<1>1. FilesInit => FilesInv /\ Whole
  BY FilesStart, StartsWhole
<1>2. FilesInv /\ Whole /\ [FilesNext]_filesVars => FilesInv' /\ Whole'
  BY FilesKeep, WholeKeeps
<1> QED BY <1>1, <1>2, FilesInvGives, PTL DEF FilesSpec

-----------------------------------------------------------------------------
(* The client of the cache.                                                *)

\* Every call's client is the one that is there or one that was refused; one call
\* connects, and that client is the one that is there.
KnownClient(k) == k \in cacheRefused \/ k = cacheClient
ConnectsOnce ==
  /\ \A c, d \in CacheCall : cacheCall[c].at = "connects" /\ cacheCall[d].at = "connects" => c = d
  /\ cacheConnecting = TRUE <=> \E c \in CacheCall : cacheCall[c].at = "connects"
  /\ \A c \in CacheCall : cacheCall[c].at = "connects" => cacheCall[c].of \in CacheObject /\ cacheCall[c].of = cacheClient
ClientsKnown ==
  /\ \A c \in CacheCall : cacheCall[c].at \in {"pings", "available", "broken"} =>
        cacheCall[c].of \in CacheObject /\ KnownClient(cacheCall[c].of)
  /\ \A k \in CacheObject : cacheWire[k] \in {"connecting", "ready"} => KnownClient(k)
  /\ cacheClosed = "quitting" => cacheQuits \in CacheObject

CacheInv == CacheTypeOK /\ ConnectsOnce /\ ClientsKnown

\* Of calls of which no two connect, one connects at most.
LEMMA OneConnects ==
  ASSUME NEW cs, \A c, d \in CacheCall : cs[c].at = "connects" /\ cs[d].at = "connects" => c = d
  PROVE  Cardinality({c \in CacheCall : cs[c].at = "connects"}) <= 1
<1>1. CASE \E c \in CacheCall : cs[c].at = "connects"
  <2>1. PICK c \in CacheCall : cs[c].at = "connects"
    BY <1>1
  <2>2. {d \in CacheCall : cs[d].at = "connects"} = {c}
    BY <2>1
  <2>3. Cardinality({d \in CacheCall : cs[d].at = "connects"}) = 1
    BY <2>2, FS_Singleton
  <2> QED BY <2>3
<1>2. CASE ~\E c \in CacheCall : cs[c].at = "connects"
  <2>1. {d \in CacheCall : cs[d].at = "connects"} = {}
    BY <1>2
  <2> QED BY <2>1, FS_EmptySet
<1> QED BY <1>1, <1>2

LEMMA CacheStarts == CacheInit => CacheInv
<1> SUFFICES ASSUME CacheInit PROVE CacheInv
  OBVIOUS
<1>1. cacheConnecting \in BOOLEAN
  BY DEF CacheInit
<1>2. CacheTypeOK
  BY <1>1, CacheAssumption DEF CacheInit, CacheTypeOK, CacheSteps
<1> QED BY <1>2 DEF CacheInit, CacheInv, ConnectsOnce, ClientsKnown

LEMMA CacheTypesKeep == ASSUME CacheInv, [CacheNext]_cacheVars PROVE CacheTypeOK'
<1> USE CacheAssumption DEF CacheInv, CacheTypeOK, CacheSteps, CacheGoes, AsksClient, cacheClients, cacheEnd
<1>1. ASSUME NEW c \in CacheCall, BeginCacheCall(c) PROVE CacheTypeOK'
  <2>1. CASE cacheClient = NoClient /\ cacheAttempts < CacheAttempts /\ cacheConnecting = FALSE
    <3>1. cacheConnecting' \in BOOLEAN
      BY <1>1, <2>1 DEF BeginCacheCall
    <3> QED BY <1>1, <2>1, <3>1 DEF BeginCacheCall
  <2>2. CASE ~(cacheClient = NoClient /\ cacheAttempts < CacheAttempts /\ cacheConnecting = FALSE)
    BY <1>1, <2>2 DEF BeginCacheCall
  <2> QED BY <2>1, <2>2
<1>2. ASSUME NEW c \in CacheCall, RedisConnects(c) \/ RedisRefuses(c) PROVE CacheTypeOK'
  <2>1. cacheConnecting' \in BOOLEAN
    BY <1>2 DEF RedisConnects, RedisRefuses
  <2>2. cacheCall[c].of \in CacheObject
    BY <1>2 DEF RedisConnects, RedisRefuses, ConnectsOnce
  <2> QED BY <1>2, <2>1, <2>2 DEF RedisConnects, RedisRefuses
<1>3. ASSUME NEW c \in CacheCall, Pings(c) \/ PingAnswered(c) \/ PingFails(c) PROVE CacheTypeOK'
  BY <1>3 DEF Pings, PingAnswered, PingFails, ClientAfterFailedPing
<1>4. ASSUME NEW c \in CacheCall, UseClient(c) \/ SkipCache(c) PROVE CacheTypeOK'
  BY <1>4 DEF UseClient, SkipCache
<1>5. ASSUME NEW k \in CacheObject, RedisDrops(k) \/ RedisGreets(k) \/ RedisReturns(k) \/ ClientGivesUp(k)
      PROVE  CacheTypeOK'
  BY <1>5 DEF RedisDrops, RedisGreets, RedisReturns, ClientGivesUp
<1>6. CASE QuitCache \/ CacheQuitDone
  BY <1>6 DEF QuitCache, CacheQuitDone
<1>7. CASE UNCHANGED cacheVars
  BY <1>7 DEF cacheVars
<1> QED BY <1>1, <1>2, <1>3, <1>4, <1>5, <1>6, <1>7 DEF CacheNext

LEMMA ConnectingKeeps == ASSUME CacheInv, [CacheNext]_cacheVars PROVE ConnectsOnce'
<1> USE CacheAssumption DEF CacheInv, CacheTypeOK, CacheGoes, AsksClient, cacheClients, ConnectsOnce
<1>1. ASSUME NEW c \in CacheCall, BeginCacheCall(c) PROVE ConnectsOnce'
  <2>1. CASE cacheClient = NoClient /\ cacheAttempts < CacheAttempts /\ cacheConnecting = FALSE
    BY <1>1, <2>1 DEF BeginCacheCall
  <2>2. CASE ~(cacheClient = NoClient /\ cacheAttempts < CacheAttempts /\ cacheConnecting = FALSE)
    BY <1>1, <2>2 DEF BeginCacheCall
  <2> QED BY <2>1, <2>2
<1>2. ASSUME NEW c \in CacheCall, RedisConnects(c) \/ RedisRefuses(c) PROVE ConnectsOnce'
  BY <1>2 DEF RedisConnects, RedisRefuses
<1>3. ASSUME NEW c \in CacheCall, Pings(c) \/ PingAnswered(c) \/ PingFails(c) PROVE ConnectsOnce'
  BY <1>3 DEF Pings, PingAnswered, PingFails, ClientAfterFailedPing
<1>4. ASSUME NEW c \in CacheCall, UseClient(c) \/ SkipCache(c) PROVE ConnectsOnce'
  BY <1>4 DEF UseClient, SkipCache
<1>5. ASSUME NEW k \in CacheObject, RedisDrops(k) \/ RedisGreets(k) \/ RedisReturns(k) \/ ClientGivesUp(k)
      PROVE  ConnectsOnce'
  BY <1>5 DEF RedisDrops, RedisGreets, RedisReturns, ClientGivesUp
<1>6. CASE QuitCache \/ CacheQuitDone \/ UNCHANGED cacheVars
  BY <1>6 DEF QuitCache, CacheQuitDone, cacheVars
<1> QED BY <1>1, <1>2, <1>3, <1>4, <1>5, <1>6 DEF CacheNext

LEMMA ClientsStayKnown == ASSUME CacheInv, [CacheNext]_cacheVars PROVE ClientsKnown'
<1> USE CacheAssumption DEF CacheInv, CacheTypeOK, CacheGoes, AsksClient, cacheClients, cacheEnd, ClientsKnown, KnownClient
<1>1. ASSUME NEW c \in CacheCall, BeginCacheCall(c) PROVE ClientsKnown'
  <2>1. CASE cacheClient = NoClient /\ cacheAttempts < CacheAttempts /\ cacheConnecting = FALSE
    BY <1>1, <2>1 DEF BeginCacheCall
  <2>2. CASE ~(cacheClient = NoClient /\ cacheAttempts < CacheAttempts /\ cacheConnecting = FALSE)
    BY <1>1, <2>2 DEF BeginCacheCall
  <2> QED BY <2>1, <2>2
<1>2. ASSUME NEW c \in CacheCall, RedisConnects(c) \/ RedisRefuses(c) PROVE ClientsKnown'
  BY <1>2 DEF RedisConnects, RedisRefuses, ConnectsOnce
<1>3. ASSUME NEW c \in CacheCall, Pings(c) \/ PingAnswered(c) \/ PingFails(c) PROVE ClientsKnown'
  BY <1>3 DEF Pings, PingAnswered, PingFails, ClientAfterFailedPing
<1>4. ASSUME NEW c \in CacheCall, UseClient(c) \/ SkipCache(c) PROVE ClientsKnown'
  BY <1>4 DEF UseClient, SkipCache
<1>5. ASSUME NEW k \in CacheObject, RedisDrops(k) \/ RedisGreets(k) \/ RedisReturns(k) \/ ClientGivesUp(k)
      PROVE  ClientsKnown'
  BY <1>5 DEF RedisDrops, RedisGreets, RedisReturns, ClientGivesUp
<1>6. CASE QuitCache \/ CacheQuitDone \/ UNCHANGED cacheVars
  BY <1>6 DEF QuitCache, CacheQuitDone, cacheVars
<1> QED BY <1>1, <1>2, <1>3, <1>4, <1>5, <1>6 DEF CacheNext

LEMMA CacheKeeps == CacheInv /\ [CacheNext]_cacheVars => CacheInv'
BY CacheTypesKeep, ConnectingKeeps, ClientsStayKnown DEF CacheInv

\* CacheService: however many calls share a client, while clients are built, lost,
\* refused, given up or closed, only those whose connect() rejected are ever lost to the
\* calls that pinged them, and one call connects at most.
THEOREM TheClientIsThere == CacheSpec => []ClientIsThere
<1>1. CacheInv => ClientIsThere
  <2> SUFFICES ASSUME CacheInv PROVE ClientIsThere
    OBVIOUS
  <2>1. Cardinality({c \in CacheCall : cacheCall[c].at = "connects"}) <= 1
    BY OneConnects DEF CacheInv, ConnectsOnce
  <2>2. \A c \in CacheCall : cacheCall[c].at \in {"pings", "available", "broken"} =>
          cacheCall[c].of \in cacheRefused \cup ({cacheClient} \ {NoClient})
    BY CacheAssumption DEF CacheInv, ClientsKnown, KnownClient
  <2> QED BY <2>1, <2>2 DEF CacheInv, ClientsKnown, KnownClient, ClientIsThere
<1> QED BY <1>1, CacheStarts, CacheKeeps, PTL DEF CacheSpec

-----------------------------------------------------------------------------
(* Names that stand for one row.                                           *)

WriteType ==
  {NoWrite} \cup [op : {"session"}, name : RowName]
    \cup [op : {"update"}, row : Template, to : TemplateRows] \cup [op : {"delete"}, row : Template]

NamesTyped ==
  /\ rowDialect \in {"sqlite", "postgres"}
  /\ sessionRow \in [NamedSession -> RowName \cup {NoName}]
  /\ templateRow \in [Template -> TemplateRows \cup {NoRow}]
  /\ rowCall \in [RowCall -> WriteType]
  /\ rowAnswer \in [RowCall -> {"none", "saved", "conflict", "missing", "error"}]

\* The unique indexes and the foreign key hold of the rows.
Unique ==
  /\ \A s1, s2 \in NamedSession : sessionRow[s1] = sessionRow[s2] /\ sessionRow[s1] # NoName => s1 = s2
  /\ \A t1, t2 \in Template : templateRow[t1] = templateRow[t2] /\ templateRow[t1] # NoRow => t1 = t2
  /\ \A t \in Template : templateRow[t] # NoRow => ~Orphan(templateRow[t])

NamesInv == NamesTyped /\ Unique

\* The row of a template is of a session and has a name, an absent one has neither.
LEMMA RowsDiffer ==
  ASSUME NEW r \in TemplateRows
  PROVE  r.of \in NamedSession /\ r.name \in RowName /\ r # NoRow /\ r = [of |-> r.of, name |-> r.name]
BY NamesAssumption DEF TemplateRows, NoRow

\* save(): the constraints keep the rows unique, whatever is written.
LEMMA WriteKeeps ==
  ASSUME NamesInv, NEW c \in RowCall, NEW t \in Template, NEW r \in TemplateRows,
         WriteTemplate(c, t, r), UNCHANGED <<rowDialect, sessionRow>>
  PROVE  NamesInv'
<1>1. rowCall' \in [RowCall -> WriteType]
      /\ rowAnswer' \in [RowCall -> {"none", "saved", "conflict", "missing", "error"}]
  BY DEF WriteTemplate, AnswerRow, NamesInv, NamesTyped, WriteType, Refusal
<1>2. CASE Orphan(r) \/ Clashes(t, r)
  <2>1. UNCHANGED templateRow
    BY <1>2 DEF WriteTemplate
  <2> QED BY <1>1, <2>1 DEF NamesInv, NamesTyped, Unique, Orphan
<1>3. CASE ~(Orphan(r) \/ Clashes(t, r))
  <2>1. templateRow' = [templateRow EXCEPT ![t] = r]
    BY <1>3 DEF WriteTemplate
  <2>2. \A u \in Template : templateRow[u] = r => u = t
    BY <1>3, RowsDiffer DEF Clashes, Named
  <2>3. ~Orphan(r)
    BY <1>3
  <2>4. \A u \in Template : templateRow'[u] = IF u = t THEN r ELSE templateRow[u]
    BY <2>1 DEF NamesInv, NamesTyped
  <2>5. templateRow' \in [Template -> TemplateRows \cup {NoRow}]
    BY <2>1 DEF NamesInv, NamesTyped
  <2>6. Unique'
    BY <2>2, <2>3, <2>4 DEF NamesInv, Unique, Orphan
  <2> QED BY <1>1, <2>5, <2>6 DEF NamesInv, NamesTyped
<1> QED BY <1>2, <1>3

LEMMA NamesStart == NamesInit => NamesInv
BY DEF NamesInit, NamesInv, NamesTyped, Unique, WriteType

LEMMA NamesKeep == NamesInv /\ [NamesNext]_namesVars => NamesInv'
<1> SUFFICES ASSUME NamesInv, [NamesNext]_namesVars PROVE NamesInv'
  OBVIOUS
<1>0. NamesTyped /\ Unique
  BY DEF NamesInv
<1>1. ASSUME NEW c \in RowCall, NEW n \in RowName, FindSession(c, n) PROVE NamesInv'
  <2>1. [op |-> "session", name |-> n] \in WriteType /\ NoWrite \in WriteType
    BY DEF WriteType
  <2> QED BY <1>0, <1>1, <2>1 DEF FindSession, AnswerRow, WaitToWrite, NamesInv, NamesTyped, Unique, Orphan
<1>2. ASSUME NEW c \in RowCall, NEW s \in NamedSession, SaveSession(c, s) PROVE NamesInv'
  <2>1. NoWrite \in WriteType /\ rowCall[c].name \in RowName
    BY <1>0, <1>2 DEF SaveSession, NamesTyped, WriteType, NoWrite
  <2>2. NamesTyped'
    BY <1>0, <1>2, <2>1 DEF SaveSession, AnswerRow, NamesTyped
  <2>3. Unique'
    BY <1>0, <1>2, <2>1, RowsDiffer, NamesAssumption DEF SaveSession, NamesTyped, Unique, Orphan, NameTaken
  <2> QED BY <2>2, <2>3 DEF NamesInv
<1>3. ASSUME NEW s \in NamedSession, DeleteSession(s) PROVE NamesInv'
  <2>1. NamesTyped'
    BY <1>0, <1>3 DEF DeleteSession, NamesTyped
  <2>2. Unique'
    BY <1>0, <1>3, RowsDiffer DEF DeleteSession, NamesTyped, Unique, Orphan
  <2> QED BY <2>1, <2>2 DEF NamesInv
<1>4. ASSUME NEW c \in RowCall, NEW t \in Template, NEW r \in TemplateRows, CreateTemplate(c, t, r)
      PROVE  NamesInv'
  BY <1>4, WriteKeeps DEF CreateTemplate
<1>5. ASSUME NEW c \in RowCall, NEW t \in Template, NEW s, NEW w \in WriteType, FindTemplate(c, t, s, w)
      PROVE  NamesInv'
  <2>1. NoWrite \in WriteType
    BY DEF WriteType
  <2> QED BY <1>0, <1>5, <2>1 DEF FindTemplate, AnswerRow, WaitToWrite, NamesInv, NamesTyped, Unique, Orphan
<1>6. ASSUME NEW c \in RowCall, SaveTemplate(c) PROVE NamesInv'
  <2>1. rowCall[c].row \in Template /\ rowCall[c].to \in TemplateRows
    BY <1>0, <1>6 DEF SaveTemplate, NamesTyped, WriteType, NoWrite
  <2>2. CASE WriteTemplate(c, rowCall[c].row, rowCall[c].to)
    BY <1>6, <2>1, <2>2, WriteKeeps DEF SaveTemplate
  <2>3. CASE AnswerRow(c, "saved") /\ UNCHANGED templateRow
    <3>1. NoWrite \in WriteType
      BY DEF WriteType
    <3> QED BY <1>0, <1>6, <2>3, <3>1 DEF SaveTemplate, AnswerRow, NamesInv, NamesTyped, Unique, Orphan
  <2> QED BY <1>6, <2>2, <2>3 DEF SaveTemplate
<1>7. ASSUME NEW c \in RowCall, RemoveTemplate(c) PROVE NamesInv'
  <2>1. rowCall[c].row \in Template /\ NoWrite \in WriteType
    BY <1>0, <1>7 DEF RemoveTemplate, NamesTyped, WriteType, NoWrite
  <2> QED BY <1>0, <1>7, <2>1 DEF RemoveTemplate, AnswerRow, NamesInv, NamesTyped, Unique, Orphan
<1>8. CASE UNCHANGED namesVars
  BY <1>0, <1>8 DEF namesVars, NamesInv, NamesTyped, Unique, Orphan
<1>9. /\ \A t \in Template, r \in TemplateRows : [op |-> "update", row |-> t, to |-> r] \in WriteType
      /\ \A t \in Template : [op |-> "delete", row |-> t] \in WriteType
  BY DEF WriteType
<1>10. ASSUME NEW c \in RowCall, NEW t \in Template, NEW r \in TemplateRows,
              FindTemplate(c, t, r.of, [op |-> "update", row |-> t, to |-> r])
       PROVE  NamesInv'
  BY <1>5, <1>9, <1>10
<1>11. ASSUME NEW c \in RowCall, NEW t \in Template, NEW s \in NamedSession,
              FindTemplate(c, t, s, [op |-> "delete", row |-> t])
       PROVE  NamesInv'
  BY <1>5, <1>9, <1>11
<1> QED BY <1>1, <1>2, <1>3, <1>4, <1>6, <1>7, <1>8, <1>10, <1>11 DEF NamesNext

\* SessionService.create() and TemplateService: however requests overlap between their
\* lookups and their writes, a name stands for one row, and no template outlives its
\* session.
THEOREM ANameIsOneRow == NamesSpec => []NamesAgree
<1>1. NamesInv => NamesAgree
  <2> SUFFICES ASSUME NamesInv, NEW s \in NamedSession, NEW n \in RowName
               PROVE  Cardinality(Named(s, n)) <= 1
    BY DEF NamesInv, NamesAgree, Unique
  <2>1. CASE Named(s, n) = {}
    BY <2>1, FS_EmptySet
  <2>2. CASE Named(s, n) # {}
    <3>1. PICK t \in Template : templateRow[t] = [of |-> s, name |-> n]
      BY <2>2 DEF Named
    <3>2. [of |-> s, name |-> n] # NoRow
      BY NamesAssumption DEF NoRow
    <3>3. Named(s, n) = {t}
      BY <3>1, <3>2 DEF Named, NamesInv, Unique
    <3>4. Cardinality({t}) = 1
      BY FS_Singleton
    <3> QED BY <3>3, <3>4
  <2> QED BY <2>1, <2>2
<1> QED BY <1>1, NamesStart, NamesKeep, PTL DEF NamesSpec

\* A request ends in a server error only if another one took the name after its lookup,
\* or, with Postgres, the session of the template has gone.
THEOREM OnlyRacesAreErrors == NamesSpec => [][ErrorsAreRaces]_rowAnswer
<1>1. NamesInv /\ [NamesNext]_namesVars => [ErrorsAreRaces]_rowAnswer
  <2> SUFFICES ASSUME NamesInv, NamesNext, NEW c \in RowCall, rowAnswer[c] # "error",
                      rowAnswer'[c] = "error"
               PROVE  \/ rowCall[c].op = "session" /\ NameTaken(rowCall[c].name)
                      \/ rowDialect = "postgres" /\ \E s \in NamedSession : sessionRow[s] = NoName
    BY DEF ErrorsAreRaces, namesVars
  <2>0. NamesTyped
    BY DEF NamesInv
  <2>1. ASSUME NEW d \in RowCall, NEW t \in Template, NEW r \in TemplateRows, WriteTemplate(d, t, r)
        PROVE  rowDialect = "postgres" /\ \E s \in NamedSession : sessionRow[s] = NoName
    <3>1. d = c /\ (Orphan(r) \/ Clashes(t, r)) /\ Refusal(t, r) = "error"
      BY <2>0, <2>1 DEF WriteTemplate, AnswerRow, NamesTyped
    <3>2. rowDialect = "postgres" /\ Orphan(r)
      BY <2>0, <3>1 DEF Refusal, NamesTyped
    <3> QED BY <3>2, RowsDiffer DEF Orphan
  <2>2. ASSUME NEW d \in RowCall, NEW a, AnswerRow(d, a), a # "error"
        PROVE  FALSE
    BY <2>0, <2>2 DEF AnswerRow, NamesTyped
  <2>3. ASSUME NEW d \in RowCall, NEW w, WaitToWrite(d, w)
        PROVE  FALSE
    BY <2>0, <2>3 DEF WaitToWrite, NamesTyped
  <2>4. ASSUME NEW d \in RowCall, NEW s \in NamedSession, SaveSession(d, s)
        PROVE  rowCall[c].op = "session" /\ NameTaken(rowCall[c].name)
    BY <2>0, <2>4 DEF SaveSession, AnswerRow, NamesTyped
  <2>5. ASSUME NEW d \in RowCall, SaveTemplate(d)
        PROVE  rowDialect = "postgres" /\ \E s \in NamedSession : sessionRow[s] = NoName
    <3>1. rowCall[d].row \in Template /\ rowCall[d].to \in TemplateRows
      BY <2>0, <2>5 DEF SaveTemplate, NamesTyped, WriteType, NoWrite
    <3> QED BY <2>1, <2>2, <2>5, <3>1 DEF SaveTemplate
  <2>6. ASSUME NEW d \in RowCall, NEW t \in Template, NEW s, NEW w, FindTemplate(d, t, s, w)
        PROVE  FALSE
    BY <2>2, <2>3, <2>6 DEF FindTemplate
  <2>7. ASSUME NEW d \in RowCall, NEW n \in RowName, FindSession(d, n)
        PROVE  FALSE
    BY <2>2, <2>3, <2>7 DEF FindSession
  <2>8. ASSUME NEW s \in NamedSession, DeleteSession(s)
        PROVE  FALSE
    BY <2>8 DEF DeleteSession
  <2> QED BY <2>1, <2>2, <2>4, <2>5, <2>6, <2>7, <2>8 DEF NamesNext, CreateTemplate, RemoveTemplate
<1> QED BY <1>1, NamesStart, NamesKeep, PTL DEF NamesSpec

-----------------------------------------------------------------------------
(* The saved configuration and the form of the dashboard.                  *)

\* What the form is known to hold while the saved configuration filled it last and none
\* of the keys' types was edited: what the file has, where the file has something.
Untouched(k) == k \notin touched
PlainSection == Untouched("type") /\ Untouched("builtIn") /\ cfgFile.builtIn = FALSE

FormFollows ==
  /\ Untouched("type") => form["type"] = cfgFile.type
  /\ Untouched("builtIn") => form["builtIn"] = cfgFile.builtIn
  /\ Untouched("enabled") => form["enabled"] = cfgCache.enabled
  /\ Untouched("cacheConn") => form["cacheConn"] = cfgCache.conn \/ cfgCache.conn = "unset"
  /\ PlainSection /\ Untouched("conn") => form["conn"] = cfgFile.conn \/ cfgFile.conn = "unset"
  /\ PlainSection /\ Untouched("path") => form["path"] = cfgFile.path \/ cfgFile.path = "unset"

ConfigTyped ==
  /\ cfgFile.type \in Types /\ cfgFile.builtIn \in BOOLEAN
  /\ cfgRunning \in Types /\ cfgEnv \in Types \cup {"unset"}
  /\ form = [k \in Fields |-> form[k]] /\ form["type"] \in Types /\ form["builtIn"] \in BOOLEAN
  /\ cfgFile = [type |-> cfgFile.type, builtIn |-> cfgFile.builtIn, conn |-> cfgFile.conn,
                secret |-> cfgFile.secret, path |-> cfgFile.path]
  /\ cfgCache = [enabled |-> cfgCache.enabled, conn |-> cfgCache.conn]

ConfigInv ==
  /\ ConfigTyped /\ NoLeftovers
  /\ Untouched("secret") => form["secret"] = ""
  /\ filled = TRUE => FormFollows

LEMMA ConfigStarts == ConfigInit => ConfigInv
<1> SUFFICES ASSUME ConfigInit PROVE ConfigInv
  OBVIOUS
<1>1. form = [k \in Fields |-> form[k]] /\ form["type"] = "local" /\ form["builtIn"] = FALSE
      /\ form["secret"] = ""
  BY DEF ConfigInit, Blank, Fields
<1>2. PICK t \in Types : cfgFile.type = t /\ cfgFile.builtIn = FALSE
  BY DEF ConfigInit, MinimalSection, Types
<1>3. ConfigTyped
  BY <1>1, <1>2 DEF ConfigInit, ConfigTyped, MinimalSection, Types, LoadedType
<1>4. NoLeftovers
  BY DEF ConfigInit, NoLeftovers, MinimalSection
<1> QED BY <1>1, <1>3, <1>4 DEF ConfigInv, ConfigInit

\* The form after the saved configuration has filled it.
LEMMA FillFollows == ASSUME ConfigInv, ConfigFills PROVE ConfigInv'
<1>1. \A k \in Fields : form'[k] = IF k = "secret" \/ (k \in Typed /\ SavedConfig[k] = "unset")
                                   THEN form[k] ELSE SavedConfig[k]
  BY DEF ConfigFills
<1>2. /\ SavedConfig["type"] = cfgFile.type /\ SavedConfig["builtIn"] = cfgFile.builtIn
      /\ SavedConfig["conn"] = cfgFile.conn /\ SavedConfig["path"] = cfgFile.path
      /\ SavedConfig["enabled"] = cfgCache.enabled /\ SavedConfig["cacheConn"] = cfgCache.conn
  BY DEF SavedConfig
<1>3. /\ form'["type"] = cfgFile.type /\ form'["builtIn"] = cfgFile.builtIn
      /\ form'["enabled"] = cfgCache.enabled /\ form'["secret"] = form["secret"]
      /\ form'["conn"] = cfgFile.conn \/ cfgFile.conn = "unset"
      /\ form'["path"] = cfgFile.path \/ cfgFile.path = "unset"
      /\ form'["cacheConn"] = cfgCache.conn \/ cfgCache.conn = "unset"
  BY <1>1, <1>2 DEF Fields, Typed
<1>4. form' = [k \in Fields |-> form'[k]]
  BY DEF ConfigFills
<1>5. "secret" \notin touched' => "secret" \notin touched
  BY DEF ConfigFills
<1>6. ConfigTyped'
  BY <1>3, <1>4 DEF ConfigFills, ConfigInv, ConfigTyped, cfgSaved
<1> QED BY <1>3, <1>5, <1>6 DEF ConfigFills, ConfigInv, NoLeftovers, FormFollows, Untouched, cfgSaved

\* What saveConfig() writes of a section, field by field.
LEMMA SectionFields ==
  ASSUME ConfigInv
  PROVE  /\ NewSection.type = form["type"] /\ NewSection.builtIn = form["builtIn"]
         /\ form["type"] = "local" => /\ NewSection.conn = "unset" /\ NewSection.secret = "unset"
                                      /\ NewSection.path = form["path"]
         /\ form["type"] = "remote" => NewSection.path = "unset"
         /\ form["type"] = "remote" /\ form["builtIn"] = FALSE =>
              NewSection.conn = form["conn"] /\ NewSection.secret = KeptSecret(form["secret"])
         /\ NewSection = [type |-> NewSection.type, builtIn |-> NewSection.builtIn, conn |-> NewSection.conn,
                          secret |-> NewSection.secret, path |-> NewSection.path]
<1>1. form["type"] \in {"local", "remote"} /\ form["builtIn"] \in BOOLEAN
  BY DEF ConfigInv, ConfigTyped, Types
<1>2. cfgFile = [type |-> cfgFile.type, builtIn |-> cfgFile.builtIn, conn |-> cfgFile.conn,
                 secret |-> cfgFile.secret, path |-> cfgFile.path]
  BY DEF ConfigInv, ConfigTyped
<1>3. CASE form["type"] = "local"
  <2>1. NewSection = KeysDropped([cfgFile EXCEPT !.path = form["path"]])
    BY <1>3 DEF NewSection
  <2> QED BY <1>2, <1>3, <2>1 DEF KeysDropped
<1>4. CASE form["type"] = "remote" /\ form["builtIn"] = TRUE
  <2>1. NewSection = KeysDropped([cfgFile EXCEPT !.conn = "container", !.secret = "container"])
    BY <1>4 DEF NewSection
  <2> QED BY <1>2, <1>4, <2>1 DEF KeysDropped
<1>5. CASE form["type"] = "remote" /\ form["builtIn"] = FALSE
  <2>1. NewSection = KeysDropped([cfgFile EXCEPT !.conn = form["conn"], !.secret = KeptSecret(form["secret"])])
    BY <1>5 DEF NewSection
  <2> QED BY <1>2, <1>5, <2>1 DEF KeysDropped
<1> QED BY <1>1, <1>3, <1>4, <1>5

LEMMA SaveFollows == ASSUME ConfigInv, SaveConfig PROVE ConfigInv'
<1>1. cfgFile' = NewSection /\ cfgCache' = NewCache /\ UNCHANGED <<cfgEngine, cfgEnv, cfgRunning, cfgPage>>
  BY DEF SaveConfig
<1>2. form["type"] \in {"local", "remote"} /\ form["builtIn"] \in BOOLEAN
  BY DEF ConfigInv, ConfigTyped, Types
<1>3. /\ NewCache.enabled = form["enabled"]
      /\ NewCache.conn = form["cacheConn"] \/ NewCache.conn = cfgCache.conn
      /\ NewCache = [enabled |-> NewCache.enabled, conn |-> NewCache.conn]
  BY DEF NewCache
<1> DEFINE s == NewSection
           n == NewCache
<1>4. ConfigTyped'
  BY <1>1, <1>2, <1>3, SectionFields DEF ConfigInv, ConfigTyped, Types, cfgPage
<1>5. NoLeftovers'
  BY <1>1, <1>2, SectionFields DEF NoLeftovers
<1>6. filled = TRUE => FormFollows'
  BY <1>1, <1>2, <1>3, SectionFields DEF ConfigInv, FormFollows, Untouched, PlainSection, cfgPage
<1> QED BY <1>1, <1>4, <1>5, <1>6 DEF ConfigInv, Untouched, cfgPage

LEMMA ConfigKeeps == ConfigInv /\ [ConfigNext]_configVars => ConfigInv'
<1> SUFFICES ASSUME ConfigInv, [ConfigNext]_configVars PROVE ConfigInv'
  OBVIOUS
<1>1. CASE StatusFills
  <2>1. \A k \in Fields \ {"type", "path"} : form'[k] = form[k]
    BY <1>1 DEF StatusFills, ConfigInv, ConfigTyped
  <2>2. form'["type"] = cfgRunning /\ form' = [k \in Fields |-> form'[k]]
    BY <1>1 DEF StatusFills, RunningStatus, ConfigInv, ConfigTyped, Fields
  <2>3. ConfigTyped'
    BY <1>1, <2>1, <2>2 DEF StatusFills, ConfigInv, ConfigTyped, Fields, cfgSaved
  <2> QED BY <1>1, <2>1, <2>3 DEF StatusFills, ConfigInv, NoLeftovers, Untouched, Fields, cfgSaved
<1>2. CASE ConfigFills
  BY <1>2, FillFollows
<1>3. CASE SaveConfig
  BY <1>3, SaveFollows
<1>4. CASE LoadAgain
  BY <1>4 DEF LoadAgain, LoadedType, ConfigInv, ConfigTyped, NoLeftovers, FormFollows, Untouched, PlainSection,
              Types, cfgSaved, cfgPage
<1>5. ASSUME NEW k \in Fields, NEW v \in FieldChoices(k), EditField(k, v)
      PROVE  ConfigInv'
  <2>1. form' = [form EXCEPT ![k] = v] /\ touched' = touched \cup {k}
        /\ UNCHANGED <<cfgSaved, cfgEnv, cfgRunning, filled>>
    BY <1>5 DEF EditField
  <2>2. form' = [f \in Fields |-> form'[f]] /\ \A f \in Fields : form'[f] = IF f = k THEN v ELSE form[f]
    BY <2>1 DEF ConfigInv, ConfigTyped
  <2>3. (k = "type" => v \in Types) /\ (k = "builtIn" => v \in BOOLEAN)
    BY <1>5 DEF FieldChoices
  <2>4. ConfigTyped'
    BY <2>1, <2>2, <2>3 DEF ConfigInv, ConfigTyped, Fields, cfgSaved
  <2> QED BY <2>1, <2>2, <2>4 DEF ConfigInv, NoLeftovers, FormFollows, Untouched, PlainSection, Fields, cfgSaved
<1>6. CASE UNCHANGED configVars
  BY <1>6 DEF configVars, ConfigInv, ConfigTyped, NoLeftovers, FormFollows, Untouched, PlainSection
<1> QED BY <1>1, <1>2, <1>3, <1>4, <1>5, <1>6 DEF ConfigNext

\* saveConfig(): whatever is edited and saved in whichever order the queries fill the
\* form, a saved section has only the keys of its own type.
THEOREM NoKeysAreLeft == ConfigSpec => []NoLeftovers
<1>1. ConfigInv => NoLeftovers
  BY DEF ConfigInv
<1> QED BY <1>1, ConfigStarts, ConfigKeeps, PTL DEF ConfigSpec

\* A save from a form that the saved configuration filled last leaves what the
\* administrator did not edit as it was.
THEOREM FilledSavesKeep == ConfigSpec => [][FilledKeepsUnseen]_cfgSaved
<1>1. ConfigInv /\ [ConfigNext]_configVars => [FilledKeepsUnseen]_cfgSaved
  <2> SUFFICES ASSUME ConfigInv, SaveConfig, filled = TRUE PROVE KeepsUnseen /\ cfgEngine' = cfgEngine
    BY DEF ConfigNext, StatusFills, ConfigFills, LoadAgain, EditField, configVars, cfgSaved, FilledKeepsUnseen
  <2>1. cfgFile' = NewSection /\ cfgCache' = NewCache /\ cfgEngine' = cfgEngine
    BY DEF SaveConfig
  <2>2. form["type"] \in {"local", "remote"} /\ form["builtIn"] \in BOOLEAN /\ cfgFile.builtIn \in BOOLEAN
    BY DEF ConfigInv, ConfigTyped, Types
  <2>3. FormFollows /\ NoLeftovers /\ (Untouched("secret") => form["secret"] = "")
    BY DEF ConfigInv
  <2>4. NewCache.enabled = form["enabled"]
        /\ (NewCache.conn = form["cacheConn"] \/ NewCache.conn = cfgCache.conn)
    BY DEF NewCache
  <2> SUFFICES ASSUME NEW k \in Fields \ (touched \cup Rewritten)
               PROVE  Keeps(k)
    BY <2>1 DEF KeepsUnseen
  <2>5. CASE k \in {"type", "builtIn"}
    BY <2>1, <2>3, <2>5, SectionFields DEF Keeps, FormFollows, Untouched
  <2>6. CASE k \in {"enabled", "cacheConn"}
    BY <2>1, <2>3, <2>4, <2>6 DEF Keeps, FormFollows, Untouched
  <2>7. CASE k \in {"conn", "secret", "path"}
    <3>1. PlainSection
      BY <2>2, <2>7 DEF Rewritten, PlainSection, Untouched
    <3>2. cfgFile.type = form["type"] /\ form["builtIn"] = FALSE
      BY <2>3, <3>1 DEF PlainSection, FormFollows
    <3>3. KeptSecret("") = cfgFile.secret
      BY DEF KeptSecret
    <3> QED BY <2>1, <2>2, <2>3, <2>7, <3>1, <3>2, <3>3, SectionFields
            DEF Keeps, FormFollows, Untouched, NoLeftovers
  <2> QED BY <2>5, <2>6, <2>7 DEF Fields
<1> QED BY <1>1, ConfigStarts, ConfigKeeps, PTL DEF ConfigSpec

-----------------------------------------------------------------------------
(* Restarts and the built-in services.                                     *)

RestartReq == [step : {"none", "busy"}, remove : SUBSET Profile, start : SUBSET Profile]

\* A request is in progress only while the process serves or closes.
RequestsEnd ==
    /\ req \in [RestartRequest -> RestartReq]
    /\ container \in [Profile -> {"absent", "stopped", "running"}]
    /\ stops \subseteq Profile /\ late \subseteq Profile
    /\ savedBefore \subseteq Profile /\ lastSaved \subseteq Profile
    /\ wanted \subseteq Profile /\ loadedProfiles \subseteq Profile
    /\ process \in {"booting", "down"} => \A r \in RestartRequest : req[r].step = "none"
    /\ process = "up" => boot = {}
    /\ process = "up" /\ docker = FALSE => refused = TRUE

\* What the orchestration at boot has reached runs, and no stop is under way
\* but of the containers it met late, until a request comes.
ReachedRun ==
    process \in {"booting", "up"} /\ docker = TRUE /\ refused = FALSE /\ draining = FALSE
        /\ (\A r \in RestartRequest : req[r].step = "none") /\ foreign = "absent"
    => \A p \in loadedProfiles \ boot : (container[p] = "running" /\ p \notin stops) \/ p \in late

RestartInv == docker \in BOOLEAN /\ refused \in BOOLEAN /\ RequestsEnd /\ ReachedRun

LEMMA RestartBegins == RestartInit => RestartInv
<1> SUFFICES ASSUME RestartInit PROVE RestartInv
  OBVIOUS
<1>1. docker \in BOOLEAN /\ refused \in BOOLEAN
  BY DEF RestartInit
<1>2. NoRequest \in RestartReq /\ NoRequest.step = "none"
  BY DEF NoRequest, RestartReq
<1>3. RequestsEnd
  BY <1>2 DEF RestartInit, RequestsEnd
<1>4. ReachedRun
  BY DEF RestartInit, ReachedRun
<1> QED
  BY <1>1, <1>3, <1>4 DEF RestartInv

LEMMA StartedTypes ==
    ASSUME NEW p \in Profile, container \in [Profile -> {"absent", "stopped", "running"}],
           Started(p) \/ StartFailed(p) \/ Removed(p) \/ RemovalFailed(p)
    PROVE  container' \in [Profile -> {"absent", "stopped", "running"}]
BY DEF Started, StartFailed, Removed, RemovalFailed

LEMMA StartedRuns ==
    ASSUME NEW p \in Profile, container \in [Profile -> {"absent", "stopped", "running"}],
           Started(p), foreign' = "absent"
    PROVE  foreign = "absent" /\ container' = [container EXCEPT ![p] = "running"]
BY DEF Started

LEMMA RestartFlags ==
    ASSUME docker \in BOOLEAN, refused \in BOOLEAN, [RestartNext]_restartVars
    PROVE  docker' \in BOOLEAN /\ refused' \in BOOLEAN
<1> USE DEF restartVars, restartLife, containers
<1>1. CASE UNCHANGED restartVars
  BY <1>1
<1>2. CASE \E p \in Profile : BootStarts(p) \/ BootFails(p)
  BY <1>2 DEF BootStarts, BootFails
<1>3. CASE Listen \/ DockerReturns \/ GraceOver \/ SigTerm \/ ProcessExits \/ StartAgain
  BY <1>3 DEF Listen, DockerReturns, GraceOver, SigTerm, ProcessExits, StartAgain
<1>4. CASE \E r \in RestartRequest : AskOutside(r) \/ AnswerRestart(r) \/ ClickRestart(r)
  BY <1>4 DEF AskOutside, AnswerRestart, ClickRestart
<1>5. CASE \E r \in RestartRequest, p \in Profile : SendStop(r, p) \/ RemoveOne(r, p) \/ StartOne(r, p)
  BY <1>5 DEF SendStop, RemoveOne, StartOne
<1>6. CASE \E ps \in SUBSET Profile : \E answered \in SUBSET ps : SaveProfiles(ps, answered)
  BY <1>6 DEF SaveProfiles
<1>7. CASE (\E p \in Profile : StopLands(p)) \/ CheckHealth \/ ReloadPage
  BY <1>7 DEF StopLands, CheckHealth, ReloadPage
<1> QED
  BY <1>1, <1>2, <1>3, <1>4, <1>5, <1>6, <1>7 DEF RestartNext

LEMMA RestartKeeps ==
    ASSUME RestartInv, [RestartNext]_restartVars
    PROVE  RequestsEnd' /\ ReachedRun'
<1> USE DEF restartVars, restartLife, restartTab, containers, RestartInv, RequestsEnd, ReachedRun
<1>1. CASE UNCHANGED restartVars
  BY <1>1
<1>2. ASSUME NEW p \in Profile, BootStarts(p)
      PROVE  RequestsEnd' /\ ReachedRun'
  <2>1. /\ Started(p) /\ UNCHANGED <<process, docker, refused, draining, req, loadedProfiles, stops>>
        /\ late' = IF p \in stops THEN late \cup {p} ELSE late
    BY <1>2 DEF BootStarts
  <2>2. container' \in [Profile -> {"absent", "stopped", "running"}]
    BY <2>1, StartedTypes
  <2>3. RequestsEnd'
    BY <1>2, <2>1, <2>2 DEF BootStarts
  <2>4. ReachedRun'
    <3>1. boot' = boot \ {p} /\ process = "booting"
      BY <1>2 DEF BootStarts
    <3>2. foreign' = "absent" => foreign = "absent" /\ container' = [container EXCEPT ![p] = "running"]
      BY <2>1, StartedRuns
    <3> QED
      BY <2>1, <3>1, <3>2
  <2> QED
    BY <2>3, <2>4
<1>3. ASSUME NEW p \in Profile, BootFails(p)
      PROVE  RequestsEnd' /\ ReachedRun'
  BY <1>3, StartedTypes DEF BootFails
<1>4. CASE Listen
  BY <1>4 DEF Listen, BootLeft
<1>5. CASE DockerReturns
  BY <1>5 DEF DockerReturns
<1>6. CASE GraceOver \/ SigTerm
  BY <1>6 DEF GraceOver, SigTerm, restartTab
<1>7. CASE ProcessExits
  BY <1>7 DEF ProcessExits, NoRequest, RestartReq
<1>8. CASE StartAgain
  BY <1>8 DEF StartAgain, restartTab
<1>9. ASSUME NEW r \in RestartRequest, NEW remove \in SUBSET Profile, NEW start \in SUBSET Profile,
             AskRestart(r, remove, start), UNCHANGED <<containers, restartLife, wanted, savedBefore, lastSaved>>
      PROVE  RequestsEnd' /\ ReachedRun'
  <2>1. [step |-> "busy", remove |-> remove, start |-> start] \in RestartReq
    BY DEF RestartReq
  <2>2. req' \in [RestartRequest -> RestartReq] /\ req'[r].step = "busy" /\ process = "up"
    BY <1>9, <2>1 DEF AskRestart, Serving
  <2> QED
    BY <1>9, <2>2
<1>10. ASSUME NEW r \in RestartRequest, AskOutside(r) \/ ClickRestart(r)
       PROVE  RequestsEnd' /\ ReachedRun'
  <2>1. CASE AskOutside(r)
    BY <1>9, <2>1 DEF AskOutside, restartTab
  <2>2. CASE ClickRestart(r)
    <3>1. UNCHANGED <<containers, restartLife>> /\ AskRestart(r, savedBefore \ lastSaved, lastSaved)
      BY <2>2 DEF ClickRestart
    <3>2. savedBefore \ lastSaved \in SUBSET Profile /\ lastSaved \in SUBSET Profile
      OBVIOUS
    <3>3. UNCHANGED <<savedBefore, lastSaved>> /\ UNCHANGED wanted
      BY <2>2 DEF ClickRestart
    <3> QED
      BY <3>1, <3>2, <3>3, <1>9
  <2> QED
    BY <1>10, <2>1, <2>2
<1>11. ASSUME NEW r \in RestartRequest, AnswerRestart(r)
       PROVE  RequestsEnd' /\ ReachedRun'
  <2>1. NoRequest \in RestartReq
    BY DEF NoRequest, RestartReq
  <2> QED
    BY <1>11, <2>1 DEF AnswerRestart, Serving
<1>12. ASSUME NEW r \in RestartRequest, NEW p \in Profile, RemoveOne(r, p) \/ StartOne(r, p)
       PROVE  RequestsEnd' /\ ReachedRun'
  <2>1. container' \in [Profile -> {"absent", "stopped", "running"}]
    BY <1>12, StartedTypes DEF RemoveOne, StartOne
  <2>2. req' \in [RestartRequest -> RestartReq] /\ req'[r].step = "busy" /\ process = "up"
    BY <1>12 DEF RemoveOne, StartOne, RestartReq, Serving
  <2>3. UNCHANGED <<late, restartLife, restartTab, wanted>>
    BY <1>12 DEF RemoveOne, StartOne
  <2>4. stops' \subseteq stops
    BY <1>12 DEF RemoveOne, StartOne, Removed, RemovalFailed
  <2> QED
    BY <2>1, <2>2, <2>3, <2>4 DEF restartTab
<1>13. ASSUME NEW r \in RestartRequest, NEW p \in Profile, SendStop(r, p)
       PROVE  RequestsEnd' /\ ReachedRun'
  BY <1>13 DEF SendStop, Serving
<1>14. ASSUME NEW p \in Profile, StopLands(p)
       PROVE  RequestsEnd' /\ ReachedRun'
  <2>1. UNCHANGED <<wanted, late, foreign, restartLife, req, restartTab>> /\ stops' = stops \ {p} /\ p \in stops
    BY <1>14 DEF StopLands
  <2>2. container' \in [Profile -> {"absent", "stopped", "running"}]
    BY <1>14 DEF StopLands
  <2>3. \A q \in Profile : q # p => container'[q] = container[q]
    BY <1>14 DEF StopLands
  <2>4. RequestsEnd'
    BY <2>1, <2>2
  <2>5. ReachedRun'
    BY <2>1, <2>3
  <2> QED
    BY <2>4, <2>5
<1>15. CASE \E ps \in SUBSET Profile : \E answered \in SUBSET ps : SaveProfiles(ps, answered)
  BY <1>15 DEF SaveProfiles
<1>16. CASE CheckHealth \/ ReloadPage
  BY <1>16 DEF CheckHealth, ReloadPage
<1> QED
  BY <1>1, <1>2, <1>3, <1>4, <1>5, <1>6, <1>7, <1>8, <1>10, <1>11, <1>12, <1>13, <1>14, <1>15, <1>16 DEF RestartNext

\* Whatever restarts overlapped, failed half-way or were cut off, a process whose
\* orchestration at boot did not fail has the built-in services it asks for running,
\* but those it found running with a stop already sent.
THEOREM TheBuiltInsRun == RestartSpec => []BuiltInsRun
<1>1. RestartInv /\ [RestartNext]_restartVars => RestartInv'
  BY RestartFlags, RestartKeeps DEF RestartInv
<1>2. RestartInv => BuiltInsRun
  BY DEF RestartInv, RequestsEnd, ReachedRun, BuiltInsRun
<1> QED
  BY <1>1, <1>2, RestartBegins, PTL DEF RestartSpec

-----------------------------------------------------------------------------
(* The export and the import of the database.                              *)

Untorn == dbQuiet = TRUE /\ dbOdd = {}
Sound(rows) == KeysHold(rows) /\ NamesHold(rows)

RowsTyped ==
    /\ dbDialect \in {"sqlite", "postgres"}
    /\ dbExport \in {"none", "sessions", "done"}
    /\ dbImport \in {"none", "sessions", "webhooks", "done", "refused", "thrown"}
    /\ db \subseteq DataRow /\ dbDump \subseteq DataRow
    /\ dbBefore \subseteq DataRow /\ dbView \subseteq DataRow
    /\ dbLive \subseteq DataRow /\ dbGone \subseteq DataRow
    /\ ~ImportRuns => dbView = {}

\* The open transactions, and what each would restore.
NestAgrees ==
    /\ dbDepth = (IF dbOther THEN 1 ELSE 0) + (IF dbDialect = "sqlite" /\ ImportRuns THEN 1 ELSE 0)
    /\ dbFrame \in [1 .. 2 -> SUBSET DataRow]
    /\ dbDialect = "postgres" => ~dbOther
    /\ dbDialect = "sqlite" /\ ImportRuns /\ ~dbMingled => dbFrame[1] = dbBefore

\* Keys and names hold in every state of the database that is or may be restored.
RowsSound ==
    /\ Sound(db) /\ Sound(dbBefore)
    /\ \A d \in 1 .. 2 : Sound(dbFrame[d])
    /\ dbDialect = "postgres" /\ ImportRuns => Sound(SeenRows) /\ dbBefore \subseteq db

\* An export that nothing disturbed is the database as it was, keys and all.
ExportAgrees ==
    /\ dbImport # "none" => dbExport = "done"
    /\ dbExport = "sessions" /\ dbQuiet = TRUE => dbDump = db \cap DataSession
    /\ dbExport = "done" /\ dbQuiet = TRUE => Sound(dbDump)

\* The import: what is inserted, what is left to insert, and that a row is refused
\* only if one is odd, was torn or was met.
ImportAgrees ==
    ImportRuns =>
        /\ dbTodo \subseteq dbDump
        /\ SeenRows \subseteq (dbDump \ dbTodo) \cup dbLive
        /\ dbWarnings = FALSE => dbDump \ dbTodo \subseteq SeenRows \cup dbGone
        /\ dbImport = "webhooks" => dbTodo \cap DataSession = {}
        /\ Untorn /\ ~PayloadMet => dbWarnings = FALSE
        /\ dbDialect = "postgres" => db \subseteq dbBefore \cup dbLive /\ dbView \subseteq dbDump \ dbTodo

TransferInv ==
    RowsTyped /\ NestAgrees /\ RowsSound /\ ExportAgrees /\ ImportAgrees /\ ExportIsImportable

LEMMA NothingIsSound == Sound({})
BY DEF Sound, KeysHold, NamesHold

LEMMA AddedIsSound ==
    ASSUME NEW rows, Sound(rows), NEW r, Insertable(r, rows)
    PROVE  r \notin rows /\ Sound(rows \cup {r})
<1>1. r \notin rows
  BY DEF Insertable, KeyFree, SameKey
<1>2. NamesHold(rows \cup {r})
  BY DEF Sound, Insertable, KeyFree, NamesHold, SameKey
<1> QED
  BY <1>1, <1>2 DEF Sound, Insertable

WithoutRow(r, rows) == {q \in rows \ {r} : q \in DataWebhook => OwnerOf[q] # r}

LEMMA RemovedIsSound ==
    ASSUME NEW rows \in SUBSET DataRow, Sound(rows), NEW r \in DataRow
    PROVE  WithoutRow(r, rows) \subseteq rows /\ r \notin WithoutRow(r, rows) /\ Sound(WithoutRow(r, rows))
<1>1. NamesHold(WithoutRow(r, rows))
  BY DEF WithoutRow, Sound, NamesHold
<1>2. ASSUME NEW w \in WithoutRow(r, rows) \cap DataWebhook PROVE OwnerOf[w] \in WithoutRow(r, rows)
  <2>1. OwnerOf[w] \in rows /\ OwnerOf[w] # r /\ OwnerOf[w] \in DataSession
    BY <1>2, TransferAssumption DEF WithoutRow, Sound, KeysHold
  <2> QED
    BY <2>1, TransferAssumption DEF WithoutRow
<1> QED
  BY <1>1, <1>2 DEF Sound, KeysHold, WithoutRow

LEMMA TransferBegins == TransferInit => TransferInv
<1> SUFFICES ASSUME TransferInit PROVE TransferInv
  OBVIOUS
<1> USE DEF TransferInit
<1>1. RowsTyped
  BY DEF RowsTyped, ImportRuns
<1>2. NestAgrees
  <2>1. dbFrame \in [1 .. 2 -> SUBSET DataRow]
    OBVIOUS
  <2>2. ~ImportRuns /\ ~dbOther /\ dbDepth = 0
    BY DEF ImportRuns
  <2> QED
    BY <2>1, <2>2 DEF NestAgrees
<1>3. RowsSound
  BY NothingIsSound DEF RowsSound, Sound, ImportRuns
<1>4. ExportAgrees /\ ImportAgrees /\ ExportIsImportable
  BY DEF ExportAgrees, ImportAgrees, ImportRuns, ExportIsImportable
<1> QED
  BY <1>1, <1>2, <1>3, <1>4 DEF TransferInv

\* What a write of the server, or a rollback of another's, leaves of the export and the
\* import: what is seen is what was inserted and what the server wrote, what is missing
\* the server has deleted.
LEMMA WritesNoted ==
    ASSUME TransferInv, NEW rows \in SUBSET DataRow, db' = rows, NotesWrite(rows),
           UNCHANGED <<dbGiven, dbDump, dbExport, dbImport, dbView, dbBefore, dbTodo, dbWarnings>>,
           dbDialect = "postgres" /\ ImportRuns => dbBefore \subseteq rows
    PROVE  RowsTyped' /\ ExportAgrees' /\ ImportAgrees' /\ ExportIsImportable'
<1> USE DEF TransferInv, dbGiven
<1>1. RowsTyped'
  BY DEF RowsTyped, NotesWrite, ImportRuns
<1>2. ExportAgrees'
  BY DEF ExportAgrees, NotesWrite, RowsTyped
<1>3. ExportIsImportable'
  BY DEF ExportIsImportable, NotesWrite, PayloadMet, ImportRuns, ExportAgrees
<1>4. ImportAgrees'
  <2> SUFFICES ASSUME ImportRuns PROVE ImportAgrees'
    BY DEF ImportAgrees, ImportRuns
  <2>1. /\ dbLive' = (dbLive \cup (rows \ db)) \ (db \ rows)
        /\ dbGone' = (dbGone \cup (db \ rows)) \ (rows \ db)
    BY DEF NotesWrite
  <2>2. dbLive \cup dbGone \subseteq dbLive' \cup dbGone'
    BY <2>1
  <2>3. ~PayloadMet' => ~PayloadMet
    BY <2>2 DEF PayloadMet
  <2>4. Untorn' => Untorn
    BY DEF Untorn, NotesWrite
  <2>7. ImportRuns'
    BY DEF ImportRuns
  <2>a. CASE dbDialect = "sqlite"
    <3>1. SeenRows = db /\ SeenRows' = rows
      BY <2>a DEF SeenRows
    <3>2. SeenRows' \subseteq (dbDump \ dbTodo) \cup dbLive'
      BY <2>1, <3>1 DEF ImportAgrees
    <3>3. dbWarnings = FALSE => dbDump \ dbTodo \subseteq SeenRows' \cup dbGone'
      BY <2>1, <3>1 DEF ImportAgrees
    <3> QED
      BY <2>3, <2>4, <2>7, <2>a, <3>2, <3>3 DEF ImportAgrees
  <2>b. CASE dbDialect = "postgres"
    <3>1. SeenRows = dbView \cup (db \ dbBefore) /\ SeenRows' = dbView \cup (rows \ dbBefore)
      BY <2>b DEF SeenRows
    <3>4. dbBefore \subseteq db /\ dbBefore \subseteq rows /\ db \subseteq dbBefore \cup dbLive
          /\ dbView \subseteq dbDump \ dbTodo
      BY <2>b DEF RowsSound, ImportAgrees
    <3>5. rows \subseteq dbBefore \cup dbLive'
      BY <2>1, <3>4
    <3>2. SeenRows' \subseteq (dbDump \ dbTodo) \cup dbLive'
      BY <3>1, <3>4, <3>5
    <3>3. dbWarnings = FALSE => dbDump \ dbTodo \subseteq SeenRows' \cup dbGone'
      BY <2>1, <3>1, <3>4 DEF ImportAgrees
    <3> QED
      BY <2>3, <2>4, <2>7, <2>b, <3>2, <3>3, <3>4, <3>5 DEF ImportAgrees
  <2> QED
    BY <2>a, <2>b DEF RowsTyped
<1> QED
  BY <1>1, <1>2, <1>3, <1>4

LEMMA CreateRowKeeps == ASSUME TransferInv, NEW r \in DataRow, CreateRow(r) PROVE TransferInv'
<1> USE DEF TransferInv
<1>1. /\ Insertable(r, db) /\ ~CreationWaits(r) /\ db' = db \cup {r} /\ NotesWrite(db \cup {r})
      /\ UNCHANGED <<dbGiven, dbNest, dbDump, dbExport, dbMingled, dbImport, dbView, dbBefore, dbTodo, dbWarnings>>
  BY DEF CreateRow, ServerWrites
<1>2. r \notin db /\ Sound(db \cup {r}) /\ db \cup {r} \in SUBSET DataRow
  BY <1>1, AddedIsSound DEF RowsSound, RowsTyped
<1>3. RowsTyped' /\ ExportAgrees' /\ ImportAgrees' /\ ExportIsImportable'
  BY <1>1, <1>2, WritesNoted DEF RowsSound
<1>4. NestAgrees'
  BY <1>1 DEF NestAgrees, dbNest, dbGiven, ImportRuns
<1>5. RowsSound'
  <2>1. CASE dbDialect = "postgres" /\ ImportRuns
    <3>1. dbBefore \subseteq db /\ r \notin dbBefore /\ KeyFree(r, dbView) /\ Sound(SeenRows)
      BY <1>1, <1>2, <2>1 DEF RowsSound, CreationWaits
    <3>2. r \in DataWebhook => OwnerOf[r] \notin dbBefore
      BY <1>1, <2>1 DEF CreationWaits
    <3>3. SeenRows = dbView \cup (db \ dbBefore) /\ SeenRows' = SeenRows \cup {r}
      BY <1>1, <2>1, <3>1 DEF SeenRows, dbGiven
    <3>4. KeyFree(r, SeenRows)
      BY <1>1, <3>1, <3>3 DEF KeyFree, Insertable
    <3>5. r \in DataWebhook => OwnerOf[r] \in db \cup {r} /\ OwnerOf[r] # r
      BY <1>1, TransferAssumption DEF Insertable, KeysHold
    <3>6. KeysHold(SeenRows \cup {r})
      BY <3>1, <3>2, <3>3, <3>5 DEF Sound, KeysHold
    <3>7. Sound(SeenRows')
      BY <3>1, <3>3, <3>4, <3>6, AddedIsSound DEF Insertable
    <3> QED
      BY <1>1, <1>2, <3>1, <3>7 DEF RowsSound, dbNest
  <2>2. CASE ~(dbDialect = "postgres" /\ ImportRuns)
    BY <1>1, <1>2, <2>2 DEF RowsSound, dbNest, dbGiven, ImportRuns
  <2> QED
    BY <2>1, <2>2
<1> QED
  BY <1>3, <1>4, <1>5

LEMMA DeleteRowKeeps == ASSUME TransferInv, NEW r \in DataRow, DeleteRow(r) PROVE TransferInv'
<1> USE DEF TransferInv
<1> DEFINE rows == WithoutRow(r, db)
<1>1. /\ r \in db /\ ~DeletionWaits(r) /\ db' = rows /\ NotesWrite(rows)
      /\ UNCHANGED <<dbGiven, dbNest, dbDump, dbExport, dbMingled, dbImport, dbView, dbBefore, dbTodo, dbWarnings>>
  BY DEF DeleteRow, ServerWrites, WithoutRow
<1>2. rows \subseteq db /\ r \notin rows /\ Sound(rows) /\ rows \in SUBSET DataRow
  BY <1>1, RemovedIsSound DEF RowsSound, RowsTyped
<1>3. ASSUME dbDialect = "postgres", ImportRuns
      PROVE  dbBefore \subseteq rows /\ Sound(dbView \cup (rows \ dbBefore))
  <2>1. /\ dbBefore \subseteq db /\ r \notin dbBefore /\ Sound(dbBefore) /\ Sound(SeenRows)
        /\ \A w \in dbView \cap DataWebhook : OwnerOf[w] # r
        /\ SeenRows = dbView \cup (db \ dbBefore)
    BY <1>1, <1>3 DEF RowsSound, DeletionWaits, SeenRows
  <2>2. dbBefore \subseteq rows
    BY <2>1 DEF WithoutRow, Sound, KeysHold
  <2>3. NamesHold(dbView \cup (rows \ dbBefore))
    BY <1>2, <2>1 DEF Sound, NamesHold
  <2>4. ASSUME NEW w \in (dbView \cup (rows \ dbBefore)) \cap DataWebhook
        PROVE  OwnerOf[w] \in dbView \cup (rows \ dbBefore)
    <3>1. OwnerOf[w] \in dbView \cup (db \ dbBefore) /\ OwnerOf[w] \in DataSession
      BY <1>2, <2>1, <2>4, TransferAssumption DEF Sound, KeysHold
    <3>2. OwnerOf[w] # r
      BY <2>1, <2>4 DEF WithoutRow
    <3> QED
      BY <3>1, <3>2, TransferAssumption DEF WithoutRow
  <2> QED
    BY <2>2, <2>3, <2>4 DEF Sound, KeysHold
<1> HIDE DEF rows
<1>4. RowsTyped' /\ ExportAgrees' /\ ImportAgrees' /\ ExportIsImportable'
  BY <1>1, <1>2, <1>3, WritesNoted
<1>5. NestAgrees'
  BY <1>1 DEF NestAgrees, dbNest, dbGiven, ImportRuns
<1>6. RowsSound'
  BY <1>1, <1>2, <1>3 DEF RowsSound, dbNest, dbGiven, ImportRuns, SeenRows
<1> QED
  BY <1>4, <1>5, <1>6

LEMMA OthersKeep == ASSUME TransferInv, OtherBegins \/ OtherCommits \/ OtherFails PROVE TransferInv'
<1> USE DEF TransferInv
<1>d. dbDepth \in 0 .. 2 /\ dbFrame \in [1 .. 2 -> SUBSET DataRow] /\ dbDialect \in {"sqlite", "postgres"}
  BY DEF NestAgrees, RowsTyped
<1>0. ASSUME OtherBegins \/ OtherCommits
      PROVE  /\ RowsTyped' /\ ExportAgrees' /\ ImportAgrees' /\ ExportIsImportable'
             /\ UNCHANGED <<dbGiven, db, dbTaken, dbSeen, dbImport, dbView, dbBefore>>
  BY <1>0 DEF OtherBegins, OtherCommits, RowsTyped, ExportAgrees, ImportAgrees, ExportIsImportable, ImportRuns,
        SeenRows, Untorn, PayloadMet, dbGiven, dbTaken, dbSeen
<1>1. CASE OtherBegins
  <2>1. /\ dbDialect = "sqlite" /\ ~dbOther /\ dbDepth' = dbDepth + 1 /\ dbOther' = TRUE
        /\ dbFrame' = [dbFrame EXCEPT ![dbDepth + 1] = db]
    BY <1>1 DEF OtherBegins, Nests
  <2>2. dbDepth = (IF ImportRuns THEN 1 ELSE 0)
    BY <2>1 DEF NestAgrees
  <2>3. dbFrame' \in [1 .. 2 -> SUBSET DataRow] /\ \A d \in 1 .. 2 : dbFrame'[d] = IF d = dbDepth + 1 THEN db ELSE dbFrame[d]
    BY <1>d, <2>1, <2>2 DEF RowsTyped
  <2>4. NestAgrees'
    BY <1>0, <1>1, <2>1, <2>2, <2>3 DEF NestAgrees, ImportRuns, dbGiven, dbSeen
  <2>5. RowsSound'
    BY <1>0, <1>1, <2>1, <2>3 DEF RowsSound, ImportRuns, dbGiven
  <2> QED
    BY <1>0, <1>1, <2>4, <2>5
<1>2. CASE OtherCommits
  <2>1. /\ dbOther /\ dbDepth' = dbDepth - 1 /\ dbOther' = FALSE
        /\ dbFrame' = [dbFrame EXCEPT ![dbDepth] = {}]
    BY <1>2 DEF OtherCommits, Unnests
  <2>2. dbDepth = 1 + (IF ImportRuns THEN 1 ELSE 0) /\ dbDialect = "sqlite"
    BY <1>d, <2>1 DEF NestAgrees
  <2>3. dbFrame' \in [1 .. 2 -> SUBSET DataRow] /\ \A d \in 1 .. 2 : dbFrame'[d] = IF d = dbDepth THEN {} ELSE dbFrame[d]
    BY <1>d, <2>1, <2>2
  <2>4. NestAgrees'
    BY <1>0, <1>2, <2>1, <2>2, <2>3 DEF NestAgrees, ImportRuns, dbGiven, dbSeen
  <2>5. RowsSound'
    BY <1>0, <1>2, <2>2, <2>3, NothingIsSound DEF RowsSound, ImportRuns, dbGiven
  <2> QED
    BY <1>0, <1>2, <2>4, <2>5
<1>3. CASE OtherFails
  <2>1. /\ dbOther /\ dbDepth' = dbDepth - 1 /\ dbOther' = FALSE
        /\ dbFrame' = [dbFrame EXCEPT ![dbDepth] = {}]
        /\ db' = dbFrame[dbDepth] /\ NotesWrite(db') /\ dbMingled' = (dbMingled \/ ImportRuns)
        /\ UNCHANGED <<dbGiven, dbDump, dbExport, dbImport, dbView, dbBefore, dbTodo, dbWarnings>>
    BY <1>3 DEF OtherFails, Unnests
  <2>2. dbDepth = 1 + (IF ImportRuns THEN 1 ELSE 0) /\ dbDialect = "sqlite"
    BY <1>d, <2>1 DEF NestAgrees
  <2>3. dbFrame' \in [1 .. 2 -> SUBSET DataRow] /\ \A d \in 1 .. 2 : dbFrame'[d] = IF d = dbDepth THEN {} ELSE dbFrame[d]
    BY <1>d, <2>1, <2>2
  <2>8. ImportRuns => dbMingled'
    BY <2>1
  <2>9. ImportRuns' = ImportRuns /\ dbDialect' = dbDialect /\ ~dbOther'
    BY <2>1 DEF ImportRuns, dbGiven
  <2>4. NestAgrees'
    BY <2>1, <2>2, <2>3, <2>8, <2>9 DEF NestAgrees
  <2>5. db' \in SUBSET DataRow /\ Sound(db')
    BY <1>d, <2>1, <2>2 DEF RowsSound
  <2>6. RowsSound'
    BY <2>1, <2>2, <2>3, <2>5, NothingIsSound DEF RowsSound, ImportRuns, dbGiven
  <2>7. RowsTyped' /\ ExportAgrees' /\ ImportAgrees' /\ ExportIsImportable'
    BY <2>1, <2>2, <2>5, WritesNoted
  <2> QED
    BY <2>4, <2>6, <2>7
<1> QED
  BY <1>1, <1>2, <1>3

LEMMA BeginKeeps == ASSUME TransferInv, BeginImport PROVE TransferInv'
<1> USE DEF TransferInv
<1>1. /\ dbExport = "done" /\ dbImport = "none" /\ dbImport' = "sessions" /\ dbBefore' = db
      /\ dbTodo' = dbDump /\ dbWarnings' = FALSE /\ dbLive' = {} /\ dbGone' = {} /\ dbMingled' = dbOther
      /\ UNCHANGED <<dbGiven, dbTaken, dbOther, dbView>>
  BY DEF BeginImport
<1>2. ~ImportRuns /\ ImportRuns' /\ dbView = {} /\ dbView' = {}
  BY <1>1 DEF ImportRuns, RowsTyped
<1>3. RowsTyped /\ dbDepth = (IF dbOther THEN 1 ELSE 0) /\ dbFrame \in [1 .. 2 -> SUBSET DataRow]
  BY <1>2 DEF NestAgrees
<1>4. CASE dbDialect = "sqlite"
  <2>1. db' = {} /\ dbDepth' = dbDepth + 1 /\ dbFrame' = [dbFrame EXCEPT ![dbDepth + 1] = db]
    BY <1>4 DEF BeginImport, Nests
  <2>2. dbFrame' \in [1 .. 2 -> SUBSET DataRow] /\ \A d \in 1 .. 2 : dbFrame'[d] = IF d = dbDepth + 1 THEN db ELSE dbFrame[d]
    BY <1>3, <2>1 DEF RowsTyped
  <2>3. RowsTyped'
    BY <1>1, <1>2, <1>3, <2>1 DEF RowsTyped, dbGiven, dbTaken
  <2>4. NestAgrees'
    BY <1>1, <1>2, <1>3, <1>4, <2>1, <2>2 DEF NestAgrees, dbGiven
  <2>5. RowsSound'
    BY <1>1, <1>4, <2>1, <2>2, NothingIsSound DEF RowsSound, dbGiven
  <2>6. SeenRows' = {}
    BY <1>1, <1>4, <2>1 DEF SeenRows, dbGiven
  <2>7. ImportAgrees'
    BY <1>1, <1>4, <2>6 DEF ImportAgrees, dbGiven, dbTaken
  <2>8. ExportAgrees' /\ ExportIsImportable'
    BY <1>1 DEF ExportAgrees, ExportIsImportable, dbTaken
  <2> QED
    BY <2>3, <2>4, <2>5, <2>7, <2>8
<1>5. CASE dbDialect = "postgres"
  <2>1. UNCHANGED <<db, dbDepth, dbFrame>>
    BY <1>5 DEF BeginImport
  <2>3. RowsTyped'
    BY <1>1, <1>2, <1>3, <2>1 DEF RowsTyped, dbGiven, dbTaken
  <2>4. NestAgrees'
    BY <1>1, <1>2, <1>3, <1>5, <2>1 DEF NestAgrees, dbGiven
  <2>6. SeenRows' = {}
    BY <1>1, <1>2, <1>5, <2>1 DEF SeenRows, dbGiven
  <2>5. RowsSound'
    BY <1>1, <1>5, <2>1, <2>6, NothingIsSound DEF RowsSound, dbGiven
  <2>7. ImportAgrees'
    BY <1>1, <1>2, <1>5, <2>1, <2>6 DEF ImportAgrees, dbGiven, dbTaken
  <2>8. ExportAgrees' /\ ExportIsImportable'
    BY <1>1 DEF ExportAgrees, ExportIsImportable, dbTaken
  <2> QED
    BY <2>3, <2>4, <2>5, <2>7, <2>8
<1> QED
  BY <1>4, <1>5 DEF RowsTyped

\* A row is refused only if one is odd, the export was torn, or the server has met it.
LEMMA RefusedForAReason ==
    ASSUME TransferInv, ImportRuns, NEW r \in dbTodo \cap RowsOfTable, Untorn, ~PayloadMet
    PROVE  ~InsertRefused(r)
<1> USE DEF TransferInv
<1>1. /\ dbWarnings = FALSE /\ r \notin dbOdd /\ r \in dbDump /\ dbTodo \subseteq dbDump
      /\ SeenRows \subseteq (dbDump \ dbTodo) \cup dbLive /\ dbDump \ dbTodo \subseteq SeenRows \cup dbGone
  BY DEF Untorn, ImportAgrees
<1>2. Sound(dbDump) /\ Sound(SeenRows)
  BY DEF ExportAgrees, Untorn, ImportRuns, RowsSound, SeenRows, RowsTyped
<1>3. KeyFree(r, SeenRows)
  <2> SUFFICES ASSUME NEW q \in SeenRows, SameKey(q, r) PROVE FALSE
    BY DEF KeyFree
  <2>1. CASE q \in dbLive
    BY <1>1, <2>1 DEF PayloadMet
  <2>2. CASE q \in dbDump \ dbTodo
    BY <1>1, <1>2, <2>2 DEF Sound, NamesHold
  <2> QED
    BY <1>1, <2>1, <2>2
<1>4. KeysHold(SeenRows \cup {r})
  <2>1. CASE dbImport = "sessions"
    BY <2>1, <1>2, TransferAssumption DEF RowsOfTable, KeysHold, Sound
  <2>2. CASE dbImport = "webhooks"
    <3>1. r \in DataWebhook /\ OwnerOf[r] \in DataSession
      BY <2>2, TransferAssumption DEF RowsOfTable
    <3>2. OwnerOf[r] \in dbDump
      BY <1>1, <1>2, <3>1 DEF Sound, KeysHold
    <3>3. OwnerOf[r] \notin dbTodo
      BY <2>2, <3>1 DEF ImportAgrees
    <3>4. OwnerOf[r] \notin dbGone
      BY <3>2 DEF PayloadMet, SameKey
    <3> QED
      BY <1>1, <1>2, <3>2, <3>3, <3>4 DEF Sound, KeysHold
  <2> QED
    BY <2>1, <2>2 DEF ImportRuns
<1> QED
  BY <1>1, <1>3, <1>4 DEF InsertRefused, Insertable

LEMMA InsertRowKeeps == ASSUME TransferInv, NEW r \in DataRow, InsertRow(r) PROVE TransferInv'
<1> USE DEF TransferInv
<1>1. /\ r \in dbTodo \cap RowsOfTable /\ ImportRuns /\ dbTodo' = dbTodo \ {r}
      /\ UNCHANGED <<dbGiven, dbNest, dbTaken, dbSeen, dbImport, dbBefore>>
  BY DEF InsertRow
<1>2. ImportRuns' /\ (PayloadMet' <=> PayloadMet) /\ (Untorn' <=> Untorn)
  BY <1>1 DEF ImportRuns, PayloadMet, Untorn, dbGiven, dbTaken, dbSeen
<1>3. ExportAgrees' /\ ExportIsImportable' /\ NestAgrees'
  BY <1>1, <1>2 DEF ExportAgrees, ExportIsImportable, NestAgrees, ImportRuns, dbGiven, dbNest, dbTaken, dbSeen
<1>4. dbDialect' = dbDialect /\ dbDialect \in {"sqlite", "postgres"} /\ r \in dbDump /\ dbDump' = dbDump
      /\ dbLive' = dbLive /\ dbGone' = dbGone /\ dbBefore' = dbBefore /\ dbImport' = dbImport
  BY <1>1 DEF dbGiven, dbTaken, dbSeen, RowsTyped, ImportAgrees
<1>5. CASE InsertRefused(r)
  <2>1. dbWarnings' = TRUE /\ UNCHANGED <<db, dbView>>
    BY <1>5 DEF InsertRow
  <2>2. ~(Untorn /\ ~PayloadMet)
    BY <1>1, <1>5, RefusedForAReason
  <2>3. SeenRows' = SeenRows
    BY <1>4, <2>1 DEF SeenRows
  <2>4. RowsTyped' /\ RowsSound'
    BY <1>1, <1>2, <1>4, <2>1, <2>3 DEF RowsTyped, RowsSound, ImportRuns, dbGiven, dbNest, dbTaken, dbSeen
  <2>5. SeenRows \subseteq (dbDump \ dbTodo') \cup dbLive /\ dbTodo' \subseteq dbDump
    BY <1>1 DEF ImportAgrees
  <2>6. dbDialect = "postgres" => dbView \subseteq dbDump \ dbTodo'
    BY <1>1 DEF ImportAgrees
  <2>7. ImportAgrees'
    BY <1>1, <1>2, <1>4, <2>1, <2>2, <2>3, <2>5, <2>6 DEF ImportAgrees
  <2> QED
    BY <1>3, <2>4, <2>7
<1>6. CASE ~InsertRefused(r)
  <2>1. Inserts(r) /\ dbWarnings' = dbWarnings /\ Insertable(r, SeenRows)
    BY <1>6 DEF InsertRow, InsertRefused
  <2>2. /\ SeenRows' = SeenRows \cup {r}
        /\ dbDialect = "sqlite" => db' = db \cup {r} /\ dbView' = dbView
        /\ dbDialect = "postgres" => db' = db /\ dbView' = dbView \cup {r}
    BY <1>4, <2>1 DEF SeenRows, Inserts
  <2>3. Sound(SeenRows) /\ Sound(SeenRows \cup {r})
    BY <1>1, <1>4, <2>1, AddedIsSound DEF RowsSound, SeenRows
  <2>4. RowsTyped'
    BY <1>1, <1>2, <1>4, <2>2 DEF RowsTyped, ImportRuns, dbGiven, dbTaken, dbSeen
  <2>5. RowsSound'
    BY <1>1, <1>4, <2>2, <2>3 DEF RowsSound, SeenRows, dbNest, ImportRuns
  <2>6. /\ SeenRows \cup {r} \subseteq (dbDump \ dbTodo') \cup dbLive /\ dbTodo' \subseteq dbDump
        /\ dbWarnings = FALSE => dbDump \ dbTodo' \subseteq (SeenRows \cup {r}) \cup dbGone
        /\ dbDialect = "postgres" => dbView' \subseteq dbDump \ dbTodo'
    BY <1>1, <1>4, <2>2 DEF ImportAgrees
  <2>7. ImportAgrees'
    BY <1>1, <1>2, <1>4, <2>1, <2>2, <2>6 DEF ImportAgrees
  <2> QED
    BY <1>3, <2>4, <2>5, <2>7
<1> QED
  BY <1>5, <1>6

\* What the end of an import makes of the rows.
LEMMA ImportsEnd ==
    ASSUME TransferInv, FinishImport \/ ImportThrows
    PROVE  /\ ImportRuns /\ dbView' = {} /\ dbMingled' = (dbMingled \/ dbOther)
           /\ UNCHANGED <<dbGiven, dbOther, dbTaken, dbLive, dbGone, dbBefore>>
           /\ dbImport' \in {"done", "refused", "thrown"}
           /\ dbImport' = "done" => dbWarnings = FALSE /\ dbTodo = {} /\ db' = SeenRows
           /\ dbImport' = "refused" => dbWarnings # FALSE
           /\ dbImport' # "done" /\ dbDialect = "postgres" => db' = db
           /\ dbImport' # "done" /\ dbDialect = "sqlite" => db' = dbFrame[dbDepth]
           /\ dbDepth' = (IF dbOther THEN 1 ELSE 0)
           /\ dbFrame' \in [1 .. 2 -> SUBSET DataRow]
           /\ \A d \in 1 .. 2 : dbFrame'[d] \in {{}, dbFrame[d]}
           /\ Sound(db') /\ db' \subseteq DataRow
<1> USE DEF TransferInv
<1>1. /\ ImportRuns /\ dbView' = {} /\ dbMingled' = (dbMingled \/ dbOther)
      /\ UNCHANGED <<dbGiven, dbOther, dbTaken, dbLive, dbGone, dbBefore>>
      /\ dbImport' \in {"done", "refused", "thrown"}
      /\ dbImport' = "done" => dbWarnings = FALSE /\ dbTodo = {} /\ Committed
      /\ dbImport' = "refused" => dbWarnings # FALSE
      /\ dbImport' # "done" => RolledBack
  BY DEF FinishImport, ImportThrows, ImportKept, ImportRuns
<1>2. /\ dbFrame \in [1 .. 2 -> SUBSET DataRow] /\ dbDialect \in {"sqlite", "postgres"}
      /\ dbDialect = "postgres" => ~dbOther /\ dbDepth = 0
      /\ dbDialect = "sqlite" => dbDepth = (IF dbOther THEN 1 ELSE 0) + 1
      /\ SeenRows \subseteq DataRow /\ Sound(SeenRows)
  BY <1>1 DEF NestAgrees, RowsTyped, RowsSound, SeenRows
<1>3. CASE dbDialect = "sqlite"
  <2>1. dbDepth' = dbDepth - 1 /\ dbFrame' = [dbFrame EXCEPT ![dbDepth] = {}]
        /\ db' = IF dbImport' = "done" THEN db ELSE dbFrame[dbDepth]
    BY <1>1, <1>3 DEF Committed, RolledBack, Unnests
  <2>2. dbDepth \in 1 .. 2 /\ SeenRows = db
    BY <1>2, <1>3 DEF SeenRows
  <2>3. dbFrame' \in [1 .. 2 -> SUBSET DataRow] /\ \A d \in 1 .. 2 : dbFrame'[d] \in {{}, dbFrame[d]}
    BY <1>2, <2>1, <2>2
  <2>4. Sound(dbFrame[dbDepth]) /\ dbFrame[dbDepth] \subseteq DataRow /\ Sound(db)
    BY <1>2, <2>2 DEF RowsSound
  <2>5. dbDepth' = (IF dbOther THEN 1 ELSE 0)
    BY <1>2, <1>3, <2>1
  <2> QED
    BY <1>1, <1>2, <1>3, <2>1, <2>2, <2>3, <2>4, <2>5
<1>4. CASE dbDialect = "postgres"
  <2>1. dbDepth' = dbDepth /\ dbFrame' = dbFrame /\ db' = IF dbImport' = "done" THEN SeenRows ELSE db
    BY <1>1, <1>4 DEF Committed, RolledBack
  <2> QED
    BY <1>1, <1>2, <1>4, <2>1 DEF RowsSound, RowsTyped
<1> QED
  BY <1>2, <1>3, <1>4

LEMMA EndsKeep == ASSUME TransferInv, FinishImport \/ ImportThrows PROVE TransferInv'
<1>1. /\ ImportRuns /\ dbView' = {}
      /\ UNCHANGED <<dbGiven, dbOther, dbTaken, dbLive, dbGone, dbBefore>>
      /\ dbImport' \in {"done", "refused", "thrown"}
      /\ dbImport' = "refused" => dbWarnings # FALSE
      /\ dbDepth' = (IF dbOther THEN 1 ELSE 0)
      /\ dbFrame' \in [1 .. 2 -> SUBSET DataRow]
      /\ \A d \in 1 .. 2 : dbFrame'[d] \in {{}, dbFrame[d]}
      /\ Sound(db') /\ db' \subseteq DataRow
  BY ImportsEnd
<1> USE DEF TransferInv
<1>2. ~ImportRuns'
  BY <1>1 DEF ImportRuns
<1>3. RowsTyped'
  BY <1>1 DEF RowsTyped, dbGiven, dbTaken
<1>4. NestAgrees'
  BY <1>1, <1>2 DEF NestAgrees, dbGiven
<1>5. RowsSound'
  BY <1>1, <1>2, NothingIsSound DEF RowsSound
<1>6. ExportAgrees' /\ ImportAgrees'
  BY <1>1, <1>2 DEF ExportAgrees, ImportAgrees, ImportRuns, dbTaken
<1>7. ExportIsImportable'
  <2>1. (Untorn' <=> Untorn) /\ (PayloadMet' <=> PayloadMet)
    BY <1>1 DEF Untorn, PayloadMet, dbGiven, dbTaken
  <2>2. dbImport' = "refused" => ~Untorn \/ PayloadMet
    BY <1>1 DEF ImportAgrees
  <2>3. Untorn' <=> (dbQuiet' = TRUE /\ dbOdd' = {})
    BY DEF Untorn
  <2> QED
    BY <2>1, <2>2, <2>3 DEF ExportIsImportable
<1> QED
  BY <1>3, <1>4, <1>5, <1>6, <1>7

LEMMA ExportKeeps == ASSUME TransferInv, ExportSessions \/ ExportWebhooks PROVE TransferInv'
<1> USE DEF TransferInv
<1>1. /\ dbExport \in {"none", "sessions"} /\ dbImport = "none" /\ ~ImportRuns /\ ~ImportRuns'
      /\ UNCHANGED <<dbGiven, db, dbNest, dbSeen, dbImport, dbView, dbBefore>>
  BY DEF ExportSessions, ExportWebhooks, ExportAgrees, ImportRuns
<1>2. RowsTyped'
  <2>1. dbExport' \in {"none", "sessions", "done"} /\ dbDump' \subseteq DataRow
    BY DEF ExportSessions, ExportWebhooks, RowsTyped, DataRow
  <2> QED
    BY <1>1, <2>1 DEF RowsTyped, dbGiven, dbSeen
<1>3. NestAgrees' /\ RowsSound' /\ ImportAgrees' /\ ExportIsImportable'
  BY <1>1 DEF NestAgrees, RowsSound, ImportAgrees, ExportIsImportable, dbGiven, dbNest
<1>4. ExportAgrees'
  <2>1. CASE ExportSessions
    BY <1>1, <2>1 DEF ExportSessions, ExportAgrees
  <2>2. CASE ExportWebhooks
    <3>1. dbExport = "sessions" /\ dbExport' = "done" /\ dbQuiet' = dbQuiet
          /\ dbDump' = dbDump \cup (db \cap DataWebhook) /\ db \subseteq DataRow
      BY <2>2 DEF ExportWebhooks, RowsTyped
    <3>2. dbQuiet' = TRUE => dbDump' = db
      BY <3>1 DEF ExportAgrees, DataRow
    <3> QED
      BY <1>1, <3>1, <3>2 DEF ExportAgrees, RowsSound
  <2> QED
    BY <2>1, <2>2
<1> QED
  BY <1>2, <1>3, <1>4

LEMMA NextTableKeeps == ASSUME TransferInv, NextTable PROVE TransferInv'
<1> USE DEF TransferInv
<1>1. /\ dbImport = "sessions" /\ dbImport' = "webhooks" /\ dbTodo \cap DataSession = {}
      /\ UNCHANGED <<dbGiven, db, dbNest, dbTaken, dbSeen, dbView, dbBefore, dbTodo, dbWarnings>>
  BY DEF NextTable
<1>2. ImportRuns /\ ImportRuns'
  BY <1>1 DEF ImportRuns
<1>3. RowsTyped' /\ NestAgrees'
  BY <1>1, <1>2 DEF RowsTyped, NestAgrees, dbGiven, dbNest, dbTaken, dbSeen
<1>4. RowsSound' /\ ExportAgrees' /\ ExportIsImportable'
  BY <1>1, <1>2 DEF RowsSound, SeenRows, ExportAgrees, ExportIsImportable, dbGiven, dbNest, dbTaken
<1>5. ImportAgrees'
  BY <1>1, <1>2 DEF ImportAgrees, SeenRows, Untorn, PayloadMet, dbGiven, dbTaken, dbSeen
<1> QED
  BY <1>3, <1>4, <1>5

LEMMA TransferKeeps == ASSUME TransferInv, [TransferNext]_transferVars PROVE TransferInv'
<1>1. CASE UNCHANGED transferVars
  BY <1>1 DEF transferVars, TransferInv, RowsTyped, NestAgrees, RowsSound, ExportAgrees, ImportAgrees,
        ExportIsImportable, ImportRuns, SeenRows, Untorn, PayloadMet, dbGiven, dbNest, dbTaken, dbSeen
<1>2. CASE TransferNext
  BY <1>2, CreateRowKeeps, DeleteRowKeeps, InsertRowKeeps, OthersKeep, BeginKeeps, ExportKeeps, NextTableKeeps, EndsKeep
     DEF TransferNext
<1> QED
  BY <1>1, <1>2

\* An export that nothing disturbed can be imported, unless the server meets the payload.
THEOREM ExportsAreImportable == TransferSpec => []ExportIsImportable
<1>1. TransferInit => TransferInv
  BY TransferBegins
<1>2. TransferInv /\ [TransferNext]_transferVars => TransferInv'
  BY TransferKeeps
<1>3. TransferInv => ExportIsImportable
  BY DEF TransferInv
<1> QED
  BY <1>1, <1>2, <1>3, PTL DEF TransferSpec

LEMMA TransferEnds == ASSUME TransferInv, [TransferNext]_transferVars PROVE EndsAllOrNothing
<1> USE DEF TransferInv
<1>1. ASSUME FinishImport \/ ImportThrows PROVE EndsAllOrNothing
  <2>1. /\ ImportRuns /\ dbMingled' = (dbMingled \/ dbOther)
        /\ UNCHANGED <<dbGiven, dbOther, dbTaken, dbLive, dbGone, dbBefore>>
        /\ dbImport' \in {"done", "refused", "thrown"}
        /\ dbImport' = "done" => dbWarnings = FALSE /\ dbTodo = {} /\ db' = SeenRows
        /\ dbImport' # "done" /\ dbDialect = "postgres" => db' = db
        /\ dbImport' # "done" /\ dbDialect = "sqlite" => db' = dbFrame[dbDepth]
    BY <1>1, ImportsEnd
  <2>2. ASSUME dbImport' = "done" PROVE dbDump \ dbGone \subseteq db' /\ db' \subseteq dbDump \cup dbLive
    BY <2>1, <2>2 DEF ImportAgrees
  <2>3. ASSUME dbImport' # "done", ~dbMingled' PROVE dbBefore \subseteq db' /\ db' \subseteq dbBefore \cup dbLive
    <3>1. CASE dbDialect = "sqlite"
      <4>1. ~dbMingled /\ ~dbOther
        BY <2>1, <2>3
      <4>2. dbDepth = 1 /\ dbFrame[1] = dbBefore
        BY <2>1, <3>1, <4>1 DEF NestAgrees
      <4> QED
        BY <2>1, <2>3, <3>1, <4>2
    <3>2. CASE dbDialect = "postgres"
      BY <2>1, <2>3, <3>2 DEF RowsSound, ImportAgrees
    <3> QED
      BY <3>1, <3>2 DEF RowsTyped
  <2> QED
    BY <2>1, <2>2, <2>3 DEF EndsAllOrNothing, ImportRuns, dbTaken
<1>2. ASSUME ~(FinishImport \/ ImportThrows) PROVE dbImport' = dbImport \/ dbImport' \in {"sessions", "webhooks"}
  BY <1>2 DEF TransferNext, transferVars, CreateRow, DeleteRow, ServerWrites, InsertRow, OtherBegins, OtherCommits,
        OtherFails, ExportSessions, ExportWebhooks, BeginImport, NextTable
<1>3. ASSUME ~(FinishImport \/ ImportThrows) PROVE EndsAllOrNothing
  BY <1>2, <1>3 DEF EndsAllOrNothing, ImportRuns
<1> QED
  BY <1>1, <1>3

\* An import is all or nothing, as far as no other transaction is open with it.
THEOREM ImportsAreWhole == TransferSpec => AllOrNothing
<1>1. TransferInit => TransferInv
  BY TransferBegins
<1>2. TransferInv /\ [TransferNext]_transferVars => TransferInv' /\ [EndsAllOrNothing]_dbImport
  BY TransferKeeps, TransferEnds
<1> QED
  BY <1>1, <1>2, PTL DEF TransferSpec, AllOrNothing

-----------------------------------------------------------------------------
(* The messages that the chat page draws.                                  *)

\* Lists of bubbles: one with its WhatsApp id, and one placeholder, for each message.
WaOnce(bs) == \A i, j \in 1..Len(bs) :
  bs[i].of = bs[j].of /\ bs[i].id = "wa" /\ bs[j].id = "wa" => i = j
Waiting(b) == b.id = "temp" /\ b.status = "pending"
WaitingOnce(bs) == \A i, j \in 1..Len(bs) : bs[i].of = bs[j].of /\ Waiting(bs[i]) /\ Waiting(bs[j]) => i = j

\* A placeholder is that of a message sent here; it waits only while the request does.
TempsAreSent(bs, requests, chats) == \A i \in 1..Len(bs) :
  bs[i].id = "temp" =>
    /\ bs[i].status \in {"pending", "failed"} /\ bs[i].revoked = FALSE
    /\ chats[bs[i].of] # NoChatOpen
    /\ bs[i].status = "pending" => requests[bs[i].of] \in {"asked", "accepted"}

DrawnOnce(bs, requests, chats) ==
  bs \in Seq(Bubble) /\ WaOnce(bs) /\ WaitingOnce(bs) /\ TempsAreSent(bs, requests, chats)

\* A history has no placeholders and each message once.
HistoryType == {bs \in Seq(Bubble) :
  /\ \A i, j \in 1..Len(bs) : bs[i].of = bs[j].of => i = j
  /\ \A i \in 1..Len(bs) : bs[i].id # "temp"}

EventType == [kind : {"message", "ack", "revoked"}, of : ChatMessage, status : {"sent", "delivered", "failed"}]
LoadType == [chat : Chat \cup {NoChatOpen}, step : {"idle", "asked", "read"}, data : HistoryType]

ChatTyped ==
  /\ chatOf \in [ChatMessage -> Chat \cup {NoChatOpen}]
  /\ chatRow \in [ChatMessage -> BubbleStatus]
  /\ post \in [ChatMessage -> {"none", "asked", "accepted", "over"}]
  /\ events \in Seq(EventType) /\ loads \in [HistoryLoad -> LoadType]
  /\ active \in Chat \cup {NoChatOpen}
  /\ \A m \in ChatMessage : post[m] # "none" => chatOf[m] # NoChatOpen

ChatInv == ChatTyped /\ DrawnOnce(bubbles, post, chatOf)

\* From one list to another no tick goes back and no deleted message comes back.
Advances(bs, cs) ==
  \A i \in 1..Len(bs), j \in 1..Len(cs) :
    bs[i].id = "wa" /\ cs[j].id = "wa" /\ bs[i].of = cs[j].of
      => cs[j].status \in Onward[bs[i].status] /\ (bs[i].revoked => cs[j].revoked)

-----------------------------------------------------------------------------
(* What the operations do with a list.                                     *)

LEMMA AdvancesAtOnce == \A s \in BubbleStatus \ {"none"} : s \in Onward[s]
BY DEF BubbleStatus, Onward

\* mergeDeliveryStatus() only goes on.
LEMMA MergedAdvances ==
  ASSUME NEW s \in BubbleStatus \ {"none"}, NEW t \in {"sent", "delivered", "failed"}
  PROVE  Merged(s, t) \in BubbleStatus \ {"none"} /\ Merged(s, t) \in Onward[s]
BY DEF BubbleStatus, Onward, Merged, TickRank

LEMMA StaysDrawn ==
  ASSUME NEW bs, NEW requests, NEW chats, DrawnOnce(bs, requests, chats)
  PROVE  Advances(bs, bs)
<1> SUFFICES ASSUME NEW i \in 1..Len(bs), NEW j \in 1..Len(bs),
                    bs[i].id = "wa", bs[j].id = "wa", bs[i].of = bs[j].of
             PROVE  bs[j].status \in Onward[bs[i].status] /\ (bs[i].revoked => bs[j].revoked)
  BY DEF Advances
<1>1. i = j /\ bs[i] \in Bubble
  BY DEF DrawnOnce, WaOnce
<1>2. bs[i].status \in BubbleStatus \ {"none"}
  BY <1>1 DEF Bubble
<1> QED BY <1>1, <1>2, AdvancesAtOnce

\* A bubble is added.
LEMMA OneMoreDrawn ==
  ASSUME NEW bs, NEW requests, NEW chats, DrawnOnce(bs, requests, chats), NEW b \in Bubble,
         b.id = "wa" => \A i \in 1..Len(bs) : bs[i].of = b.of => bs[i].id # "wa",
         Waiting(b) => \A i \in 1..Len(bs) : bs[i].of = b.of => ~Waiting(bs[i]),
         b.id = "temp" => /\ b.status = "pending" /\ b.revoked = FALSE
                          /\ chats[b.of] # NoChatOpen /\ requests[b.of] \in {"asked", "accepted"}
  PROVE  DrawnOnce(Append(bs, b), requests, chats) /\ Advances(bs, Append(bs, b))
<1> DEFINE cs == Append(bs, b)
           n == Len(bs)
<1>1. bs \in Seq(Bubble)
  BY DEF DrawnOnce
<1>2. /\ n \in Nat /\ cs \in Seq(Bubble) /\ Len(cs) = n + 1 /\ cs[n + 1] = b
      /\ \A i \in 1..n : cs[i] = bs[i]
  BY <1>1
<1>3. Advances(bs, bs)
  BY StaysDrawn
<1> HIDE DEF cs, n
<1>4. \A i \in 1..n + 1 : i = n + 1 \/ i \in 1..n
  BY <1>2
<1>5. WaOnce(bs) /\ WaitingOnce(bs) /\ TempsAreSent(bs, requests, chats)
  BY DEF DrawnOnce
<1>6. WaOnce(cs)
  BY <1>2, <1>4, <1>5 DEF WaOnce, n
<1>7. WaitingOnce(cs)
  BY <1>2, <1>4, <1>5 DEF WaitingOnce, n
<1>8. TempsAreSent(cs, requests, chats)
  BY <1>2, <1>4, <1>5 DEF TempsAreSent, n
<1>9. Advances(bs, cs)
  BY <1>2, <1>3, <1>4 DEF Advances, n
<1> QED BY <1>2, <1>6, <1>7, <1>8, <1>9 DEF DrawnOnce, cs

\* Bubbles with their WhatsApp ids are changed, each to one that its status allows.
LEMMA EachChanged ==
  ASSUME NEW bs, NEW requests, NEW chats, DrawnOnce(bs, requests, chats),
         NEW cs \in [1..Len(bs) -> Bubble],
         \A i \in 1..Len(bs) :
           /\ cs[i].of = bs[i].of /\ cs[i].id = bs[i].id
           /\ bs[i].id # "wa" => cs[i] = bs[i]
           /\ cs[i].status \in Onward[bs[i].status] /\ (bs[i].revoked => cs[i].revoked)
  PROVE  DrawnOnce(cs, requests, chats) /\ Advances(bs, cs)
<1>1. bs \in Seq(Bubble) /\ Len(bs) \in Nat
  BY DEF DrawnOnce
<1>2. cs \in Seq(Bubble) /\ Len(cs) = Len(bs)
  BY <1>1, IsASeq, LenProperties
<1>3. WaOnce(bs) /\ WaitingOnce(bs) /\ TempsAreSent(bs, requests, chats)
  BY DEF DrawnOnce
<1>4. WaOnce(cs)
  BY <1>2, <1>3 DEF WaOnce
<1>5. WaitingOnce(cs)
  <2>1. \A i \in 1..Len(bs) : Waiting(cs[i]) => Waiting(bs[i])
    BY DEF Waiting
  <2> QED BY <1>2, <1>3, <2>1 DEF WaitingOnce
<1>6. TempsAreSent(cs, requests, chats)
  <2>1. \A i \in 1..Len(bs) : cs[i].id = "temp" => cs[i] = bs[i]
    OBVIOUS
  <2> QED BY <1>2, <1>3, <2>1 DEF TempsAreSent
<1>7. Advances(bs, cs)
  BY <1>2, <1>3 DEF Advances, WaOnce
<1> QED BY <1>2, <1>4, <1>5, <1>6, <1>7 DEF DrawnOnce

\* Some of the bubbles are left, each once.
LEMMA SomeAreLeft ==
  ASSUME NEW bs, NEW requests, NEW chats, DrawnOnce(bs, requests, chats), NEW cs \in Seq(Bubble),
         NEW place \in [1..Len(cs) -> 1..Len(bs)], \A k \in 1..Len(cs) : cs[k] = bs[place[k]],
         \A k, l \in 1..Len(cs) : place[k] = place[l] => k = l
  PROVE  DrawnOnce(cs, requests, chats) /\ Advances(bs, cs)
<1>1. Advances(bs, bs)
  BY StaysDrawn
<1>2. WaOnce(bs) /\ WaitingOnce(bs) /\ TempsAreSent(bs, requests, chats)
  BY DEF DrawnOnce
<1>3. WaOnce(cs)
  BY <1>2 DEF WaOnce
<1>4. WaitingOnce(cs)
  BY <1>2 DEF WaitingOnce, Waiting
<1>5. TempsAreSent(cs, requests, chats)
  BY <1>2 DEF TempsAreSent
<1>6. Advances(bs, cs)
  BY <1>1 DEF Advances
<1> QED BY <1>3, <1>4, <1>5, <1>6 DEF DrawnOnce

\* The waiting placeholder of a message is dropped: nothing else is.
LEMMA PlaceholderDropped ==
  ASSUME NEW bs, NEW requests, NEW chats, DrawnOnce(bs, requests, chats), NEW m \in ChatMessage
  PROVE  LET cs == RemoveFirst(bs, Placeholder(m)) IN
         /\ DrawnOnce(cs, requests, chats) /\ Advances(bs, cs)
         /\ \A k \in 1..Len(cs) : ~(Waiting(cs[k]) /\ cs[k].of = m)
<1> DEFINE p == Placeholder(m)
           cs == RemoveFirst(bs, p)
           n == Len(bs)
<1>1. bs \in Seq(Bubble) /\ n \in Nat /\ WaitingOnce(bs) /\ TempsAreSent(bs, requests, chats)
  BY DEF DrawnOnce
<1>2. Waiting(p) /\ p.of = m
  BY DEF Placeholder, Waiting
<1>3. ASSUME NEW k \in 1..n, Waiting(bs[k]), bs[k].of = m PROVE bs[k] = p
  <2>1. bs[k] \in Bubble /\ bs[k].revoked = FALSE
    BY <1>1, <1>3 DEF TempsAreSent, Waiting
  <2> QED BY <1>3, <2>1 DEF Bubble, Placeholder, Waiting
<1> HIDE DEF p
<1>4. CASE ~\E i \in 1..n : bs[i] = p
  <2>1. cs = bs
    BY <1>4 DEF RemoveFirst
  <2>2. \A k \in 1..n : ~(Waiting(bs[k]) /\ bs[k].of = m)
    BY <1>3, <1>4
  <2> QED BY <2>1, <2>2, StaysDrawn DEF p
<1>5. CASE \E i \in 1..n : bs[i] = p
  <2>1. PICK i \in 1..n : bs[i] = p
    BY <1>5
  <2>2. \A k \in 1..n : bs[k] = p => k = i
    BY <1>1, <1>2, <2>1 DEF WaitingOnce
  <2>3. {k \in 1..n : bs[k] = p} = {i}
    BY <2>1, <2>2
  <2>4. SelectInSeq(bs, LAMBDA v : v = p) = i
    BY <2>3 DEF SelectInSeq, Min
  <2>5. cs = SubSeq(bs, 1, i - 1) \o SubSeq(bs, i + 1, n)
    BY <1>5, <2>4 DEF RemoveFirst, RemoveAt
  <2> DEFINE g == [k \in 1..n - 1 |-> IF k < i THEN k ELSE k + 1]
  <2>6. /\ SubSeq(bs, 1, i - 1) \in Seq(Bubble) /\ Len(SubSeq(bs, 1, i - 1)) = i - 1
        /\ \A k \in 1..i - 1 : SubSeq(bs, 1, i - 1)[k] = bs[k]
    BY <1>1, <2>1
  <2>7. /\ SubSeq(bs, i + 1, n) \in Seq(Bubble) /\ Len(SubSeq(bs, i + 1, n)) = n - i
        /\ \A k \in 1..n - i : SubSeq(bs, i + 1, n)[k] = bs[k + i]
    BY <1>1, <2>1
  <2> DEFINE u == SubSeq(bs, 1, i - 1)
             v == SubSeq(bs, i + 1, n)
  <2>8. /\ u \in Seq(Bubble) /\ Len(u) = i - 1 /\ \A k \in 1..i - 1 : u[k] = bs[k]
        /\ v \in Seq(Bubble) /\ Len(v) = n - i /\ \A k \in 1..n - i : v[k] = bs[k + i]
        /\ cs = u \o v
    BY <2>5, <2>6, <2>7
  <2> HIDE DEF u, v, cs
  <2>9. /\ cs \in Seq(Bubble) /\ Len(cs) = n - 1
        /\ \A k \in 1..n - 1 : cs[k] = bs[IF k < i THEN k ELSE k + 1]
    <3>1. cs \in Seq(Bubble) /\ Len(cs) = Len(u) + Len(v)
      BY <2>8, ConcatProperties
    <3>2. \A k \in 1..Len(u) + Len(v) : cs[k] = IF k <= Len(u) THEN u[k] ELSE v[k - Len(u)]
      BY <2>8, ConcatProperties
    <3>3. ASSUME NEW k \in 1..n - 1 PROVE cs[k] = bs[IF k < i THEN k ELSE k + 1]
      <4>1. CASE k < i
        BY <1>1, <2>1, <2>8, <3>2, <3>3, <4>1
      <4>2. CASE ~(k < i)
        <5>1. k - (i - 1) \in 1..n - i /\ (k - (i - 1)) + i = k + 1
          BY <1>1, <2>1, <3>3, <4>2
        <5>2. v[k - (i - 1)] = bs[(k - (i - 1)) + i]
          BY <2>8, <5>1
        <5>3. cs[k] = v[k - (i - 1)]
          BY <1>1, <2>1, <2>8, <3>2, <3>3, <4>2
        <5> QED BY <4>2, <5>1, <5>2, <5>3
      <4> QED BY <4>1, <4>2
    <3>4. Len(u) + Len(v) = n - 1
      BY <1>1, <2>1, <2>8
    <3> QED BY <3>1, <3>3, <3>4
  <2>10. /\ g \in [1..Len(cs) -> 1..Len(bs)]
         /\ \A k \in 1..Len(cs) : cs[k] = bs[g[k]] /\ g[k] # i
         /\ \A k, l \in 1..Len(cs) : g[k] = g[l] => k = l
    BY <1>1, <2>1, <2>9
  <2> HIDE DEF g
  <2>11. DrawnOnce(cs, requests, chats) /\ Advances(bs, cs)
    BY <2>9, <2>10, SomeAreLeft
  <2>12. \A k \in 1..Len(cs) : ~(Waiting(cs[k]) /\ cs[k].of = m)
    BY <1>3, <2>2, <2>9, <2>10
  <2> QED BY <2>11, <2>12 DEF cs, p
<1> QED BY <1>4, <1>5

Replaced(bs, p, b) == [i \in DOMAIN bs |-> IF bs[i] = p THEN b ELSE bs[i]]

\* The waiting placeholder takes another bubble's place: its own with the WhatsApp id,
\* when no other has it, or its own that failed.
LEMMA PlaceholderReplaced ==
  ASSUME NEW bs, NEW requests, NEW chats, DrawnOnce(bs, requests, chats), NEW m \in ChatMessage,
         NEW b \in Bubble, b.of = m,
         \/ b.id = "wa" /\ \A i \in 1..Len(bs) : bs[i].of = m => bs[i].id # "wa"
         \/ b.id = "temp" /\ b.status = "failed" /\ b.revoked = FALSE
  PROVE  LET cs == Replaced(bs, Placeholder(m), b) IN
         /\ DrawnOnce(cs, requests, chats) /\ Advances(bs, cs)
         /\ \A k \in 1..Len(cs) : ~(Waiting(cs[k]) /\ cs[k].of = m)
<1> DEFINE p == Placeholder(m)
           cs == Replaced(bs, p, b)
<1>1. /\ bs \in Seq(Bubble) /\ Len(bs) \in Nat /\ DOMAIN bs = 1..Len(bs)
      /\ WaOnce(bs) /\ WaitingOnce(bs) /\ TempsAreSent(bs, requests, chats)
  BY DEF DrawnOnce
<1>2. Waiting(p) /\ p.of = m /\ p.id = "temp"
  BY DEF Placeholder, Waiting
<1>3. ASSUME NEW k \in 1..Len(bs), Waiting(bs[k]), bs[k].of = m PROVE bs[k] = p
  <2>1. bs[k] \in Bubble /\ bs[k].revoked = FALSE
    BY <1>1, <1>3 DEF TempsAreSent, Waiting
  <2> QED BY <1>3, <2>1 DEF Bubble, Placeholder, Waiting
<1>4. \A k \in 1..Len(bs) : cs[k] = IF bs[k] = p THEN b ELSE bs[k]
  BY <1>1 DEF Replaced
<1>5. cs \in [1..Len(bs) -> Bubble]
  BY <1>1 DEF Replaced
<1>6. cs \in Seq(Bubble) /\ Len(cs) = Len(bs)
  BY <1>1, <1>5, IsASeq, LenProperties
<1>7. ~Waiting(b)
  BY DEF Waiting
<1> HIDE DEF p, cs
<1>8. WaOnce(cs)
  <2>1. CASE b.id = "wa"
    BY <1>1, <1>2, <1>4, <1>6, <2>1 DEF WaOnce, WaitingOnce
  <2>2. CASE b.id = "temp"
    BY <1>1, <1>2, <1>4, <1>6, <2>2 DEF WaOnce
  <2> QED BY <2>1, <2>2
<1>9. WaitingOnce(cs)
  BY <1>1, <1>4, <1>6, <1>7 DEF WaitingOnce
<1>10. TempsAreSent(cs, requests, chats)
  <2> SUFFICES ASSUME NEW i \in 1..Len(bs), cs[i].id = "temp"
               PROVE  /\ cs[i].status \in {"pending", "failed"} /\ cs[i].revoked = FALSE
                      /\ chats[cs[i].of] # NoChatOpen
                      /\ cs[i].status = "pending" => requests[cs[i].of] \in {"asked", "accepted"}
    BY <1>6 DEF TempsAreSent
  <2>1. CASE bs[i] = p
    <3>1. cs[i] = b /\ chats[m] # NoChatOpen
      BY <1>1, <1>2, <1>4, <2>1 DEF TempsAreSent
    <3> QED BY <2>1, <3>1
  <2>2. CASE bs[i] # p
    BY <1>1, <1>4, <2>2 DEF TempsAreSent
  <2> QED BY <2>1, <2>2
<1>11. Advances(bs, cs)
  <2> SUFFICES ASSUME NEW i \in 1..Len(bs), NEW j \in 1..Len(bs),
                      bs[i].id = "wa", cs[j].id = "wa", bs[i].of = cs[j].of
               PROVE  cs[j].status \in Onward[bs[i].status] /\ (bs[i].revoked => cs[j].revoked)
    BY <1>6 DEF Advances
  <2>1. bs[j] # p
    BY <1>4
  <2>2. cs[j] = bs[j]
    BY <1>4, <2>1
  <2>3. Advances(bs, bs)
    BY StaysDrawn
  <2> QED BY <2>2, <2>3 DEF Advances
<1>12. \A k \in 1..Len(cs) : ~(Waiting(cs[k]) /\ cs[k].of = m)
  BY <1>3, <1>4, <1>6, <1>7
<1> QED BY <1>6, <1>8, <1>9, <1>10, <1>11, <1>12 DEF DrawnOnce, p, cs

\* The rows of a chat, each once.
LEMMA HistoryIsTyped ==
  ASSUME NEW c, chatRow \in [ChatMessage -> BubbleStatus]
  PROVE  HistoryRows(c) \in HistoryType
<1> DEFINE ms == {m \in ChatMessage : chatOf[m] = c /\ chatRow[m] # "none"}
           n == Cardinality(ms)
           s == SetToSeq(ms)
           b(m) == [of |-> m, id |-> IF m \in named THEN "wa" ELSE "row", status |-> chatRow[m],
                    revoked |-> m \in gone /\ m \in named]
           h == HistoryRows(c)
<1>1. IsFiniteSet(ms)
  BY ChatAssumption, FS_Subset
<1>2. n \in Nat /\ ExistsBijection(1..n, ms)
  BY <1>1, FS_CardinalityType
<1>3. s \in [1..n -> ms] /\ IsInjective(s)
  <2>1. \E f : f \in [1..n -> ms] /\ IsInjective(f)
    BY <1>2 DEF ExistsBijection, Bijection, Injection
  <2> HIDE DEF ms
  <2> QED BY <2>1 DEF SetToSeq
<1>4. \A m \in ms : b(m) \in Bubble /\ b(m).of = m /\ b(m).id # "temp"
  BY DEF Bubble
<1>5. h = [i \in 1..n |-> b(s[i])]
  BY DEF HistoryRows
<1> HIDE DEF s, b, ms, n, h
<1>6. h \in [1..n -> Bubble]
  BY <1>3, <1>4, <1>5
<1>7. h \in Seq(Bubble) /\ Len(h) = n
  BY <1>2, <1>6, IsASeq, LenProperties
<1>8. \A i, j \in 1..n : h[i].of = h[j].of => i = j
  <2> SUFFICES ASSUME NEW i \in 1..n, NEW j \in 1..n, h[i].of = h[j].of PROVE i = j
    OBVIOUS
  <2>1. s[i] = s[j]
    BY <1>3, <1>4, <1>5
  <2> QED BY <1>3, <2>1 DEF IsInjective
<1>9. \A i \in 1..n : h[i].id # "temp"
  BY <1>3, <1>4, <1>5
<1> QED BY <1>7, <1>8, <1>9 DEF HistoryType, h

LEMMA AHistoryIsDrawn ==
  ASSUME NEW bs \in HistoryType, NEW requests, NEW chats
  PROVE  DrawnOnce(bs, requests, chats)
BY DEF HistoryType, DrawnOnce, WaOnce, WaitingOnce, TempsAreSent, Waiting

-----------------------------------------------------------------------------
(* The invariant.                                                          *)

\* What the page draws stays in order while the requests and chats of the bubbles it
\* draws stay those of messages sent here.
LEMMA StillDrawn ==
  ASSUME ChatInv, chatOf' \in [ChatMessage -> Chat \cup {NoChatOpen}],
         \A m \in ChatMessage : chatOf[m] # NoChatOpen => chatOf'[m] = chatOf[m],
         \A m \in ChatMessage : post[m] \in {"asked", "accepted"} => post'[m] \in {"asked", "accepted"}
  PROVE  DrawnOnce(bubbles, post', chatOf')
<1>1. bubbles \in Seq(Bubble) /\ \A i \in 1..Len(bubbles) : bubbles[i].of \in ChatMessage
  <2>1. bubbles \in Seq(Bubble)
    BY DEF ChatInv, DrawnOnce
  <2>2. \A i \in 1..Len(bubbles) : bubbles[i] \in Bubble
    BY <2>1
  <2> QED BY <2>1, <2>2 DEF Bubble
<1> QED BY <1>1 DEF ChatInv, DrawnOnce, TempsAreSent

\* Once a message waits no more, its request may be over.
LEMMA OverIsDrawn ==
  ASSUME NEW bs, DrawnOnce(bs, post, chatOf), NEW m \in ChatMessage,
         \A k \in 1..Len(bs) : ~(Waiting(bs[k]) /\ bs[k].of = m),
         ChatTyped, post' = [post EXCEPT ![m] = "over"]
  PROVE  DrawnOnce(bs, post', chatOf)
<1>1. \A i \in 1..Len(bs) : bs[i] \in Bubble
  BY DEF DrawnOnce
<1>2. TempsAreSent(bs, post', chatOf)
  <2> SUFFICES ASSUME NEW i \in 1..Len(bs), bs[i].id = "temp", bs[i].status = "pending"
               PROVE  post'[bs[i].of] \in {"asked", "accepted"}
    BY DEF DrawnOnce, TempsAreSent
  <2>1. bs[i].of \in ChatMessage /\ bs[i].of # m
    BY <1>1 DEF Bubble, Waiting
  <2> QED BY <2>1 DEF DrawnOnce, TempsAreSent, ChatTyped
<1> QED BY <1>2 DEF DrawnOnce

LEMMA ChatBegins == ChatInit => ChatInv
<1> SUFFICES ASSUME ChatInit PROVE ChatInv
  OBVIOUS
<1>1. <<>> \in HistoryType /\ <<>> \in Seq(EventType)
  BY DEF HistoryType
<1>2. NoLoad \in LoadType
  BY <1>1 DEF NoLoad, LoadType
<1>3. ChatTyped
  BY <1>1, <1>2 DEF ChatInit, ChatTyped, BubbleStatus
<1>4. DrawnOnce(bubbles, post, chatOf)
  BY <1>1, AHistoryIsDrawn DEF ChatInit
<1> QED BY <1>3, <1>4 DEF ChatInv

\* The event is one more of its type.
LEMMA EmitTypes ==
  ASSUME ChatTyped, NEW k \in {"message", "ack", "revoked"}, NEW m \in ChatMessage,
         NEW s \in {"sent", "delivered", "failed"}, EmitEvent(ChatEvent(k, m, s))
  PROVE  events' \in Seq(EventType)
<1>1. ChatEvent(k, m, s) \in EventType
  BY DEF ChatEvent, EventType
<1> QED BY <1>1 DEF EmitEvent, ChatTyped

\* The steps of the server and the engine leave the page alone.
ServerStep(m) ==
  \/ SaveFirst(m) \/ EngineSends(m) \/ SaveSecond(m) \/ EngineRefuses(m)
  \/ SaveReceived(m) \/ EchoSent(m) \/ RevokeArrives(m)
  \/ \E c \in Chat : ReceiveMessage(m, c)
  \/ \E s \in {"sent", "delivered", "failed"} : AckArrives(m, s)

LEMMA ServerKeeps ==
  ASSUME ChatInv, NEW m \in ChatMessage, ServerStep(m)
  PROVE  ChatInv' /\ bubbles' = bubbles
<1>t. ChatTyped
  BY DEF ChatInv
<1> USE DEF chatStored, chatPhone
<1>1. CASE SaveFirst(m) \/ EngineSends(m) \/ SaveSecond(m) \/ EngineRefuses(m) \/ SaveReceived(m)
  <2>1. UNCHANGED <<chatOf, events, active, bubbles, loads>>
    BY <1>1 DEF SaveFirst, EngineSends, SaveSecond, EngineRefuses, SaveReceived
  <2>2. chatRow' \in [ChatMessage -> BubbleStatus]
    BY <1>1, <1>t DEF SaveFirst, EngineSends, SaveSecond, EngineRefuses, SaveReceived, BubbleStatus, ChatTyped
  <2>3. post' = post \/ (post[m] = "asked" /\ post' = [post EXCEPT ![m] = "accepted"])
    BY <1>1 DEF SaveFirst, EngineSends, SaveSecond, EngineRefuses, SaveReceived
  <2>4. DrawnOnce(bubbles, post', chatOf')
    BY <1>t, <2>1, <2>3, StillDrawn DEF ChatTyped
  <2>5. ChatTyped'
    BY <1>t, <2>1, <2>2, <2>3 DEF ChatTyped
  <2> QED BY <2>1, <2>4, <2>5 DEF ChatInv
<1>2. CASE EchoSent(m) \/ RevokeArrives(m)
  <2>1. UNCHANGED <<chatOf, chatRow, post, active, bubbles, loads>>
    BY <1>2 DEF EchoSent, RevokeArrives
  <2>2. events' \in Seq(EventType)
    BY <1>2, <1>t, EmitTypes DEF EchoSent, RevokeArrives
  <2>3. ChatTyped'
    BY <1>t, <2>1, <2>2 DEF ChatTyped
  <2> QED BY <2>1, <2>3 DEF ChatInv
<1>3. ASSUME NEW c \in Chat, ReceiveMessage(m, c) PROVE ChatInv' /\ bubbles' = bubbles
  <2>1. /\ chatOf[m] = NoChatOpen /\ chatOf' = [chatOf EXCEPT ![m] = c]
        /\ UNCHANGED <<chatRow, post, active, bubbles, loads>>
    BY <1>3 DEF ReceiveMessage
  <2>2. events' \in Seq(EventType)
    BY <1>3, <1>t, EmitTypes DEF ReceiveMessage
  <2>3. ChatTyped'
    BY <1>t, <2>1, <2>2 DEF ChatTyped
  <2>4. DrawnOnce(bubbles, post', chatOf')
    BY <1>t, <2>1, StillDrawn DEF ChatTyped
  <2> QED BY <2>1, <2>3, <2>4 DEF ChatInv
<1>4. ASSUME NEW s \in {"sent", "delivered", "failed"}, AckArrives(m, s)
      PROVE  ChatInv' /\ bubbles' = bubbles
  <2>1. /\ UNCHANGED <<chatOf, post, active, bubbles, loads>>
        /\ chatRow' = [chatRow EXCEPT ![m] = IF m \in named /\ @ \in {"sent", "delivered"} THEN Merged(@, s) ELSE @]
    BY <1>4 DEF AckArrives
  <2>2. events' \in Seq(EventType)
    BY <1>4, <1>t, EmitTypes DEF AckArrives
  <2>3. chatRow[m] \in {"sent", "delivered"} => Merged(chatRow[m], s) \in BubbleStatus
    BY MergedAdvances DEF BubbleStatus
  <2>4. chatRow' \in [ChatMessage -> BubbleStatus]
    BY <1>t, <2>1, <2>3 DEF ChatTyped
  <2>5. ChatTyped'
    BY <1>t, <2>1, <2>2, <2>4 DEF ChatTyped
  <2> QED BY <2>1, <2>5 DEF ChatInv
<1> QED BY <1>1, <1>2, <1>3, <1>4 DEF ServerStep

\* The steps of the page.
ClientStep(m) == SendMessage(m) \/ SendAccepted(m) \/ SendRequestFails(m) \/ DeleteMessage(m)

LEMMA MappedAdvances ==
  ASSUME ChatInv, NEW m \in ChatMessage, NEW cs,
         cs = BubblesMapped(LAMBDA b : Is(b, m), LAMBDA b : [b EXCEPT !.revoked = TRUE])
  PROVE  DrawnOnce(cs, post, chatOf) /\ Advances(bubbles, cs)
<1>1. bubbles \in Seq(Bubble) /\ DOMAIN bubbles = 1..Len(bubbles)
  BY DEF ChatInv, DrawnOnce
<1>2. \A i \in 1..Len(bubbles) : bubbles[i] \in Bubble
  BY <1>1
<1>3. \A i \in 1..Len(bubbles) :
        cs[i] = IF Is(bubbles[i], m) THEN [bubbles[i] EXCEPT !.revoked = TRUE] ELSE bubbles[i]
  BY <1>1 DEF BubblesMapped
<1>4. cs \in [1..Len(bubbles) -> Bubble]
  BY <1>1, <1>2 DEF BubblesMapped, Bubble
<1>5. \A i \in 1..Len(bubbles) :
        /\ cs[i].of = bubbles[i].of /\ cs[i].id = bubbles[i].id
        /\ bubbles[i].id # "wa" => cs[i] = bubbles[i]
        /\ cs[i].status = bubbles[i].status /\ (bubbles[i].revoked => cs[i].revoked)
  BY <1>2, <1>3 DEF Bubble, Is
<1>6. \A i \in 1..Len(bubbles) : cs[i].status \in Onward[bubbles[i].status]
  BY <1>2, <1>5, AdvancesAtOnce DEF Bubble
<1> QED BY <1>4, <1>5, <1>6, EachChanged DEF ChatInv

LEMMA AckedAdvances ==
  ASSUME ChatInv, NEW m \in ChatMessage, NEW s \in {"sent", "delivered", "failed"}, NEW cs,
         cs = BubblesMapped(LAMBDA b : Is(b, m), LAMBDA b : [b EXCEPT !.status = Merged(@, s)])
  PROVE  DrawnOnce(cs, post, chatOf) /\ Advances(bubbles, cs)
<1>1. bubbles \in Seq(Bubble) /\ DOMAIN bubbles = 1..Len(bubbles)
  BY DEF ChatInv, DrawnOnce
<1>2. \A i \in 1..Len(bubbles) : bubbles[i] \in Bubble
  BY <1>1
<1>3. \A i \in 1..Len(bubbles) :
        cs[i] = IF Is(bubbles[i], m) THEN [bubbles[i] EXCEPT !.status = Merged(bubbles[i].status, s)] ELSE bubbles[i]
  BY <1>1 DEF BubblesMapped
<1>4. \A i \in 1..Len(bubbles) :
        /\ Merged(bubbles[i].status, s) \in BubbleStatus \ {"none"}
        /\ Merged(bubbles[i].status, s) \in Onward[bubbles[i].status]
        /\ bubbles[i].status \in Onward[bubbles[i].status]
  BY <1>2, MergedAdvances, AdvancesAtOnce DEF Bubble
<1>5. \A i \in 1..Len(bubbles) : cs[i] \in Bubble
  BY <1>2, <1>3, <1>4 DEF Bubble
<1>6. cs \in [1..Len(bubbles) -> Bubble]
  BY <1>1, <1>5 DEF BubblesMapped
<1>7. \A i \in 1..Len(bubbles) :
        /\ cs[i].of = bubbles[i].of /\ cs[i].id = bubbles[i].id
        /\ bubbles[i].id # "wa" => cs[i] = bubbles[i]
        /\ cs[i].status \in Onward[bubbles[i].status] /\ (bubbles[i].revoked => cs[i].revoked)
  BY <1>2, <1>3, <1>4 DEF Bubble, Is
<1> QED BY <1>6, <1>7, EachChanged DEF ChatInv

LEMMA PageKeeps ==
  ASSUME ChatInv, NEW m \in ChatMessage, ClientStep(m)
  PROVE  ChatInv' /\ Advances(bubbles, bubbles')
<1>t. ChatTyped /\ DrawnOnce(bubbles, post, chatOf)
  BY DEF ChatInv
<1>b. /\ bubbles \in Seq(Bubble) /\ DOMAIN bubbles = 1..Len(bubbles)
      /\ \A i \in 1..Len(bubbles) : bubbles[i] \in Bubble
  BY <1>t DEF DrawnOnce
<1> USE DEF chatStored, chatPhone
<1>1. CASE SendMessage(m)
  <2>1. /\ active # NoChatOpen /\ chatOf[m] = NoChatOpen
        /\ chatOf' = [chatOf EXCEPT ![m] = active] /\ post' = [post EXCEPT ![m] = "asked"]
        /\ bubbles' = Append(bubbles, Placeholder(m))
        /\ UNCHANGED <<chatRow, events, active, loads>>
    BY <1>1 DEF SendMessage
  <2>2. ChatTyped'
    BY <1>t, <2>1 DEF ChatTyped
  <2>3. post[m] = "none"
    BY <1>t, <2>1 DEF ChatTyped
  <2>4. DrawnOnce(bubbles, post', chatOf')
    BY <1>t, <2>1, <2>2, <2>3, StillDrawn DEF ChatTyped
  <2>5. \A i \in 1..Len(bubbles) : bubbles[i].of = m => bubbles[i].id # "temp"
    BY <1>t, <2>1 DEF DrawnOnce, TempsAreSent
  <2>6. /\ Placeholder(m) \in Bubble /\ Placeholder(m).of = m /\ Placeholder(m).id = "temp"
        /\ Placeholder(m).status = "pending" /\ Placeholder(m).revoked = FALSE
    BY DEF Placeholder, Bubble, BubbleStatus
  <2>7. chatOf'[m] # NoChatOpen /\ post'[m] = "asked"
    BY <1>t, <2>1 DEF ChatTyped
  <2>8. \A i \in 1..Len(bubbles) : bubbles[i].of = m => ~Waiting(bubbles[i])
    BY <2>5 DEF Waiting
  <2> DEFINE p == Placeholder(m)
  <2> HIDE DEF p
  <2>9. /\ p \in Bubble /\ p.of = m /\ p.id = "temp" /\ p.status = "pending" /\ p.revoked = FALSE
        /\ bubbles' = Append(bubbles, p)
    BY <2>1, <2>6 DEF p
  <2>10. DrawnOnce(bubbles', post', chatOf') /\ Advances(bubbles, bubbles')
    BY <2>4, <2>7, <2>8, <2>9, OneMoreDrawn
  <2> QED BY <2>2, <2>10 DEF ChatInv
<1>2. CASE SendAccepted(m)
  <2>1. /\ bubbles' = BubblesAnswered(m) /\ post' = [post EXCEPT ![m] = "over"] /\ post[m] = "accepted"
        /\ UNCHANGED <<chatOf, chatRow, events, active, loads>>
    BY <1>2 DEF SendAccepted
  <2>2. ChatTyped'
    BY <1>t, <2>1 DEF ChatTyped
  <2>3. /\ DrawnOnce(bubbles', post, chatOf) /\ Advances(bubbles, bubbles')
        /\ \A k \in 1..Len(bubbles') : ~(Waiting(bubbles'[k]) /\ bubbles'[k].of = m)
    <3>1. CASE Has(m)
      <4>1. bubbles' = RemoveFirst(bubbles, Placeholder(m))
        BY <2>1, <3>1 DEF BubblesAnswered
      <4> QED BY <1>t, <4>1, PlaceholderDropped
    <3>2. CASE ~Has(m)
      <4>1. bubbles' = Replaced(bubbles, Placeholder(m), EchoBubble(m))
        BY <2>1, <3>2 DEF BubblesAnswered, BubblesMapped, Replaced
      <4>2. EchoBubble(m) \in Bubble /\ EchoBubble(m).of = m /\ EchoBubble(m).id = "wa"
        BY DEF EchoBubble, Bubble, BubbleStatus
      <4>3. \A i \in 1..Len(bubbles) : bubbles[i].of = m => bubbles[i].id # "wa"
        BY <1>b, <3>2 DEF Has, Is
      <4> QED BY <1>t, <4>1, <4>2, <4>3, PlaceholderReplaced
    <3> QED BY <3>1, <3>2
  <2>4. DrawnOnce(bubbles', post', chatOf)
    BY <1>t, <2>1, <2>3, OverIsDrawn
  <2> QED BY <2>1, <2>2, <2>3, <2>4 DEF ChatInv
<1>3. CASE SendRequestFails(m)
  <2> DEFINE b == [Placeholder(m) EXCEPT !.status = "failed"]
  <2>1. /\ bubbles' = Replaced(bubbles, Placeholder(m), b)
        /\ post' = [post EXCEPT ![m] = "over"] /\ post[m] \in {"asked", "accepted"}
        /\ UNCHANGED <<chatOf, chatRow, events, active, loads>>
    BY <1>3 DEF SendRequestFails, BubblesMapped, Replaced
  <2>2. ChatTyped'
    BY <1>t, <2>1 DEF ChatTyped
  <2>3. b \in Bubble /\ b.of = m /\ b.id = "temp" /\ b.status = "failed" /\ b.revoked = FALSE
    BY DEF Placeholder, Bubble, BubbleStatus
  <2> HIDE DEF b
  <2>4. /\ DrawnOnce(bubbles', post, chatOf) /\ Advances(bubbles, bubbles')
        /\ \A k \in 1..Len(bubbles') : ~(Waiting(bubbles'[k]) /\ bubbles'[k].of = m)
    BY <1>t, <2>1, <2>3, PlaceholderReplaced
  <2>5. DrawnOnce(bubbles', post', chatOf)
    BY <1>t, <2>1, <2>4, OverIsDrawn
  <2> QED BY <2>1, <2>2, <2>4, <2>5 DEF ChatInv
<1>4. CASE DeleteMessage(m)
  <2>1. /\ bubbles' = BubblesMapped(LAMBDA b : Is(b, m), LAMBDA b : [b EXCEPT !.revoked = TRUE])
        /\ UNCHANGED <<chatOf, chatRow, post, events, active, loads>>
    BY <1>4 DEF DeleteMessage
  <2>2. DrawnOnce(bubbles', post, chatOf) /\ Advances(bubbles, bubbles')
    BY <2>1, MappedAdvances
  <2>3. ChatTyped'
    BY <1>t, <2>1 DEF ChatTyped
  <2> QED BY <2>1, <2>2, <2>3 DEF ChatInv
<1> QED BY <1>1, <1>2, <1>3, <1>4 DEF ClientStep

LEMMA EventKeeps ==
  ASSUME ChatInv, DeliverEvent
  PROVE  ChatInv' /\ Advances(bubbles, bubbles')
<1>t. ChatTyped /\ DrawnOnce(bubbles, post, chatOf)
  BY DEF ChatInv
<1> DEFINE e == Head(events)
<1>1. /\ events # <<>> /\ events' = Tail(events) /\ bubbles' = BubblesAfter(e)
      /\ UNCHANGED <<chatOf, chatRow, post, active, loads>>
  BY DEF DeliverEvent, chatStored, chatPhone
<1>2. e \in EventType /\ events' \in Seq(EventType)
  BY <1>t, <1>1 DEF ChatTyped
<1>3. /\ e.kind \in {"message", "ack", "revoked"} /\ e.of \in ChatMessage
      /\ e.status \in {"sent", "delivered", "failed"}
  BY <1>2 DEF EventType
<1> HIDE DEF e
<1>4. ChatTyped'
  BY <1>t, <1>1, <1>2 DEF ChatTyped
<1>5. CASE e.kind = "message"
  <2>1. CASE chatOf[e.of] = active /\ ~Has(e.of)
    <3> DEFINE b == EchoBubble(e.of)
    <3>1. bubbles' = Append(bubbles, b)
      BY <1>1, <1>5, <2>1 DEF BubblesAfter
    <3>2. b \in Bubble /\ b.of = e.of /\ b.id = "wa" /\ ~Waiting(b)
      BY <1>3 DEF EchoBubble, Bubble, BubbleStatus, Waiting
    <3>3. \A i \in 1..Len(bubbles) : bubbles[i].of = e.of => bubbles[i].id # "wa"
      <4>1. DOMAIN bubbles = 1..Len(bubbles)
        BY <1>t DEF DrawnOnce
      <4> QED BY <4>1, <2>1 DEF Has, Is
    <3> HIDE DEF b
    <3>4. DrawnOnce(bubbles', post, chatOf) /\ Advances(bubbles, bubbles')
      BY <1>t, <3>1, <3>2, <3>3, OneMoreDrawn
    <3> QED BY <1>1, <1>4, <3>4 DEF ChatInv
  <2>2. CASE ~(chatOf[e.of] = active /\ ~Has(e.of))
    <3>1. bubbles' = bubbles
      BY <1>1, <1>5, <2>2 DEF BubblesAfter
    <3> QED BY <1>t, <1>1, <1>4, <3>1, StaysDrawn DEF ChatInv
  <2> QED BY <2>1, <2>2
<1>6. CASE e.kind = "ack"
  <2>1. bubbles' = BubblesMapped(LAMBDA b : Is(b, e.of), LAMBDA b : [b EXCEPT !.status = Merged(@, e.status)])
    BY <1>1, <1>6 DEF BubblesAfter
  <2>2. DrawnOnce(bubbles', post, chatOf) /\ Advances(bubbles, bubbles')
    BY <1>3, <2>1, AckedAdvances
  <2> QED BY <1>1, <1>4, <2>2 DEF ChatInv
<1>7. CASE e.kind = "revoked"
  <2>1. bubbles' = BubblesMapped(LAMBDA b : Is(b, e.of), LAMBDA b : [b EXCEPT !.revoked = TRUE])
    BY <1>1, <1>7 DEF BubblesAfter
  <2>2. DrawnOnce(bubbles', post, chatOf) /\ Advances(bubbles, bubbles')
    BY <1>3, <2>1, MappedAdvances
  <2> QED BY <1>1, <1>4, <2>2 DEF ChatInv
<1> QED BY <1>3, <1>5, <1>6, <1>7

LEMMA LoadsKeep ==
  ASSUME ChatInv, NEW l \in HistoryLoad,
         HistoryRead(l) \/ HistoryShown(l) \/ HistoryFails(l) \/ \E c \in Chat : OpenChat(c, l)
  PROVE  ChatInv' /\ (bubbles' = bubbles \/ bubbles' = <<>> \/ HistoryShown(l))
<1>t. ChatTyped /\ DrawnOnce(bubbles, post, chatOf)
  BY DEF ChatInv
<1>n. <<>> \in HistoryType
  BY DEF HistoryType
<1>l. NoLoad \in LoadType /\ loads[l] \in LoadType
  BY <1>t, <1>n DEF NoLoad, LoadType, ChatTyped
<1> USE DEF chatStored, chatPhone
<1>1. CASE HistoryRead(l)
  <2>1. HistoryRows(loads[l].chat) \in HistoryType
    BY <1>t, HistoryIsTyped DEF ChatTyped
  <2>2. loads' \in [HistoryLoad -> LoadType]
    <3> DEFINE d == [loads[l] EXCEPT !.step = "read", !.data = HistoryRows(loads[l].chat)]
    <3>1. d \in LoadType
      BY <1>l, <2>1 DEF LoadType
    <3>2. loads' = [loads EXCEPT ![l] = d]
      BY <1>1 DEF HistoryRead
    <3> QED BY <1>t, <3>1, <3>2 DEF ChatTyped
  <2>3. UNCHANGED <<chatOf, chatRow, post, events, active, bubbles>>
    BY <1>1 DEF HistoryRead
  <2> QED BY <1>t, <2>2, <2>3 DEF ChatInv, ChatTyped
<1>2. CASE HistoryShown(l) \/ HistoryFails(l)
  <2>1. bubbles' \in HistoryType /\ (bubbles' = <<>> \/ HistoryShown(l))
    BY <1>2, <1>l, <1>n DEF HistoryShown, HistoryFails, LoadType
  <2>2. loads' \in [HistoryLoad -> LoadType] /\ UNCHANGED <<chatOf, chatRow, post, events, active>>
    BY <1>2, <1>t, <1>l DEF HistoryShown, HistoryFails, ChatTyped
  <2>3. ChatTyped'
    BY <1>t, <2>2 DEF ChatTyped
  <2>4. DrawnOnce(bubbles', post', chatOf')
    BY <2>1, AHistoryIsDrawn
  <2> QED BY <2>1, <2>3, <2>4 DEF ChatInv
<1>3. ASSUME NEW c \in Chat, OpenChat(c, l) PROVE ChatInv' /\ bubbles' = bubbles
  <2>1. [NoLoad EXCEPT !.chat = c, !.step = "asked"] \in LoadType
    BY <1>l DEF LoadType
  <2>2. /\ loads' \in [HistoryLoad -> LoadType] /\ active' \in Chat \cup {NoChatOpen}
        /\ UNCHANGED <<chatOf, chatRow, post, events, bubbles>>
    BY <1>3, <1>t, <2>1 DEF OpenChat, ChatTyped
  <2> QED BY <1>t, <2>2 DEF ChatInv, ChatTyped
<1> QED BY <1>1, <1>2, <1>3

LEMMA ChatKeeps == ASSUME ChatInv, [ChatNext]_chatVars PROVE ChatInv' /\ [TicksAdvance]_bubbles
<1>d. /\ DOMAIN bubbles = 1..Len(bubbles)
      /\ ChatInv' => DOMAIN bubbles' = 1..Len(bubbles')
  BY DEF ChatInv, DrawnOnce
<1>a. ChatInv' /\ Advances(bubbles, bubbles') => TicksAdvance
  BY <1>d DEF Advances, TicksAdvance, Is
<1>1. ASSUME NEW m \in ChatMessage, ServerStep(m) PROVE ChatInv' /\ [TicksAdvance]_bubbles
  BY <1>1, ServerKeeps
<1>2. ASSUME NEW m \in ChatMessage, ClientStep(m) PROVE ChatInv' /\ [TicksAdvance]_bubbles
  BY <1>2, <1>a, PageKeeps
<1>3. CASE DeliverEvent
  BY <1>3, <1>a, EventKeeps
<1>4. ASSUME NEW l \in HistoryLoad,
             HistoryRead(l) \/ HistoryShown(l) \/ HistoryFails(l) \/ \E c \in Chat : OpenChat(c, l)
      PROVE  ChatInv' /\ [TicksAdvance]_bubbles
  <2>1. ChatInv' /\ (bubbles' = bubbles \/ bubbles' = <<>> \/ HistoryShown(l))
    BY <1>4, LoadsKeep
  <2>2. CASE bubbles' = <<>>
    BY <2>1, <2>2 DEF TicksAdvance
  <2>3. CASE HistoryShown(l)
    BY <2>1, <2>3 DEF TicksAdvance
  <2> QED BY <2>1, <2>2, <2>3
<1>5. CASE UNCHANGED chatVars
  BY <1>5 DEF chatVars, ChatInv, ChatTyped
<1> QED BY <1>1, <1>2, <1>3, <1>4, <1>5 DEF ChatNext, ServerStep, ClientStep

\* Chats.tsx: in whichever order the answer, the echo, the receipts and the histories
\* come, nobody's message is drawn twice.
THEOREM MessagesAreDrawnOnce == ChatSpec => []NobodyDrawnTwice
<1>1. ChatInv => NobodyDrawnTwice
  <2> SUFFICES ASSUME ChatInv, NEW i \in DOMAIN bubbles, NEW j \in DOMAIN bubbles,
                      i # j, bubbles[i].of = bubbles[j].of,
                      ~Nameless(bubbles[i]), ~Nameless(bubbles[j])
               PROVE  \/ bubbles[i].id = "temp" /\ post[bubbles[i].of] # "over"
                      \/ bubbles[j].id = "temp" /\ post[bubbles[j].of] # "over"
    BY DEF NobodyDrawnTwice
  <2>1. /\ WaOnce(bubbles) /\ TempsAreSent(bubbles, post, chatOf)
        /\ i \in 1..Len(bubbles) /\ j \in 1..Len(bubbles)
    BY DEF ChatInv, DrawnOnce
  <2>2. bubbles[i] \in Bubble /\ bubbles[j] \in Bubble
    BY <2>1 DEF ChatInv, DrawnOnce
  <2>3. bubbles[i].id \in {"temp", "wa"} /\ bubbles[j].id \in {"temp", "wa"}
    BY <2>2 DEF Bubble, Nameless
  <2>4. bubbles[i].id = "temp" \/ bubbles[j].id = "temp"
    BY <2>1, <2>3 DEF WaOnce
  <2> QED BY <2>1, <2>4 DEF TempsAreSent, Nameless
<1> QED BY <1>1, ChatBegins, ChatKeeps, PTL DEF ChatSpec

\* Chats.tsx, statusRank(): no tick goes back and no deleted message comes back, but by
\* a history that was read before.
THEOREM TicksGoOn == ChatSpec => TicksOnlyAdvance
BY ChatBegins, ChatKeeps, PTL DEF ChatSpec, TicksOnlyAdvance

-----------------------------------------------------------------------------
(* The rooms of the page's socket.                                          *)

SocketMessage == [kind : {"subscribe", "unsubscribe"}, room : Room]

Asks(ms, n, k, r) == ms[n].kind = k /\ ms[n].room = r

\* Who will be heard of room r: its last message under way is a subscribe; without one
\* a check is, or the socket is in the room.
Heads(r) ==
  /\ \A n \in 1..Len(toServer) : Asks(toServer, n, "unsubscribe", r) =>
       \E k \in n + 1..Len(toServer) : Asks(toServer, k, "subscribe", r)
  /\ \/ Allowed(r) = FALSE \/ r \in wsRooms \/ wsChecking[r] > 0
     \/ \E n \in 1..Len(toServer) : Asks(toServer, n, "subscribe", r)

\* What one page joins the other never does.
OwnRoom(r) == IF wsPage = "Sessions" THEN r = "*" ELSE r # "*"

StreamTyped ==
  /\ wsPage \in {"Chats", "Sessions"} /\ selectedSession \in PageSession \cup {NoSelection}
  /\ toServer \in Seq(SocketMessage) /\ wsChecking \in [Room -> Nat] /\ wsRooms \subseteq Room
  /\ wsOpen \in BOOLEAN /\ wsKnown \in BOOLEAN /\ keyValid \in BOOLEAN

OwnRooms ==
  /\ \A n \in 1..Len(toServer) : OwnRoom(toServer[n].room)
  /\ \A r \in wsRooms : OwnRoom(r)
  /\ \A r \in Room : wsChecking[r] > 0 => OwnRoom(r)

StreamInv ==
  /\ StreamTyped /\ OwnRooms
  /\ wsLink = "up" /\ wsOpen = TRUE => \A r \in Wanted : Heads(r)

\* What the page sends for one room, or for none.
LEMMA OneIsSent ==
  ASSUME NEW k, NEW r
  PROVE  Sends(k, {r}) = <<[kind |-> k, room |-> r]>>
<1>1. Cardinality({r}) = 1
  BY FS_Singleton
<1>2. SetToSeq({r}) \in [1..1 -> {r}]
  <2>1. [i \in 1..1 |-> r] \in [1..1 -> {r}] /\ IsInjective([i \in 1..1 |-> r])
    BY DEF IsInjective
  <2> QED BY <1>1, <2>1 DEF SetToSeq
<1>3. SetToSeq({r})[1] = r
  BY <1>2
<1> QED BY <1>1, <1>3 DEF Sends

LEMMA NoneIsSent == ASSUME NEW k PROVE Sends(k, {}) = <<>>
  BY FS_EmptySet DEF Sends

LEMMA ShortOnes ==
  /\ <<>> \in Seq(SocketMessage) /\ Len(<<>>) = 0
  /\ \A m \in SocketMessage : <<m>> \in Seq(SocketMessage) /\ Len(<<m>>) = 1 /\ <<m>>[1] = m
  OBVIOUS

LEMMA ShortIsOwn ==
  ASSUME NEW q, q = <<>> \/ \E m \in SocketMessage : OwnRoom(m.room) /\ q = <<m>>
  PROVE  q \in Seq(SocketMessage) /\ \A n \in 1..Len(q) : OwnRoom(q[n].room)
<1>1. CASE q = <<>>
  BY <1>1, ShortOnes
<1>2. ASSUME NEW m \in SocketMessage, OwnRoom(m.room), q = <<m>>
      PROVE  q \in Seq(SocketMessage) /\ \A n \in 1..Len(q) : OwnRoom(q[n].room)
  <2>1. q \in Seq(SocketMessage) /\ Len(q) = 1 /\ q[1] = m
    BY <1>2, ShortOnes
  <2> QED BY <1>2, <2>1
<1> QED BY <1>1, <1>2

LEMMA WantedIs ==
  ASSUME StreamTyped
  PROVE  /\ wsPage = "Sessions" => Wanted = {"*"}
         /\ wsPage = "Chats" => Wanted = IF selectedSession = NoSelection THEN {} ELSE {selectedSession}
         /\ \A r \in Wanted : r \in Room /\ OwnRoom(r)
  BY StreamAssumption DEF StreamTyped, Wanted, Room, OwnRoom

LEMMA NobodyIsChecked ==
  /\ NoChecks \in [Room -> Nat]
  /\ \A r \in Room : NoChecks[r] = 0
  BY DEF NoChecks

LEMMA StreamStarts == StreamInit => StreamInv
<1> SUFFICES ASSUME StreamInit PROVE StreamInv
  OBVIOUS
<1>1. StreamTyped
  <2>1. toServer \in Seq(SocketMessage)
    BY DEF StreamInit
  <2>2. wsOpen \in BOOLEAN /\ wsKnown \in BOOLEAN /\ keyValid \in BOOLEAN
    BY DEF StreamInit
  <2> QED BY <2>1, <2>2, NobodyIsChecked DEF StreamInit, StreamTyped
<1>2. OwnRooms
  BY NobodyIsChecked DEF StreamInit, OwnRooms
<1> QED BY <1>1, <1>2 DEF StreamInit, StreamInv

\* The socket has gone or has just come up.
LEMMA NoRoomIsLeft ==
  ASSUME StreamInv, wsChecking' = NoChecks, wsRooms' = {},
         wsPage' = wsPage, selectedSession' = selectedSession, keyValid' = keyValid,
         wsOpen' \in BOOLEAN, wsKnown' \in BOOLEAN, toServer' \in Seq(SocketMessage),
         \A n \in 1..Len(toServer') : OwnRoom(toServer'[n].room)
  PROVE  StreamTyped' /\ OwnRooms'
<1>1. StreamTyped'
  BY NobodyIsChecked DEF StreamInv, StreamTyped
<1>2. OwnRooms'
  BY NobodyIsChecked DEF OwnRooms, OwnRoom
<1> QED BY <1>1, <1>2

\* Nothing the invariant speaks of has changed but who holds the socket.
LEMMA NothingChanges ==
  ASSUME StreamInv, UNCHANGED <<wsPage, selectedSession, toServer, wsChecking, wsRooms, wsOpen>>,
         wsKnown' \in BOOLEAN, keyValid' \in BOOLEAN, keyScope' = keyScope,
         wsLink' = "up" => wsLink = "up"
  PROVE  StreamInv'
<1>1. StreamTyped' /\ OwnRooms'
  BY DEF StreamInv, StreamTyped, OwnRooms, OwnRoom
<1>2. Wanted' = Wanted /\ \A r : Heads(r)' <=> Heads(r)
  BY DEF Wanted, Heads, Allowed, Asks
<1> QED BY <1>1, <1>2 DEF StreamInv

LEMMA StreamKeeps == StreamInv /\ [StreamNext]_streamVars => StreamInv'
<1> SUFFICES ASSUME StreamInv, [StreamNext]_streamVars PROVE StreamInv'
  OBVIOUS
<1> USE DEF setting, browser, server
<1>0. StreamTyped
  BY DEF StreamInv
<1>1. CASE SocketConnected
  <2>1. toServer' = IF Wanted = {} THEN <<>> ELSE <<[kind |-> "subscribe", room |-> CHOOSE r \in Wanted : TRUE]>>
    BY <1>0, <1>1, WantedIs, OneIsSent, NoneIsSent DEF SocketConnected, Greeting, StreamTyped
  <2>2. toServer' \in Seq(SocketMessage) /\ \A n \in 1..Len(toServer') : OwnRoom(toServer'[n].room)
    <3>1. CASE Wanted = {}
      BY <3>1, <2>1, ShortOnes
    <3>2. CASE Wanted # {}
      <4>1. PICK r \in Wanted : toServer' = <<[kind |-> "subscribe", room |-> r]>>
        BY <3>2, <2>1
      <4>2. [kind |-> "subscribe", room |-> r] \in SocketMessage /\ OwnRoom(r)
        BY <1>0, WantedIs DEF SocketMessage
      <4> QED BY <4>1, <4>2, ShortOnes
    <3> QED BY <3>1, <3>2
  <2>3. \A r \in Wanted : Len(toServer') = 1 /\ toServer'[1] = [kind |-> "subscribe", room |-> r]
    BY <2>1, <1>0, WantedIs DEF StreamTyped
  <2>4. \A r \in Wanted : Heads(r)'
    <3> SUFFICES ASSUME NEW r \in Wanted PROVE Heads(r)'
      OBVIOUS
    <3>0. Len(toServer') = 1 /\ toServer'[1] = [kind |-> "subscribe", room |-> r]
      BY <2>3
    <3>1. Asks(toServer', 1, "subscribe", r) /\ Len(toServer') = 1
          /\ ~Asks(toServer', 1, "unsubscribe", r)
      BY <3>0 DEF Asks
    <3>2. 1..Len(toServer') = {1}
      BY <3>1
    <3> QED BY <3>1, <3>2 DEF Heads
  <2>5. StreamTyped' /\ OwnRooms'
    BY <2>2, <1>1, NoRoomIsLeft DEF SocketConnected
  <2> QED BY <2>4, <2>5, <1>1 DEF SocketConnected, StreamInv, Wanted
<1>2. CASE AttemptFails \/ Reconnect
  BY <1>0, <1>2, NothingChanges DEF AttemptFails, Reconnect, StreamTyped
<1>3. CASE TransportDrops \/ Leave
  <2>1. toServer' \in Seq(SocketMessage) /\ Len(toServer') = 0
    BY <1>3, ShortOnes DEF TransportDrops, Leave
  <2>2. StreamTyped' /\ OwnRooms'
    <3>1. /\ wsChecking' = NoChecks /\ wsRooms' = {} /\ wsOpen' = FALSE /\ wsKnown' = FALSE
          /\ wsPage' = wsPage /\ selectedSession' = selectedSession /\ keyValid' = keyValid
      BY <1>3 DEF TransportDrops, Leave
    <3>2. \A n \in 1..Len(toServer') : OwnRoom(toServer'[n].room)
      BY <2>1
    <3>3. wsOpen' \in BOOLEAN /\ wsKnown' \in BOOLEAN
      BY <3>1
    <3> QED BY <2>1, <3>1, <3>2, <3>3, NoRoomIsLeft
  <2> QED BY <2>2, <1>3 DEF TransportDrops, Leave, StreamInv
<1>4. CASE ToldToGo
  <2>1. toServer' \in Seq(SocketMessage) /\ Len(toServer') = 0
    BY <1>4 DEF ToldToGo
  <2>2. StreamTyped' /\ OwnRooms'
    BY <2>1, <1>4 DEF ToldToGo, StreamInv, StreamTyped, OwnRooms, OwnRoom
  <2> QED BY <2>2, <1>4 DEF ToldToGo, StreamInv
<1>5. ASSUME NEW s \in PageSession, Select(s) PROVE StreamInv'
  <2>1. s # NoSelection /\ s \in Room /\ s # "*" /\ wsPage = "Chats"
    BY <1>5, StreamAssumption DEF Select, Room
  <2> DEFINE sub == [kind |-> "subscribe", room |-> s]
  <2>2. CASE wsLink # "up"
    <3>1. StreamTyped' /\ OwnRooms'
      BY <2>2, <1>5 DEF Select, StreamInv, StreamTyped, OwnRooms, OwnRoom
    <3> QED BY <3>1, <2>2, <1>5 DEF Select, StreamInv
  <2>3. CASE wsLink = "up"
    <3> DEFINE uns == Sends("unsubscribe", Wanted)
               ms == toServer \o uns
    <3>1. toServer' = ms \o <<sub>>
      BY <2>3, <1>5, OneIsSent DEF Select
    <3>2. uns \in Seq(SocketMessage) /\ \A n \in 1..Len(uns) : OwnRoom(uns[n].room)
      <4>1. CASE selectedSession = NoSelection
        <5>1. uns = <<>>
          BY <4>1, <2>1, <1>0, WantedIs, NoneIsSent
        <5> HIDE DEF uns
        <5> QED BY <5>1, ShortIsOwn
      <4>2. CASE selectedSession # NoSelection
        <5>1. selectedSession \in Room /\ OwnRoom(selectedSession)
          BY <4>2, <2>1, <1>0, WantedIs
        <5>2. uns = <<[kind |-> "unsubscribe", room |-> selectedSession]>>
          BY <4>2, <2>1, <1>0, WantedIs, OneIsSent
        <5>3. [kind |-> "unsubscribe", room |-> selectedSession] \in SocketMessage
          BY <5>1 DEF SocketMessage
        <5> HIDE DEF uns
        <5>4. \E m \in SocketMessage : OwnRoom(m.room) /\ uns = <<m>>
          BY <5>1, <5>2, <5>3
        <5> QED BY <5>4, ShortIsOwn
      <4> QED BY <4>1, <4>2
    <3> HIDE DEF uns
    <3>3. ms \in Seq(SocketMessage) /\ \A n \in 1..Len(ms) : OwnRoom(ms[n].room)
      <4>1. toServer \in Seq(SocketMessage) /\ \A n \in 1..Len(toServer) : OwnRoom(toServer[n].room)
        BY <1>0 DEF StreamInv, StreamTyped, OwnRooms
      <4>2. /\ ms \in Seq(SocketMessage) /\ Len(ms) = Len(toServer) + Len(uns)
            /\ \A n \in 1..Len(ms) : ms[n] = IF n <= Len(toServer) THEN toServer[n] ELSE uns[n - Len(toServer)]
        BY <4>1, <3>2, ConcatProperties
      <4>3. Len(toServer) \in Nat /\ Len(uns) \in Nat
        BY <4>1, <3>2
      <4> SUFFICES ASSUME NEW n \in 1..Len(ms) PROVE OwnRoom(ms[n].room)
        BY <4>2
      <4>4. CASE n <= Len(toServer)
        BY <4>1, <4>2, <4>3, <4>4
      <4>5. CASE n > Len(toServer)
        <5>1. n - Len(toServer) \in 1..Len(uns) /\ ms[n] = uns[n - Len(toServer)]
          BY <4>2, <4>3, <4>5
        <5> QED BY <5>1, <3>2
      <4> QED BY <4>3, <4>4, <4>5
    <3> HIDE DEF ms
    <3>4. sub \in SocketMessage /\ OwnRoom(sub.room)
      BY <2>1 DEF SocketMessage, OwnRoom
    <3>5. /\ toServer' \in Seq(SocketMessage) /\ Len(toServer') = Len(ms) + 1
          /\ toServer'[Len(ms) + 1] = sub
          /\ \A n \in 1..Len(toServer') : OwnRoom(toServer'[n].room)
      BY <3>1, <3>3, <3>4, ConcatProperties
    <3>6. StreamTyped' /\ OwnRooms'
      BY <3>5, <1>5 DEF Select, StreamInv, StreamTyped, OwnRooms, OwnRoom
    <3>7. Heads(s)'
      <4>1. Asks(toServer', Len(ms) + 1, "subscribe", s) /\ Len(ms) \in Nat
        BY <3>5, <3>3 DEF Asks
      <4>2. \A n \in 1..Len(toServer') : Asks(toServer', n, "unsubscribe", s) =>
              Len(ms) + 1 \in n + 1..Len(toServer')
        <5>1. SUFFICES ASSUME NEW n \in 1..Len(toServer'), Asks(toServer', n, "unsubscribe", s)
                       PROVE  n # Len(ms) + 1
          BY <3>5, <4>1
        <5> QED BY <5>1, <3>5 DEF Asks
      <4>3. Len(ms) + 1 \in 1..Len(toServer')
        BY <3>5, <4>1
      <4> QED BY <4>1, <4>2, <4>3 DEF Heads
    <3>8. Wanted' = {s}
      BY <1>5, <2>1 DEF Select, Wanted
    <3> QED BY <3>6, <3>7, <3>8 DEF StreamInv
  <2> QED BY <2>2, <2>3
<1>6. CASE Greeted
  <2>1. CASE keyValid
    BY <2>1, <1>0, <1>6, NothingChanges DEF Greeted, StreamTyped
  <2>2. CASE ~keyValid
    <3>1. StreamTyped' /\ OwnRooms'
      BY <2>2, <1>0, <1>6, NoRoomIsLeft DEF Greeted, Cut, StreamInv, StreamTyped, OwnRooms
    <3> QED BY <3>1, <2>2, <1>6 DEF Greeted, Cut, StreamInv
  <2> QED BY <2>1, <2>2
<1>7. CASE TakeSubscribe \/ TakeUnsubscribe
  <2>1. /\ toServer # <<>> /\ toServer' = Tail(toServer) /\ toServer' \in Seq(SocketMessage)
        /\ Len(toServer') = Len(toServer) - 1 /\ Len(toServer) \in Nat \ {0}
        /\ \A n \in 1..Len(toServer') : toServer'[n] = toServer[n + 1]
        /\ Head(toServer) = toServer[1] /\ Head(toServer) \in SocketMessage
    <3>1. toServer \in Seq(SocketMessage) /\ toServer # <<>> /\ toServer' = Tail(toServer)
      BY <1>0, <1>7 DEF TakeSubscribe, TakeUnsubscribe, StreamTyped
    <3>2. toServer' \in Seq(SocketMessage) /\ Len(toServer') = Len(toServer) - 1 /\ Len(toServer) \in Nat \ {0}
          /\ \A n \in 1..Len(toServer') : toServer'[n] = toServer[n + 1]
      BY <3>1
    <3>3. Head(toServer) = toServer[1] /\ Head(toServer) \in SocketMessage
      BY <3>1
    <3> QED BY <3>1, <3>2, <3>3
  <2>2. \A n \in 1..Len(toServer') : OwnRoom(toServer'[n].room)
    BY <2>1 DEF StreamInv, OwnRooms
  <2> DEFINE r0 == Head(toServer).room
  <2>3. r0 \in Room /\ OwnRoom(r0)
    BY <2>1 DEF SocketMessage, StreamInv, OwnRooms
  <2>4. CASE TakeSubscribe /\ ~wsKnown
    <3>1. StreamTyped' /\ OwnRooms'
      BY <2>1, <2>2, <2>4, NoRoomIsLeft DEF TakeSubscribe, Cut
    <3> QED BY <3>1, <2>4 DEF TakeSubscribe, Cut, StreamInv
  <2>5. ASSUME TakeUnsubscribe \/ wsKnown,
               NEW r \in Wanted, wsLink = "up", wsOpen = TRUE
        PROVE  Heads(r)'
    <3>1. Heads(r) /\ r \in Room
      BY <2>5, <1>0, WantedIs DEF StreamInv
    <3>2. \A n \in 1..Len(toServer') : Asks(toServer', n, "unsubscribe", r) =>
             \E k \in n + 1..Len(toServer') : Asks(toServer', k, "subscribe", r)
      <4> SUFFICES ASSUME NEW n \in 1..Len(toServer'), Asks(toServer', n, "unsubscribe", r)
                   PROVE  \E k \in n + 1..Len(toServer') : Asks(toServer', k, "subscribe", r)
        OBVIOUS
      <4>1. n + 1 \in 1..Len(toServer) /\ Asks(toServer, n + 1, "unsubscribe", r)
        BY <2>1 DEF Asks
      <4>2. PICK k \in (n + 1) + 1..Len(toServer) : Asks(toServer, k, "subscribe", r)
        BY <3>1, <4>1 DEF Heads
      <4>3. k - 1 \in n + 1..Len(toServer') /\ toServer'[k - 1] = toServer[k]
        BY <2>1, <4>2
      <4> QED BY <4>2, <4>3 DEF Asks
    <3>3. \/ Allowed(r)' = FALSE \/ r \in wsRooms' \/ wsChecking'[r] > 0
          \/ \E n \in 1..Len(toServer') : Asks(toServer', n, "subscribe", r)
      <4>1. Allowed(r)' = Allowed(r)
        BY <1>7 DEF Allowed, TakeSubscribe, TakeUnsubscribe
      <4>2. ASSUME NEW n \in 1..Len(toServer), n # 1, Asks(toServer, n, "subscribe", r)
            PROVE  \E k \in 1..Len(toServer') : Asks(toServer', k, "subscribe", r)
        <5>1. n - 1 \in 1..Len(toServer') /\ toServer'[n - 1] = toServer[n]
          BY <2>1, <4>2
        <5> QED BY <5>1, <4>2 DEF Asks
      <4>3. CASE TakeUnsubscribe
        <5>1. CASE r \in RoomsLeft(r0)
          <6>1. Asks(toServer, 1, "unsubscribe", r)
            BY <5>1, <4>3, <2>1, <2>3, <2>5, <1>0, WantedIs DEF RoomsLeft, TakeUnsubscribe, Asks, OwnRoom
          <6>2. PICK k \in 2..Len(toServer) : Asks(toServer, k, "subscribe", r)
            BY <6>1, <3>1, <2>1 DEF Heads
          <6> QED BY <6>2, <4>2
        <5>2. CASE r \notin RoomsLeft(r0)
          <6>1. ~Asks(toServer, 1, "subscribe", r)
            BY <4>3, <2>1 DEF TakeUnsubscribe, Asks
          <6> QED BY <6>1, <5>2, <4>1, <4>2, <4>3, <3>1 DEF TakeUnsubscribe, Heads
        <5> QED BY <5>1, <5>2
      <4>4. CASE TakeSubscribe /\ wsKnown
        <5>1. \A q \in Room : wsChecking'[q] = IF q = r0 THEN wsChecking[q] + 1 ELSE wsChecking[q]
          BY <4>4, <1>0 DEF TakeSubscribe, StreamTyped
        <5>2. Asks(toServer, 1, "subscribe", r) => r = r0
          BY <2>1 DEF Asks
        <5>3. wsChecking[r] \in Nat /\ wsRooms' = wsRooms
          BY <3>1, <4>4, <1>0 DEF StreamTyped, TakeSubscribe
        <5> QED BY <5>1, <5>2, <5>3, <4>1, <4>2, <3>1 DEF Heads
      <4> QED BY <4>3, <4>4, <2>5, <1>7
    <3> QED BY <3>2, <3>3 DEF Heads
  <2>6. CASE TakeUnsubscribe \/ (TakeSubscribe /\ wsKnown)
    <3>1. StreamTyped'
      <4>1. wsChecking' \in [Room -> Nat]
        BY <2>6, <2>3, <1>0 DEF TakeSubscribe, TakeUnsubscribe, StreamTyped
      <4> QED BY <4>1, <2>1, <2>6, <1>0 DEF TakeSubscribe, TakeUnsubscribe, StreamTyped
    <3>2. OwnRooms'
      <4>1. wsPage' = wsPage /\ wsRooms' \subseteq wsRooms
        BY <2>6 DEF TakeSubscribe, TakeUnsubscribe
      <4>2. \A r \in Room : wsChecking'[r] > 0 => wsChecking[r] > 0 \/ r = r0
        BY <2>6, <2>3, <1>0 DEF TakeSubscribe, TakeUnsubscribe, StreamTyped
      <4> QED BY <4>1, <4>2, <2>2, <2>3 DEF StreamInv, OwnRooms, OwnRoom
    <3>3. Wanted' = Wanted /\ wsLink' = wsLink /\ wsOpen' = wsOpen
      BY <2>6 DEF TakeSubscribe, TakeUnsubscribe, Wanted
    <3> QED BY <3>1, <3>2, <3>3, <2>5, <2>6 DEF StreamInv
  <2> QED BY <2>4, <2>6, <1>7
<1>8. ASSUME NEW r0 \in Room, Checked(r0) PROVE StreamInv'
  <2>1. CASE keyValid
    <3>1. /\ wsChecking' \in [Room -> Nat]
          /\ \A q \in Room : wsChecking'[q] = IF q = r0 THEN wsChecking[q] - 1 ELSE wsChecking[q]
      BY <2>1, <1>8, <1>0 DEF Checked, StreamTyped
    <3>2. wsRooms' = (IF Allowed(r0) THEN wsRooms \cup {r0} ELSE wsRooms) /\ OwnRoom(r0)
      BY <2>1, <1>8 DEF Checked, StreamInv, OwnRooms
    <3>3. StreamTyped'
      BY <3>1, <3>2, <2>1, <1>8, <1>0 DEF Checked, StreamTyped
    <3>4. OwnRooms'
      <4>1. wsPage' = wsPage /\ toServer' = toServer /\ \A q \in wsRooms' : q \in wsRooms \/ q = r0
        BY <3>2, <1>8 DEF Checked
      <4>2. \A q \in Room : wsChecking'[q] > 0 => wsChecking[q] > 0
        BY <3>1, <1>0 DEF StreamTyped
      <4> QED BY <4>1, <4>2, <3>2 DEF StreamInv, OwnRooms, OwnRoom
    <3>5. Wanted' = Wanted /\ wsLink' = wsLink /\ wsOpen' = wsOpen /\ toServer' = toServer
      BY <2>1, <1>8 DEF Checked, Wanted
    <3>6. ASSUME NEW r \in Wanted, Heads(r) PROVE Heads(r)'
      <4>1. r \in Room /\ (Allowed(r)' <=> Allowed(r))
        BY <1>0, <1>8, WantedIs DEF Checked, Allowed
      <4> QED BY <4>1, <3>1, <3>2, <3>5, <3>6 DEF Heads
    <3> QED BY <3>3, <3>4, <3>5, <3>6 DEF StreamInv
  <2>2. CASE ~keyValid
    <3>1. StreamTyped' /\ OwnRooms'
      BY <2>2, <1>0, <1>8, NoRoomIsLeft DEF Checked, Cut, StreamInv, StreamTyped, OwnRooms
    <3> QED BY <3>1, <2>2, <1>8 DEF Checked, Cut, StreamInv
  <2> QED BY <2>1, <2>2
<1>9. CASE Revoke
  BY <1>9, <1>0, NothingChanges DEF Revoke, StreamTyped
<1>10. CASE UNCHANGED streamVars
  BY <1>10, <1>0, NothingChanges DEF streamVars, StreamTyped
<1> QED BY <1>1, <1>2, <1>3, <1>4, <1>5, <1>6, <1>7, <1>8, <1>9, <1>10 DEF StreamNext

\* events.gateway.ts, useWebSocket.ts: in whichever order subscribes, unsubscribes, checks of the key and reconnections
\* come, a page whose socket is settled is sent every event of its session, once.
THEOREM EventsComeOnce == StreamSpec => []SettledIsSubscribed
<1>1. StreamInv => SettledIsSubscribed
  <2> SUFFICES ASSUME StreamInv, Settled, NEW r \in Wanted, Allowed(r), NEW s \in PageSession,
                      r \in {s, "*"}
               PROVE  Copies(s) = 1
    BY DEF SettledIsSubscribed
  <2>1. r \in Room /\ OwnRoom(r) /\ Heads(r)
    BY WantedIs DEF StreamInv, Settled
  <2>2. r \in wsRooms
    <3>1. wsChecking[r] = 0 /\ Len(toServer) = 0
      BY <2>1, NobodyIsChecked DEF Settled
    <3> QED BY <3>1, <2>1 DEF Heads
  <2>3. \A q \in wsRooms : OwnRoom(q)
    BY DEF StreamInv, OwnRooms
  <2>4. wsRooms \cap {s, "*"} = {r}
    BY <2>1, <2>2, <2>3, StreamAssumption DEF OwnRoom
  <2> QED BY <2>4, FS_Singleton DEF Copies
<1> QED BY <1>1, StreamStarts, StreamKeeps, PTL DEF StreamSpec

-----------------------------------------------------------------------------
(* The list of the sessions page.                                           *)

PageStatus == Status \cup {"absent", "gone"}
PageKind == {"none", "create", "delete", "start", "stop", "kill", "show"} \cup Listing
Changes == {"start", "stop", "kill"}

\* The lists with each session once.
Lists == {l \in Seq(Entry) : \A i, j \in 1..Len(l) : l[i].of = l[j].of => i = j}

CallType ==
  [kind : PageKind, of : Sid \cup {NoSid}, at : {"none", "sent", "back"}, seen : Lists, got : Lists,
   since : SUBSET Sid]

\* An event under way is of session s; the last of them says v.
Told(es, s) == \E i \in 1..Len(es) : es[i].of = s
Says(es, s, v) ==
  \A i \in 1..Len(es) :
    es[i].of = s /\ (\A j \in i + 1..Len(es) : es[j].of # s) => es[i].status = v

\* The events under way tell how the rows are.
Said(row, es) ==
  \A s \in Sid : /\ row[s] = "absent" => ~Told(es, s)
                 /\ row[s] \in Status => Says(es, s, row[s])

\* What list l shows of s is its row, once the events under way are heard.
Shows(l, es, s, row) ==
  IF row[s] \in Status THEN ShownIn(l, s) # {} /\ (Told(es, s) \/ ShownIn(l, s) = {row[s]})
                       ELSE ShownIn(l, s) = {}

\* What answer e will do is right of every session it has missed nothing of.
UpToDate(e, row, es) ==
  /\ e.kind \in Listing => \A s \in Sid \ e.since : Shows(e.got, es, s, row)
  /\ e.kind = "delete" => row[e.of] = "gone"
  /\ e.kind = "create" /\ e.of \notin e.since =>
       row[e.of] \in Status /\ (Told(es, e.of) \/ row[e.of] = "idle")
  /\ e.kind \in Changes /\ e.of \notin e.since => row[e.of] \in Status /\ Told(es, e.of)

Fits(e, row, es) ==
  /\ e.kind \notin {"none", "fetch"} => e.of \in Sid
  /\ e.kind = "create" => ShownIn(e.seen, e.of) = {} /\ (e.at = "sent" => row[e.of] = "absent")
  /\ e.kind \in Changes => ShownIn(e.seen, e.of) # {}
  /\ e.at = "back" => UpToDate(e, row, es)

\* The page shows s as it is, or the answer to its creation or removal is still to come.
Settles(s, l, row, es, cs) ==
  \/ Shows(l, es, s, row)
  \/ \E c \in PageCall : /\ cs[c].of = s /\ cs[c].at = "back"
                         /\ cs[c].kind = "delete" \/ (cs[c].kind = "create" /\ ShownIn(l, s) = {})

PageFits(row, es, l, cs, far) ==
  /\ row \in [Sid -> PageStatus] /\ es \in Seq(Entry) /\ l \in Lists
  /\ cs \in [PageCall -> CallType] /\ far \subseteq Sid
  /\ Said(row, es)
  /\ \A c \in PageCall : Fits(cs[c], row, es)
  /\ \A c, d \in PageCall : cs[c].kind = "create" /\ cs[d].kind = "create" => c = d
  /\ \A s \in Sid \ far : Settles(s, l, row, es, cs)

PageInv ==
  /\ PageFits(pageRow, pageEvents, pageList, pageCalls, astray)
  /\ pageHeard \/ pageEvents = <<>>

-----------------------------------------------------------------------------
(* What lists show and events tell.                                         *)

LEMMA AnEntry == \A e \in Entry : e.of \in Sid /\ e.status \in Status
  BY DEF Entry

LEMMA EmptyList ==
  /\ <<>> \in Lists /\ <<>> \in Seq(Entry)
  /\ \A s : ShownIn(<<>>, s) = {} /\ ~Told(<<>>, s) /\ \A v : Says(<<>>, s, v)
<1>1. <<>> \in Seq(Entry) /\ Len(<<>>) = 0 /\ DOMAIN <<>> = {}
  OBVIOUS
<1> QED BY <1>1 DEF Lists, ShownIn, Told, Says

LEMMA ToldAfter ==
  ASSUME NEW es \in Seq(Entry), NEW e \in Entry, NEW s
  PROVE  LET fs == Append(es, e) IN
         /\ fs \in Seq(Entry)
         /\ Told(fs, s) <=> e.of = s \/ Told(es, s)
         /\ e.of = s => Says(fs, s, e.status)
         /\ \A v : e.of # s /\ Says(es, s, v) => Says(fs, s, v)
<1> DEFINE fs == Append(es, e)
           n == Len(es)
<1>1. /\ fs \in Seq(Entry) /\ Len(fs) = n + 1 /\ n \in Nat
      /\ fs[n + 1] = e /\ \A i \in 1..n : fs[i] = es[i]
  BY AppendProperties
<1> HIDE DEF fs
<1>2. Told(fs, s) <=> e.of = s \/ Told(es, s)
  <2>1. ASSUME Told(fs, s) PROVE e.of = s \/ Told(es, s)
    <3>1. PICK i \in 1..n + 1 : fs[i].of = s
      BY <2>1, <1>1 DEF Told
    <3>2. i = n + 1 \/ i \in 1..n
      BY <1>1
    <3> QED BY <3>1, <3>2, <1>1 DEF Told
  <2>2. ASSUME e.of = s \/ Told(es, s) PROVE Told(fs, s)
    <3>1. n + 1 \in 1..Len(fs) /\ \A i \in 1..n : i \in 1..Len(fs)
      BY <1>1
    <3> QED BY <2>2, <3>1, <1>1 DEF Told
  <2> QED BY <2>1, <2>2
<1>3. ASSUME e.of = s PROVE Says(fs, s, e.status)
  <2> SUFFICES ASSUME NEW i \in 1..Len(fs), \A j \in i + 1..Len(fs) : fs[j].of # s
               PROVE  fs[i].status = e.status
    BY DEF Says
  <2>1. i = n + 1 \/ n + 1 \in i + 1..Len(fs)
    BY <1>1
  <2> QED BY <2>1, <1>1, <1>3
<1>4. ASSUME NEW v, e.of # s, Says(es, s, v) PROVE Says(fs, s, v)
  <2> SUFFICES ASSUME NEW i \in 1..Len(fs), fs[i].of = s, \A j \in i + 1..Len(fs) : fs[j].of # s
               PROVE  fs[i].status = v
    BY DEF Says
  <2>1. i \in 1..n /\ fs[i] = es[i]
    BY <1>1, <1>4
  <2>2. \A j \in i + 1..n : es[j].of # s
    <3> SUFFICES ASSUME NEW j \in i + 1..n PROVE es[j].of # s
      OBVIOUS
    <3>1. j \in 1..n /\ j \in i + 1..Len(fs)
      BY <2>1, <1>1
    <3> QED BY <3>1, <1>1
  <2> QED BY <2>1, <2>2, <1>4 DEF Says
<1> QED BY <1>1, <1>2, <1>3, <1>4 DEF fs

LEMMA ToldThen ==
  ASSUME NEW es \in Seq(Entry), es # <<>>, NEW s
  PROVE  /\ Head(es) \in Entry /\ Tail(es) \in Seq(Entry)
         /\ Told(es, s) <=> Head(es).of = s \/ Told(Tail(es), s)
         /\ \A v : Says(es, s, v) => Says(Tail(es), s, v)
         /\ \A v : Says(es, s, v) /\ Head(es).of = s /\ ~Told(Tail(es), s) => Head(es).status = v
<1> DEFINE fs == Tail(es)
           e == Head(es)
           n == Len(fs)
<1>1. /\ fs \in Seq(Entry) /\ e \in Entry /\ e = es[1] /\ n \in Nat
      /\ Len(es) = n + 1 /\ \A i \in 1..n : fs[i] = es[i + 1]
  BY HeadTailProperties
<1> HIDE DEF fs, e
<1>2. Told(es, s) <=> e.of = s \/ Told(fs, s)
  <2>1. ASSUME Told(es, s) PROVE e.of = s \/ Told(fs, s)
    <3>1. PICK i \in 1..n + 1 : es[i].of = s
      BY <2>1, <1>1 DEF Told
    <3>2. i = 1 \/ (i - 1 \in 1..n /\ fs[i - 1] = es[i])
      BY <1>1
    <3> QED BY <3>1, <3>2, <1>1 DEF Told
  <2>2. ASSUME e.of = s \/ Told(fs, s) PROVE Told(es, s)
    <3>1. 1 \in 1..Len(es) /\ \A i \in 1..n : i + 1 \in 1..Len(es)
      BY <1>1
    <3> QED BY <2>2, <3>1, <1>1 DEF Told
  <2> QED BY <2>1, <2>2
<1>3. ASSUME NEW v, Says(es, s, v) PROVE Says(fs, s, v)
  <2> SUFFICES ASSUME NEW i \in 1..n, fs[i].of = s, \A j \in i + 1..n : fs[j].of # s
               PROVE  fs[i].status = v
    BY DEF Says
  <2>1. i + 1 \in 1..Len(es) /\ es[i + 1] = fs[i]
    BY <1>1
  <2>2. \A j \in (i + 1) + 1..Len(es) : es[j].of # s
    <3> SUFFICES ASSUME NEW j \in (i + 1) + 1..Len(es) PROVE es[j].of # s
      OBVIOUS
    <3>1. j - 1 \in i + 1..n /\ j - 1 \in 1..n /\ fs[j - 1] = es[j]
      BY <1>1
    <3> QED BY <3>1
  <2> QED BY <2>1, <2>2, <1>3 DEF Says
<1>4. ASSUME NEW v, Says(es, s, v), e.of = s, ~Told(fs, s) PROVE e.status = v
  <2>1. 1 \in 1..Len(es) /\ es[1].of = s
    BY <1>1, <1>4
  <2>2. \A j \in 1 + 1..Len(es) : es[j].of # s
    <3> SUFFICES ASSUME NEW j \in 1 + 1..Len(es) PROVE es[j].of # s
      OBVIOUS
    <3>1. j - 1 \in 1..n /\ fs[j - 1] = es[j]
      BY <1>1
    <3> QED BY <3>1, <1>4 DEF Told
  <2> QED BY <2>1, <2>2, <1>1, <1>4 DEF Says
<1> QED BY <1>1, <1>2, <1>3, <1>4 DEF fs, e

LEMMA AList ==
  ASSUME NEW l \in Lists, NEW s
  PROVE  /\ l \in Seq(Entry) /\ Len(l) \in Nat /\ DOMAIN l = 1..Len(l) /\ l \in [1..Len(l) -> Entry]
         /\ \A i \in 1..Len(l) : l[i] \in Entry
         /\ \A i, j \in 1..Len(l) : l[i].of = l[j].of => i = j
         /\ ShownIn(l, s) = {} <=> \A i \in 1..Len(l) : l[i].of # s
<1>1. l \in Seq(Entry) /\ \A i, j \in 1..Len(l) : l[i].of = l[j].of => i = j
  BY DEF Lists
<1>2. Len(l) \in Nat /\ DOMAIN l = 1..Len(l) /\ l \in [1..Len(l) -> Entry]
  BY <1>1, LenProperties
<1>3. \A i \in 1..Len(l) : l[i] \in Entry
  BY <1>2
<1>4. ShownIn(l, s) = {} <=> \A i \in 1..Len(l) : l[i].of # s
  <2>1. ShownIn(l, s) = {l[i].status : i \in {i \in 1..Len(l) : l[i].of = s}}
    BY <1>2 DEF ShownIn
  <2> QED BY <2>1
<1> QED BY <1>1, <1>2, <1>3, <1>4

LEMMA ShownWith ==
  ASSUME NEW l \in Lists, NEW s, NEW st \in Status
  PROVE  /\ With(l, s, st) \in Lists
         /\ ShownIn(With(l, s, st), s) = IF ShownIn(l, s) = {} THEN {} ELSE {st}
         /\ \A t : t # s => ShownIn(With(l, s, st), t) = ShownIn(l, t)
<1> DEFINE m == With(l, s, st)
           n == Len(l)
<1>1. m = [i \in 1..n |-> IF l[i].of = s THEN [l[i] EXCEPT !.status = st] ELSE l[i]]
  BY AList DEF With
<1> HIDE DEF m
<1>2. \A i \in 1..n : /\ m[i] \in Entry /\ m[i].of = l[i].of
                      /\ m[i].status = IF l[i].of = s THEN st ELSE l[i].status
  BY <1>1, AList DEF Entry
<1>3. m \in [1..n -> Entry] /\ n \in Nat
  BY <1>1, <1>2, AList
<1>4. m \in Seq(Entry) /\ Len(m) = n /\ DOMAIN m = 1..n
  BY <1>3, IsASeq, LenProperties
<1>5. m \in Lists
  BY <1>2, <1>4, AList DEF Lists
<1>6. ShownIn(m, s) = IF ShownIn(l, s) = {} THEN {} ELSE {st}
  <2>1. ShownIn(m, s) = {m[i].status : i \in {i \in 1..n : m[i].of = s}}
    BY <1>4 DEF ShownIn
  <2>2. ShownIn(l, s) = {} <=> \A i \in 1..n : m[i].of # s
    BY <1>2, AList
  <2>3. \A i \in 1..n : m[i].of = s => m[i].status = st
    BY <1>2
  <2> QED BY <2>1, <2>2, <2>3
<1>7. ASSUME NEW t, t # s PROVE ShownIn(m, t) = ShownIn(l, t)
  <2>1. DOMAIN l = 1..n
    BY AList
  <2>2. {i \in DOMAIN m : m[i].of = t} = {i \in DOMAIN l : l[i].of = t}
    BY <2>1, <1>2, <1>4
  <2>3. \A i \in {i \in DOMAIN l : l[i].of = t} : m[i].status = l[i].status
    BY <2>1, <1>2, <1>7
  <2> QED BY <2>2, <2>3 DEF ShownIn
<1> QED BY <1>5, <1>6, <1>7 DEF m

LEMMA ShownAfter ==
  ASSUME NEW l \in Lists, NEW e \in Entry, ShownIn(l, e.of) = {}
  PROVE  /\ Append(l, e) \in Lists /\ ShownIn(Append(l, e), e.of) = {e.status}
         /\ \A t : t # e.of => ShownIn(Append(l, e), t) = ShownIn(l, t)
<1> DEFINE m == Append(l, e)
           n == Len(l)
<1>0. l \in Seq(Entry) /\ n \in Nat /\ DOMAIN l = 1..n /\ \A i \in 1..n : l[i].of # e.of
  BY AList
<1>1. m \in Seq(Entry) /\ Len(m) = n + 1 /\ m[n + 1] = e /\ \A i \in 1..n : m[i] = l[i]
  BY <1>0, AppendProperties
<1> HIDE DEF m
<1>2. DOMAIN m = 1..n + 1 /\ \A i \in 1..n + 1 : i \in 1..n \/ i = n + 1
  BY <1>0, <1>1
<1>3. m \in Lists
  <2> SUFFICES ASSUME NEW i \in 1..n + 1, NEW j \in 1..n + 1, m[i].of = m[j].of PROVE i = j
    BY <1>1 DEF Lists
  <2> QED BY <1>0, <1>1, <1>2, AList
<1>4. ShownIn(m, e.of) = {e.status}
  <2>1. {i \in DOMAIN m : m[i].of = e.of} = {n + 1}
    BY <1>0, <1>1, <1>2
  <2> QED BY <2>1, <1>1 DEF ShownIn
<1>5. ASSUME NEW t, t # e.of PROVE ShownIn(m, t) = ShownIn(l, t)
  <2>1. {i \in DOMAIN m : m[i].of = t} = {i \in DOMAIN l : l[i].of = t}
    BY <1>0, <1>1, <1>2, <1>5
  <2>2. \A i \in {i \in DOMAIN l : l[i].of = t} : m[i].status = l[i].status
    BY <1>0, <1>1
  <2> QED BY <2>1, <2>2 DEF ShownIn
<1> QED BY <1>3, <1>4, <1>5 DEF m

LEMMA ShownLess ==
  ASSUME NEW l \in Lists, NEW s
  PROVE  /\ LessOne(l, s) \in Lists /\ ShownIn(LessOne(l, s), s) = {}
         /\ \A t : t # s => ShownIn(LessOne(l, s), t) = ShownIn(l, t)
<1> DEFINE m == LessOne(l, s)
           n == Len(l)
           at == {i \in DOMAIN l : l[i].of = s}
<1>0. l \in Seq(Entry) /\ n \in Nat /\ DOMAIN l = 1..n
  BY AList
<1>1. CASE at = {}
  BY <1>1 DEF LessOne, ShownIn
<1>2. CASE at # {}
  <2>0. PICK k \in 1..n : l[k].of = s
    BY <1>2, <1>0
  <2>1. at = {k} /\ l[k].of = s
    <3>1. \A i \in 1..n : l[i].of = s => i = k
      BY <2>0, AList
    <3> QED BY <3>1, <2>0, <1>0
  <2>2. m = SubSeq(l, 1, k - 1) \o SubSeq(l, k + 1, n)
    BY <1>2, <2>1 DEF LessOne, RemoveAt
  <2> DEFINE u == SubSeq(l, 1, k - 1)
             v == SubSeq(l, k + 1, n)
             g == [i \in 1..n - 1 |-> IF i < k THEN i ELSE i + 1]
  <2>3. u \in Seq(Entry) /\ Len(u) = k - 1 /\ \A i \in 1..k - 1 : u[i] = l[i]
    BY <1>0, <2>1
  <2>4. v \in Seq(Entry) /\ Len(v) = n - k /\ \A i \in 1..n - k : v[i] = l[i + k]
    <3>1. l \in Seq(Entry) /\ n \in Nat /\ k \in 1..n
      BY <1>0
    <3>2. v \in Seq(Entry) /\ Len(v) = n - k
      BY <3>1
    <3>3. \A i \in 1..n - k : v[i] = l[i + k]
      BY <3>1
    <3> QED BY <3>2, <3>3
  <2> HIDE DEF u, v
  <2>5. /\ m \in Seq(Entry) /\ Len(m) = n - 1
        /\ \A i \in 1..n - 1 : m[i] = IF i < k THEN l[i] ELSE l[i + 1]
    <3>1. /\ m \in Seq(Entry) /\ Len(m) = (k - 1) + (n - k)
          /\ \A i \in 1..(k - 1) + (n - k) : m[i] = IF i <= k - 1 THEN u[i] ELSE v[i - (k - 1)]
      <4>1. m = u \o v
        BY <2>2 DEF u, v
      <4> HIDE DEF m
      <4>2. /\ m \in Seq(Entry) /\ Len(m) = Len(u) + Len(v)
            /\ \A i \in 1..Len(u) + Len(v) : m[i] = IF i <= Len(u) THEN u[i] ELSE v[i - Len(u)]
        BY <4>1, <2>3, <2>4, ConcatProperties
      <4> QED BY <4>2, <2>3, <2>4
    <3>2. (k - 1) + (n - k) = n - 1
      BY <1>0, <2>1
    <3> SUFFICES ASSUME NEW i \in 1..n - 1 PROVE m[i] = IF i < k THEN l[i] ELSE l[i + 1]
      BY <3>1, <3>2
    <3>3. CASE i < k
      BY <3>1, <3>2, <3>3, <2>3, <1>0, <2>1
    <3>4. CASE ~(i < k)
      <4>1. i - (k - 1) \in 1..n - k /\ (i - (k - 1)) + k = i + 1 /\ ~(i <= k - 1)
        BY <3>4, <1>0, <2>1
      <4> QED BY <4>1, <3>1, <3>2, <3>4, <2>4
    <3> QED BY <3>3, <3>4
  <2> HIDE DEF m
  <2>6. /\ \A i \in 1..n - 1 : g[i] \in 1..n /\ g[i] # k /\ m[i] = l[g[i]]
        /\ \A i, j \in 1..n - 1 : g[i] = g[j] => i = j
        /\ \A j \in 1..n : j # k => \E i \in 1..n - 1 : g[i] = j
    <3>1. \A i \in 1..n - 1 : g[i] \in 1..n /\ g[i] # k /\ m[i] = l[g[i]]
      BY <1>0, <2>1, <2>5
    <3>2. \A i, j \in 1..n - 1 : g[i] = g[j] => i = j
      BY <1>0, <2>1
    <3>3. ASSUME NEW j \in 1..n, j # k PROVE \E i \in 1..n - 1 : g[i] = j
      <4>1. CASE j < k
        <5>1. j \in 1..n - 1 /\ g[j] = j
          BY <4>1, <1>0, <2>1
        <5> QED BY <5>1
      <4>2. CASE j > k
        <5>1. j - 1 \in 1..n - 1 /\ g[j - 1] = j
          BY <4>2, <1>0, <2>1
        <5> QED BY <5>1
      <4> QED BY <3>3, <4>1, <4>2, <1>0, <2>1
    <3> QED BY <3>1, <3>2, <3>3
  <2> HIDE DEF g
  <2>7. DOMAIN m = 1..n - 1
    BY <2>5
  <2>8. m \in Lists
    <3> SUFFICES ASSUME NEW i \in 1..n - 1, NEW j \in 1..n - 1, m[i].of = m[j].of PROVE i = j
      BY <2>5 DEF Lists
    <3>1. l[g[i]].of = l[g[j]].of /\ g[i] \in 1..n /\ g[j] \in 1..n
      BY <2>6
    <3>2. g[i] = g[j]
      BY <3>1, AList
    <3> QED BY <3>2, <2>6
  <2>9. ShownIn(m, s) = {}
    <3>1. \A i \in 1..n - 1 : m[i].of # s
      BY <2>1, <2>6, AList
    <3> QED BY <3>1, <2>7 DEF ShownIn
  <2>10. ASSUME NEW t, t # s PROVE ShownIn(m, t) = ShownIn(l, t)
    <3>1. ASSUME NEW x \in ShownIn(m, t) PROVE x \in ShownIn(l, t)
      <4>1. PICK i \in 1..n - 1 : m[i].of = t /\ x = m[i].status
        BY <3>1, <2>7 DEF ShownIn
      <4>2. g[i] \in DOMAIN l /\ l[g[i]].of = t /\ l[g[i]].status = x
        BY <4>1, <2>6, <1>0
      <4> HIDE DEF m
      <4> QED BY <4>2 DEF ShownIn
    <3>2. ASSUME NEW x \in ShownIn(l, t) PROVE x \in ShownIn(m, t)
      <4>1. PICK j \in 1..n : l[j].of = t /\ x = l[j].status
        BY <3>2, <1>0 DEF ShownIn
      <4>2. PICK i \in 1..n - 1 : g[i] = j
        BY <4>1, <2>1, <2>6, <2>10
      <4>3. m[i] = l[j]
        BY <4>2, <2>6
      <4>4. i \in DOMAIN m /\ m[i].of = t /\ x = m[i].status
        BY <4>1, <4>3, <2>7
      <4> HIDE DEF m
      <4> QED BY <4>4 DEF ShownIn
    <3> QED BY <3>1, <3>2
  <2> QED BY <2>8, <2>9, <2>10 DEF m
<1> QED BY <1>1, <1>2

\* The list findAll() answers is that of the rows.
LEMMA RowsAreShown ==
  ASSUME pageRow \in [Sid -> PageStatus]
  PROVE  /\ Rows \in Lists
         /\ \A s \in Sid : ShownIn(Rows, s) = IF pageRow[s] \in Status THEN {pageRow[s]} ELSE {}
<1> DEFINE S == {s \in Sid : Exists(s)}
           n == Cardinality(S)
           ss == SetToSeq(S)
           l == Rows
<1>1. IsFiniteSet(S)
  BY PageAssumption, FS_Subset
<1>2. n \in Nat /\ ExistsBijection(1..n, S)
  BY <1>1, FS_CardinalityType
<1>3. ss \in [1..n -> S] /\ IsInjective(ss)
  <2>1. \E f : f \in [1..n -> S] /\ IsInjective(f)
    BY <1>2 DEF ExistsBijection, Bijection, Injection
  <2> HIDE DEF S
  <2> QED BY <2>1 DEF SetToSeq
<1>4. \A s \in S : \E i \in 1..n : ss[i] = s
  <2>1. Cardinality(1..n) = n /\ IsFiniteSet(1..n)
    BY <1>2, FS_Interval
  <2>2. ss \in Injection(1..n, S)
    BY <1>3 DEF Injection, IsInjective
  <2> HIDE DEF S, ss
  <2>3. ss \in Surjection(1..n, S)
    BY <2>1, <2>2, <1>1, FS_Injection
  <2> QED BY <2>3 DEF Surjection
<1>5. l = [i \in 1..n |-> [of |-> ss[i], status |-> pageRow[ss[i]]]]
  BY <1>3 DEF Rows
<1>6. \A s \in S : s \in Sid /\ pageRow[s] \in Status /\ [of |-> s, status |-> pageRow[s]] \in Entry
  BY DEF Exists, Entry
<1> HIDE DEF S, ss, n, l
<1>7. l \in [1..n -> Entry]
  BY <1>3, <1>5, <1>6
<1>8. l \in Seq(Entry) /\ Len(l) = n /\ DOMAIN l = 1..n
  BY <1>2, <1>7, IsASeq, LenProperties
<1>9. \A i \in 1..n : l[i].of = ss[i] /\ l[i].status = pageRow[ss[i]]
  BY <1>5
<1>10. l \in Lists
  <2> SUFFICES ASSUME NEW i \in 1..n, NEW j \in 1..n, l[i].of = l[j].of PROVE i = j
    BY <1>8 DEF Lists
  <2> QED BY <1>3, <1>9 DEF IsInjective
<1>11. ASSUME NEW s \in Sid PROVE ShownIn(l, s) = IF pageRow[s] \in Status THEN {pageRow[s]} ELSE {}
  <2>1. CASE s \in S
    <3>1. PICK i \in 1..n : ss[i] = s
      BY <2>1, <1>4
    <3>2. \A j \in 1..n : l[j].of = s => l[j].status = pageRow[s]
      BY <1>9
    <3>3. l[i].of = s /\ pageRow[s] \in Status
      BY <3>1, <1>9, <2>1, <1>6
    <3> QED BY <3>2, <3>3, <1>8 DEF ShownIn
  <2>2. CASE s \notin S
    <3>1. pageRow[s] \notin Status
      BY <2>2 DEF S, Exists
    <3>2. \A i \in 1..n : l[i].of # s
      BY <2>2, <1>3, <1>9
    <3> QED BY <3>1, <3>2, <1>8 DEF ShownIn
  <2> QED BY <2>1, <2>2
<1> QED BY <1>10, <1>11 DEF l

-----------------------------------------------------------------------------
(* One step of the page, whatever the values it leaves.                     *)

LEMMA StillShows ==
  ASSUME NEW l, NEW es, NEW row, NEW m, NEW fs, NEW won, NEW s,
         ShownIn(m, s) = ShownIn(l, s), Told(fs, s) <=> Told(es, s), won[s] = row[s]
  PROVE  Shows(m, fs, s, won) <=> Shows(l, es, s, row)
  BY DEF Shows

\* Request f is request e, to which "ch" has been added if it is on its way back.
Missed(e, f, ch) ==
  /\ f.kind = e.kind /\ f.of = e.of /\ f.at = e.at /\ f.seen = e.seen /\ f.got = e.got
  /\ e.at = "back" => f.since = e.since \cup ch

LEMMA TouchedIs ==
  ASSUME NEW cs \in [PageCall -> CallType], NEW ch \in SUBSET Sid
  PROVE  /\ Touched(cs, ch) \in [PageCall -> CallType]
         /\ \A c \in PageCall :
              /\ Missed(cs[c], Touched(cs, ch)[c], ch)
              /\ Touched(cs, ch)[c].kind = cs[c].kind /\ Touched(cs, ch)[c].of = cs[c].of
              /\ Touched(cs, ch)[c].at = cs[c].at /\ Touched(cs, ch)[c].seen = cs[c].seen
<1>1. ASSUME NEW c \in PageCall
      PROVE  Touched(cs, ch)[c] \in CallType /\ Missed(cs[c], Touched(cs, ch)[c], ch)
  <2>1. cs[c] \in CallType
    OBVIOUS
  <2>2. Touched(cs, ch)[c] = IF cs[c].at = "back" THEN [cs[c] EXCEPT !.since = @ \cup ch] ELSE cs[c]
    BY DEF Touched
  <2> QED BY <2>1, <2>2 DEF CallType, Missed
<1>2. Touched(cs, ch) \in [PageCall -> CallType]
  <2>1. Touched(cs, ch) =
          [c \in PageCall |-> IF cs[c].at = "back" THEN [cs[c] EXCEPT !.since = @ \cup ch] ELSE cs[c]]
    BY DEF Touched
  <2> QED BY <1>1, <2>1
<1> QED BY <1>1, <1>2 DEF Missed

\* A request that has missed a change of sessions "ch" still fits.
LEMMA StillFits ==
  ASSUME NEW e \in CallType, NEW f \in CallType, NEW row, NEW es, NEW won, NEW fs, NEW ch,
         Fits(e, row, es), Missed(e, f, ch),
         \A s \in Sid \ ch : won[s] = row[s] /\ (Told(fs, s) <=> Told(es, s)),
         \A s \in ch : row[s] = "gone" => won[s] = "gone",
         e.kind = "create" /\ e.at = "sent" /\ e.of \in ch => won[e.of] = "absent"
  PROVE  Fits(f, won, fs)
<1> USE DEF Missed
<1>1. e.kind \notin {"none", "fetch"} => e.of \in Sid
  BY DEF Fits
<1>2. f.kind = "create" => ShownIn(f.seen, f.of) = {} /\ (f.at = "sent" => won[f.of] = "absent")
  BY <1>1 DEF Fits
<1>3. f.kind \in Changes => ShownIn(f.seen, f.of) # {}
  BY DEF Fits
<1>4. ASSUME e.at = "back" PROVE UpToDate(f, won, fs)
  <2>1. UpToDate(e, row, es) /\ f.since = e.since \cup ch
    BY <1>4 DEF Fits
  <2>2. f.kind \in Listing => \A s \in Sid \ f.since : Shows(f.got, fs, s, won)
    BY <2>1, StillShows DEF UpToDate
  <2>3. f.kind = "delete" => won[f.of] = "gone"
    BY <2>1, <1>1 DEF UpToDate
  <2>4. f.kind = "create" /\ f.of \notin f.since => won[f.of] \in Status /\ (Told(fs, f.of) \/ won[f.of] = "idle")
    BY <2>1, <1>1 DEF UpToDate
  <2>5. f.kind \in Changes /\ f.of \notin f.since => won[f.of] \in Status /\ Told(fs, f.of)
    <3>1. f.kind \in Changes => f.of \in Sid
      BY <1>1 DEF Changes
    <3> QED BY <2>1, <3>1 DEF UpToDate
  <2> QED BY <2>2, <2>3, <2>4, <2>5 DEF UpToDate
<1> QED BY <1>1, <1>2, <1>3, <1>4 DEF Fits

\* A request moves on; what it has done and not shown is written off.
LEMMA CallMoves ==
  ASSUME NEW row, NEW es, NEW l, NEW cs, NEW far, PageFits(row, es, l, cs, far),
         NEW c \in PageCall, NEW f \in CallType, Fits(f, row, es),
         f.kind = "create" => \A d \in PageCall : cs[d].kind # "create",
         NEW strays \in SUBSET Sid, far \subseteq strays,
         cs[c].at = "back" /\ cs[c].kind \in {"create", "delete"} => cs[c].of \in strays
  PROVE  PageFits(row, es, l, [cs EXCEPT ![c] = f], strays)
<1> DEFINE ds == [cs EXCEPT ![c] = f]
<1>1. cs \in [PageCall -> CallType]
  BY DEF PageFits
<1>2. ds \in [PageCall -> CallType] /\ ds[c] = f /\ \A d \in PageCall : d # c => ds[d] = cs[d]
  BY <1>1
<1> HIDE DEF ds
<1>3. \A d \in PageCall : Fits(ds[d], row, es)
  BY <1>2 DEF PageFits
<1>4. \A d, b \in PageCall : ds[d].kind = "create" /\ ds[b].kind = "create" => d = b
  BY <1>2 DEF PageFits
<1>5. ASSUME NEW s \in Sid \ strays PROVE Settles(s, l, row, es, ds)
  <2>1. Settles(s, l, row, es, cs)
    BY DEF PageFits
  <2>2. ASSUME NEW d \in PageCall, cs[d].of = s, cs[d].at = "back",
               cs[d].kind = "delete" \/ (cs[d].kind = "create" /\ ShownIn(l, s) = {})
        PROVE  Settles(s, l, row, es, ds)
    <3>1. d # c
      BY <2>2
    <3> QED BY <2>2, <3>1, <1>2 DEF Settles
  <2> QED BY <2>1, <2>2 DEF Settles
<1> QED BY <1>2, <1>3, <1>4, <1>5 DEF PageFits, ds

\* Nothing has changed but of sessions "ch"; the same requests are under way.
Alike(row, es, l, won, fs, m, ch) ==
  \A s \in Sid \ ch : won[s] = row[s] /\ (Told(fs, s) <=> Told(es, s)) /\ ShownIn(m, s) = ShownIn(l, s)

Onwards(cs, ds) ==
  \A c \in PageCall : /\ ds[c].kind = cs[c].kind /\ ds[c].of = cs[c].of
                      /\ cs[c].at = "back" => ds[c].at = "back"

AllFit(ds, won, fs) == \A c \in PageCall : Fits(ds[c], won, fs)
AllSettle(ss, m, won, fs, ds) == \A s \in ss : Settles(s, m, won, fs, ds)

\* Sessions "ch" change; those whose change is not on its way to the page go astray.
LEMMA SessionsChange ==
  ASSUME NEW row, NEW es, NEW l, NEW cs, NEW far, PageFits(row, es, l, cs, far),
         NEW ch \in SUBSET Sid, NEW won \in [Sid -> PageStatus], NEW fs \in Seq(Entry),
         NEW m \in Lists, NEW ds \in [PageCall -> CallType], NEW strays \in SUBSET Sid, far \subseteq strays,
         Said(won, fs), AllFit(ds, won, fs), Onwards(cs, ds), Alike(row, es, l, won, fs, m, ch),
         AllSettle(ch \ strays, m, won, fs, ds)
  PROVE  PageFits(won, fs, m, ds, strays)
<1> USE DEF AllFit, Onwards, Alike, AllSettle
<1>1. \A d, b \in PageCall : ds[d].kind = "create" /\ ds[b].kind = "create" => d = b
  BY DEF PageFits
<1>2. ASSUME NEW s \in Sid \ strays, s \notin ch PROVE Settles(s, m, won, fs, ds)
  <2>1. Settles(s, l, row, es, cs)
    BY DEF PageFits
  <2>2. won[s] = row[s] /\ (Told(fs, s) <=> Told(es, s)) /\ ShownIn(m, s) = ShownIn(l, s)
    BY <1>2
  <2>3. Shows(l, es, s, row) => Shows(m, fs, s, won)
    BY <2>2, StillShows
  <2> QED BY <2>1, <2>2, <2>3 DEF Settles
<1> QED BY <1>1, <1>2 DEF PageFits

\* The event of a change is on its way to the page.
LEMMA ChangeIsHeard ==
  ASSUME NEW row, NEW es, NEW l, NEW cs, NEW far, PageFits(row, es, l, cs, far),
         NEW s \in Sid, row[s] \in Status, NEW st \in Status
  PROVE  LET fs == Append(es, [of |-> s, status |-> st])
             won == [row EXCEPT ![s] = st]
         IN PageFits(won, fs, l, cs, far) /\ won[s] = st /\ Told(fs, s)
<1> DEFINE e == [of |-> s, status |-> st]
           fs == Append(es, e)
           won == [row EXCEPT ![s] = st]
<1>1. /\ row \in [Sid -> PageStatus] /\ es \in Seq(Entry) /\ l \in Lists
      /\ cs \in [PageCall -> CallType] /\ far \subseteq Sid /\ Said(row, es)
  BY DEF PageFits
<1>2. e \in Entry /\ e.of = s /\ e.status = st
  BY DEF Entry
<1>3. won \in [Sid -> PageStatus] /\ won[s] = st /\ \A t \in Sid : t # s => won[t] = row[t]
  BY <1>1 DEF PageStatus
<1> HIDE DEF e, won
<1>4. /\ fs \in Seq(Entry) /\ Told(fs, s) /\ Says(fs, s, st)
      /\ \A t : t # s => (Told(fs, t) <=> Told(es, t))
      /\ \A t, v : t # s /\ Says(es, t, v) => Says(fs, t, v)
  BY <1>1, <1>2, ToldAfter
<1> HIDE DEF fs
<1>5. Said(won, fs)
  <2> SUFFICES ASSUME NEW t \in Sid
               PROVE  /\ won[t] = "absent" => ~Told(fs, t)
                      /\ won[t] \in Status => Says(fs, t, won[t])
    BY DEF Said
  <2>1. CASE t = s
    BY <2>1, <1>3, <1>4 DEF Status
  <2>2. CASE t # s
    BY <2>2, <1>1, <1>3, <1>4 DEF Said
  <2> QED BY <2>1, <2>2
<1>6. \A m, t : t \in Sid /\ Shows(m, es, t, row) => Shows(m, fs, t, won)
  <2> SUFFICES ASSUME NEW m, NEW t \in Sid, Shows(m, es, t, row) PROVE Shows(m, fs, t, won)
    OBVIOUS
  <2>1. CASE t = s
    BY <2>1, <1>3, <1>4 DEF Shows
  <2>2. CASE t # s
    BY <2>2, <1>3, <1>4, StillShows
  <2> QED BY <2>1, <2>2
<1>7. ASSUME NEW c \in PageCall PROVE Fits(cs[c], won, fs)
  <2> DEFINE a == cs[c]
  <2>1. Fits(a, row, es) /\ a \in CallType
    BY <1>1 DEF PageFits
  <2> HIDE DEF a
  <2>2. a.kind \notin {"none", "fetch"} => a.of \in Sid
    BY <2>1 DEF Fits
  <2>3. row[a.of] \in {"absent", "gone"} /\ a.of \in Sid => a.of # s /\ won[a.of] = row[a.of]
    BY <1>3 DEF Status
  <2>4. ASSUME a.at = "back" PROVE UpToDate(a, won, fs)
    <3>1. UpToDate(a, row, es)
      BY <2>1, <2>4 DEF Fits
    <3>2. a.kind \in Listing => \A t \in Sid \ a.since : Shows(a.got, fs, t, won)
      BY <3>1, <1>6 DEF UpToDate
    <3>3. a.kind = "delete" => won[a.of] = "gone"
      BY <3>1, <2>2, <2>3 DEF UpToDate
    <3>4. a.of \in Sid /\ row[a.of] \in Status => won[a.of] \in Status
      BY <1>3
    <3>5. a.of \in Sid /\ Told(es, a.of) => Told(fs, a.of)
      BY <1>4
    <3>6. a.kind = "create" /\ a.of \notin a.since => won[a.of] \in Status /\ (Told(fs, a.of) \/ won[a.of] = "idle")
      BY <3>1, <3>4, <3>5, <2>2, <1>3, <1>4 DEF UpToDate
    <3>7. a.kind \in Changes => a.of \in Sid
      BY <2>2 DEF Changes
    <3>8. a.kind \in Changes /\ a.of \notin a.since => won[a.of] \in Status /\ Told(fs, a.of)
      BY <3>1, <3>4, <3>5, <3>7 DEF UpToDate
    <3> QED BY <3>2, <3>3, <3>6, <3>8 DEF UpToDate
  <2>5. Fits(a, won, fs)
    BY <2>1, <2>2, <2>3, <2>4 DEF Fits
  <2> QED BY <2>5 DEF a
<1>8. ASSUME NEW t \in Sid \ far PROVE Settles(t, l, won, fs, cs)
  BY <1>6 DEF PageFits, Settles
<1> QED BY <1>1, <1>3, <1>4, <1>5, <1>7, <1>8 DEF PageFits, won, fs, e

\* Nobody is told of the change: the page is not in the room.
LEMMA ChangeIsMissed ==
  ASSUME NEW row, NEW l, NEW cs, NEW far, PageFits(row, <<>>, l, cs, far),
         NEW s \in Sid, row[s] \in Status, NEW st \in Status
  PROVE  PageFits([row EXCEPT ![s] = st], <<>>, l, Touched(cs, {s}), far \cup {s})
<1> DEFINE won == [row EXCEPT ![s] = st]
           ds == Touched(cs, {s})
<1>1. /\ row \in [Sid -> PageStatus] /\ l \in Lists /\ cs \in [PageCall -> CallType] /\ far \subseteq Sid
  BY DEF PageFits
<1>2. won \in [Sid -> PageStatus] /\ \A t \in Sid \ {s} : won[t] = row[t]
  BY <1>1 DEF PageStatus
<1>3. /\ ds \in [PageCall -> CallType]
      /\ \A c \in PageCall : /\ Missed(cs[c], ds[c], {s})
                              /\ ds[c].kind = cs[c].kind /\ ds[c].of = cs[c].of /\ ds[c].at = cs[c].at
  BY <1>1, TouchedIs
<1> HIDE DEF won, ds
<1>4. \A c \in PageCall : Fits(ds[c], won, <<>>)
  <2> SUFFICES ASSUME NEW c \in PageCall PROVE Fits(ds[c], won, <<>>)
    OBVIOUS
  <2>1. Fits(cs[c], row, <<>>) /\ cs[c] \in CallType /\ ds[c] \in CallType
    BY <1>1, <1>3 DEF PageFits
  <2>2. ~(cs[c].kind = "create" /\ cs[c].at = "sent" /\ cs[c].of = s)
    BY <2>1 DEF Fits, Status
  <2>3. row[s] # "gone"
    BY DEF Status
  <2>4. \A t \in Sid \ {s} : won[t] = row[t] /\ (Told(<<>>, t) <=> Told(<<>>, t))
    BY <1>2
  <2>5. \A t \in {s} : row[t] = "gone" => won[t] = "gone"
    BY <2>3
  <2>6. cs[c].kind = "create" /\ cs[c].at = "sent" /\ cs[c].of \in {s} => won[cs[c].of] = "absent"
    BY <2>2
  <2>7. Missed(cs[c], ds[c], {s})
    BY <1>3
  <2> QED BY <2>1, <2>4, <2>5, <2>6, <2>7, StillFits
<1>5. Said(won, <<>>)
  BY EmptyList DEF Said
<1>6. /\ {s} \in SUBSET Sid /\ far \cup {s} \in SUBSET Sid /\ far \subseteq far \cup {s}
      /\ <<>> \in Seq(Entry)
  BY <1>1, EmptyList
<1>7. /\ AllFit(ds, won, <<>>) /\ Onwards(cs, ds) /\ Alike(row, <<>>, l, won, <<>>, l, {s})
      /\ AllSettle({s} \ (far \cup {s}), l, won, <<>>, ds)
  BY <1>2, <1>3, <1>4 DEF AllFit, Onwards, Alike, AllSettle
<1>8. PageFits(won, <<>>, l, ds, far \cup {s})
  BY <1>1, <1>2, <1>3, <1>5, <1>6, <1>7, SessionsChange
<1> QED BY <1>8 DEF won, ds

\* An answer writes a whole list: sessions other than its own that differ go astray.
LEMMA AnswerIsWritten ==
  ASSUME NEW row, NEW es, NEW l, NEW cs, NEW far, PageFits(row, es, l, cs, far),
         NEW c \in PageCall, NEW f \in CallType, Fits(f, row, es), f.kind # "create",
         NEW new \in Lists, NEW strays \in SUBSET Sid, far \subseteq strays,
         \A s \in Sid : ShownIn(l, s) # ShownIn(new, s) /\ (s # cs[c].of \/ s \in cs[c].since) => s \in strays,
         cs[c].of \notin cs[c].since \/ cs[c].kind = "delete" => Shows(new, es, cs[c].of, row),
         cs[c].kind = "create" => ShownIn(new, cs[c].of) # {}
  PROVE  PageFits(row, es, new, [cs EXCEPT ![c] = f], strays)
<1> DEFINE ds == [cs EXCEPT ![c] = f]
<1>1. cs \in [PageCall -> CallType]
  BY DEF PageFits
<1>2. ds \in [PageCall -> CallType] /\ ds[c] = f /\ \A d \in PageCall : d # c => ds[d] = cs[d]
  BY <1>1
<1> HIDE DEF ds
<1>3. \A d \in PageCall : Fits(ds[d], row, es)
  BY <1>2 DEF PageFits
<1>4. \A d, b \in PageCall : ds[d].kind = "create" /\ ds[b].kind = "create" => d = b
  BY <1>2 DEF PageFits
<1>5. ASSUME NEW s \in Sid \ strays PROVE Settles(s, new, row, es, ds)
  <2>1. Settles(s, l, row, es, cs)
    BY DEF PageFits
  <2>2. CASE s = cs[c].of /\ cs[c].of \notin cs[c].since
    BY <2>2 DEF Settles
  <2>3. CASE ~(s = cs[c].of /\ cs[c].of \notin cs[c].since)
    <3>1. ShownIn(new, s) = ShownIn(l, s)
      BY <2>3
    <3>2. Shows(l, es, s, row) => Shows(new, es, s, row)
      BY <3>1, StillShows
    <3>3. ASSUME NEW d \in PageCall, cs[d].of = s, cs[d].at = "back",
                 cs[d].kind = "delete" \/ (cs[d].kind = "create" /\ ShownIn(l, s) = {})
          PROVE  Settles(s, new, row, es, ds)
      <4>1. CASE d = c
        BY <4>1, <3>1, <3>3 DEF Settles
      <4>2. CASE d # c
        BY <4>2, <3>1, <3>3, <1>2 DEF Settles
      <4> QED BY <4>1, <4>2
    <3> QED BY <2>1, <3>2, <3>3 DEF Settles
  <2> QED BY <2>2, <2>3
<1> QED BY <1>2, <1>3, <1>4, <1>5 DEF PageFits, ds

\* The list a request for it has answered: what has not changed since is found again.
LEMMA ListIsWritten ==
  ASSUME NEW row, NEW es, NEW l, NEW cs, NEW far, PageFits(row, es, l, cs, far),
         NEW c \in PageCall, cs[c].kind \in Listing, cs[c].at = "back",
         NEW f \in CallType, Fits(f, row, es), f.kind # "create",
         NEW strays \in SUBSET Sid,
         \A s \in cs[c].since : ShownIn(l, s) # ShownIn(cs[c].got, s) \/ s \in far => s \in strays
  PROVE  PageFits(row, es, cs[c].got, [cs EXCEPT ![c] = f], strays)
<1> DEFINE ds == [cs EXCEPT ![c] = f]
           new == cs[c].got
<1>1. cs \in [PageCall -> CallType]
  BY DEF PageFits
<1>2. ds \in [PageCall -> CallType] /\ ds[c] = f /\ \A d \in PageCall : d # c => ds[d] = cs[d]
  BY <1>1
<1> HIDE DEF ds
<1>3. \A d \in PageCall : Fits(ds[d], row, es)
  BY <1>2 DEF PageFits
<1>4. \A d, b \in PageCall : ds[d].kind = "create" /\ ds[b].kind = "create" => d = b
  BY <1>2 DEF PageFits
<1>5. new \in Lists
  BY <1>1 DEF CallType
<1>6. UpToDate(cs[c], row, es)
  BY DEF PageFits, Fits
<1> HIDE DEF new
<1>7. ASSUME NEW s \in Sid \ strays PROVE Settles(s, new, row, es, ds)
  <2>1. CASE s \notin cs[c].since
    BY <2>1, <1>6 DEF UpToDate, Settles, new
  <2>2. CASE s \in cs[c].since
    <3>1. ShownIn(new, s) = ShownIn(l, s) /\ s \notin far
      BY <2>2 DEF new
    <3>2. Settles(s, l, row, es, cs)
      BY <3>1 DEF PageFits
    <3>3. Shows(l, es, s, row) => Shows(new, es, s, row)
      BY <3>1, StillShows
    <3>4. ASSUME NEW d \in PageCall, cs[d].of = s, cs[d].at = "back",
                 cs[d].kind = "delete" \/ (cs[d].kind = "create" /\ ShownIn(l, s) = {})
          PROVE  Settles(s, new, row, es, ds)
      <4>1. d # c
        BY <3>4 DEF Listing
      <4> QED BY <4>1, <3>1, <3>4, <1>2 DEF Settles
    <3> QED BY <3>2, <3>3, <3>4 DEF Settles
  <2> QED BY <2>1, <2>2
<1> QED BY <1>2, <1>3, <1>4, <1>5, <1>7 DEF PageFits, ds, new

-----------------------------------------------------------------------------
(* The page keeps the invariant.                                            *)

AwaitedFor(k, s) == [Fetching EXCEPT !.kind = k, !.of = s]

LEMMA NothingAsked ==
  /\ NotAsking \in CallType /\ Fetching \in CallType
  /\ NotAsking.kind = "none" /\ Fetching.kind = "fetch" /\ NotAsking.at = "none" /\ Fetching.at = "sent"
  /\ \A s \in Sid : /\ Showing(s) \in CallType /\ Showing(s).kind = "show" /\ Showing(s).at = "sent"
                    /\ Showing(s).of = s
                    /\ \A k \in Listing : AwaitedFor(k, s) \in CallType
                    /\ \A k \in Listing : /\ AwaitedFor(k, s).kind = k /\ AwaitedFor(k, s).of = s
                                          /\ AwaitedFor(k, s).at = "sent"
<1> USE EmptyList DEF NotAsking, Fetching, Showing, CallType, PageKind, Listing
<1>1. NotAsking \in CallType /\ Fetching \in CallType
  OBVIOUS
<1>2. \A s \in Sid : Showing(s) \in CallType
  OBVIOUS
<1>3. \A s \in Sid, k \in Listing : AwaitedFor(k, s) \in CallType
  BY <1>1 DEF AwaitedFor
<1>4. \A s \in Sid, k \in Listing : /\ AwaitedFor(k, s).kind = k /\ AwaitedFor(k, s).of = s
                                   /\ AwaitedFor(k, s).at = "sent"
  BY DEF AwaitedFor
<1>5. \A s \in Sid : Showing(s).kind = "show" /\ Showing(s).at = "sent" /\ Showing(s).of = s
  OBVIOUS
<1>6. /\ NotAsking.kind = "none" /\ Fetching.kind = "fetch" /\ NotAsking.at = "none"
      /\ Fetching.at = "sent"
  OBVIOUS
<1> HIDE DEF NotAsking, Fetching, Showing, CallType, PageKind, Listing
<1> QED BY <1>1, <1>2, <1>3, <1>4, <1>5, <1>6

LEMMA NothingAskedFits ==
  ASSUME NEW row, NEW es
  PROVE  /\ Fits(NotAsking, row, es) /\ Fits(Fetching, row, es)
         /\ \A s \in Sid : /\ Fits(Showing(s), row, es)
                           /\ \A k \in Listing : Fits(AwaitedFor(k, s), row, es)
<1>1. Fits(NotAsking, row, es) /\ Fits(Fetching, row, es)
  BY NothingAsked DEF Fits, Changes
<1>2. ASSUME NEW s \in Sid PROVE Fits(Showing(s), row, es)
  BY NothingAsked DEF Fits, Changes
<1>3. ASSUME NEW s \in Sid, NEW k \in Listing PROVE Fits(AwaitedFor(k, s), row, es)
  <2> DEFINE f == AwaitedFor(k, s)
  <2>1. f.kind = k /\ f.at = "sent" /\ f.of = s
    BY NothingAsked
  <2> HIDE DEF f
  <2>2. Fits(f, row, es)
    BY <2>1 DEF Fits, Changes, Listing
  <2> QED BY <2>2 DEF f
<1> QED BY <1>1, <1>2, <1>3

LEMMA SessionsPageStarts == PageInit => PageInv
<1> SUFFICES ASSUME PageInit PROVE PageInv
  OBVIOUS
<1>1. pageRow \in [Sid -> PageStatus]
  BY DEF PageInit, PageStatus, Status
<1>2. pageCalls \in [PageCall -> CallType] /\ \A c \in PageCall : pageCalls[c] \in {Fetching, NotAsking}
  BY NothingAsked DEF PageInit
<1>3. Said(pageRow, pageEvents)
  BY EmptyList DEF PageInit, Said
<1>4. \A c \in PageCall : Fits(pageCalls[c], pageRow, pageEvents) /\ pageCalls[c].kind # "create"
  <2> SUFFICES ASSUME NEW c \in PageCall
               PROVE  Fits(pageCalls[c], pageRow, pageEvents) /\ pageCalls[c].kind # "create"
    OBVIOUS
  <2>1. CASE pageCalls[c] = Fetching
    BY <2>1, NothingAsked, NothingAskedFits
  <2>2. CASE pageCalls[c] = NotAsking
    BY <2>2, NothingAsked, NothingAskedFits
  <2> QED BY <2>1, <2>2, <1>2
<1> QED BY <1>1, <1>2, <1>3, <1>4, EmptyList DEF PageInit, PageInv, PageFits

LEMMA PageTyped ==
  ASSUME PageInv
  PROVE  /\ PageFits(pageRow, pageEvents, pageList, pageCalls, astray)
         /\ pageRow \in [Sid -> PageStatus] /\ pageEvents \in Seq(Entry) /\ pageList \in Lists
         /\ pageCalls \in [PageCall -> CallType] /\ astray \in SUBSET Sid
         /\ Said(pageRow, pageEvents)
         /\ \A c \in PageCall : Fits(pageCalls[c], pageRow, pageEvents) /\ pageCalls[c] \in CallType
  BY DEF PageInv, PageFits

\* Only requests have moved.
LEMMA OneRequestMoves ==
  ASSUME PageInv, UNCHANGED <<pageRow, pageEvents, pageHeard, pageList>>,
         NEW c \in PageCall, NEW f \in CallType, Fits(f, pageRow, pageEvents),
         f.kind = "create" => \A d \in PageCall : pageCalls[d].kind # "create",
         pageCalls' = [pageCalls EXCEPT ![c] = f],
         astray' \in SUBSET Sid, astray \subseteq astray',
         pageCalls[c].at = "back" /\ pageCalls[c].kind \in {"create", "delete"} => pageCalls[c].of \in astray'
  PROVE  PageInv'
<1>1. PageFits(pageRow, pageEvents, pageList, [pageCalls EXCEPT ![c] = f], astray')
  BY PageTyped, CallMoves
<1> QED BY <1>1 DEF PageInv

LEMMA FetchedToo ==
  ASSUME NEW row, NEW es, NEW l, NEW cs, NEW far, PageFits(row, es, l, cs, far), FetchesToo(cs)
  PROVE  PageFits(row, es, l, pageCalls', far)
<1>1. PICK d \in PageCall : cs[d].kind = "none" /\ pageCalls' = [cs EXCEPT ![d] = Fetching]
  BY DEF FetchesToo
<1>2. far \in SUBSET Sid
  BY DEF PageFits
<1> QED BY <1>1, <1>2, NothingAsked, NothingAskedFits, CallMoves

LEMMA Emitted ==
  ASSUME PageInv, NEW s \in Sid, pageRow[s] \in Status, NEW st \in Status, NEW cs, Emits(s, st, cs)
  PROVE  /\ pageRow' = [pageRow EXCEPT ![s] = st] /\ pageRow'[s] = st
         /\ pageHeard => /\ PageFits(pageRow', pageEvents', pageList, pageCalls, astray')
                         /\ Told(pageEvents', s) /\ pageCalls' = cs
         /\ ~pageHeard => /\ PageFits(pageRow', pageEvents', pageList, Touched(pageCalls, {s}), astray')
                          /\ pageEvents' = <<>> /\ pageCalls' = Touched(cs, {s})
<1>1. pageRow' = [pageRow EXCEPT ![s] = st] /\ pageRow'[s] = st
  BY PageTyped DEF Emits
<1>2. CASE pageHeard
  <2>1. pageEvents' = Append(pageEvents, [of |-> s, status |-> st]) /\ pageCalls' = cs /\ astray' = astray
    BY <1>2 DEF Emits
  <2> QED BY <1>1, <1>2, <2>1, PageTyped, ChangeIsHeard
<1>3. CASE ~pageHeard
  <2>1. pageEvents' = <<>> /\ pageEvents = <<>> /\ pageCalls' = Touched(cs, {s}) /\ astray' = astray \cup {s}
    BY <1>3 DEF Emits, PageInv
  <2>2. PageFits(pageRow, <<>>, pageList, pageCalls, astray)
    BY <2>1, PageTyped
  <2> QED BY <1>1, <1>3, <2>1, <2>2, ChangeIsMissed
<1> QED BY <1>1, <1>2, <1>3

LEMMA EngineChangesFit ==
  ASSUME PageInv, NEW s \in Sid, NEW st \in Status, EngineChanges(s, st)
  PROVE  PageInv'
<1>1. Emits(s, st, pageCalls) /\ pageRow[s] \in Status /\ pageList' = pageList /\ pageHeard' = pageHeard
  BY DEF EngineChanges, Exists
<1> QED BY <1>1, Emitted DEF PageInv

LEMMA SocketDropsFit == ASSUME PageInv, SocketDrops PROVE PageInv'
<1> DEFINE lost == {pageEvents[i].of : i \in DOMAIN pageEvents}
           strays == astray \cup lost
           ds == Touched(pageCalls, lost)
<1>1. /\ pageEvents' = <<>> /\ pageHeard' = FALSE /\ pageRow' = pageRow /\ pageList' = pageList
      /\ astray' = strays /\ pageCalls' = ds
  BY DEF SocketDrops
<1>2. /\ pageEvents \in Seq(Entry) /\ pageCalls \in [PageCall -> CallType] /\ astray \in SUBSET Sid
      /\ DOMAIN pageEvents = 1..Len(pageEvents)
  BY PageTyped
<1>3. lost \in SUBSET Sid
  <2>1. \A i \in 1..Len(pageEvents) : pageEvents[i] \in Entry
    BY <1>2
  <2> QED BY <1>2, <2>1, AnEntry
<1>4. \A s \in Sid \ lost : Told(<<>>, s) <=> Told(pageEvents, s)
  BY <1>2, EmptyList DEF Told
<1> HIDE DEF lost
<1>5. /\ ds \in [PageCall -> CallType]
      /\ \A c \in PageCall : /\ Missed(pageCalls[c], ds[c], lost)
                              /\ ds[c].kind = pageCalls[c].kind /\ ds[c].of = pageCalls[c].of /\ ds[c].at = pageCalls[c].at
  BY <1>2, <1>3, TouchedIs
<1> HIDE DEF ds
<1>6. \A c \in PageCall : Fits(ds[c], pageRow, <<>>)
  <2> SUFFICES ASSUME NEW c \in PageCall PROVE Fits(ds[c], pageRow, <<>>)
    OBVIOUS
  <2>1. /\ Fits(pageCalls[c], pageRow, pageEvents) /\ pageCalls[c] \in CallType /\ ds[c] \in CallType
        /\ Missed(pageCalls[c], ds[c], lost)
    BY <1>5, PageTyped
  <2>2. pageCalls[c].kind = "create" /\ pageCalls[c].at = "sent" => pageRow[pageCalls[c].of] = "absent"
    BY <2>1 DEF Fits
  <2> QED BY <2>1, <2>2, <1>4, StillFits
<1>7. Said(pageRow, <<>>)
  BY EmptyList DEF Said
<1>8. PageFits(pageRow, <<>>, pageList, ds, strays)
  <2>1. strays \in SUBSET Sid /\ astray \subseteq strays
    BY <1>2, <1>3
  <2>2. Alike(pageRow, pageEvents, pageList, pageRow, <<>>, pageList, lost)
    BY <1>4 DEF Alike
  <2>3. /\ AllFit(ds, pageRow, <<>>) /\ Onwards(pageCalls, ds)
        /\ AllSettle(lost \ strays, pageList, pageRow, <<>>, ds)
    BY <1>5, <1>6 DEF AllFit, Onwards, AllSettle
  <2> HIDE DEF strays
  <2> QED BY <2>1, <2>2, <2>3, <1>3, <1>5, <1>7, EmptyList, PageTyped, SessionsChange
<1> QED BY <1>1, <1>8 DEF PageInv

LEMMA HearsFit == ASSUME PageInv, Hears PROVE PageInv'
<1> DEFINE e == Head(pageEvents)
           fs == Tail(pageEvents)
           m == With(pageList, e.of, e.status)
           ds == Touched(pageCalls, {e.of})
<1>1. /\ pageEvents # <<>> /\ pageEvents' = fs /\ pageList' = m /\ pageRow' = pageRow
      /\ pageHeard' = pageHeard /\ astray' = astray
      /\ FetchesToo(ds) \/ pageCalls' = ds
  BY DEF Hears
<1>2. pageHeard
  BY <1>1 DEF PageInv
<1>3. /\ pageEvents \in Seq(Entry) /\ pageCalls \in [PageCall -> CallType] /\ astray \in SUBSET Sid
      /\ pageList \in Lists /\ pageRow \in [Sid -> PageStatus] /\ Said(pageRow, pageEvents)
  BY PageTyped
<1>4. /\ e \in Entry /\ fs \in Seq(Entry)
      /\ \A s : Told(pageEvents, s) <=> e.of = s \/ Told(fs, s)
      /\ \A s, v : Says(pageEvents, s, v) => Says(fs, s, v)
      /\ \A s, v : Says(pageEvents, s, v) /\ e.of = s /\ ~Told(fs, s) => e.status = v
  BY <1>1, <1>3, ToldThen
<1>5. e.of \in Sid /\ e.status \in Status
  BY <1>4, AnEntry
<1> HIDE DEF e, fs
<1>6. /\ m \in Lists
      /\ ShownIn(m, e.of) = IF ShownIn(pageList, e.of) = {} THEN {} ELSE {e.status}
      /\ \A t : t # e.of => ShownIn(m, t) = ShownIn(pageList, t)
  <2>1. \A s : \A l \in Lists, st \in Status :
          /\ With(l, s, st) \in Lists
          /\ ShownIn(With(l, s, st), s) = IF ShownIn(l, s) = {} THEN {} ELSE {st}
          /\ \A t : t # s => ShownIn(With(l, s, st), t) = ShownIn(l, t)
    BY ShownWith
  <2> DEFINE st == e.status
             s == e.of
  <2>2. st \in Status /\ pageList \in Lists
    BY <1>3, <1>5
  <2> HIDE DEF st, s
  <2>3. /\ With(pageList, s, st) \in Lists
        /\ ShownIn(With(pageList, s, st), s) = IF ShownIn(pageList, s) = {} THEN {} ELSE {st}
        /\ \A t : t # s => ShownIn(With(pageList, s, st), t) = ShownIn(pageList, t)
    BY <2>1, <2>2
  <2> QED BY <2>3 DEF st, s
<1> HIDE DEF m
<1>7. /\ ds \in [PageCall -> CallType]
      /\ \A c \in PageCall : /\ Missed(pageCalls[c], ds[c], {e.of})
                              /\ ds[c].kind = pageCalls[c].kind /\ ds[c].of = pageCalls[c].of /\ ds[c].at = pageCalls[c].at
  BY <1>3, <1>5, TouchedIs
<1> HIDE DEF ds
<1>8. \A s \in Sid \ {e.of} : Told(fs, s) <=> Told(pageEvents, s)
  BY <1>4
<1>9. \A c \in PageCall : Fits(ds[c], pageRow, fs)
  <2> SUFFICES ASSUME NEW c \in PageCall PROVE Fits(ds[c], pageRow, fs)
    OBVIOUS
  <2>1. /\ Fits(pageCalls[c], pageRow, pageEvents) /\ pageCalls[c] \in CallType /\ ds[c] \in CallType
        /\ Missed(pageCalls[c], ds[c], {e.of})
    BY <1>7, PageTyped
  <2>2. pageCalls[c].kind = "create" /\ pageCalls[c].at = "sent" => pageRow[pageCalls[c].of] = "absent"
    BY <2>1 DEF Fits
  <2> QED BY <2>1, <2>2, <1>8, StillFits
<1>10. Said(pageRow, fs)
  BY <1>3, <1>4 DEF Said
<1>11. ASSUME e.of \notin astray PROVE Settles(e.of, m, pageRow, fs, ds)
  <2>1. Settles(e.of, pageList, pageRow, pageEvents, pageCalls)
    BY <1>5, <1>11 DEF PageInv, PageFits
  <2>2. ASSUME Shows(pageList, pageEvents, e.of, pageRow) PROVE Shows(m, fs, e.of, pageRow)
    <3>1. CASE pageRow[e.of] \in Status
      <4>1. ShownIn(m, e.of) = {e.status}
        BY <2>2, <3>1, <1>6 DEF Shows
      <4>2. Told(fs, e.of) \/ e.status = pageRow[e.of]
        BY <3>1, <1>3, <1>4, <1>5 DEF Said
      <4> QED BY <4>1, <4>2, <3>1 DEF Shows
    <3>2. CASE pageRow[e.of] \notin Status
      BY <2>2, <3>2, <1>6 DEF Shows
    <3> QED BY <3>1, <3>2
  <2> QED BY <2>1, <2>2, <1>6, <1>7 DEF Settles
<1>12. PageFits(pageRow, fs, m, ds, astray)
  <2>1. Alike(pageRow, pageEvents, pageList, pageRow, fs, m, {e.of})
    BY <1>6, <1>8 DEF Alike
  <2>2. AllFit(ds, pageRow, fs) /\ Onwards(pageCalls, ds)
    BY <1>7, <1>9 DEF AllFit, Onwards
  <2>3. {e.of} \in SUBSET Sid /\ AllSettle({e.of} \ astray, m, pageRow, fs, ds)
    BY <1>5, <1>11 DEF AllSettle
  <2>4. m \in Lists /\ fs \in Seq(Entry) /\ ds \in [PageCall -> CallType]
    BY <1>4, <1>6, <1>7
  <2> QED BY <2>1, <2>2, <2>3, <2>4, <1>3, <1>10, PageTyped, SessionsChange
<1>13. PageFits(pageRow, fs, m, pageCalls', astray)
  BY <1>1, <1>12, FetchedToo
<1> QED BY <1>1, <1>2, <1>13 DEF PageInv

\* The service answers what changes no row: the list, or the QR code.
LEMMA ReadServed ==
  ASSUME PageInv, NEW c \in PageCall, pageCalls[c].at = "sent", pageCalls[c].kind \in Listing \cup {"show"},
         UNCHANGED <<pageRow, pageEvents, pageHeard, pageList, astray>>,
         LET back == [pageCalls EXCEPT ![c].at = "back"]
         IN pageCalls' = IF pageCalls[c].kind = "show" THEN back ELSE [back EXCEPT ![c].got = Rows]
  PROVE  PageInv'
<1> DEFINE a == pageCalls[c]
           f == IF a.kind = "show" THEN [a EXCEPT !.at = "back"]
                                   ELSE [a EXCEPT !.at = "back", !.got = Rows]
<1>1. a \in CallType /\ Fits(a, pageRow, pageEvents) /\ pageCalls \in [PageCall -> CallType]
  BY PageTyped
<1>2. Rows \in Lists /\ \A s \in Sid : ShownIn(Rows, s) = IF pageRow[s] \in Status THEN {pageRow[s]} ELSE {}
  BY PageTyped, RowsAreShown
<1>3. pageCalls' = [pageCalls EXCEPT ![c] = f]
  BY <1>1 DEF CallType
<1>4. /\ f \in CallType /\ f.kind = a.kind /\ f.of = a.of /\ f.at = "back"
      /\ f.kind # "show" => f.got = Rows
  BY <1>1, <1>2 DEF CallType
<1>5. f.kind \in Listing \cup {"show"}
  BY <1>4
<1> HIDE DEF f
<1>6. Fits(f, pageRow, pageEvents)
  <2>1. f.kind \notin {"none", "fetch"} => f.of \in Sid
    BY <1>1, <1>4 DEF Fits
  <2>2. f.kind \in Listing => \A s \in Sid : Shows(f.got, pageEvents, s, pageRow)
    BY <1>2, <1>4 DEF Shows, Listing
  <2> QED BY <2>1, <2>2, <1>5 DEF Fits, UpToDate, Changes, Listing
<1>7. f.kind # "create" /\ astray' \in SUBSET Sid /\ astray \subseteq astray'
  BY <1>5, PageTyped DEF Listing
<1> QED BY <1>3, <1>4, <1>6, <1>7, OneRequestMoves

\* A creation or a removal is done: the row is written, no event is sent.
LEMMA RowServed ==
  ASSUME PageInv, NEW c \in PageCall, pageCalls[c].at = "sent",
         UNCHANGED <<pageEvents, pageHeard, pageList, astray>>, NEW st,
         \/ pageCalls[c].kind = "create" /\ st = "idle"
         \/ pageCalls[c].kind = "delete" /\ pageRow[pageCalls[c].of] \in Status /\ st = "gone",
         pageRow' = [pageRow EXCEPT ![pageCalls[c].of] = st],
         pageCalls' = [Touched(pageCalls, {pageCalls[c].of}) EXCEPT ![c].at = "back"]
  PROVE  PageInv'
<1> DEFINE s == pageCalls[c].of
           ts == Touched(pageCalls, {s})
           ds == [ts EXCEPT ![c].at = "back"]
           won == [pageRow EXCEPT ![s] = st]
<1>1. /\ pageRow \in [Sid -> PageStatus] /\ pageEvents \in Seq(Entry) /\ pageList \in Lists
      /\ pageCalls \in [PageCall -> CallType] /\ astray \in SUBSET Sid /\ Said(pageRow, pageEvents)
      /\ \A d \in PageCall : Fits(pageCalls[d], pageRow, pageEvents) /\ pageCalls[d] \in CallType
      /\ \A d \in PageCall : pageCalls[d].kind = "create" /\ pageCalls[c].kind = "create" => d = c
  BY PageTyped DEF PageInv, PageFits
<1>2. s \in Sid
  BY <1>1 DEF Fits
<1>6. pageCalls' = ds /\ pageRow' = won
  OBVIOUS
<1>3. /\ ts \in [PageCall -> CallType]
      /\ \A d \in PageCall : /\ Missed(pageCalls[d], ts[d], {s}) /\ ts[d].seen = pageCalls[d].seen
                              /\ ts[d].kind = pageCalls[d].kind /\ ts[d].of = pageCalls[d].of
                              /\ ts[d].at = pageCalls[d].at
  BY <1>1, <1>2, TouchedIs
<1> HIDE DEF ts
<1>4. /\ ds \in [PageCall -> CallType] /\ ds[c].at = "back" /\ ds[c].kind = pageCalls[c].kind
      /\ ds[c].of = s /\ ds[c].seen = pageCalls[c].seen
      /\ \A d \in PageCall : d # c => ds[d] = ts[d]
  <2>1. ts[c] \in CallType
    BY <1>3
  <2>2. [ts[c] EXCEPT !.at = "back"] \in CallType
    BY <2>1 DEF CallType
  <2>3. ds \in [PageCall -> CallType] /\ ds[c] = [ts[c] EXCEPT !.at = "back"] /\ \A d \in PageCall : d # c => ds[d] = ts[d]
    BY <1>3, <2>2
  <2> HIDE DEF ds
  <2> QED BY <1>3, <2>1, <2>3 DEF CallType
<1>5. /\ won \in [Sid -> PageStatus] /\ won[s] = st /\ \A t \in Sid \ {s} : won[t] = pageRow[t]
  BY <1>1, <1>2 DEF PageStatus, Status
<1> HIDE DEF ds, won
<1>7. pageCalls[c].kind = "create" => pageRow[s] = "absent" /\ ShownIn(pageCalls[c].seen, s) = {}
  BY <1>1 DEF Fits
<1>8. pageRow[s] # "gone" /\ (pageCalls[c].kind = "delete" => pageRow[s] # "absent")
  BY <1>7 DEF Status
<1>9. Said(won, pageEvents)
  <2> SUFFICES ASSUME NEW t \in Sid
               PROVE  /\ won[t] = "absent" => ~Told(pageEvents, t)
                      /\ won[t] \in Status => Says(pageEvents, t, won[t])
    BY DEF Said
  <2>1. CASE t = s /\ pageCalls[c].kind = "create"
    <3>1. ~Told(pageEvents, s)
      BY <1>1, <1>2, <1>7, <2>1 DEF Said
    <3>2. Says(pageEvents, s, won[s])
      BY <3>1 DEF Told, Says
    <3> QED BY <3>1, <3>2, <2>1
  <2>2. CASE t = s /\ pageCalls[c].kind = "delete"
    BY <2>2, <1>5 DEF Status
  <2>3. CASE t # s
    BY <2>3, <1>1, <1>5 DEF Said
  <2> QED BY <2>1, <2>2, <2>3
<1>10. Fits(ds[c], won, pageEvents)
  BY <1>2, <1>4, <1>5, <1>7 DEF Fits, UpToDate, Changes, Listing, Status
<1>11. ASSUME NEW d \in PageCall, d # c PROVE Fits(ds[d], won, pageEvents)
  <2>1. /\ Fits(pageCalls[d], pageRow, pageEvents) /\ pageCalls[d] \in CallType /\ ts[d] \in CallType
        /\ Missed(pageCalls[d], ts[d], {s})
    BY <1>1, <1>3
  <2>2. pageCalls[d].kind = "create" /\ pageCalls[d].at = "sent" => pageRow[pageCalls[d].of] = "absent"
    BY <2>1 DEF Fits
  <2>3. ~(pageCalls[d].kind = "create" /\ pageCalls[d].at = "sent" /\ pageCalls[d].of \in {s})
    BY <2>2, <1>1, <1>8, <1>11
  <2>4. \A t \in Sid \ {s} : won[t] = pageRow[t] /\ (Told(pageEvents, t) <=> Told(pageEvents, t))
    BY <1>5
  <2>5. \A t \in {s} : pageRow[t] = "gone" => won[t] = "gone"
    BY <1>8
  <2>6. Fits(ts[d], won, pageEvents)
    BY <2>1, <2>3, <2>4, <2>5, StillFits
  <2> QED BY <2>6, <1>4, <1>11
<1>12. ASSUME s \notin astray PROVE Settles(s, pageList, won, pageEvents, ds)
  <2>1. CASE pageCalls[c].kind = "delete"
    BY <2>1, <1>4 DEF Settles
  <2>2. CASE pageCalls[c].kind = "create"
    <3>1. Settles(s, pageList, pageRow, pageEvents, pageCalls)
      BY <1>2, <1>12 DEF PageInv, PageFits
    <3>2. ASSUME NEW d \in PageCall, pageCalls[d].of = s, pageCalls[d].at = "back",
                 pageCalls[d].kind \in {"delete", "create"}
          PROVE  FALSE
      <4>1. pageCalls[d].kind = "delete"
        BY <3>2, <2>2, <1>1
      <4>2. pageRow[s] = "gone"
        BY <4>1, <3>2, <1>1 DEF Fits, UpToDate
      <4> QED BY <4>2, <1>8
    <3>3. Shows(pageList, pageEvents, s, pageRow)
      BY <3>1, <3>2 DEF Settles
    <3>4. ShownIn(pageList, s) = {}
      BY <3>3, <1>7, <2>2 DEF Shows, Status
    <3> QED BY <3>4, <2>2, <1>4 DEF Settles
  <2> QED BY <2>1, <2>2
<1>13. PageFits(won, pageEvents, pageList, ds, astray)
  <2>1. Alike(pageRow, pageEvents, pageList, won, pageEvents, pageList, {s})
    BY <1>5 DEF Alike
  <2>2. Onwards(pageCalls, ds)
    BY <1>3, <1>4 DEF Onwards
  <2>3. {s} \in SUBSET Sid /\ AllSettle({s} \ astray, pageList, won, pageEvents, ds)
    BY <1>2, <1>12 DEF AllSettle
  <2>4. AllFit(ds, won, pageEvents)
    BY <1>10, <1>11 DEF AllFit
  <2>5. ds \in [PageCall -> CallType] /\ won \in [Sid -> PageStatus]
    BY <1>4, <1>5
  <2> HIDE DEF s
  <2> QED BY <2>1, <2>2, <2>3, <2>4, <2>5, <1>9, PageTyped, SessionsChange
<1> QED BY <1>6, <1>13 DEF PageInv

\* A start or a stop is done: the row is written and its event sent.
LEMMA StatusServed ==
  ASSUME PageInv, NEW c \in PageCall, pageCalls[c].at = "sent", pageCalls[c].kind \in Changes,
         pageRow[pageCalls[c].of] \in Status, NEW st \in Status,
         Emits(pageCalls[c].of, st, [pageCalls EXCEPT ![c].at = "back"]),
         UNCHANGED <<pageHeard, pageList>>
  PROVE  PageInv'
<1> DEFINE a == pageCalls[c]
           s == pageCalls[c].of
           back == [pageCalls EXCEPT ![c].at = "back"]
<1>1. a \in CallType /\ Fits(a, pageRow, pageEvents) /\ pageCalls \in [PageCall -> CallType]
  BY PageTyped
<1>2. s \in Sid /\ ShownIn(a.seen, s) # {} /\ a.kind \in Changes
  BY <1>1 DEF Fits, Changes
<1>3. a.kind # "create" /\ a.kind # "delete" /\ a.kind \notin Listing
  BY <1>2 DEF Changes, Listing
<1>4. Emits(s, st, back) /\ pageRow[s] \in Status
  OBVIOUS
<1>5. CASE pageHeard
  <2> DEFINE f == [a EXCEPT !.at = "back"]
  <2>1. back = [pageCalls EXCEPT ![c] = f]
    BY <1>1
  <2>2. /\ f \in CallType /\ f.kind = a.kind /\ f.of = s /\ f.seen = a.seen /\ f.at = "back"
    BY <1>1 DEF CallType
  <2> HIDE DEF a, s, back, f
  <2>3. /\ PageFits(pageRow', pageEvents', pageList, pageCalls, astray')
        /\ Told(pageEvents', s) /\ pageRow'[s] = st /\ pageCalls' = back
    BY <1>2, <1>4, <1>5, Emitted
  <2>4. Fits(f, pageRow', pageEvents')
    BY <1>2, <1>3, <2>2, <2>3 DEF Fits, UpToDate
  <2>5. astray' \in SUBSET Sid /\ astray' \subseteq astray'
    BY <2>3 DEF PageFits
  <2>6. PageFits(pageRow', pageEvents', pageList, [pageCalls EXCEPT ![c] = f], astray')
    BY <1>3, <2>2, <2>3, <2>4, <2>5, CallMoves DEF a
  <2> QED BY <1>5, <2>1, <2>3, <2>6 DEF PageInv
<1>6. CASE ~pageHeard
  <2> DEFINE f == [a EXCEPT !.at = "back", !.since = @ \cup {s}]
             ts == Touched(pageCalls, {s})
  <2>1. /\ f \in CallType /\ f.kind = a.kind /\ f.of = s /\ f.seen = a.seen /\ f.at = "back"
        /\ s \in f.since
    BY <1>1, <1>2 DEF CallType
  <2>2. Touched(back, {s}) = [ts EXCEPT ![c] = f]
    <3>1. back \in [PageCall -> CallType] /\ back[c] = [a EXCEPT !.at = "back"]
          /\ \A d \in PageCall : d # c => back[d] = pageCalls[d]
      <4>1. [a EXCEPT !.at = "back"] \in CallType
        BY <1>1 DEF CallType
      <4> QED BY <1>1, <4>1
    <3>2. Touched(back, {s})[c] = f
      BY <3>1, <1>1 DEF Touched, CallType
    <3>3. \A d \in PageCall : d # c => Touched(back, {s})[d] = ts[d]
      BY <3>1 DEF Touched
    <3>4. Touched(back, {s}) = [d \in PageCall |-> Touched(back, {s})[d]]
          /\ ts = [d \in PageCall |-> ts[d]]
      BY DEF Touched
    <3> HIDE DEF f, back, ts
    <3> QED BY <3>2, <3>3, <3>4
  <2>3. ts[c].kind = a.kind /\ ts[c].at = "sent"
    <3>1. {s} \in SUBSET Sid
      BY <1>2
    <3> HIDE DEF s
    <3> QED BY <1>1, <3>1, TouchedIs
  <2> HIDE DEF a, s, back, f, ts
  <2>4. /\ PageFits(pageRow', pageEvents', pageList, ts, astray')
        /\ pageEvents' = <<>> /\ pageCalls' = Touched(back, {s})
    BY <1>2, <1>4, <1>6, Emitted DEF ts
  <2>5. Fits(f, pageRow', pageEvents')
    BY <1>2, <1>3, <2>1 DEF Fits, UpToDate
  <2>6. astray' \in SUBSET Sid /\ astray' \subseteq astray'
    BY <2>4 DEF PageFits
  <2>7. PageFits(pageRow', pageEvents', pageList, [ts EXCEPT ![c] = f], astray')
    BY <1>3, <2>1, <2>3, <2>4, <2>5, <2>6, CallMoves
  <2> QED BY <2>2, <2>4, <2>7 DEF PageInv
<1> QED BY <1>5, <1>6

LEMMA ServesFit == ASSUME PageInv, NEW c \in PageCall, Serves(c) PROVE PageInv'
<1> DEFINE k == pageCalls[c].kind
           s == pageCalls[c].of
           back == [pageCalls EXCEPT ![c].at = "back"]
<1>1. pageCalls[c].at = "sent" /\ UNCHANGED <<pageHeard, pageList>>
  BY DEF Serves
<1>2. \/ /\ k \in Listing
         /\ pageCalls' = [back EXCEPT ![c].got = Rows]
         /\ UNCHANGED <<pageRow, pageEvents, astray>>
      \/ /\ k = "create"
         /\ pageRow' = [pageRow EXCEPT ![s] = "idle"]
         /\ pageCalls' = [Touched(pageCalls, {s}) EXCEPT ![c].at = "back"]
         /\ UNCHANGED <<pageEvents, astray>>
      \/ /\ k = "delete" /\ pageRow[s] \in Status
         /\ pageRow' = [pageRow EXCEPT ![s] = "gone"]
         /\ pageCalls' = [Touched(pageCalls, {s}) EXCEPT ![c].at = "back"]
         /\ UNCHANGED <<pageEvents, astray>>
      \/ k = "start" /\ pageRow[s] \in Status /\ Emits(s, "coming", back)
      \/ k \in {"stop", "kill"} /\ pageRow[s] \in Status /\ Emits(s, "idle", back)
      \/ k = "show" /\ pageCalls' = back /\ UNCHANGED <<pageRow, pageEvents, astray>>
  BY DEF Serves, Exists
<1>3. CASE k \in Listing /\ pageCalls' = [back EXCEPT ![c].got = Rows] /\ UNCHANGED <<pageRow, pageEvents, astray>>
  <2>1. k # "show"
    BY <1>3 DEF Listing
  <2> QED BY <1>1, <1>3, <2>1, ReadServed
<1>4. CASE k = "show" /\ pageCalls' = back /\ UNCHANGED <<pageRow, pageEvents, astray>>
  BY <1>1, <1>4, ReadServed
<1>5. CASE /\ k = "create" \/ (k = "delete" /\ pageRow[s] \in Status)
           /\ pageRow' = [pageRow EXCEPT ![s] = IF k = "create" THEN "idle" ELSE "gone"]
           /\ pageCalls' = [Touched(pageCalls, {s}) EXCEPT ![c].at = "back"]
           /\ UNCHANGED <<pageEvents, astray>>
  <2> DEFINE st == IF k = "create" THEN "idle" ELSE "gone"
  <2>1. \/ k = "create" /\ st = "idle"
        \/ k = "delete" /\ pageRow[s] \in Status /\ st = "gone"
    BY <1>5
  <2>2. pageRow' = [pageRow EXCEPT ![s] = st]
    BY <1>5
  <2> HIDE DEF st
  <2> QED BY <1>1, <1>5, <2>1, <2>2, RowServed
<1>6. CASE k \in Changes /\ pageRow[s] \in Status /\ \E st \in Status : Emits(s, st, back)
  BY <1>1, <1>6, StatusServed
<1>7. "coming" \in Status /\ "idle" \in Status /\ {"start", "stop", "kill"} \subseteq Changes
  BY DEF Status, Changes
<1> HIDE DEF k, s, back
<1> QED BY <1>2, <1>3, <1>4, <1>5, <1>6, <1>7

LEMMA WhatFetchedDoes ==
  ASSUME PageInv, NEW c \in PageCall, pageCalls[c].kind \in Listing, NEW fresh, GoesOn(c, fresh)
  PROVE  \E f \in CallType : /\ \A row, es : Fits(f, row, es)
                             /\ f.kind \in {"none", "show"}
                             /\ pageCalls' = [pageCalls EXCEPT ![c] = f]
<1>1. pageCalls' = [pageCalls EXCEPT ![c] = NotAsking]
      \/ (pageCalls' = [pageCalls EXCEPT ![c] = Showing(pageCalls[c].of)] /\ pageCalls[c].kind # "fetch")
  BY DEF GoesOn, Listing
<1>2. pageCalls[c].kind # "fetch" => pageCalls[c].of \in Sid
  BY PageTyped DEF Fits, Listing
<1>3. CASE pageCalls' = [pageCalls EXCEPT ![c] = NotAsking]
  BY <1>3, NothingAsked, NothingAskedFits
<1>4. CASE pageCalls' = [pageCalls EXCEPT ![c] = Showing(pageCalls[c].of)] /\ pageCalls[c].of \in Sid
  BY <1>4, NothingAsked, NothingAskedFits
<1> QED BY <1>1, <1>2, <1>3, <1>4

LEMMA FetchedFits == ASSUME PageInv, NEW c \in PageCall, Fetched(c) PROVE PageInv'
<1>1. /\ pageCalls[c].kind \in Listing /\ pageCalls[c].at = "back" /\ pageList' = pageCalls[c].got
      /\ astray' = {s \in pageCalls[c].since : s \in Differing(pageList') \/ s \in astray}
      /\ UNCHANGED <<pageRow, pageEvents, pageHeard>> /\ GoesOn(c, pageList')
  BY DEF Fetched
<1>2. PICK f \in CallType : /\ \A row, es : Fits(f, row, es) /\ f.kind \in {"none", "show"}
                           /\ pageCalls' = [pageCalls EXCEPT ![c] = f]
  BY <1>1, WhatFetchedDoes
<1>3. pageCalls[c].since \in SUBSET Sid
  BY PageTyped DEF CallType
<1>4. astray' \in SUBSET Sid
  BY <1>1, <1>3
<1>5. \A s \in pageCalls[c].since :
        ShownIn(pageList, s) # ShownIn(pageCalls[c].got, s) \/ s \in astray => s \in astray'
  BY <1>1, <1>3 DEF Differing
<1>6. f.kind # "create" /\ Fits(f, pageRow, pageEvents)
  BY <1>2
<1>7. PageFits(pageRow, pageEvents, pageCalls[c].got, [pageCalls EXCEPT ![c] = f], astray')
  BY <1>1, <1>4, <1>5, <1>6, PageTyped, ListIsWritten
<1> QED BY <1>1, <1>2, <1>7 DEF PageInv

LEMMA FetchFailsFits == ASSUME PageInv, NEW c \in PageCall, FetchFails(c) PROVE PageInv'
<1>1. /\ pageCalls[c].kind \in Listing
      /\ astray' = IF pageCalls[c].kind = "relist" THEN astray \cup {pageCalls[c].of} ELSE astray
      /\ UNCHANGED <<pageRow, pageEvents, pageHeard, pageList>> /\ GoesOn(c, <<>>)
  BY DEF FetchFails
<1>2. PICK f \in CallType : /\ \A row, es : Fits(f, row, es) /\ f.kind \in {"none", "show"}
                           /\ pageCalls' = [pageCalls EXCEPT ![c] = f]
  BY <1>1, WhatFetchedDoes
<1>3. astray' \in SUBSET Sid /\ astray \subseteq astray'
  BY <1>1, PageTyped DEF Fits
<1>4. pageCalls[c].kind \notin {"create", "delete"} /\ f.kind # "create" /\ Fits(f, pageRow, pageEvents)
  BY <1>1, <1>2 DEF Listing
<1> QED BY <1>1, <1>2, <1>3, <1>4, OneRequestMoves

\* What handleCreate(), handleDelete(), handleStop(), handleForceKill() and handleStart()
\* write, for sessions the answer has missed nothing of.
LEMMA AnswerShows ==
  ASSUME PageInv, NEW c \in PageCall, pageCalls[c].at = "back", NEW new, NEW st \in Status,
         LET a == pageCalls[c] IN
         \/ a.kind = "create" /\ new = Append(a.seen, [of |-> a.of, status |-> "idle"])
         \/ a.kind = "delete" /\ new = LessOne(a.seen, a.of)
         \/ a.kind \in Changes /\ new = With(a.seen, a.of, st)
  PROVE  LET a == pageCalls[c] IN
         /\ new \in Lists /\ a.of \in Sid
         /\ a.of \notin a.since \/ a.kind = "delete" => Shows(new, pageEvents, a.of, pageRow)
         /\ a.kind = "create" => ShownIn(new, a.of) # {}
<1> DEFINE a == pageCalls[c]
<1>1. a \in CallType /\ Fits(a, pageRow, pageEvents) /\ UpToDate(a, pageRow, pageEvents)
  BY PageTyped DEF Fits
<1>2. a.seen \in Lists
  BY <1>1 DEF CallType
<1>3. \/ a.kind = "create" /\ new = Append(a.seen, [of |-> a.of, status |-> "idle"])
      \/ a.kind = "delete" /\ new = LessOne(a.seen, a.of)
      \/ a.kind \in Changes /\ new = With(a.seen, a.of, st)
  OBVIOUS
<1> HIDE DEF a
<1>4. a.of \in Sid
  BY <1>1, <1>3 DEF Fits, Changes
<1>5. CASE a.kind = "create"
  <2> DEFINE e == [of |-> a.of, status |-> "idle"]
  <2>1. e \in Entry /\ e.of = a.of /\ e.status = "idle"
    BY <1>4 DEF Entry, Status
  <2>2. new = Append(a.seen, e) /\ ShownIn(a.seen, a.of) = {}
    BY <1>1, <1>3, <1>5 DEF Fits, Changes
  <2> HIDE DEF e
  <2>3. new \in Lists /\ ShownIn(new, a.of) = {"idle"}
    BY <1>2, <2>1, <2>2, ShownAfter
  <2>4. a.of \notin a.since => pageRow[a.of] \in Status /\ (Told(pageEvents, a.of) \/ pageRow[a.of] = "idle")
    BY <1>1, <1>5 DEF UpToDate
  <2> QED BY <2>3, <2>4, <1>4, <1>5 DEF Shows, a
<1>6. CASE a.kind = "delete"
  <2>1. new = LessOne(a.seen, a.of)
    BY <1>3, <1>6 DEF Changes
  <2>2. new \in Lists /\ ShownIn(new, a.of) = {}
    BY <1>2, <2>1, ShownLess
  <2>3. pageRow[a.of] \notin Status
    BY <1>1, <1>6 DEF UpToDate, Status
  <2> QED BY <2>2, <2>3, <1>4, <1>6 DEF Shows, a
<1>7. CASE a.kind \in Changes
  <2>1. new = With(a.seen, a.of, st) /\ ShownIn(a.seen, a.of) # {}
    BY <1>1, <1>3, <1>7 DEF Changes, Fits
  <2>2. new \in Lists /\ ShownIn(new, a.of) = {st}
    BY <1>2, <2>1, ShownWith
  <2>3. a.of \notin a.since => pageRow[a.of] \in Status /\ Told(pageEvents, a.of)
    BY <1>1, <1>7 DEF UpToDate
  <2>4. a.kind # "delete" /\ a.kind # "create"
    BY <1>7 DEF Changes
  <2> QED BY <2>2, <2>3, <2>4, <1>4 DEF Shows, a
<1> QED BY <1>3, <1>5, <1>6, <1>7

LEMMA AnsweredFits ==
  ASSUME PageInv, NEW c \in PageCall, Answered(c) \/ StartAnswered(c)
  PROVE  PageInv'
<1> DEFINE a == pageCalls[c]
<1>1. PICK f, st, new :
        /\ f \in CallType /\ st \in Status
        /\ Fits(f, pageRow, pageEvents) /\ f.kind # "create" /\ pageCalls' = [pageCalls EXCEPT ![c] = f]
        /\ \/ a.kind = "create" /\ new = Append(a.seen, [of |-> a.of, status |-> "idle"])
           \/ a.kind = "delete" /\ new = LessOne(a.seen, a.of)
           \/ a.kind \in Changes /\ new = With(a.seen, a.of, st)
        /\ WritesBack(c, new)
  <2>1. CASE Answered(c)
    <3>1. "idle" \in Status /\ pageCalls' = [pageCalls EXCEPT ![c] = NotAsking]
          /\ WritesBack(c, ListAfter(c)) /\ a.kind \in {"create", "delete", "stop", "kill"}
      BY <2>1 DEF Answered, Status
    <3>2. \/ a.kind = "create" /\ ListAfter(c) = Append(a.seen, [of |-> a.of, status |-> "idle"])
          \/ a.kind = "delete" /\ ListAfter(c) = LessOne(a.seen, a.of)
          \/ a.kind \in Changes /\ ListAfter(c) = With(a.seen, a.of, "idle")
      BY <3>1 DEF ListAfter, Created, Changes
    <3> QED BY <3>1, <3>2, NothingAsked, NothingAskedFits
  <2>2. CASE StartAnswered(c)
    <3>1. /\ "coming" \in Status /\ a.kind \in Changes
          /\ WritesBack(c, With(a.seen, a.of, "coming"))
          /\ pageCalls' = [pageCalls EXCEPT ![c] = AwaitedFor("relist", a.of)]
      BY <2>2 DEF StartAnswered, Status, Changes, AwaitedFor
    <3>2. a.of \in Sid /\ "relist" \in Listing
      BY <3>1, PageTyped DEF Fits, Changes, Listing
    <3> DEFINE f == AwaitedFor("relist", a.of)
    <3>3. f \in CallType /\ f.kind = "relist" /\ Fits(f, pageRow, pageEvents)
      BY <3>2, NothingAsked, NothingAskedFits
    <3> HIDE DEF f
    <3> QED BY <3>1, <3>3 DEF f
  <2> QED BY <2>1, <2>2
<1>2. a.at = "back" /\ UNCHANGED <<pageRow, pageEvents, pageHeard>>
  BY DEF Answered, StartAnswered
<1>3. /\ new \in Lists /\ a.of \in Sid
      /\ a.of \notin a.since \/ a.kind = "delete" => Shows(new, pageEvents, a.of, pageRow)
      /\ a.kind = "create" => ShownIn(new, a.of) # {}
  BY <1>1, <1>2, AnswerShows
<1>4. /\ pageList' = new
      /\ astray' = astray \cup {s \in Differing(new) : s # a.of \/ s \in a.since}
  BY <1>1 DEF WritesBack
<1>5. /\ astray' \in SUBSET Sid /\ astray \subseteq astray'
      /\ \A s \in Sid : ShownIn(pageList, s) # ShownIn(new, s) /\ (s # a.of \/ s \in a.since) => s \in astray'
  BY <1>4, PageTyped DEF Differing
<1>6. PageFits(pageRow, pageEvents, new, [pageCalls EXCEPT ![c] = f], astray')
  BY <1>1, <1>3, <1>5, PageTyped, AnswerIsWritten
<1> QED BY <1>1, <1>2, <1>4, <1>6 DEF PageInv

\* Requests that fail, the QR code's, and the page without its requests.
LEMMA RequestEnds ==
  ASSUME PageInv, NEW c \in PageCall,
         ChangeFails(c) \/ StopFails(c) \/ StartFails(c) \/ Shown(c) \/ ShowFails(c)
  PROVE  PageInv'
<1> DEFINE a == pageCalls[c]
<1>1. UNCHANGED <<pageRow, pageEvents, pageHeard, pageList>>
  BY DEF ChangeFails, StopFails, StartFails, Shown, ShowFails
<1>2. \E f \in CallType : /\ Fits(f, pageRow, pageEvents) /\ f.kind # "create"
                         /\ pageCalls' = [pageCalls EXCEPT ![c] = f]
  <2>1. CASE ChangeFails(c) \/ Shown(c) \/ ShowFails(c)
    <3>1. pageCalls' = [pageCalls EXCEPT ![c] = NotAsking]
      BY <2>1 DEF ChangeFails, Shown, ShowFails
    <3> QED BY <3>1, NothingAsked, NothingAskedFits
  <2>2. CASE StopFails(c)
    <3>1. pageCalls' = [pageCalls EXCEPT ![c] = Fetching]
      BY <2>2 DEF StopFails
    <3> QED BY <3>1, NothingAsked, NothingAskedFits
  <2>3. CASE StartFails(c)
    <3>1. a.kind = "start" /\ pageCalls' = [pageCalls EXCEPT ![c] = AwaitedFor("recheck", a.of)]
      BY <2>3 DEF StartFails, AwaitedFor
    <3>2. a.of \in Sid /\ "recheck" \in Listing
      BY <3>1, PageTyped DEF Fits, Listing
    <3> DEFINE f == AwaitedFor("recheck", a.of)
    <3>3. f \in CallType /\ f.kind = "recheck" /\ Fits(f, pageRow, pageEvents)
      BY <3>2, NothingAsked, NothingAskedFits
    <3> HIDE DEF f
    <3> QED BY <3>1, <3>3 DEF f
  <2> QED BY <2>1, <2>2, <2>3
<1>3. /\ astray' \in SUBSET Sid /\ astray \subseteq astray'
      /\ a.at = "back" /\ a.kind \in {"create", "delete"} => a.of \in astray'
  <2>1. CASE ChangeFails(c)
    <3>1. a.kind \in {"create", "delete"}
          /\ astray' = IF a.at = "back" THEN astray \cup {a.of} ELSE astray
      BY <2>1 DEF ChangeFails
    <3>2. a.of \in Sid
      BY <3>1, PageTyped DEF Fits
    <3> QED BY <3>1, <3>2, PageTyped
  <2>2. CASE StopFails(c) \/ StartFails(c) \/ Shown(c) \/ ShowFails(c)
    <3>1. a.kind \in {"stop", "kill", "start", "show"} /\ astray' = astray
      BY <2>2 DEF StopFails, StartFails, Shown, ShowFails
    <3> QED BY <3>1, PageTyped
  <2> QED BY <2>1, <2>2
<1> QED BY <1>1, <1>2, <1>3, OneRequestMoves

LEMMA ClicksFit ==
  ASSUME PageInv, NEW c \in PageCall, NEW s \in Sid, Clicks(c, s)
  PROVE  PageInv'
<1>1. PICK b \in Buttons(s) :
        pageCalls' = [pageCalls EXCEPT ![c] = [NotAsking EXCEPT !.kind = b, !.of = s, !.at = "sent",
                                               !.seen = IF b = "show" THEN <<>> ELSE pageList]]
  BY DEF Clicks
<1> DEFINE listThen == IF b = "show" THEN <<>> ELSE pageList
           f == [NotAsking EXCEPT !.kind = b, !.of = s, !.at = "sent", !.seen = listThen]
<1>2. /\ UNCHANGED <<pageRow, pageEvents, pageHeard, pageList, astray>>
      /\ pageCalls[c].kind = "none" /\ pageCalls' = [pageCalls EXCEPT ![c] = f]
  BY <1>1 DEF Clicks
<1>3. /\ b \in {"create", "delete", "start", "stop", "kill", "show"}
      /\ b = "create" => /\ ShownIn(pageList, s) = {} /\ pageRow[s] = "absent"
                         /\ \A d \in PageCall : pageCalls[d].kind # "create"
      /\ b \in Changes => ShownIn(pageList, s) # {}
  BY <1>1 DEF Buttons, Changes
<1>4. listThen \in Lists /\ (b # "show" => listThen = pageList)
  BY PageTyped, EmptyList
<1> HIDE DEF listThen
<1>5. f \in CallType /\ f.kind = b /\ f.of = s /\ f.at = "sent" /\ f.seen = listThen
  BY <1>3, <1>4, NothingAsked DEF CallType, PageKind, NotAsking
<1> HIDE DEF f
<1>6. Fits(f, pageRow, pageEvents)
  BY <1>3, <1>4, <1>5 DEF Fits, Changes
<1> QED BY <1>2, <1>3, <1>5, <1>6, PageTyped, OneRequestMoves

LEMMA SessionsPageKeeps == PageInv /\ [PageNext]_pageVars => PageInv'
<1> SUFFICES ASSUME PageInv, [PageNext]_pageVars PROVE PageInv'
  OBVIOUS
<1>1. CASE Subscribes \/ UserCloses \/ UNCHANGED pageVars \/ \E p \in QrFetch : Polls(p) \/ PollRefused(p)
  <2>1. UNCHANGED <<pageRow, pageEvents, pageList, pageCalls, astray>> /\ (pageHeard' = pageHeard \/ pageHeard' = TRUE)
    BY <1>1 DEF Subscribes, Polls, PollRefused, UserCloses, pageVars
  <2> QED BY <2>1 DEF PageInv
<1>2. CASE \E p \in QrFetch : PollAnswered(p) \/ PollEnds(p)
  <2>1. UNCHANGED <<pageRow, pageEvents, pageList, pageHeard, astray>>
        /\ (pageCalls' = pageCalls \/ FetchesToo(pageCalls))
    BY <1>2 DEF PollAnswered, PollEnds
  <2>2. PageFits(pageRow, pageEvents, pageList, pageCalls', astray)
    BY <2>1, PageTyped, FetchedToo
  <2> QED BY <2>1, <2>2 DEF PageInv
<1> QED BY <1>1, <1>2, EngineChangesFit, SocketDropsFit, HearsFit, ServesFit, FetchedFits, FetchFailsFits,
           AnsweredFits, RequestEnds, ClicksFit DEF PageNext

\* Sessions.tsx: however requests, their lists and events come together, no session is listed twice,
\* and a settled page shows every session as it is but those an older list or a lost
\* event has spoilt.
THEOREM TheListAgrees == PageSpec => [](ListedOnce /\ ListAgrees)
<1>1. PageInv => ListedOnce /\ ListAgrees
  <2> SUFFICES ASSUME PageInv PROVE ListedOnce /\ ListAgrees
    OBVIOUS
  <2>1. ListedOnce
    BY PageTyped, AList DEF ListedOnce
  <2>2. ASSUME pageEvents = <<>>, \A c \in PageCall : pageCalls[c].kind \in {"none", "show"}, NEW s \in Sid \ astray
        PROVE  ShownIn(pageList, s) = IF Exists(s) THEN {pageRow[s]} ELSE {}
    <3>1. Settles(s, pageList, pageRow, pageEvents, pageCalls)
      BY DEF PageInv, PageFits
    <3>2. Shows(pageList, pageEvents, s, pageRow)
      BY <3>1, <2>2 DEF Settles
    <3>3. ~Told(pageEvents, s)
      BY <2>2, EmptyList
    <3> QED BY <3>2, <3>3 DEF Shows, Exists
  <2> QED BY <2>1, <2>2 DEF ListAgrees
<1> QED BY <1>1, SessionsPageStarts, SessionsPageKeeps, PTL DEF PageSpec

-----------------------------------------------------------------------------
(* The QR dialog.                                                           *)

\* Every poll is of the session the name of the moment is of, or that was forgotten.
DialogInv ==
  /\ qrPoll \in [QrFetch -> [of : Sid \cup {NoSid}, at : {"none", "code", "status"}]]
  /\ dialog \in [of : Sid \cup {NoSid}, name : Sid \cup {NoSid}]
  /\ dialogName \in Sid \cup {NoSid}
  /\ \A p \in QrFetch : qrPoll[p].of # NoSid => dialogName \in {qrPoll[p].of, NoSid}
  /\ dialog.of # NoSid => {dialog.name, dialogName} \subseteq {dialog.of, NoSid}

LEMMA DialogOpens ==
  ASSUME DialogInv, ~LatePoll, NEW s \in Sid, Opens(s), qrPoll' = qrPoll
  PROVE  DialogInv'
  BY DEF DialogInv, Opens

LEMMA DialogKeeps == PageInv /\ DialogInv /\ ~LatePoll /\ [PageNext]_pageVars => DialogInv'
<1> SUFFICES ASSUME PageInv, DialogInv, ~LatePoll, [PageNext]_pageVars PROVE DialogInv'
  OBVIOUS
<1>0. ASSUME UNCHANGED <<dialog, dialogName, qrPoll>> PROVE DialogInv'
  BY <1>0 DEF DialogInv
<1>1. ASSUME NEW p \in QrFetch, Polls(p) PROVE DialogInv'
  <2>1. CASE ClosesDialog /\ UNCHANGED qrPoll
    BY <2>1, PageAssumption DEF ClosesDialog, DialogInv, NoModal
  <2>2. CASE qrPoll' = [qrPoll EXCEPT ![p] = [of |-> dialog.of, at |-> "code"]] /\ UNCHANGED <<dialog, dialogName>>
    BY <2>2 DEF DialogInv
  <2> QED BY <1>1, <2>1, <2>2 DEF Polls, PollGoes
<1>2. ASSUME NEW p \in QrFetch, PollAnswered(p) PROVE DialogInv'
  <2>1. qrPoll' = [qrPoll EXCEPT ![p] = NoPoll] /\ (ClosesDialog \/ PollShows(p))
    BY <1>2 DEF PollAnswered, PollGoes
  <2> QED BY <2>1, PageAssumption DEF ClosesDialog, PollShows, DialogInv, NoModal, NoPoll
<1>3. ASSUME NEW p \in QrFetch, PollRefused(p) PROVE DialogInv'
  BY <1>3 DEF PollRefused, PollGoes, DialogInv
<1>4. ASSUME NEW p \in QrFetch, PollEnds(p) PROVE DialogInv'
  <2>1. qrPoll' = [qrPoll EXCEPT ![p] = NoPoll] /\ (ClosesDialog \/ UNCHANGED <<dialog, dialogName>>)
    BY <1>4 DEF PollEnds, PollGoes
  <2> QED BY <2>1, PageAssumption DEF ClosesDialog, DialogInv, NoModal, NoPoll
<1>5. CASE UserCloses
  BY <1>5, PageAssumption DEF UserCloses, DialogInv, NoModal
<1>6. ASSUME NEW c \in PageCall, Fetched(c) \/ FetchFails(c) PROVE DialogInv'
  <2>1. /\ qrPoll' = qrPoll /\ pageCalls[c].kind \in Listing
        /\ UNCHANGED <<dialog, dialogName>> \/ (Opens(pageCalls[c].of) /\ pageCalls[c].kind # "fetch")
    BY <1>6 DEF Fetched, FetchFails, GoesOn, Listing
  <2>2. pageCalls[c].kind # "fetch" => pageCalls[c].of \in Sid
    BY <2>1, PageTyped DEF Fits, Listing
  <2> QED BY <2>1, <2>2, <1>0, DialogOpens
<1>7. ASSUME NEW c \in PageCall, Shown(c) PROVE DialogInv'
  <2>1. pageCalls[c].of \in Sid
    BY <1>7, PageTyped DEF Fits, Shown
  <2> QED BY <2>1, <1>7, DialogOpens DEF Shown
<1>8. ASSUME NEW c \in PageCall, NEW s \in Sid, Clicks(c, s) PROVE DialogInv'
  BY <1>8, <1>0, DialogOpens DEF Clicks
<1>9. CASE \/ \E s \in Sid, st \in Status : EngineChanges(s, st)
           \/ Subscribes \/ SocketDrops \/ Hears \/ UNCHANGED pageVars
           \/ \E c \in PageCall : Serves(c) \/ Answered(c) \/ ChangeFails(c) \/ StopFails(c)
                                \/ StartAnswered(c) \/ StartFails(c) \/ ShowFails(c)
  BY <1>9, <1>0 DEF EngineChanges, Subscribes, SocketDrops, Hears, Serves, Answered, ChangeFails,
       StopFails, StartAnswered, StartFails, ShowFails, pageVars
<1> QED BY <1>1, <1>2, <1>3, <1>4, <1>5, <1>6, <1>7, <1>8, <1>9 DEF PageNext

LEMMA DialogStarts == PageInit => DialogInv
  BY PageAssumption DEF PageInit, DialogInv, NoModal, NoPoll

\* Sessions.tsx, fetchQR(): no QR code is shown under another session's name, however the
\* polls of a dialog overlap, if no dialog is opened while a poll of another is under way.
THEOREM CodesAreNamed == ~LatePoll => (PageSpec => []NameAgrees)
<1>1. DialogInv => NameAgrees
  BY DEF DialogInv, NameAgrees
<1>2. ASSUME ~LatePoll PROVE PageSpec => []NameAgrees
  <2>1. PageInv /\ DialogInv /\ [PageNext]_pageVars => PageInv' /\ DialogInv'
    BY <1>2, SessionsPageKeeps, DialogKeeps
  <2> QED BY <1>1, <2>1, SessionsPageStarts, DialogStarts, PTL DEF PageSpec
<1> QED BY <1>2

-----------------------------------------------------------------------------
(* The types of the services.  What of them is not in the invariants above *)
(* is kept by itself: values, flags and bounds.                            *)

\* The types of the table of lids: a write is learnt only where it still fits in.
LEMMA LidTypesKeep ==
  ASSUME LidTypeOK, LidInv, LidInv', [LidNext]_lidVars PROVE LidTypeOK'
<1>1. /\ lidLocal' \in [Session -> [Lid -> Phone \cup {None}]]
      /\ contact' \in [Session -> [Lid -> Phone \cup {None}]]
      /\ lidCache' \in [Lid -> Phone \cup {None}] /\ lidRow' \in [Lid -> Phone \cup {None}]
      /\ lidsOf' \in [Phone -> SUBSET Lid]
      /\ stored' \subseteq Ids
      /\ writes' \in Seq(Lid \X Phone)
  BY DEF LidInv, LidTyped, NeutralIds
<1>2. lidFailed' \subseteq Lid /\ Len(writes') <= MaxWrites
  <2>1. ASSUME NEW s \in Session, NEW l \in Lid, NEW p \in Phone, Learn(s, l, p)
        PROVE  lidFailed' \subseteq Lid /\ Len(writes') <= MaxWrites
    <3>1. CASE lidCache[l] = p
      BY <2>1, <3>1 DEF Learn, Remember, LidTypeOK
    <3>2. CASE lidCache[l] # p
      <4>1. Len(writes) < MaxWrites /\ writes' = Append(writes, <<l, p>>) /\ lidFailed' = lidFailed
        BY <2>1, <3>2 DEF Learn, Remember
      <4> QED BY <4>1, LidAssumption DEF LidTypeOK
    <3> QED BY <3>1, <3>2
  <2>2. ASSUME writes # <<>>, writes' = Tail(writes),
               lidFailed' \subseteq lidFailed \cup {Head(writes)[1]}
        PROVE  lidFailed' \subseteq Lid /\ Len(writes') <= MaxWrites
    <3>1. Head(writes) \in Lid \X Phone /\ Len(Tail(writes)) = Len(writes) - 1 /\ Len(writes) \in Nat
      BY <2>2 DEF LidTypeOK
    <3>2. Head(writes)[1] \in Lid
      BY <3>1
    <3> QED BY <2>2, <3>1, <3>2, LidAssumption DEF LidTypeOK
  <2>3. CASE Written
    <3>1. writes # <<>> /\ writes' = Tail(writes) /\ lidFailed' \subseteq lidFailed \cup {Head(writes)[1]}
      BY <2>3 DEF Written
    <3> QED BY <2>2, <3>1
  <2>4. CASE WriteFails
    <3>1. writes # <<>> /\ writes' = Tail(writes) /\ lidFailed' \subseteq lidFailed \cup {Head(writes)[1]}
      BY <2>4 DEF WriteFails
    <3> QED BY <2>2, <3>1
  <2>5. ASSUME NEW wasLoaded \in BOOLEAN, Boots(wasLoaded)
        PROVE  lidFailed' \subseteq Lid /\ Len(writes') <= MaxWrites
    BY <2>5, LidAssumption DEF Boots, LidTypeOK
  <2>6. CASE UNCHANGED <<writes, lidFailed>>
    BY <2>6 DEF LidTypeOK
  <2> QED BY <2>1, <2>3, <2>4, <2>5, <2>6 DEF LidNext, UpsertContact, Store, NewAdapter, lidVars
<1> QED BY <1>1, <1>2 DEF LidTypeOK

THEOREM LidsAreTyped == LidSpec => []LidTypeOK
<1>1. LidInit => LidInv /\ LidTypeOK
  <2>1. LidInit => LidInv
    BY LidInitHolds
  <2>2. LidInit /\ LidInv => LidTypeOK
    BY LidAssumption DEF LidInit, LidInv, LidTyped, NeutralIds, LidTypeOK
  <2> QED BY <2>1, <2>2
<1>2. (LidInv /\ LidTypeOK) /\ [LidNext]_lidVars => (LidInv /\ LidTypeOK)'
  BY LidNextKeeps, LidTypesKeep
<1> QED BY <1>1, <1>2, PTL DEF LidSpec

-----------------------------------------------------------------------------
\* A key with a count and a stamp that fit is a row of the model.
LEMMA BoundedKey ==
  ASSUME NEW k \in StoredKey, k.stamp <= MaxTime, k.uses <= MaxUses PROVE k \in KeyRow
BY KeyAssumption DEF StoredKey, KeyRow

LEMMA KeyTypesKeep ==
  ASSUME KeyTypeOK, UseInv, UseInv', [KeyNext]_keyVars PROVE KeyTypeOK'
<1> DEFINE Row(k) == k.stamp <= MaxTime /\ k.uses <= MaxUses
           InTime == /\ keyRow.stamp <= MaxTime
                     /\ \A r \in Request : Row(request[r].copy)
                     /\ \A a \in Admin : Row(admin[a].copy)
<1>1. KeyTyped /\ KeyTyped'
  BY DEF UseInv
<1>2. /\ InTime /\ keyRow \in KeyRow /\ keyClock \in 1 .. MaxTime /\ accepted \in 0 .. MaxUses
      /\ \A r \in Request : request[r].copy \in KeyRow
      /\ \A a \in Admin : admin[a].copy \in KeyRow
  BY KeyAssumption DEF KeyTypeOK, KeyRow
<1>3. keyClock' \in 1 .. MaxTime /\ accepted' \in 0 .. MaxUses
  <2>1. \/ UNCHANGED <<keyClock, accepted>>
        \/ keyClock < MaxTime /\ keyClock' = keyClock + 1 /\ accepted' = accepted
        \/ accepted < MaxUses /\ accepted' = accepted + 1 /\ keyClock' = keyClock
    BY DEF KeyNext, WindowPasses, Restart, Finds, Refused, Accepts, Saves, SaveFails, AdminChanges,
           AdminSaves, AdminFinds, keyVars
  <2> QED BY <1>2, <2>1, KeyAssumption
<1>4. keyRow'.uses + pendingUsage' <= accepted' /\ keyRow'.uses \in Nat /\ pendingUsage' \in Nat
  BY <1>1 DEF UseInv, CountInv, KeyTyped, StoredKey
<1>5. keyRow'.uses <= MaxUses /\ pendingUsage' \in 0 .. MaxUses
  BY <1>3, <1>4, KeyAssumption
<1>6. InTime'
  <2>1. CASE WindowPasses \/ UNCHANGED keyVars
    BY <1>2, <2>1 DEF WindowPasses, keyVars
  <2>2. CASE Restart
    <3>1. /\ keyRow' = keyRow
          /\ \A r \in Request : request'[r].copy = request[r].copy
          /\ \A a \in Admin : admin'[a].copy = admin[a].copy
      BY <1>1, <2>2 DEF Restart, KeyTyped, RequestType, AdminType
    <3> QED BY <1>2, <3>1
  <2>3. ASSUME NEW r \in Request, Finds(r) PROVE InTime'
    <3>1. /\ keyRow' = keyRow /\ admin' = admin
          /\ \A q \in Request : request'[q].copy = IF q = r THEN keyRow ELSE request[q].copy
      BY <1>1, <2>3 DEF Finds, KeyTyped, RequestType
    <3>2. Row(keyRow)
      BY <1>2, KeyAssumption DEF KeyRow
    <3> QED BY <1>2, <3>1, <3>2
  <2>4. ASSUME NEW r \in Request, Refused(r) \/ Saves(r) \/ SaveFails(r) PROVE InTime'
    <3>1. /\ keyRow' \in {keyRow, request[r].copy} /\ admin' = admin
          /\ \A q \in Request : request'[q].copy = request[q].copy
      BY <1>1, <2>4 DEF Refused, Saves, SaveFails, KeyTyped, RequestType
    <3> QED BY <1>2, <3>1
  <2>5. ASSUME NEW r \in Request, Accepts(r) PROVE InTime'
    <3> DEFINE copy == request[r].copy
               used == [copy EXCEPT !.stamp = keyClock, !.uses = @ + pendingUsage + 1]
    <3>1. /\ keyRow' = keyRow /\ admin' = admin /\ accepted' = accepted + 1
          /\ request[r].at = "checks"
          /\ \A q \in Request : request'[q].copy = IF q = r THEN used ELSE request[q].copy
      BY <1>1, <2>5 DEF Accepts, Counted, KeyTyped, RequestType
    <3>2. /\ copy \in StoredKey /\ copy.uses \in Nat /\ pendingUsage \in Nat
          /\ copy.uses + pendingUsage <= accepted
      BY <1>1, <3>1 DEF UseInv, CountInv, KeyTyped, RequestType, StoredKey
    <3>3. used.uses = copy.uses + pendingUsage + 1 /\ used.stamp = keyClock
      BY <3>2 DEF StoredKey
    <3> HIDE DEF copy, used
    <3>4. Row(used)
      BY <1>2, <1>3, <3>1, <3>2, <3>3, KeyAssumption
    <3> QED BY <1>2, <3>1, <3>4
  <2>6. ASSUME NEW a \in Admin, NEW op \in Ops, AdminFinds(a, op) PROVE InTime'
    <3>1. /\ keyRow' = keyRow /\ request' = request
          /\ \A b \in Admin : admin'[b].copy = IF b = a THEN keyRow ELSE admin[b].copy
      BY <1>1, <2>6 DEF AdminFinds, KeyTyped, AdminType
    <3>2. Row(keyRow)
      BY <1>2, KeyAssumption DEF KeyRow
    <3> QED BY <1>2, <3>1, <3>2
  <2>7. ASSUME NEW a \in Admin, AdminSaves(a) PROVE InTime'
    <3>1. /\ keyRow' = admin[a].copy /\ request' = request
          /\ \A b \in Admin : admin'[b].copy = admin[b].copy
      BY <1>1, <2>7 DEF AdminSaves, KeyTyped, AdminType
    <3> QED BY <1>2, <3>1
  <2>8. ASSUME NEW a \in Admin, AdminChanges(a) PROVE InTime'
    <3>1. /\ admin[a] \in AdminType /\ admin[a].copy \in StoredKey /\ admin[a].op \in Ops
      BY <1>1 DEF KeyTyped, AdminType
    <3> DEFINE changed == CASE admin[a].op = "update" -> [admin[a].copy EXCEPT !.config = "second"]
                            [] admin[a].op = "revoke" -> [admin[a].copy EXCEPT !.active = FALSE]
                            [] admin[a].op = "delete" -> [admin[a].copy EXCEPT !.there = FALSE]
    <3>2. changed.stamp = admin[a].copy.stamp /\ changed.uses = admin[a].copy.uses
      BY <3>1 DEF Ops, StoredKey
    <3>3. /\ keyRow' = keyRow /\ request' = request
          /\ admin' = [admin EXCEPT ![a].at = "saves", ![a].copy = changed]
      BY <2>8, <3>1 DEF AdminChanges, Ops
    <3> HIDE DEF changed
    <3>4. \A b \in Admin : admin'[b].copy = IF b = a THEN changed ELSE admin[b].copy
      BY <1>1, <3>3 DEF KeyTyped, AdminType
    <3> QED BY <1>2, <3>2, <3>3, <3>4
  <2> QED BY <2>1, <2>2, <2>3, <2>4, <2>5, <2>6, <2>7, <2>8 DEF KeyNext
<1>7. keyRow' \in KeyRow
  BY <1>1, <1>5, <1>6, BoundedKey DEF KeyTyped
<1>8. request' \in [Request -> [at : {"idle", "checks", "saves"}, copy : KeyRow]]
  <2>1. \A r \in Request : request'[r].copy \in KeyRow /\ request'[r] \in RequestType
    BY <1>1, <1>6, BoundedKey DEF KeyTyped, RequestType
  <2> QED BY <1>1, <2>1 DEF KeyTyped, RequestType
<1>9. admin' \in [Admin -> [at : {"idle", "changes", "saves"}, op : Ops, copy : KeyRow]]
  <2>1. \A a \in Admin : admin'[a].copy \in KeyRow /\ admin'[a] \in AdminType
    BY <1>1, <1>6, BoundedKey DEF KeyTyped, AdminType
  <2> QED BY <1>1, <2>1 DEF KeyTyped, AdminType
<1> QED BY <1>3, <1>5, <1>7, <1>8, <1>9 DEF KeyTypeOK

THEOREM KeysAreTyped == KeySpec => []KeyTypeOK
<1>1. KeyInit => UseInv /\ KeyTypeOK
  BY UseInit, KeyAssumption DEF KeyInit, KeyTypeOK, KeyRow, NewKey, Ops
<1>2. (UseInv /\ KeyTypeOK) /\ [KeyNext]_keyVars => (UseInv /\ KeyTypeOK)'
  BY UseNext, KeyTypesKeep
<1> QED BY <1>1, <1>2, PTL DEF KeySpec

-----------------------------------------------------------------------------
\* The sets of messages: what is echoed or revoked was sent or received.
ChatSets ==
  named \subseteq ChatMessage /\ out \subseteq ChatMessage /\ echoed \subseteq out /\ gone \subseteq out

LEMMA ChatSetsKeep == ASSUME ChatSets, [ChatNext]_chatVars PROVE ChatSets'
<1> USE DEF ChatSets, chatStored, chatPhone
<1>1. ASSUME NEW m \in ChatMessage, ServerStep(m) PROVE ChatSets'
  <2>1. CASE SaveFirst(m) \/ EngineSends(m) \/ SaveSecond(m) \/ EngineRefuses(m) \/ SaveReceived(m)
    BY <2>1 DEF SaveFirst, EngineSends, SaveSecond, EngineRefuses, SaveReceived
  <2>2. CASE EchoSent(m) \/ RevokeArrives(m)
    BY <2>2 DEF EchoSent, RevokeArrives
  <2>3. ASSUME NEW c \in Chat, ReceiveMessage(m, c) PROVE ChatSets'
    BY <2>3 DEF ReceiveMessage
  <2>4. ASSUME NEW s \in {"sent", "delivered", "failed"}, AckArrives(m, s) PROVE ChatSets'
    BY <2>4 DEF AckArrives
  <2> QED BY <1>1, <2>1, <2>2, <2>3, <2>4 DEF ServerStep
<1>2. ASSUME NEW m \in ChatMessage, ClientStep(m) PROVE ChatSets'
  BY <1>2 DEF ClientStep, SendMessage, SendAccepted, SendRequestFails, DeleteMessage
<1>3. CASE DeliverEvent
  BY <1>3 DEF DeliverEvent
<1>4. ASSUME NEW l \in HistoryLoad,
             HistoryRead(l) \/ HistoryShown(l) \/ HistoryFails(l) \/ \E c \in Chat : OpenChat(c, l)
      PROVE  ChatSets'
  BY <1>4 DEF HistoryRead, HistoryShown, HistoryFails, OpenChat
<1>5. CASE UNCHANGED chatVars
  BY <1>5 DEF chatVars
<1> QED BY <1>1, <1>2, <1>3, <1>4, <1>5 DEF ChatNext, ServerStep, ClientStep

THEOREM ChatsAreTyped == ChatSpec => []ChatTypeOK
<1>1. ChatInit => ChatInv /\ ChatSets
  BY ChatBegins DEF ChatInit, ChatSets
<1>2. (ChatInv /\ ChatSets) /\ [ChatNext]_chatVars => (ChatInv /\ ChatSets)'
  BY ChatKeeps, ChatSetsKeep
<1>3. ChatInv /\ ChatSets => ChatTypeOK
  BY DEF ChatInv, ChatTyped, DrawnOnce, ChatSets, LoadType, HistoryType, ChatTypeOK
<1> QED BY <1>1, <1>2, <1>3, PTL DEF ChatSpec

-----------------------------------------------------------------------------
\* The flags and the retries of a page's socket.
SocketTyped ==
  /\ keyScope \subseteq PageSession /\ connectionFailed \in BOOLEAN
  /\ wsLink \in {"up", "retrying", "down", "left"} /\ wsTries \in 0 .. SocketAttempts

LEMMA SocketKeeps == ASSUME SocketTyped, [StreamNext]_streamVars PROVE SocketTyped'
<1> USE DEF setting, browser, server
<1>1. keyScope' = keyScope
  BY DEF StreamNext, SocketConnected, AttemptFails, TransportDrops, ToldToGo, Reconnect, Leave, Select,
         Greeted, TakeSubscribe, TakeUnsubscribe, Revoke, Checked, streamVars
<1>0. SocketAttempts \in 0 .. SocketAttempts
  BY StreamAssumption
<1>2. CASE SocketConnected \/ TransportDrops \/ Reconnect
  <2>1. wsTries' = SocketAttempts /\ wsLink' \in {"up", "retrying"}
    BY <1>2 DEF SocketConnected, TransportDrops, Reconnect
  <2>2. connectionFailed' = FALSE \/ connectionFailed' = connectionFailed
    BY <1>2 DEF SocketConnected, TransportDrops, Reconnect
  <2>3. connectionFailed' \in BOOLEAN
    BY <2>2 DEF SocketTyped
  <2> QED BY <1>0, <1>1, <2>1, <2>3 DEF SocketTyped
<1>3. CASE AttemptFails
  <2>1. wsTries \in 0 .. SocketAttempts /\ wsTries > 0 /\ wsTries' = wsTries - 1
    BY <1>3 DEF AttemptFails, SocketTyped
  <2>2. wsTries' \in 0 .. SocketAttempts
    BY <2>1, StreamAssumption
  <2>3. (wsLink' = "down" /\ connectionFailed' = TRUE) \/ UNCHANGED <<wsLink, connectionFailed>>
    BY <1>3 DEF AttemptFails
  <2> QED BY <1>1, <2>2, <2>3 DEF SocketTyped
<1>4. CASE ToldToGo \/ Leave
  BY <1>1, <1>4 DEF ToldToGo, Leave, SocketTyped
<1>5. CASE UNCHANGED <<wsLink, wsTries, connectionFailed>>
  BY <1>1, <1>5 DEF SocketTyped
<1> QED BY <1>2, <1>3, <1>4, <1>5 DEF StreamNext, Select, Greeted, TakeSubscribe, TakeUnsubscribe, Revoke,
                                      Checked, streamVars

THEOREM SocketsAreTyped == StreamSpec => []StreamTypeOK
<1>1. StreamInit => StreamInv /\ SocketTyped
  <2>1. StreamInit => keyScope \subseteq PageSession /\ wsTries \in 0 .. SocketAttempts /\ wsLink = "retrying"
    BY StreamAssumption DEF StreamInit
  <2>2. StreamInit => connectionFailed \in BOOLEAN
    BY DEF StreamInit
  <2> QED BY <2>1, <2>2, StreamStarts DEF SocketTyped
<1>2. (StreamInv /\ SocketTyped) /\ [StreamNext]_streamVars => (StreamInv /\ SocketTyped)'
  BY StreamKeeps, SocketKeeps
<1>3. StreamInv /\ SocketTyped => StreamTypeOK
  BY DEF StreamInv, StreamTyped, SocketTyped, SocketMessage, StreamTypeOK
<1> QED BY <1>1, <1>2, <1>3, PTL DEF StreamSpec

-----------------------------------------------------------------------------
\* What the fields of the form and of the saved file hold.
ConnChoice == Conn \cup {"unset", "container", "localhost"}
SecretChoice == Secret \cup {"unset", "container"}
PathChoice == Path \cup {"unset", "uploads", "media"}
CacheChoice == Conn \cup {"unset", "localhost"}

SavedTyped ==
  /\ cfgFile.conn \in ConnChoice /\ cfgFile.secret \in SecretChoice /\ cfgFile.path \in PathChoice
  /\ cfgCache.enabled \in BOOLEAN /\ cfgCache.conn \in CacheChoice
  /\ cfgEngine \in {"unset", "set"}

FormTyped ==
  /\ form["conn"] \in ConnChoice /\ form["secret"] \in Secret \cup {""} /\ form["path"] \in PathChoice
  /\ form["enabled"] \in BOOLEAN /\ form["cacheConn"] \in CacheChoice

PageFlags == drawn \in BOOLEAN /\ filled \in BOOLEAN /\ touched \subseteq Fields

LEMMA SectionTypes ==
  ASSUME ConfigInv, SavedTyped, FormTyped
  PROVE  /\ NewSection.conn \in ConnChoice /\ NewSection.secret \in SecretChoice
         /\ NewSection.path \in PathChoice
<1>1. form["type"] \in {"local", "remote"} /\ form["builtIn"] \in BOOLEAN
  BY DEF ConfigInv, ConfigTyped, Types
<1>2. cfgFile = [type |-> cfgFile.type, builtIn |-> cfgFile.builtIn, conn |-> cfgFile.conn,
                 secret |-> cfgFile.secret, path |-> cfgFile.path]
  BY DEF ConfigInv, ConfigTyped
<1>3. CASE form["type"] = "local"
  BY <1>3, SectionFields DEF FormTyped, ConnChoice, SecretChoice
<1>4. CASE form["type"] = "remote" /\ form["builtIn"] = TRUE
  <2>1. NewSection = KeysDropped([cfgFile EXCEPT !.conn = "container", !.secret = "container"])
    BY <1>4 DEF NewSection
  <2>2. NewSection.conn = "container" /\ NewSection.secret = "container" /\ NewSection.path = "unset"
    BY <1>2, <1>4, <2>1 DEF KeysDropped
  <2> QED BY <2>2 DEF ConnChoice, SecretChoice, PathChoice
<1>5. CASE form["type"] = "remote" /\ form["builtIn"] = FALSE
  <2>1. NewSection.conn = form["conn"] /\ NewSection.secret = KeptSecret(form["secret"])
        /\ NewSection.path = "unset"
    BY <1>5, SectionFields
  <2>2. KeptSecret(form["secret"]) \in SecretChoice
    BY DEF KeptSecret, FormTyped, SavedTyped, SecretChoice
  <2> QED BY <2>1, <2>2 DEF FormTyped, PathChoice
<1> QED BY <1>1, <1>3, <1>4, <1>5

LEMMA SavedKeeps ==
  ASSUME ConfigInv, SavedTyped, FormTyped, [ConfigNext]_configVars PROVE SavedTyped'
<1>1. CASE SaveConfig
  <2>1. cfgFile' = NewSection /\ cfgCache' = NewCache /\ cfgEngine' = cfgEngine
    BY <1>1 DEF SaveConfig
  <2>2. NewCache.enabled = form["enabled"] /\ NewCache.conn \in {form["cacheConn"], cfgCache.conn}
    BY DEF NewCache
  <2>3. cfgCache'.enabled \in BOOLEAN
    BY <2>1, <2>2 DEF FormTyped
  <2>4. cfgCache'.conn \in CacheChoice
    BY <2>1, <2>2 DEF FormTyped, SavedTyped
  <2> QED BY <2>1, <2>3, <2>4, SectionTypes DEF SavedTyped
<1>2. CASE UNCHANGED cfgSaved
  BY <1>2 DEF SavedTyped, cfgSaved
<1> QED BY <1>1, <1>2 DEF ConfigNext, StatusFills, ConfigFills, LoadAgain, EditField, configVars, cfgSaved

LEMMA FormKeeps ==
  ASSUME ConfigInv, SavedTyped, FormTyped, PageFlags, [ConfigNext]_configVars
  PROVE  FormTyped' /\ PageFlags'
<1>0. form = [k \in Fields |-> form[k]]
  BY DEF ConfigInv, ConfigTyped
<1>1. CASE StatusFills
  <2>1. /\ form'["path"] = "uploads"
        /\ \A k \in Fields \ {"type", "path"} : form'[k] = form[k]
    BY <1>0, <1>1 DEF StatusFills, RunningStatus, Fields
  <2>2. FormTyped'
    BY <2>1 DEF FormTyped, Fields, PathChoice
  <2> QED BY <1>1, <2>2 DEF StatusFills, PageFlags
<1>2. CASE ConfigFills
  <2>1. \A k \in Fields : form'[k] = form[k] \/ (k # "secret" /\ form'[k] = SavedConfig[k])
    BY <1>2 DEF ConfigFills
  <2>2. /\ SavedConfig["conn"] = cfgFile.conn /\ SavedConfig["path"] = cfgFile.path
        /\ SavedConfig["enabled"] = cfgCache.enabled /\ SavedConfig["cacheConn"] = cfgCache.conn
    BY DEF SavedConfig
  <2>3. form'["enabled"] \in BOOLEAN
    <3>1. form'["enabled"] = form["enabled"] \/ form'["enabled"] = cfgCache.enabled
      BY <2>1, <2>2 DEF Fields
    <3> QED BY <3>1 DEF FormTyped, SavedTyped
  <2>4. /\ form'["conn"] \in ConnChoice /\ form'["secret"] \in Secret \cup {""} /\ form'["path"] \in PathChoice
        /\ form'["cacheConn"] \in CacheChoice
    BY <2>1, <2>2 DEF FormTyped, SavedTyped, Fields
  <2>5. PageFlags'
    BY <1>2 DEF ConfigFills, PageFlags
  <2> QED BY <2>3, <2>4, <2>5 DEF FormTyped
<1>3. ASSUME NEW k \in Fields, NEW v \in FieldChoices(k), EditField(k, v)
      PROVE  FormTyped' /\ PageFlags'
  <2>1. \A f \in Fields : form'[f] = IF f = k THEN v ELSE form[f]
    BY <1>0, <1>3 DEF EditField
  <2>2. /\ k = "conn" => v \in ConnChoice
        /\ k = "cacheConn" => v \in CacheChoice
        /\ k = "secret" => v \in Secret
        /\ k = "path" => v \in PathChoice
    BY DEF FieldChoices, ConnChoice, CacheChoice, PathChoice
  <2>3. form'["enabled"] \in BOOLEAN
    <3>1. CASE k = "enabled"
      BY <2>1, <3>1 DEF FieldChoices, Fields
    <3>2. CASE k # "enabled"
      BY <2>1, <3>2 DEF FormTyped, Fields
    <3> QED BY <3>1, <3>2
  <2>4. /\ form'["conn"] \in ConnChoice /\ form'["secret"] \in Secret \cup {""} /\ form'["path"] \in PathChoice
        /\ form'["cacheConn"] \in CacheChoice
    BY <2>1, <2>2 DEF FormTyped, Fields
  <2>5. PageFlags'
    BY <1>3 DEF EditField, PageFlags
  <2> QED BY <2>3, <2>4, <2>5 DEF FormTyped
<1>4. CASE UNCHANGED cfgPage
  BY <1>4 DEF cfgPage, FormTyped, PageFlags
<1> QED BY <1>1, <1>2, <1>3, <1>4 DEF ConfigNext, SaveConfig, LoadAgain, configVars, cfgPage

THEOREM ConfigurationsAreTyped == ConfigSpec => []ConfigTypeOK
<1>1. ConfigInit => ConfigInv /\ SavedTyped /\ FormTyped /\ PageFlags
  <2> SUFFICES ASSUME ConfigInit PROVE SavedTyped /\ FormTyped /\ PageFlags
    BY ConfigStarts
  <2>1. FormTyped
    BY DEF ConfigInit, Blank, FormTyped, ConnChoice, PathChoice, CacheChoice
  <2>2. PageFlags
    BY DEF ConfigInit, PageFlags
  <2>3. /\ cfgFile.conn \in ConnChoice /\ cfgFile.secret \in SecretChoice /\ cfgFile.path \in PathChoice
        /\ cfgEngine \in {"unset", "set"}
    BY DEF ConfigInit, MinimalSection, ConnChoice, SecretChoice, PathChoice
  <2>4. cfgCache.conn \in CacheChoice
    BY DEF ConfigInit, CacheChoice
  <2>5. cfgCache.enabled \in BOOLEAN
    <3>1. cfgCache.enabled = FALSE \/ cfgCache.enabled = TRUE
      BY DEF ConfigInit
    <3> QED BY <3>1
  <2> QED BY <2>1, <2>2, <2>3, <2>4, <2>5 DEF SavedTyped
<1>2. (ConfigInv /\ SavedTyped /\ FormTyped /\ PageFlags) /\ [ConfigNext]_configVars
        => (ConfigInv /\ SavedTyped /\ FormTyped /\ PageFlags)'
  BY ConfigKeeps, SavedKeeps, FormKeeps
<1>3. ConfigInv /\ SavedTyped /\ FormTyped /\ PageFlags => ConfigTypeOK
  <2> SUFFICES ASSUME ConfigInv, SavedTyped, FormTyped, PageFlags PROVE ConfigTypeOK
    OBVIOUS
  <2>1. DOMAIN form = Fields
    BY DEF ConfigInv, ConfigTyped
  <2>2. cfgFile \in [type : Types, builtIn : BOOLEAN, conn : ConnChoice, secret : SecretChoice, path : PathChoice]
    BY DEF ConfigInv, ConfigTyped, SavedTyped
  <2>3. cfgCache \in [enabled : BOOLEAN, conn : CacheChoice]
    BY DEF ConfigInv, ConfigTyped, SavedTyped
  <2>4. cfgEngine \in {"unset", "set"} /\ cfgEnv \in Types \cup {"unset"} /\ cfgRunning \in Types
    BY DEF ConfigInv, ConfigTyped, SavedTyped
  <2> QED BY <2>1, <2>2, <2>3, <2>4
          DEF ConfigTypeOK, PageFlags, ConnChoice, SecretChoice, PathChoice, CacheChoice
<1> QED BY <1>1, <1>2, <1>3, PTL DEF ConfigSpec

-----------------------------------------------------------------------------
\* The process and the page that waits for it: a page that waits has checks left.
RestartTyped ==
  /\ boot \subseteq Profile /\ foreign \in {"absent", "stopped", "running"}
  /\ process \in {"booting", "up", "closing", "down"} /\ starts \in 1 .. MaxStarts
  /\ saw \in 0 .. MaxStarts

RestartBools == draining \in BOOLEAN /\ grace \in BOOLEAN

ModalTyped ==
  /\ modal \in {"idle", "saved", "asked", "waiting", "success", "error"}
  /\ checks \in 0 .. MaxHealthChecks
  /\ modal = "asked" => checks = 0
  /\ modal = "waiting" => checks < MaxHealthChecks

LEMMA ForeignTypes ==
  ASSUME NEW p \in Profile, foreign \in {"absent", "stopped", "running"},
         Started(p) \/ StartFailed(p) \/ Removed(p) \/ RemovalFailed(p)
  PROVE  foreign' \in {"absent", "stopped", "running"}
BY DEF Started, StartFailed, Removed, RemovalFailed

LEMMA ProcessKeeps ==
  ASSUME RestartInv, RestartTyped, [RestartNext]_restartVars PROVE RestartTyped'
<1> USE RestartAssumption DEF restartLife, restartTab, containers
<1>1. ASSUME NEW p \in Profile, BootStarts(p) \/ BootFails(p) PROVE RestartTyped'
  <2>1. foreign' \in {"absent", "stopped", "running"}
    BY <1>1, ForeignTypes DEF BootStarts, BootFails, RestartTyped
  <2> QED BY <1>1, <2>1 DEF BootStarts, BootFails, RestartTyped
<1>2. CASE Listen \/ DockerReturns \/ GraceOver \/ SigTerm \/ ProcessExits
  BY <1>2 DEF Listen, DockerReturns, GraceOver, SigTerm, ProcessExits, RestartTyped
<1>3. CASE StartAgain
  <2>1. starts' \in 1 .. MaxStarts
    BY <1>3 DEF StartAgain, RestartTyped
  <2> QED BY <1>3, <2>1 DEF StartAgain, RestartTyped, RestartInv, RequestsEnd
<1>4. ASSUME NEW r \in RestartRequest, AskOutside(r) \/ AnswerRestart(r) \/ ClickRestart(r) PROVE RestartTyped'
  BY <1>4 DEF AskOutside, AnswerRestart, ClickRestart, RestartTyped
<1>5. ASSUME NEW r \in RestartRequest, NEW p \in Profile, RemoveOne(r, p) \/ StartOne(r, p) PROVE RestartTyped'
  <2>1. foreign' \in {"absent", "stopped", "running"}
    BY <1>5, ForeignTypes DEF RemoveOne, StartOne, RestartTyped
  <2> QED BY <1>5, <2>1 DEF RemoveOne, StartOne, RestartTyped
<1>6. CASE \E ps \in SUBSET Profile : \E answered \in SUBSET ps : SaveProfiles(ps, answered)
  BY <1>6 DEF SaveProfiles, RestartTyped
<1>9. CASE \E p \in Profile : StopLands(p) \/ \E r \in RestartRequest : SendStop(r, p)
  BY <1>9 DEF StopLands, SendStop, RestartTyped
<1>7. CASE CheckHealth \/ ReloadPage
  <2>1. UNCHANGED <<boot, foreign, process, starts>> /\ saw' \in {saw, starts, 0}
    BY <1>7 DEF CheckHealth, ReloadPage
  <2>2. saw' \in 0 .. MaxStarts
    BY <2>1 DEF RestartTyped
  <2> QED BY <2>1, <2>2 DEF RestartTyped
<1>8. CASE UNCHANGED restartVars
  BY <1>8 DEF restartVars, RestartTyped
<1> QED BY <1>1, <1>2, <1>3, <1>4, <1>5, <1>6, <1>7, <1>8, <1>9 DEF RestartNext

LEMMA ShutdownKeeps ==
  ASSUME RestartBools, [RestartNext]_restartVars PROVE RestartBools'
<1> USE DEF restartLife, containers
<1>1. draining' \in {draining, TRUE, FALSE} /\ grace' \in {grace, TRUE, FALSE}
  BY DEF RestartNext, BootStarts, BootFails, Listen, DockerReturns, GraceOver, SigTerm, ProcessExits, StartAgain,
         AskOutside, AnswerRestart, ClickRestart, SendStop, StopLands, RemoveOne, StartOne, SaveProfiles, CheckHealth, ReloadPage,
         restartVars
<1> QED BY <1>1 DEF RestartBools

LEMMA ModalKeeps ==
  ASSUME ModalTyped, [RestartNext]_restartVars PROVE ModalTyped'
<1> USE RestartAssumption DEF restartTab, containers
<1>1. CASE UNCHANGED <<modal, checks>>
  BY <1>1 DEF ModalTyped
<1>2. ASSUME NEW r \in RestartRequest, AnswerRestart(r) PROVE ModalTyped'
  BY <1>2 DEF AnswerRestart, ModalTyped
<1>3. CASE ProcessExits
  BY <1>3 DEF ProcessExits, ModalTyped
<1>4. ASSUME NEW r \in RestartRequest, ClickRestart(r) PROVE ModalTyped'
  BY <1>4 DEF ClickRestart, ModalTyped
<1>5. CASE (\E ps \in SUBSET Profile : \E answered \in SUBSET ps : SaveProfiles(ps, answered)) \/ ReloadPage
  BY <1>5 DEF SaveProfiles, ReloadPage, ModalTyped
<1>6. CASE CheckHealth
  BY <1>6 DEF CheckHealth, ModalTyped
<1> QED BY <1>1, <1>2, <1>3, <1>4, <1>5, <1>6
        DEF RestartNext, BootStarts, BootFails, Listen, DockerReturns, GraceOver, SigTerm, StartAgain, AskOutside,
            SendStop, StopLands, RemoveOne, StartOne, restartVars

THEOREM RestartsAreTyped == RestartSpec => []RestartTypeOK
<1>1. RestartInit => RestartInv /\ RestartTyped /\ RestartBools /\ ModalTyped
  <2>1. RestartInit => RestartTyped /\ ModalTyped
    BY RestartAssumption DEF RestartInit, RestartTyped, ModalTyped
  <2>2. RestartInit => RestartBools
    BY DEF RestartInit, RestartBools
  <2> QED BY <2>1, <2>2, RestartBegins
<1>2. (RestartInv /\ RestartTyped /\ RestartBools /\ ModalTyped) /\ [RestartNext]_restartVars
        => (RestartInv /\ RestartTyped /\ RestartBools /\ ModalTyped)'
  <2>1. RestartInv /\ [RestartNext]_restartVars => RestartInv'
    BY RestartFlags, RestartKeeps DEF RestartInv
  <2> QED BY <2>1, ProcessKeeps, ShutdownKeeps, ModalKeeps
<1>3. RestartInv /\ RestartTyped /\ RestartBools /\ ModalTyped => RestartTypeOK
  BY DEF RestartInv, RequestsEnd, RestartReq, RestartTyped, RestartBools, ModalTyped, RestartTypeOK
<1> QED BY <1>1, <1>2, <1>3, PTL DEF RestartSpec

-----------------------------------------------------------------------------
\* The rows still to insert, the odd ones and the bound; and the flags.
ImportTyped == dbTodo \subseteq DataRow /\ dbOdd \subseteq DataRow /\ dbWrites \in 0 .. MaxDbWrites

ImportFlags == dbQuiet \in BOOLEAN /\ dbWarnings \in BOOLEAN /\ dbOther \in BOOLEAN /\ dbMingled \in BOOLEAN

LEMMA ImportKeeps ==
  ASSUME RowsTyped, ImportTyped, [TransferNext]_transferVars PROVE ImportTyped'
<1> USE TransferAssumption DEF dbGiven, dbTaken
<1>1. dbOdd' = dbOdd
  BY DEF TransferNext, CreateRow, DeleteRow, ServerWrites, InsertRow, OtherBegins, OtherCommits, OtherFails,
         ExportSessions, ExportWebhooks, BeginImport, NextTable, FinishImport, ImportThrows, transferVars
<1>2. dbTodo' \subseteq dbTodo \/ dbTodo' = dbDump
  BY DEF TransferNext, CreateRow, DeleteRow, ServerWrites, InsertRow, OtherBegins, OtherCommits, OtherFails,
         ExportSessions, ExportWebhooks, BeginImport, NextTable, FinishImport, ImportThrows, transferVars
<1>3. dbWrites' = dbWrites \/ WithinBound
  BY DEF TransferNext, CreateRow, DeleteRow, InsertRow, OtherBegins, OtherCommits, OtherFails,
         ExportSessions, ExportWebhooks, BeginImport, NextTable, FinishImport, ImportThrows, transferVars
<1>4. dbWrites' \in 0 .. MaxDbWrites
  BY <1>3 DEF ImportTyped, WithinBound
<1> QED BY <1>1, <1>2, <1>4 DEF ImportTyped, RowsTyped

LEMMA ImportFlagsKeep ==
  ASSUME ImportFlags, [TransferNext]_transferVars PROVE ImportFlags'
<1> USE DEF dbGiven, dbTaken, dbNest, dbSeen, NotesWrite
<1>1. dbWarnings' \in {dbWarnings, TRUE, FALSE}
  BY DEF TransferNext, CreateRow, DeleteRow, ServerWrites, InsertRow, OtherBegins, OtherCommits, OtherFails,
         ExportSessions, ExportWebhooks, BeginImport, NextTable, FinishImport, ImportThrows, transferVars
<1>2. dbQuiet' \in BOOLEAN \/ dbQuiet' = dbQuiet
  BY DEF TransferNext, CreateRow, DeleteRow, ServerWrites, InsertRow, OtherBegins, OtherCommits, OtherFails,
         ExportSessions, ExportWebhooks, BeginImport, NextTable, FinishImport, ImportThrows, transferVars
<1>3. dbOther' \in {dbOther, TRUE, FALSE}
  BY DEF TransferNext, CreateRow, DeleteRow, ServerWrites, InsertRow, OtherBegins, OtherCommits, OtherFails,
         ExportSessions, ExportWebhooks, BeginImport, NextTable, FinishImport, ImportThrows, transferVars
<1>4. dbMingled' \in BOOLEAN \/ dbMingled' = dbMingled \/ dbMingled' = dbOther
  BY DEF TransferNext, CreateRow, DeleteRow, ServerWrites, InsertRow, OtherBegins, OtherCommits, OtherFails,
         ExportSessions, ExportWebhooks, BeginImport, NextTable, FinishImport, ImportThrows, transferVars
<1>5. dbWarnings' \in BOOLEAN
  BY <1>1 DEF ImportFlags
<1>6. dbOther' \in BOOLEAN
  BY <1>3 DEF ImportFlags
<1> QED BY <1>2, <1>4, <1>5, <1>6 DEF ImportFlags

THEOREM TransfersAreTyped == TransferSpec => []TransferTypeOK
<1>1. TransferInit => TransferInv /\ ImportTyped /\ ImportFlags
  <2>1. TransferInit => ImportTyped
    BY TransferAssumption DEF TransferInit, ImportTyped
  <2>2. TransferInit => ImportFlags
    BY DEF TransferInit, ImportFlags
  <2> QED BY <2>1, <2>2, TransferBegins
<1>2. (TransferInv /\ ImportTyped /\ ImportFlags) /\ [TransferNext]_transferVars
        => (TransferInv /\ ImportTyped /\ ImportFlags)'
  <2> SUFFICES ASSUME TransferInv, ImportTyped, ImportFlags, [TransferNext]_transferVars
               PROVE  (TransferInv /\ ImportTyped /\ ImportFlags)'
    OBVIOUS
  <2>1. RowsTyped
    BY DEF TransferInv
  <2> QED BY <2>1, TransferKeeps, ImportKeeps, ImportFlagsKeep
<1>3. TransferInv /\ ImportTyped /\ ImportFlags => TransferTypeOK
  <2> SUFFICES ASSUME TransferInv, ImportTyped, ImportFlags PROVE TransferTypeOK
    OBVIOUS
  <2>1. dbDepth \in 0 .. 2
    BY DEF TransferInv, NestAgrees
  <2>2. RowsTyped /\ dbFrame \in [1 .. 2 -> SUBSET DataRow]
    BY DEF TransferInv, NestAgrees
  <2> QED BY <2>1, <2>2 DEF RowsTyped, ImportTyped, ImportFlags, TransferTypeOK
<1> QED BY <1>1, <1>2, <1>3, PTL DEF TransferSpec

-----------------------------------------------------------------------------
\* The QR dialog, its poll and the flags of the page.
DialogTyped ==
  /\ qrPoll \in [QrFetch -> [of : Sid \cup {NoSid}, at : {"none", "code", "status"}]]
  /\ dialog \in [of : Sid \cup {NoSid}, name : Sid \cup {NoSid}]
  /\ dialogName \in Sid \cup {NoSid}

PageBools == pageHeard \in BOOLEAN /\ pageLoading \in BOOLEAN

LEMMA DialogTypesKeep == ASSUME PageInv, DialogTyped, [PageNext]_pageVars PROVE DialogTyped'
<1>0. ASSUME UNCHANGED <<dialog, dialogName, qrPoll>> PROVE DialogTyped'
  BY <1>0 DEF DialogTyped
<1>o. ASSUME NEW s \in Sid, Opens(s), qrPoll' = qrPoll PROVE DialogTyped'
  BY <1>o DEF DialogTyped, Opens
<1>p. ASSUME NEW p \in QrFetch, Polls(p) \/ PollAnswered(p) \/ PollRefused(p) \/ PollEnds(p) PROVE DialogTyped'
  BY <1>p DEF Polls, PollAnswered, PollRefused, PollEnds, PollGoes, ClosesDialog, PollShows, DialogTyped,
              NoModal, NoPoll
<1>1. CASE UserCloses
  BY <1>1 DEF UserCloses, DialogTyped, NoModal
<1>2. ASSUME NEW c \in PageCall, Fetched(c) \/ FetchFails(c) PROVE DialogTyped'
  <2>1. /\ qrPoll' = qrPoll /\ pageCalls[c].kind \in Listing
        /\ UNCHANGED <<dialog, dialogName>> \/ (Opens(pageCalls[c].of) /\ pageCalls[c].kind # "fetch")
    BY <1>2 DEF Fetched, FetchFails, GoesOn, Listing
  <2>2. pageCalls[c].kind # "fetch" => pageCalls[c].of \in Sid
    BY <2>1, PageTyped DEF Fits, Listing
  <2> QED BY <2>1, <2>2, <1>0, <1>o
<1>3. ASSUME NEW c \in PageCall, Shown(c) PROVE DialogTyped'
  <2>1. pageCalls[c].of \in Sid
    BY <1>3, PageTyped DEF Fits, Shown
  <2> QED BY <2>1, <1>3, <1>o DEF Shown
<1>4. ASSUME NEW c \in PageCall, NEW s \in Sid, Clicks(c, s) PROVE DialogTyped'
  BY <1>4, <1>0, <1>o DEF Clicks
<1>5. CASE \/ \E s \in Sid, st \in Status : EngineChanges(s, st)
           \/ Subscribes \/ SocketDrops \/ Hears \/ UNCHANGED pageVars
           \/ \E c \in PageCall : Serves(c) \/ Answered(c) \/ ChangeFails(c) \/ StopFails(c)
                                \/ StartAnswered(c) \/ StartFails(c) \/ ShowFails(c)
  BY <1>5, <1>0 DEF EngineChanges, Subscribes, SocketDrops, Hears, Serves, Answered, ChangeFails,
       StopFails, StartAnswered, StartFails, ShowFails, pageVars
<1> QED BY <1>p, <1>1, <1>2, <1>3, <1>4, <1>5 DEF PageNext

LEMMA PageBoolsKeep == ASSUME PageBools, [PageNext]_pageVars PROVE PageBools'
<1>1. pageHeard' = pageHeard \/ pageHeard' = TRUE \/ pageHeard' = FALSE
  BY DEF PageNext, EngineChanges, Subscribes, SocketDrops, Hears, Serves, Fetched, FetchFails, Answered, ChangeFails,
         StopFails, StartAnswered, StartFails, Shown, ShowFails, Clicks, Polls, PollAnswered, PollRefused,
         PollEnds, UserCloses, pageVars
<1>2. pageLoading' = pageLoading \/ pageLoading' = TRUE \/ pageLoading' = FALSE
  BY DEF PageNext, EngineChanges, Subscribes, SocketDrops, Hears, FetchesToo, Serves, Fetched, FetchFails, Answered,
         ChangeFails, StopFails, StartAnswered, StartFails, Shown, ShowFails, Clicks, Polls, PollAnswered,
         PollRefused, PollEnds, UserCloses, pageVars
<1>3. pageHeard' \in BOOLEAN
  BY <1>1 DEF PageBools
<1>4. pageLoading' \in BOOLEAN
  BY <1>2 DEF PageBools
<1> QED BY <1>3, <1>4 DEF PageBools

THEOREM PagesAreTyped == PageSpec => []PageTypeOK
<1>1. PageInit => PageInv /\ DialogTyped /\ PageBools
  <2>1. PageInit => DialogTyped
    BY DEF PageInit, DialogTyped, NoModal, NoPoll
  <2>2. PageInit => PageBools
    BY DEF PageInit, PageBools
  <2> QED BY <2>1, <2>2, SessionsPageStarts
<1>2. (PageInv /\ DialogTyped /\ PageBools) /\ [PageNext]_pageVars => (PageInv /\ DialogTyped /\ PageBools)'
  BY SessionsPageKeeps, DialogTypesKeep, PageBoolsKeep
<1>3. PageInv /\ DialogTyped /\ PageBools => PageTypeOK
  <2> SUFFICES ASSUME PageInv, DialogTyped, PageBools PROVE PageTypeOK
    OBVIOUS
  <2>1. /\ pageRow \in [Sid -> PageStatus] /\ pageList \in Lists /\ pageEvents \in Seq(Entry)
        /\ pageCalls \in [PageCall -> CallType] /\ astray \subseteq Sid
    BY DEF PageInv, PageFits
  <2>2. {pageHeard, pageLoading} \subseteq BOOLEAN
    BY DEF PageBools
  <2>3. \A c \in PageCall :
          /\ pageCalls[c].kind \in {"none", "create", "delete", "start", "stop", "kill", "show"} \cup Listing
          /\ pageCalls[c].at \in {"none", "sent", "back"}
          /\ pageCalls[c].seen \in Seq(Entry) /\ pageCalls[c].got \in Seq(Entry)
    <3> SUFFICES ASSUME NEW c \in PageCall
                 PROVE  /\ pageCalls[c].kind \in PageKind /\ pageCalls[c].at \in {"none", "sent", "back"}
                        /\ pageCalls[c].seen \in Seq(Entry) /\ pageCalls[c].got \in Seq(Entry)
      BY DEF PageKind
    <3>1. pageCalls[c] \in CallType
      BY <2>1
    <3> QED BY <3>1 DEF CallType, Lists
  <2>4. pageRow \in [Sid -> Status \cup {"absent", "gone"}] /\ pageList \in Seq(Entry)
    BY <2>1 DEF PageStatus, Lists
  <2> QED BY <2>1, <2>2, <2>3, <2>4 DEF PageTypeOK, DialogTyped
<1> QED BY <1>1, <1>2, <1>3, PTL DEF PageSpec

-----------------------------------------------------------------------------
\* The keys, the limits and the flags of the remaining machines are in their
\* invariants already.
THEOREM RowsAreTyped == NamesSpec => []NamesTypeOK
<1>1. NamesInv => NamesTypeOK
  <2> SUFFICES ASSUME NamesInv
               PROVE  NamesTypeOK
    OBVIOUS
  <2>1. ASSUME NEW c \in RowCall
        PROVE  rowCall[c].op \in {"none", "session", "update", "delete"}
    <3>1. rowCall[c] \in WriteType
      BY DEF NamesInv, NamesTyped
    <3> QED BY <3>1 DEF WriteType, NoWrite
  <2> QED BY <2>1 DEF NamesInv, NamesTyped, NamesTypeOK
<1> QED BY <1>1, NamesStart, NamesKeep, PTL DEF NamesSpec

\* The other machines have their types in the invariants of their own theorems.
THEOREM TheRestIsTyped ==
  /\ CallSpec => []CallTypeOK
  /\ StoreSpec => []StoreTypeOK
  /\ FilesSpec => []FilesTypeOK
  /\ CacheSpec => []CacheTypeOK
  /\ InboundSpec => []InboundTypeOK
<1>1. CallSpec => []CallTypeOK
  <2>1. CallInv => CallTypeOK
    BY DEF CallInv
  <2> QED BY <2>1, CallStarts, CallKeeps, PTL DEF CallSpec
<1>2. StoreSpec => []StoreTypeOK
  <2>1. StoreInv => StoreTypeOK
    BY DEF StoreInv
  <2> QED BY <2>1, StoreInitially, StoreKeeps, PTL DEF StoreSpec
<1>3. FilesSpec => []FilesTypeOK
  <2>1. FilesInv => FilesTypeOK
    BY DEF FilesInv
  <2> QED BY <2>1, FilesStart, FilesKeep, PTL DEF FilesSpec
<1>4. CacheSpec => []CacheTypeOK
  <2>1. CacheInv => CacheTypeOK
    BY DEF CacheInv
  <2> QED BY <2>1, CacheStarts, CacheKeeps, PTL DEF CacheSpec
<1>5. InboundSpec => []InboundTypeOK
  <2>1. InboundInv => InboundTypeOK
    BY DEF InboundInv
  <2> QED BY <2>1, InboundStarts, InboundKeeps, PTL DEF InboundSpec
<1> QED BY <1>1, <1>2, <1>3, <1>4, <1>5

-----------------------------------------------------------------------------
(* The machines that MCServices runs.                                      *)

\* A step of MCServices is a step of the machine that runs, or none, for each of the
\* machines it extends.
MachineSteps ==
  /\ [HookNext]_hookVars /\ [BaileysNext]_baileysVars /\ [WebJsNext]_webjsVars
  /\ [StoreNext]_storeVars /\ [LidNext]_lidVars /\ [KeyNext]_keyVars
  /\ [CallNext]_callVars /\ [TrNext]_trVars /\ [InboundNext]_inboundVars
  /\ [BridgeNext]_bridgeVars /\ [FilesNext]_filesVars /\ [CacheNext]_cacheVars
  /\ [NamesNext]_namesVars /\ [ConfigNext]_configVars /\ [RestartNext]_restartVars
  /\ [TransferNext]_transferVars /\ [ChatNext]_chatVars
  /\ [StreamNext]_streamVars /\ [PageNext]_pageVars

LEMMA EachMachineSteps == [ServicesNext]_servicesVars => MachineSteps
<1> SUFFICES ASSUME [ServicesNext]_servicesVars PROVE MachineSteps
  OBVIOUS
<1> USE DEF MachineSteps
<1>1. CASE HooksStep \/ BaileysStep \/ WebJsStep \/ CallsStep \/ StoreStep
  BY <1>1 DEF HooksStep, BaileysStep, WebJsStep, CallsStep, StoreStep
<1>2. CASE LidsStep \/ TranslatorStep \/ FilesStep \/ KeysStep \/ InboundStep \/ BridgeStep
  BY <1>2 DEF LidsStep, TranslatorStep, FilesStep, KeysStep, InboundStep, BridgeStep
<1>3. CASE StreamStep \/ ChatsStep \/ ConfigStep \/ RestartsStep
  BY <1>3 DEF StreamStep, ChatsStep, ConfigStep, RestartsStep
<1>4. CASE TransferStep \/ CacheStep \/ NamesStep \/ PageStep
  BY <1>4 DEF TransferStep, CacheStep, NamesStep, PageStep
<1>5. CASE UNCHANGED servicesVars
  BY <1>5 DEF servicesVars
<1> QED BY <1>1, <1>2, <1>3, <1>4, <1>5 DEF ServicesNext

\* Each of them behaves as its own specification says, whichever of them runs.
THEOREM TheMachinesRun ==
  ServicesSpec =>
    /\ HookSpec /\ BaileysSpec /\ WebJsSpec /\ StoreSpec /\ LidSpec /\ KeySpec
    /\ CallSpec /\ TrSpec /\ InboundSpec /\ BridgeSpec /\ FilesSpec
    /\ CacheSpec /\ NamesSpec /\ ConfigSpec /\ RestartSpec /\ TransferSpec /\ ChatSpec
    /\ StreamSpec /\ PageSpec
<1>1. ServicesInit =>
        /\ HookInit /\ BaileysInit /\ WebJsInit /\ StoreInit /\ LidInit /\ KeyInit
        /\ CallInit /\ TrInit /\ InboundInit /\ BridgeInit /\ FilesInit
        /\ CacheInit /\ NamesInit /\ ConfigInit /\ RestartInit /\ TransferInit /\ ChatInit
        /\ StreamInit /\ PageInit
  BY DEF ServicesInit
<1>2. [ServicesNext]_servicesVars =>
        /\ [HookNext]_hookVars /\ [BaileysNext]_baileysVars /\ [WebJsNext]_webjsVars
        /\ [StoreNext]_storeVars /\ [LidNext]_lidVars /\ [KeyNext]_keyVars
        /\ [CallNext]_callVars /\ [TrNext]_trVars /\ [InboundNext]_inboundVars
        /\ [BridgeNext]_bridgeVars /\ [FilesNext]_filesVars /\ [CacheNext]_cacheVars
        /\ [NamesNext]_namesVars /\ [ConfigNext]_configVars /\ [RestartNext]_restartVars
        /\ [TransferNext]_transferVars /\ [ChatNext]_chatVars
        /\ [StreamNext]_streamVars /\ [PageNext]_pageVars
  BY EachMachineSteps DEF MachineSteps
<1> QED BY <1>1, <1>2, PTL
        DEF ServicesSpec, HookSpec, BaileysSpec, WebJsSpec, StoreSpec, LidSpec, KeySpec,
            CallSpec, TrSpec, InboundSpec, BridgeSpec, FilesSpec, CacheSpec, NamesSpec,
            ConfigSpec, RestartSpec, TransferSpec, ChatSpec, StreamSpec, PageSpec

\* Every variable of every machine has its type, for all values of the constants: a
\* call awaited was made, what is counted stays within what was asked for, a clock
\* stops where the model's bound is.
THEOREM TheServicesAreTyped == ServicesSpec => []ServicesTypeOK
<1>1. (/\ HookTypeOK /\ BaileysTypeOK /\ WebJsTypeOK /\ CallTypeOK /\ StoreTypeOK /\ LidTypeOK
       /\ (TrTypeOK /\ ReadersAsked /\ AnnouncedStays) /\ StreamTypeOK /\ ChatTypeOK /\ ConfigTypeOK
       /\ RestartTypeOK /\ TransferTypeOK /\ FilesTypeOK /\ CacheTypeOK /\ KeyTypeOK
       /\ InboundTypeOK /\ NamesTypeOK /\ BridgeTypeOK /\ PageTypeOK) => ServicesTypeOK
  BY DEF ServicesTypeOK
<1> QED BY <1>1, TheMachinesRun, HooksAreTyped, BaileysIsTyped, WebJsIsTyped, TheRestIsTyped,
           LidsAreTyped, TranslationsReach, SocketsAreTyped, ChatsAreTyped, ConfigurationsAreTyped,
           RestartsAreTyped, TransfersAreTyped, KeysAreTyped, RowsAreTyped, BridgesAreTyped,
           PagesAreTyped, PTL

\* What is reported was done, for any number of requests, files, people, messages and
\* calls: engine calls, imports and exports, translations, messages of the page and
\* calls into a worker.
THEOREM WhatIsReportedIsTrue == ServicesSpec => []ReportsAreTrue
<1>1. (/\ DoneIsTold /\ (CountIsExact /\ ArchiveIsTrue) /\ (TrTypeOK /\ ReadersAsked /\ AnnouncedStays)
       /\ ToldOnce /\ AnswersAreTheirOwn) => ReportsAreTrue
  BY DEF ReportsAreTrue
<1> QED BY <1>1, TheMachinesRun, WhatIsDoneIsTold, FilesAreAccounted, TranslationsReach,
           MessagesAreToldOnce, AnswersAreOwn, PTL

\* The installation holds together for any profiles, rows, calls, names, updates,
\* sessions, lids and messages: configuration, built-in services, database export,
\* cache client, names, workers' configuration, table of lids and store of messages.
THEOREM TheInstallationHolds == ServicesSpec => []InstallationHolds
<1>1. (/\ NoLeftovers /\ BuiltInsRun /\ ExportIsImportable /\ ClientIsThere /\ NamesAgree
       /\ ConfigArrives /\ RowsCatchUp /\ StoreBounded) => InstallationHolds
  BY DEF InstallationHolds
<1> QED BY <1>1, TheMachinesRun, TheRowsCatchUp, NoKeysAreLeft, TheBuiltInsRun, ExportsAreImportable,
           TheClientIsThere, ANameIsOneRow, TheConfigArrives, TheStoreIsBounded, PTL

\* The pages of the dashboard: each event comes once, no message is drawn twice and no
\* session listed twice, the list is right but for what an older list or a lost event
\* has spoilt, and a code has the name of its session, for any number of sessions,
\* messages, chats and requests, if no dialog opens while another one's poll is under way.
THEOREM ThePagesAgree == ~LatePoll => (ServicesSpec => []PageAgrees)
<1> SUFFICES ASSUME ~LatePoll PROVE ServicesSpec => []PageAgrees
  OBVIOUS
<1>1. SettledIsSubscribed /\ NobodyDrawnTwice /\ (ListedOnce /\ ListAgrees) /\ NameAgrees => PageAgrees
  BY DEF PageAgrees
<1>2. PageSpec => []NameAgrees
  BY CodesAreNamed
<1> QED BY <1>1, <1>2, TheMachinesRun, EventsComeOnce, MessagesAreDrawnOnce, TheListAgrees, PTL

\* What no step of a machine may do, none does, when the messages of a chat are stored
\* in the order they came.
THEOREM NoStepBreaks == InOrder => (ServicesSpec => StepsKeep)
<1> SUFFICES ASSUME InOrder PROVE ServicesSpec => StepsKeep
  OBVIOUS
<1>1. UNCHANGED hookVars => LeftAlone
  BY DEF hookVars, LeftAlone
<1>2. UNCHANGED storeVars => KeepsNewest
  BY DEF storeVars, KeepsNewest, Stored
<1>3. (/\ [LeftAlone]_hookVars /\ [KeepsNewest]_storeVars /\ [TicksAdvance]_bubbles
       /\ [FilledKeepsUnseen]_cfgSaved /\ [EndsAllOrNothing]_dbImport /\ [ErrorsAreRaces]_rowAnswer)
      => [/\ which = "hooks" => LeftAlone
          /\ which = "store" => KeepsNewest
          /\ which = "chat" => [TicksAdvance]_bubbles
          /\ which = "config" => [FilledKeepsUnseen]_cfgSaved
          /\ which = "transfer" => [EndsAllOrNothing]_dbImport
          /\ which = "names" => [ErrorsAreRaces]_rowAnswer]_servicesVars
  BY <1>1, <1>2
<1>4. StoreSpec => [][KeepsNewest]_storeVars
  BY TheNewestAreKept
<1> QED BY <1>3, <1>4, TheMachinesRun, TheDisabledAreLeftAlone, TicksGoOn, FilledSavesKeep,
           ImportsAreWhole, OnlyRacesAreErrors, PTL
        DEF StepsKeep, TicksOnlyAdvance, AllOrNothing
=============================================================================
