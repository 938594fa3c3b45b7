------------------------------ MODULE LidIdentity ------------------------------
(***************************************************************************)
(* Who a sender is.  WhatsApp names a person by a phone, in one of two     *)
(* dialects, or by a privacy id, the lid.  The baileys adapters learn which*)
(* lid is which phone, in memory and in one table for all sessions, and    *)
(* store every message under the neutral id of its sender.  The history    *)
(* API and the filters of webhooks must then agree on who sent what.       *)
(***************************************************************************)
EXTENDS Naturals, Sequences

CONSTANTS Session, Lid, Phone,
  None,     \* no phone
  MaxWrites \* bound: writes of the table that wait

ASSUME LidAssumption == None \notin Phone /\ MaxWrites \in Nat

VARIABLES
  lidLocal,  \* lidToPn of the adapter of a session
  contact,   \* phoneNumber of the contacts of an adapter that have a lid for an id
  lidCache,  \* lidToPhone, for all sessions
  lidsOf,    \* phoneToLids
  lidRow,    \* the table
  writes,    \* the upserts on their way to it
  lidFailed, \* the lids whose last upsert failed
  stored     \* the sender of the message stored, if it has come

lidVars == <<lidLocal, contact, lidCache, lidsOf, lidRow, writes, lidFailed, stored>>

-----------------------------------------------------------------------------
\* A JID without its device, which every reader strips.
Ids == [kind : {"c.us", "s.whatsapp.net"}, user : Phone] \cup [kind : {"lid"}, user : Lid]
         \cup [kind : {"g.us", "newsletter", "broadcast"}, user : {None}]

UserKinds == {"c.us", "s.whatsapp.net"}

\* resolvePhone() of an adapter: what it learnt, then its contacts, then the table.
PhoneOf(s, lid) ==
  IF lidLocal[s][lid] # None THEN lidLocal[s][lid]
  ELSE IF contact[s][lid] # None THEN contact[s][lid] ELSE lidCache[lid]

\* toNeutralJid() and fromEngineJid().toNeutral(), whose resolver answers phone for a lid.
Neutral(id, phone) ==
  IF id.kind \in UserKinds THEN [kind |-> "c.us", user |-> id.user]
  ELSE IF id.kind = "lid" /\ phone # None THEN [kind |-> "c.us", user |-> phone]
  ELSE id

NeutralIn(s, id) == Neutral(id, IF id.kind = "lid" THEN PhoneOf(s, id.user) ELSE None)

\* resolveJidCandidates() of a phone: the senders whose messages the history gives.
Candidates(phone) ==
  [kind : UserKinds, user : {phone}] \cup [kind : {"lid"}, user : lidsOf[phone]]

\* evaluateCondition() of a filter on the sender: a phone typed by the user against the
\* actor of the event, whose lid the dispatcher resolves by the table.
Matches(phone, id) ==
  LET known == IF id.kind = "lid" THEN lidCache[id.user] ELSE None
  IN Neutral(id, known) = [kind |-> "c.us", user |-> phone]

LidTypeOK ==
  /\ lidLocal \in [Session -> [Lid -> Phone \cup {None}]]
  /\ contact \in [Session -> [Lid -> Phone \cup {None}]]
  /\ lidCache \in [Lid -> Phone \cup {None}] /\ lidRow \in [Lid -> Phone \cup {None}]
  /\ lidsOf \in [Phone -> SUBSET Lid]
  /\ lidFailed \subseteq Lid
  /\ stored \subseteq Ids
  /\ writes \in Seq(Lid \X Phone) /\ Len(writes) <= MaxWrites

Empty == [l \in Lid |-> None]

LidInit ==
  /\ lidLocal = [s \in Session |-> Empty] /\ contact = [s \in Session |-> Empty]
  /\ lidCache = Empty /\ lidRow = Empty
  /\ lidsOf = [p \in Phone |-> {}]
  /\ writes = <<>> /\ lidFailed = {} /\ stored = {}

-----------------------------------------------------------------------------
\* Mutant of Indexed: the entry of the previous phone stays.
IndexedLeaving(l, p) == [lidsOf EXCEPT ![p] = @ \cup {l}]

\* index(): the lid leaves the phone it had.
Indexed(l, p) == [q \in Phone |-> IF q = p THEN lidsOf[q] \cup {l} ELSE lidsOf[q] \ {l}]

\* remember(): nothing to do when the cache has the pair; otherwise both indexes are
\* updated at once and the row in its turn.
Remember(l, p) ==
  IF lidCache[l] = p THEN UNCHANGED <<lidCache, lidsOf, writes>>
  ELSE /\ Len(writes) < MaxWrites
       /\ lidCache' = [lidCache EXCEPT ![l] = p]
       /\ lidsOf' = Indexed(l, p)
       /\ writes' = Append(writes, <<l, p>>)

\* A contact, a phone number shared, the history or the key of a message gives a pair.
Learn(s, l, p) ==
  /\ lidLocal' = [lidLocal EXCEPT ![s][l] = p]
  /\ Remember(l, p)
  /\ UNCHANGED <<contact, lidRow, lidFailed, stored>>

\* A contact has the lid for its id and a phoneNumber beside it, which is no pair.
UpsertContact(s, l, p) ==
  /\ contact' = [contact EXCEPT ![s][l] = p]
  /\ UNCHANGED <<lidLocal, lidCache, lidsOf, lidRow, writes, lidFailed, stored>>

\* A message is stored under the neutral id of its sender, as it resolves by now; one,
\* stored at any time, stands for all.
Store(s, id) ==
  /\ stored = {}
  /\ stored' = {NeutralIn(s, id)}
  /\ UNCHANGED <<lidLocal, contact, lidCache, lidsOf, lidRow, writes, lidFailed>>

Written ==
  /\ writes # <<>>
  /\ LET w == Head(writes) IN
       /\ lidRow' = [lidRow EXCEPT ![w[1]] = w[2]]
       /\ lidFailed' = lidFailed \ {w[1]}
  /\ writes' = Tail(writes)
  /\ UNCHANGED <<lidLocal, contact, lidCache, lidsOf, stored>>

\* A failed upsert is logged and not repeated: the cache has the pair already.
WriteFails ==
  /\ writes # <<>>
  /\ lidFailed' = lidFailed \cup {Head(writes)[1]}
  /\ writes' = Tail(writes)
  /\ UNCHANGED <<lidLocal, contact, lidCache, lidsOf, lidRow, stored>>

-----------------------------------------------------------------------------
\* A session is started again with an adapter of its own.
NewAdapter(s) ==
  /\ lidLocal' = [lidLocal EXCEPT ![s] = Empty]
  /\ contact' = [contact EXCEPT ![s] = Empty]
  /\ UNCHANGED <<lidCache, lidsOf, lidRow, writes, lidFailed, stored>>

\* The process starts again: onModuleInit() loads the rows, or goes on without them.
Boots(loaded) ==
  /\ lidCache' = IF loaded THEN lidRow ELSE Empty
  /\ lidsOf' = [p \in Phone |-> IF loaded THEN {l \in Lid : lidRow[l] = p} ELSE {}]
  /\ lidLocal' = [s \in Session |-> Empty] /\ contact' = [s \in Session |-> Empty]
  /\ writes' = <<>>
  /\ lidFailed' = IF loaded THEN {} ELSE lidFailed
  /\ UNCHANGED <<lidRow, stored>>

LidNext ==
  \/ \E s \in Session, l \in Lid, p \in Phone : Learn(s, l, p) \/ UpsertContact(s, l, p)
  \/ \E s \in Session, id \in Ids : Store(s, id)
  \/ Written \/ WriteFails
  \/ \E s \in Session : NewAdapter(s)
  \/ \E loaded \in BOOLEAN : Boots(loaded)

LidSpec == LidInit /\ [][LidNext]_lidVars

-----------------------------------------------------------------------------
\* Two implementations of "the same person" agree, whatever has been learnt, lost or
\* assigned to another phone: the history answers a phone with exactly the messages
\* that a webhook filtered on this phone would be sent again.
HistoryAgreesWithFilters ==
  \A id \in stored, p \in Phone : id \in Candidates(p) <=> Matches(p, id)

\* With nothing on its way the table has what the cache has, so that a restart
\* forgets nothing and brings no old phone back, except after a failed write.
RowsCatchUp ==
  writes = <<>> => \A l \in Lid \ lidFailed : lidCache[l] # None => lidRow[l] = lidCache[l]
=============================================================================
