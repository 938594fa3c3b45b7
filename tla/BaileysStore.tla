------------------------------ MODULE BaileysStore ------------------------------
(***************************************************************************)
(* The messages that the baileys adapter keeps: the table of the newest    *)
(* ones, by which a reply, forward, reaction or deletion finds its message,*)
(* and the last message of a chat in memory.  Every message received or    *)
(* sent is handled by itself and not awaited, so several are stored at     *)
(* once.  SQLite executes their writes in the order they were issued; a    *)
(* pool of Postgres connections need not.                                  *)
(***************************************************************************)
EXTENDS Integers, FiniteSets

CONSTANTS
  Message,  \* naturals: the order in which they were sent, which WhatsApp dates them by
  StoreJob, \* the messages being handled at one time
  Limit,    \* BAILEYS_MESSAGE_STORE_LIMIT
  InOrder,  \* whether the writes are executed in the order they were issued
  MaxClock  \* bound: the clock

ASSUME StoreAssumption ==
  /\ Message \subseteq Nat \ {0}
  /\ Limit \in Nat
  /\ InOrder \in BOOLEAN
  /\ MaxClock \in Nat \ {0}

VARIABLES
  storeRow, \* createdAt of the stored messages, 0 of the others
  parent,   \* whether the row of the session exists
  missed,   \* an eviction failed and none has looked since
  last,     \* lastMessages of the chat, 0 when empty
  seen,     \* the messages recorded there so far
  storeJob, \* processInboundMessage() and put()
  storeNow  \* the clock, in milliseconds

storeVars == <<storeRow, parent, missed, last, seen, storeJob, storeNow>>

-----------------------------------------------------------------------------
Idle == [at |-> "idle", msg |-> 0, stamp |-> 0, cut |-> {}]

Stored == {m \in Message : storeRow[m] # 0}

\* (createdAt, id): the id stands for the random one of the row.
Older(m, n) == storeRow[m] < storeRow[n] \/ (storeRow[m] = storeRow[n] /\ m < n)

NewerThan(m) == {n \in Stored : Older(m, n)}

\* The row of the query of enforceLimit(): in descending order, the one after Limit others.
Cutoff == {m \in Stored : Cardinality(NewerThan(m)) = Limit}

\* Mutant of Evicted: by the date to the second alone.
EvictedByDate(cut) == {m \in Stored : \E c \in cut : storeRow[m] <= c.at + 1}

\* What the deletion matches, by the date and id of the cutoff when it was read.
Evicted(cut) ==
  {m \in Stored : \E c \in cut : storeRow[m] < c.at \/ (storeRow[m] = c.at /\ m <= c.msg)}

StoreTypeOK ==
  /\ storeRow \in [Message -> 0..MaxClock]
  /\ parent \in BOOLEAN /\ missed \in BOOLEAN
  /\ last \in Message \cup {0} /\ seen \subseteq Message
  /\ storeNow \in 1..MaxClock
  /\ storeJob \in [StoreJob -> [at : {"idle", "mapping", "put", "upserting", "finding", "deleting"},
                      msg : Message \cup {0}, stamp : 0..MaxClock,
                      cut : SUBSET [msg : Message, at : 1..MaxClock]]]

StoreInit ==
  /\ storeRow = [m \in Message |-> 0]
  /\ parent = TRUE /\ missed = FALSE
  /\ last = 0 /\ seen = {}
  /\ storeJob = [j \in StoreJob |-> Idle]
  /\ storeNow = 1

-----------------------------------------------------------------------------
Becomes(j, e) == storeJob' = [storeJob EXCEPT ![j] = e]

\* handleMessagesUpsert() starts processInboundMessage() and does not wait for it; a
\* message may come again.  mapMessage() waits for a download of media.
Received(j, m) ==
  /\ storeJob[j].at = "idle"
  /\ Becomes(j, [Idle EXCEPT !.at = "mapping", !.msg = m])
  /\ UNCHANGED <<storeRow, parent, missed, last, seen, storeNow>>

\* Mutant of Recorded: the message handled last.
RecordedAlways(m) == m

\* recordMessage() keeps the newest.
Recorded(m) == IF last >= m THEN last ELSE m

\* The callback is called, put() started and the message recorded, in one step.
Mapped(j) ==
  /\ storeJob[j].at = "mapping"
  /\ Becomes(j, [storeJob[j] EXCEPT !.at = "put"])
  /\ last' = Recorded(storeJob[j].msg)
  /\ seen' = seen \cup {storeJob[j].msg}
  /\ UNCHANGED <<storeRow, parent, missed, storeNow>>

\* A message that cannot be handled is logged and dropped.
MessageDropped(j) ==
  /\ storeJob[j].at = "mapping"
  /\ Becomes(j, Idle)
  /\ UNCHANGED <<storeRow, parent, missed, last, seen, storeNow>>

\* A send returns what it sent, which is put without being recorded; its echo is.
Sent(j, m) ==
  /\ storeJob[j].at = "idle"
  /\ Becomes(j, [Idle EXCEPT !.at = "put", !.msg = m])
  /\ UNCHANGED <<storeRow, parent, missed, last, seen, storeNow>>

\* put() takes the date when the library is loaded and issues its statement.
Dated(j) ==
  /\ storeJob[j].at = "put"
  /\ Becomes(j, [storeJob[j] EXCEPT !.at = "upserting", !.stamp = storeNow])
  /\ UNCHANGED <<storeRow, parent, missed, last, seen, storeNow>>

\* The statement inserts the row or updates it; without a session it is given up.
Upserted(j) ==
  /\ storeJob[j].at = "upserting"
  /\ InOrder => \A k \in StoreJob : storeJob[k].at = "upserting" =>
                  storeJob[k].stamp >= storeJob[j].stamp
  /\ IF parent
     THEN /\ storeRow' = [storeRow EXCEPT ![storeJob[j].msg] = storeJob[j].stamp]
          /\ Becomes(j, [storeJob[j] EXCEPT !.at = "finding"])
     ELSE Becomes(j, Idle) /\ UNCHANGED storeRow
  /\ UNCHANGED <<parent, missed, last, seen, storeNow>>

\* enforceLimit() finds the first row too many.
Found(j) ==
  /\ storeJob[j].at = "finding"
  /\ Becomes(j, IF Cutoff = {} THEN Idle
                ELSE [storeJob[j] EXCEPT !.at = "deleting",
                                       !.cut = {[msg |-> m, at |-> storeRow[m]] : m \in Cutoff}])
  /\ missed' = FALSE
  /\ UNCHANGED <<storeRow, parent, last, seen, storeNow>>

Deleted(j) ==
  /\ storeJob[j].at = "deleting"
  /\ storeRow' = [m \in Message |-> IF m \in Evicted(storeJob[j].cut) THEN 0 ELSE storeRow[m]]
  /\ Becomes(j, Idle)
  /\ UNCHANGED <<parent, missed, last, seen, storeNow>>

\* A statement fails: put() rejects, which is logged.
Fails(j) ==
  /\ storeJob[j].at \in {"upserting", "finding", "deleting"}
  /\ missed' = (missed \/ storeJob[j].at # "upserting")
  /\ Becomes(j, Idle)
  /\ UNCHANGED <<storeRow, parent, last, seen, storeNow>>

-----------------------------------------------------------------------------
\* delete() of the session removes its row, and the rows below it in cascade.
SessionDeleted ==
  /\ parent
  /\ parent' = FALSE
  /\ storeRow' = [m \in Message |-> 0]
  /\ UNCHANGED <<missed, last, seen, storeJob, storeNow>>

Tick ==
  /\ storeNow < MaxClock
  /\ storeNow' = storeNow + 1
  /\ UNCHANGED <<storeRow, parent, missed, last, seen, storeJob>>

StoreNext ==
  \/ \E j \in StoreJob, m \in Message : Received(j, m) \/ Sent(j, m)
  \/ \E j \in StoreJob : Mapped(j) \/ MessageDropped(j) \/ Dated(j) \/ Upserted(j) \/ Found(j)
                      \/ Deleted(j) \/ Fails(j)
  \/ SessionDeleted \/ Tick

StoreSpec == StoreInit /\ [][StoreNext]_storeVars

-----------------------------------------------------------------------------
\* No interleaving of puts evicts one of the newest Limit messages: whatever goes, so
\* many newer rows stay.  A reply to a recent message would not find it.
KeepsNewest ==
  parent' => \A m \in Stored : storeRow'[m] = 0 =>
    Cardinality({n \in NewerThan(m) : storeRow'[n] # 0}) >= Limit

\* When nothing is under way the table holds Limit rows at most, though every put
\* looks before the others have evicted, unless an eviction failed.
StoreBounded ==
  (~missed /\ \A j \in StoreJob : storeJob[j] = Idle) => Cardinality(Stored) <= Limit

\* Downloads finish in any order, and still the last message of the chat, which
\* marking it read or deleting it names, is the newest of those that came.
LastIsNewest == \A m \in seen : last >= m
=============================================================================
