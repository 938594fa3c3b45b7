--------------------------- MODULE MessageDelivery ---------------------------
(***************************************************************************)
(* The row of one message and everybody who writes it: the handler that    *)
(* sends it (MessageService), persists it after a bulk send or stores it   *)
(* when it is received, and the delivery acknowledgements, reactions and   *)
(* revocations that the engine reports to SessionService.                  *)
(*                                                                         *)
(* repository.save(entity) reads the row and writes every column in which  *)
(* the entity differs from it, in one transaction: it makes the row equal  *)
(* to the entity.  A save that rejects has changed nothing.                *)
(***************************************************************************)
EXTENDS Integers, FiniteSets

CONSTANTS
  Origin,        \* the kinds of messages looked at, see Origins
  Ack,           \* acknowledgements that may arrive
  MaxReactions,  \* reactions that may arrive
  Sender,        \* who reacts
  Emoji,         \* with what; NoEmoji takes a reaction back
  NoEmoji,
  DbFails,       \* the statements the database may reject
  PromptSave     \* ACK_RECONCILE_DELAY_MS outlasts a send's last statement

Origins == {"text", "media", "forward", "bulk", "inbound"}

Statement == {"insert", "record", "fail", "ack", "revoke", "react"}

ASSUME MessageAssumption ==
  /\ Origin \subseteq Origins
  /\ MaxReactions \in Nat
  /\ Sender # {} /\ NoEmoji \notin Emoji
  /\ DbFails \subseteq Statement
  /\ PromptSave \in BOOLEAN

VARIABLES
  origin,    \* how this message came about
  row,       \* its row of the table messages
  at,        \* how far its handler is
  out,       \* WhatsApp has the message: it may be acknowledged, revoked...
  acks,      \* what became of each acknowledgement
  reactions, \* the reactions in the order in which they arrived
  revoke,    \* the revocation
  restarted  \* the process died once

vars == <<origin, row, at, out, acks, reactions, revoke, restarted>>

-----------------------------------------------------------------------------
Status == {"pending", "sent", "delivered", "read", "failed"}

Reacted == [Sender -> Emoji \cup {NoEmoji}]
NobodyReacted == [s \in Sender |-> NoEmoji]

\* named: waMessageId is set, statements by (sessionId, waMessageId) match.
Row == [there : BOOLEAN, named : BOOLEAN, status : Status, revoked : BOOLEAN,
        reacted : Reacted]

NoRow == [there |-> FALSE, named |-> FALSE, status |-> "pending",
          revoked |-> FALSE, reacted |-> NobodyReacted]

NewRow(status, named) ==
  [NoRow EXCEPT !.there = TRUE, !.named = named, !.status = status]

Matches == row.there /\ row.named

At == {"hook", "insert", "engine", "record", "fail", "ok", "error", "dead"}

\* The sends that save a PENDING row, send, and save the row again.
Single == {"text", "media", "forward"}

\* deliveryStatusToMessageStatus(): the receipts pending and sent change nothing
\* and are left out.
Receipt == {"delivered", "read", "failed"}

NoAck == [at |-> "none", to |-> "failed"]
AckDone == [NoAck EXCEPT !.at = "done"]
AckLost == [NoAck EXCEPT !.at = "lost"]
NoReaction == [at |-> "none", by |-> CHOOSE s \in Sender : TRUE,
               emoji |-> NoEmoji, copy |-> NoRow]
ReactionLost == [NoReaction EXCEPT !.at = "lost"]

Index == 1..MaxReactions

Fails(statement) == statement \in DbFails

-----------------------------------------------------------------------------
Init ==
  /\ origin \in Origin
  /\ row = NoRow
  /\ at = CASE origin \in {"text", "inbound"} -> "hook"
            [] origin = "bulk" -> "engine"
            [] OTHER -> "insert"
  /\ out = (origin = "inbound")
  /\ acks = [a \in Ack |-> NoAck]
  /\ reactions = [i \in Index |-> NoReaction]
  /\ revoke = "none"
  /\ restarted = FALSE

others == <<origin, acks, reactions, revoke, restarted>>

-----------------------------------------------------------------------------
(* The handler: sendText(), the other sends, the bulk send, onMessage.      *)

\* message:sending, message:received: a plugin stops the message or lets it by.
Hook ==
  /\ at = "hook"
  /\ at' \in {"insert", "error"}
  /\ UNCHANGED <<row, out, others>>

\* saveOutgoingMessage() before the send.  Nothing is written when no engine
\* runs, the input is refused or the database rejects.
InsertPending ==
  /\ at = "insert" /\ origin \in Single
  /\ \/ row' = NewRow("pending", FALSE) /\ at' = "engine"
     \/ row' = row /\ at' = "error"
  /\ UNCHANGED <<out, others>>

\* The row of a message that WhatsApp already has: a bulk message that was
\* sent, an inbound one.  A failure is logged; the bulk message counts as sent.
InsertSent ==
  /\ at = "insert" /\ origin \notin Single
  /\ \/ row' = NewRow("sent", TRUE) /\ at' = "ok"
     \/ /\ Fails("insert")
        /\ row' = row
        /\ at' = IF origin = "bulk" THEN "ok" ELSE "error"
  /\ UNCHANGED <<out, others>>

\* The message leaves; acknowledgements may overtake the engine's answer.
GoesOut ==
  /\ at = "engine" /\ ~out
  /\ out' = TRUE
  /\ UNCHANGED <<row, at, others>>

EngineResolves ==
  /\ at = "engine" /\ out
  /\ at' = IF origin = "bulk" THEN "insert" ELSE "record"
  /\ UNCHANGED <<row, out, others>>

EngineRejects ==
  /\ at = "engine"
  /\ at' = IF origin = "bulk" THEN "error" ELSE "fail"
  /\ UNCHANGED <<row, out, others>>

\* Mutant of Recorded: the id of the message is not stored.
RecordedUnnamed(named) == [row EXCEPT !.status = "sent"]

\* Mutant of Recorded: the status is stored in the engine's words.
RecordedRaw(named) == [row EXCEPT !.status = "server_ack", !.named = named]

\* The second save: SENT, with the id WhatsApp gave the message.
Recorded(named) == [row EXCEPT !.status = "sent", !.named = named]

\* Only of a forwarded message the engine may not know the id.
IdKnown == IF origin = "forward" THEN BOOLEAN ELSE {TRUE}

Record ==
  /\ at = "record"
  /\ \E named \in IdKnown : row' = Recorded(named)
  /\ at' = "ok"
  /\ UNCHANGED <<out, others>>

\* The second save rejects: the catch block runs although the message is out,
\* and the entity it saves carries the id by now.
RecordFails ==
  /\ at = "record" /\ Fails("record")
  /\ \/ \E named \in IdKnown :
          row' = [row EXCEPT !.status = "failed", !.named = named]
     \/ Fails("fail") /\ row' = row
  /\ at' = "error"
  /\ UNCHANGED <<out, others>>

MarkFailed ==
  /\ at = "fail"
  /\ \/ row' = [row EXCEPT !.status = "failed"]
     \/ Fails("fail") /\ row' = row
  /\ at' = "error"
  /\ UNCHANGED <<out, others>>

-----------------------------------------------------------------------------
(* onMessageAck: an UPDATE that only matches rows behind the acknowledged    *)
(* status, tried again once, ACK_RECONCILE_DELAY_MS later, if none matched.  *)

\* Mutant of TransitionFrom: an acknowledgement overwrites whatever is there.
TransitionFromAny(target) == Status

\* ackStatusTransitionFrom().
TransitionFrom(target) ==
  CASE target = "delivered" -> {"pending", "sent"}
    [] target = "read"      -> {"pending", "sent", "delivered"}
    [] target = "failed"    -> {"pending", "sent"}
    [] OTHER                -> {}

\* The first try runs when it comes; the second after the delay.
Due(a) ==
  \/ acks[a].at = "issued"
  \/ /\ acks[a].at = "retry"
     /\ PromptSave => at \notin {"engine", "insert", "record", "fail"}

Advances(a) == Matches /\ row.status \in TransitionFrom(acks[a].to)

AckArrives(a, s) ==
  /\ out /\ origin # "inbound"
  /\ acks[a].at = "none"
  /\ acks' = [acks EXCEPT ![a] = [at |-> "issued", to |-> s]]
  /\ UNCHANGED <<origin, row, at, out, reactions, revoke, restarted>>

AckApplies(a) ==
  /\ Due(a)
  /\ Advances(a)
  /\ row' = [row EXCEPT !.status = acks[a].to]
  /\ acks' = [acks EXCEPT ![a] = AckDone]
  /\ UNCHANGED <<origin, at, out, reactions, revoke, restarted>>

\* Mutant of AfterMiss: no second try.
AfterMissGiveUp(ack) == AckDone

AfterMiss(ack) == IF ack.at = "issued" THEN [ack EXCEPT !.at = "retry"] ELSE AckDone

AckMisses(a) ==
  /\ Due(a)
  /\ ~Advances(a)
  /\ acks' = [acks EXCEPT ![a] = AfterMiss(acks[a])]
  /\ UNCHANGED <<origin, row, at, out, reactions, revoke, restarted>>

AckRejected(a) ==
  /\ acks[a].at \in {"issued", "retry"} /\ Fails("ack")
  /\ acks' = [acks EXCEPT ![a] = AckLost]
  /\ UNCHANGED <<origin, row, at, out, reactions, revoke, restarted>>

-----------------------------------------------------------------------------
(* onMessageReaction and applyReaction(): a chain of read-modify-writes.     *)

\* The reactions are numbered as they arrive.
ReactionArrives(i, s, e) ==
  /\ out
  /\ reactions[i].at = "none"
  /\ \A j \in Index : j < i => reactions[j].at # "none"
  /\ reactions' = [reactions EXCEPT ![i] =
                     [NoReaction EXCEPT !.at = "chained", !.by = s, !.emoji = e]]
  /\ UNCHANGED <<origin, row, at, out, acks, revoke, restarted>>

\* Mutant of PriorSettled: no chain, each event is handled when it comes.
PriorSettledNot(i) == TRUE

\* reactionChains: an event waits until those before it are settled.
PriorSettled(i) == \A j \in Index : j < i => reactions[j].at \in {"saved", "lost"}

ReactionReads(i) ==
  /\ reactions[i].at = "chained"
  /\ PriorSettled(i)
  /\ reactions' = [reactions EXCEPT ![i] =
       IF Matches THEN [@ EXCEPT !.at = "read", !.copy = row] ELSE ReactionLost]
  /\ UNCHANGED <<origin, row, at, out, acks, revoke, restarted>>

\* The whole entity that was read is saved, its reactions changed.
ReactionSaves(i) ==
  /\ reactions[i].at = "read"
  /\ row' = [reactions[i].copy EXCEPT !.reacted[reactions[i].by] = reactions[i].emoji]
  /\ reactions' = [reactions EXCEPT ![i].at = "saved", ![i].copy = NoRow]
  /\ UNCHANGED <<origin, at, out, acks, revoke, restarted>>

ReactionRejected(i) ==
  /\ reactions[i].at \in {"chained", "read"} /\ PriorSettled(i) /\ Fails("react")
  /\ reactions' = [reactions EXCEPT ![i] = ReactionLost]
  /\ UNCHANGED <<origin, row, at, out, acks, revoke, restarted>>

-----------------------------------------------------------------------------
(* onMessageRevoked, and deleteMessage() once the engine has deleted it.     *)

RevokeArrives ==
  /\ out /\ revoke = "none"
  /\ revoke' = "issued"
  /\ UNCHANGED <<origin, row, at, out, acks, reactions, restarted>>

RevokeApplies ==
  /\ revoke = "issued"
  /\ row' = IF Matches THEN [row EXCEPT !.revoked = TRUE] ELSE row
  /\ revoke' = "done"
  /\ UNCHANGED <<origin, at, out, acks, reactions, restarted>>

RevokeRejected ==
  /\ revoke = "issued" /\ Fails("revoke")
  /\ revoke' = "done"
  /\ UNCHANGED <<origin, row, at, out, acks, reactions, restarted>>

\* The process dies: handlers, chains and timers are gone, the row is not.
Restart ==
  /\ ~restarted
  /\ restarted' = TRUE
  /\ at' = IF at \in {"ok", "error"} THEN at ELSE "dead"
  /\ acks' = [a \in Ack |-> IF acks[a].at \in {"issued", "retry"}
                             THEN AckDone ELSE acks[a]]
  /\ reactions' = [i \in Index |->
       IF reactions[i].at \in {"chained", "read"}
       THEN ReactionLost ELSE reactions[i]]
  /\ revoke' = IF revoke = "issued" THEN "done" ELSE revoke
  /\ UNCHANGED <<origin, row, out>>

-----------------------------------------------------------------------------
Handler ==
  \/ Hook \/ InsertPending \/ InsertSent
  \/ EngineResolves \/ EngineRejects \/ Record \/ RecordFails \/ MarkFailed

AckHandler(a) == AckApplies(a) \/ AckMisses(a) \/ AckRejected(a)

ReactionHandler(i) == ReactionReads(i) \/ ReactionSaves(i) \/ ReactionRejected(i)

RevokeHandler == RevokeApplies \/ RevokeRejected

Next ==
  \/ Handler \/ GoesOut
  \/ \E a \in Ack : AckHandler(a) \/ \E s \in Receipt : AckArrives(a, s)
  \/ \E i \in Index :
       \/ ReactionHandler(i)
       \/ \E s \in Sender, e \in Emoji \cup {NoEmoji} : ReactionArrives(i, s, e)
  \/ RevokeHandler \/ RevokeArrives
  \/ Restart

Spec == Init /\ [][Next]_vars

\* The database answers every statement, and a timer fires.
Fairness ==
  /\ WF_vars(Handler)
  /\ \A a \in Ack : WF_vars(AckHandler(a))

FairSpec == Spec /\ Fairness

-----------------------------------------------------------------------------
\* Types of the variables.
TypeOK ==
  /\ origin \in Origin
  /\ row \in Row
  /\ at \in At
  /\ out \in BOOLEAN
  /\ acks \in [Ack -> [at : {"none", "issued", "retry", "done", "lost"}, to : Receipt]]
  /\ reactions \in [Index -> [at : {"none", "chained", "read", "saved", "lost"},
                              by : Sender, emoji : Emoji \cup {NoEmoji}, copy : Row]]
  /\ revoke \in {"none", "issued", "done"}
  /\ restarted \in BOOLEAN

\* The statuses that a delivery may still reach from s.
Ahead(s) ==
  CASE s = "pending"   -> {"pending", "sent", "delivered", "read", "failed"}
    [] s = "sent"      -> {"sent", "delivered", "read", "failed"}
    [] s = "delivered" -> {"delivered", "read"}
    [] OTHER           -> {s}

Forward ==
  row.there => /\ row'.there
               /\ row'.status \in Ahead(row.status)
               /\ row.named => row'.named
               /\ row.revoked => row'.revoked

\* "delivery state only moves forward", and a revoked message stays revoked,
\* however sends, acknowledgements and revocations overlap.  The save of a
\* reaction is excepted here: StatusOnlyAdvances is about it.
OnlyReactionsUndo == [][Forward \/ \E i \in Index : ReactionSaves(i)]_vars

\* The same with nothing excepted, as message-status.util.ts states it: an
\* acknowledgement "cannot downgrade a higher status", "race-safe at the DB level".
StatusOnlyAdvances == [][row.there => row'.status \in Ahead(row.status)]_vars

\* What the caller was told stays true of the row.  After a success there is a
\* row, it is not PENDING and acknowledgements find it, but for a forwarded
\* copy whose id is unknown; after an error nothing ever shows the message as
\* sent, delivered or read.
RowTellsOutcome ==
  /\ at = "ok" /\ origin \in Single =>
       row.there /\ row.status # "pending" /\ (row.named \/ origin = "forward")
  /\ at = "error" => row.status \in {"pending", "failed"}

\* No reaction is lost to another: the row shows, for each sender, the last
\* reaction that was saved, in the order of arrival.
EveryReactionCounts ==
  /\ \A i \in Index :
       /\ reactions[i].at = "saved"
       /\ \A j \in Index : j > i /\ reactions[j].at = "saved"
                              => reactions[j].by # reactions[i].by
       => row.reacted[reactions[i].by] = reactions[i].emoji
  /\ \A s \in Sender :
       (\A i \in Index : reactions[i].at = "saved" => reactions[i].by # s)
       => row.reacted[s] = NoEmoji

\* A receipt is not "left stuck at SENT" because it overtook the save of the
\* message's id: with a prompt database the second try finds the row, unless the
\* database rejects the receipt's own statement.
AckLands ==
  \A a \in Ack :
    (acks[a].at \in {"issued", "retry"} /\ acks[a].to \in {"delivered", "read"})
      ~> \/ row.status \in {"delivered", "read", "failed"}
         \/ acks[a].at = "lost" \/ restarted
         \/ at \in {"error", "dead"} \/ (at = "ok" /\ ~row.named)
=============================================================================
