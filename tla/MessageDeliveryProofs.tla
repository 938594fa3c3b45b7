------------------------ MODULE MessageDeliveryProofs ------------------------
(***************************************************************************)
(* Theorems about MessageDelivery, for any kinds of messages, numbers of    *)
(* acknowledgements and reactions, senders and failing statements.         *)
(***************************************************************************)
EXTENDS MessageDelivery, TLAPS

AckType == [at : {"none", "issued", "retry", "done", "lost"}, to : Receipt]

ReactionType == [at : {"none", "chained", "read", "saved", "lost"},
                 by : Sender, emoji : Emoji \cup {NoEmoji}, copy : Row]

-----------------------------------------------------------------------------
(* Type correctness.                                                       *)

\* The rows, acknowledgements and reactions that appear as literals have their types.
LEMMA Literals ==
  /\ NoRow \in Row
  /\ \A s \in Status, n \in BOOLEAN : NewRow(s, n) \in Row
  /\ NoAck \in AckType /\ AckDone \in AckType /\ AckLost \in AckType
  /\ NoReaction \in ReactionType /\ ReactionLost \in ReactionType
<1>1. NobodyReacted \in Reacted
  BY DEF NobodyReacted, Reacted
<1>2. NoRow \in Row
  BY <1>1 DEF NoRow, Row, Status
<1>3. \A s \in Status, n \in BOOLEAN : NewRow(s, n) \in Row
  BY <1>2 DEF NewRow, Row
<1>4. NoAck \in AckType
  BY DEF NoAck, AckType, Receipt
<1>5. AckDone \in AckType /\ AckLost \in AckType
  BY <1>4 DEF AckDone, AckLost, AckType
<1>6. (CHOOSE s \in Sender : TRUE) \in Sender
  BY MessageAssumption
<1>7. NoReaction \in ReactionType
  BY <1>2, <1>6 DEF NoReaction, ReactionType
<1>8. ReactionLost \in ReactionType
  BY <1>7 DEF ReactionLost, ReactionType
<1> QED BY <1>2, <1>3, <1>4, <1>5, <1>7, <1>8

\* Every change the code makes to a row keeps its type.
LEMMA RowUpdates ==
  ASSUME NEW r \in Row, NEW s \in Status, NEW n \in BOOLEAN
  PROVE  /\ [r EXCEPT !.status = s] \in Row
         /\ [r EXCEPT !.status = s, !.named = n] \in Row
         /\ [r EXCEPT !.revoked = TRUE] \in Row
         /\ \A u \in Sender, e \in Emoji \cup {NoEmoji} : [r EXCEPT !.reacted[u] = e] \in Row
BY DEF Row, Reacted

LEMMA TypeInit == Init => TypeOK
<1> SUFFICES ASSUME Init PROVE TypeOK
  OBVIOUS
<1>1. at \in At
  BY DEF Init, At
<1>2. acks \in [Ack -> AckType] /\ reactions \in [Index -> ReactionType]
  BY Literals DEF Init
<1> QED BY <1>1, <1>2, Literals DEF Init, TypeOK, AckType, ReactionType

LEMMA TypeStep == TypeOK /\ [Next]_vars => TypeOK'
<1> SUFFICES ASSUME TypeOK, [Next]_vars PROVE TypeOK'
  OBVIOUS
<1>t. /\ origin \in Origin /\ row \in Row /\ at \in At /\ out \in BOOLEAN
      /\ acks \in [Ack -> AckType] /\ reactions \in [Index -> ReactionType]
      /\ revoke \in {"none", "issued", "done"} /\ restarted \in BOOLEAN
  BY DEF TypeOK, AckType, ReactionType
<1>s. {"pending", "sent", "delivered", "read", "failed"} = Status /\ Receipt \subseteq Status
  BY DEF Status, Receipt
\* A step of the handler changes its row, its position and what WhatsApp has.
<1>h. ASSUME UNCHANGED others, row' \in Row, at' \in At, out' \in BOOLEAN PROVE TypeOK'
  BY <1>h, <1>t DEF others, TypeOK, AckType, ReactionType
<1>1. CASE Handler \/ GoesOut
  <2>1. UNCHANGED others /\ at' \in At /\ out' \in BOOLEAN
    BY <1>1, <1>t DEF Handler, Hook, InsertPending, InsertSent, GoesOut, EngineResolves,
       EngineRejects, Record, RecordFails, MarkFailed, At
  <2>2. row' \in Row
    <3>1. CASE Hook \/ GoesOut \/ EngineResolves \/ EngineRejects
      BY <3>1, <1>t DEF Hook, GoesOut, EngineResolves, EngineRejects
    <3>2. CASE InsertPending \/ InsertSent
      BY <3>2, <1>t, <1>s, Literals DEF InsertPending, InsertSent
    <3>3. CASE Record \/ RecordFails \/ MarkFailed
      <4>1. IdKnown \subseteq BOOLEAN
        BY DEF IdKnown
      <4> QED BY <3>3, <4>1, <1>t, <1>s, RowUpdates
              DEF Record, Recorded, RecordFails, MarkFailed
    <3> QED BY <1>1, <3>1, <3>2, <3>3 DEF Handler
  <2> QED BY <1>h, <2>1, <2>2
<1>2. ASSUME NEW a \in Ack, NEW s \in Receipt, AckArrives(a, s) PROVE TypeOK'
  <2>1. [at |-> "issued", to |-> s] \in AckType
    BY DEF AckType
  <2> QED BY <1>2, <1>t, <2>1 DEF AckArrives, TypeOK, AckType, ReactionType
<1>3. ASSUME NEW a \in Ack, AckHandler(a) PROVE TypeOK'
  <2>1. acks[a] \in AckType /\ acks[a].to \in Status
    BY <1>t, <1>s DEF AckType
  <2>2. AfterMiss(acks[a]) \in AckType
    BY <2>1, Literals DEF AfterMiss, AckType
  <2>3. acks' \in [Ack -> AckType]
    BY <1>3, <1>t, <2>2, Literals DEF AckHandler, AckApplies, AckMisses, AckRejected
  <2>4. row' \in Row
    BY <1>3, <1>t, <2>1, RowUpdates DEF AckHandler, AckApplies, AckMisses, AckRejected
  <2> QED BY <1>3, <1>t, <2>3, <2>4
          DEF AckHandler, AckApplies, AckMisses, AckRejected, TypeOK, AckType, ReactionType
<1>4. ASSUME NEW i \in Index, NEW s \in Sender, NEW e \in Emoji \cup {NoEmoji},
             ReactionArrives(i, s, e)
      PROVE  TypeOK'
  <2>1. [NoReaction EXCEPT !.at = "chained", !.by = s, !.emoji = e] \in ReactionType
    BY Literals DEF ReactionType
  <2> QED BY <1>4, <1>t, <2>1 DEF ReactionArrives, TypeOK, AckType, ReactionType
<1>5. ASSUME NEW i \in Index, ReactionHandler(i) PROVE TypeOK'
  <2>1. /\ reactions[i] \in ReactionType /\ reactions[i].copy \in Row
        /\ reactions[i].by \in Sender /\ reactions[i].emoji \in Emoji \cup {NoEmoji}
    BY <1>t DEF ReactionType
  <2>2. /\ [reactions[i] EXCEPT !.at = "read", !.copy = row] \in ReactionType
        /\ [reactions[i] EXCEPT !.at = "saved", !.copy = NoRow] \in ReactionType
    BY <1>t, <2>1, Literals DEF ReactionType
  <2>3. \/ reactions' = [reactions EXCEPT ![i] = ReactionLost]
        \/ reactions' = [reactions EXCEPT ![i] = [@ EXCEPT !.at = "read", !.copy = row]]
        \/ reactions' = [reactions EXCEPT ![i] = [@ EXCEPT !.at = "saved", !.copy = NoRow]]
    BY <1>5, <1>t DEF ReactionHandler, ReactionReads, ReactionSaves, ReactionRejected
  <2>4. reactions' \in [Index -> ReactionType]
    BY <1>t, <2>2, <2>3, Literals
  <2>5. row' \in Row
    <3>1. [reactions[i].copy EXCEPT !.reacted[reactions[i].by] = reactions[i].emoji] \in Row
      BY <1>s, <2>1, RowUpdates
    <3> QED BY <1>5, <1>t, <3>1
            DEF ReactionHandler, ReactionReads, ReactionSaves, ReactionRejected
  <2> QED BY <1>5, <1>t, <2>4, <2>5 DEF ReactionHandler, ReactionReads, ReactionSaves,
          ReactionRejected, TypeOK, AckType, ReactionType
<1>6. CASE RevokeHandler \/ RevokeArrives
  <2>1. row' \in Row
    BY <1>6, <1>t, <1>s, RowUpdates DEF RevokeHandler, RevokeApplies, RevokeRejected, RevokeArrives
  <2> QED BY <1>6, <1>t, <2>1 DEF RevokeHandler, RevokeApplies, RevokeRejected, RevokeArrives,
          TypeOK, AckType, ReactionType
<1>7. CASE Restart
  <2>1. acks' \in [Ack -> AckType] /\ reactions' \in [Index -> ReactionType]
    BY <1>7, <1>t, Literals DEF Restart
  <2> QED BY <1>7, <1>t, <2>1 DEF Restart, TypeOK, At, AckType, ReactionType
<1>8. CASE UNCHANGED vars
  BY <1>8 DEF vars, TypeOK
<1> QED BY <1>1, <1>2, <1>3, <1>4, <1>5, <1>6, <1>7, <1>8 DEF Next

\* Every variable keeps its type, the row of the message among them.
THEOREM TypeCorrect == Spec => []TypeOK
BY TypeInit, TypeStep, PTL DEF Spec

-----------------------------------------------------------------------------
(* What the row says. A row is written in full knowledge of its id only once *)
(* the handler has come to its end, and only such rows are reached by        *)
(* acknowledgements and copied by reactions.                                *)

Ended == {"ok", "error", "dead"}

BeforeRow == at \in {"hook", "insert"} \/ (at = "engine" /\ origin \notin Single)

RowInv ==
  /\ BeforeRow => row = NoRow
  /\ origin \in Single /\ at \in {"engine", "record", "fail"} =>
       row.there /\ ~row.named /\ row.status = "pending"
  /\ Matches => at \in Ended /\ row.status # "pending"
  /\ at = "ok" /\ origin \in Single => row.there /\ (row.named \/ origin = "forward")
  /\ at = "ok" /\ origin \in Single => row.status # "pending"
  /\ at = "error" => row.status \in {"pending", "failed"} /\ (Matches => row.status = "failed")
  /\ at \in {"record", "fail"} => origin \in Single
  /\ at = "engine" => origin # "inbound"
  /\ \A i \in Index : reactions[i].at = "read" =>
       LET b == reactions[i].copy IN
       /\ Matches /\ b.there /\ b.named /\ b.status # "pending"
       /\ at = "error" => b.status = "failed"

LEMMA RowInit == Init => RowInv
BY DEF Init, RowInv, BeforeRow, Matches, NoRow, NoReaction, Single, Index

LEMMA RowStep == TypeOK /\ RowInv /\ [Next]_vars => RowInv'
<1> SUFFICES ASSUME TypeOK, RowInv, [Next]_vars PROVE RowInv'
  OBVIOUS
<1>t. /\ row \in Row /\ acks \in [Ack -> AckType] /\ reactions \in [Index -> ReactionType]
  BY DEF TypeOK, AckType, ReactionType
<1>n. BeforeRow => /\ row = NoRow /\ ~Matches /\ row.status = "pending"
                   /\ \A i \in Index : reactions[i].at # "read"
  BY DEF RowInv, Matches, NoRow
<1>1. CASE Hook
  BY <1>1 DEF Hook, others, RowInv, BeforeRow, Matches, NoRow, Ended
<1>2. CASE InsertPending
  <2>1. LET b == NewRow("pending", FALSE) IN b.there /\ ~b.named /\ b.status = "pending"
    BY Literals DEF NewRow, Row
  <2>2. /\ BeforeRow /\ origin \in Single /\ UNCHANGED others
        /\ \/ row' = NewRow("pending", FALSE) /\ at' = "engine"
           \/ row' = row /\ at' = "error"
    BY <1>2 DEF InsertPending, BeforeRow
  <2> QED BY <1>n, <2>1, <2>2 DEF others, RowInv, BeforeRow, Matches, Ended, Single
<1>3. CASE InsertSent
  <2>1. LET b == NewRow("sent", TRUE) IN b.there /\ b.named /\ b.status = "sent"
    BY Literals DEF NewRow, Row
  <2>2. /\ BeforeRow /\ origin \notin Single /\ UNCHANGED others
        /\ \/ row' = NewRow("sent", TRUE) /\ at' = "ok"
           \/ row' = row /\ at' \in {"ok", "error"}
    BY <1>3 DEF InsertSent, BeforeRow
  <2> QED BY <1>n, <2>1, <2>2 DEF others, RowInv, BeforeRow, Matches, Ended
<1>4. CASE GoesOut \/ EngineResolves \/ EngineRejects
  <2>1. at = "engine" /\ UNCHANGED <<row, others>>
    BY <1>4 DEF GoesOut, EngineResolves, EngineRejects
  <2>2. CASE origin \in Single
    <3>1. at' \in {"engine", "record", "fail"} /\ ~Matches
      BY <1>4, <2>1, <2>2 DEF GoesOut, EngineResolves, EngineRejects, RowInv, Single, Matches
    <3> QED BY <2>1, <2>2, <3>1 DEF others, RowInv, BeforeRow, Matches
  <2>3. CASE origin \notin Single
    <3>1. origin \in Origins
      BY MessageAssumption DEF TypeOK
    <3>2. origin = "bulk"
      BY <2>1, <2>3, <3>1 DEF Origins, Single, RowInv
    <3>3. BeforeRow
      BY <2>1, <2>3 DEF BeforeRow
    <3>4. at' \in {"engine", "insert", "error"}
      BY <1>4, <2>1, <3>2 DEF GoesOut, EngineResolves, EngineRejects
    <3> QED BY <1>n, <2>1, <2>3, <3>2, <3>3, <3>4 DEF others, RowInv, BeforeRow, Matches
  <2> QED BY <2>2, <2>3
<1>5. CASE Record \/ RecordFails \/ MarkFailed
  <2>1. /\ row.there /\ ~row.named /\ row.status = "pending" /\ ~Matches
        /\ UNCHANGED others /\ origin \in Single
    BY <1>5 DEF Record, RecordFails, MarkFailed, RowInv, Matches
  <2>2. \A i \in Index : reactions[i].at # "read"
    BY <2>1 DEF RowInv
  <2>3. CASE Record
    <3>1. PICK n \in IdKnown : row' = Recorded(n)
      BY <2>3 DEF Record
    <3>2. row'.there /\ row'.named = n /\ row'.status = "sent" /\ at' = "ok"
      BY <2>1, <2>3, <3>1, <1>t DEF Record, Recorded, Row
    <3>3. n \/ origin = "forward"
      BY DEF IdKnown
    <3> QED BY <2>1, <2>2, <3>2, <3>3 DEF RowInv, BeforeRow, Matches, Ended, others
  <2>4. CASE RecordFails \/ MarkFailed
    <3>1. /\ at' = "error"
          /\ row' = row \/ (row'.there /\ row'.status = "failed")
      BY <2>4, <2>1, <1>t DEF RecordFails, MarkFailed, Row
    <3> QED BY <2>1, <2>2, <3>1 DEF RowInv, BeforeRow, Matches, Ended, others
  <2> QED BY <1>5, <2>3, <2>4
<1>6. ASSUME NEW a \in Ack, AckHandler(a) \/ \E s \in Receipt : AckArrives(a, s) PROVE RowInv'
  <2>1. CASE AckApplies(a)
    <3>1. /\ Matches /\ row.status \in TransitionFrom(acks[a].to)
          /\ row' = [row EXCEPT !.status = acks[a].to] /\ acks[a].to \in Receipt
          /\ UNCHANGED <<origin, at, reactions>>
      BY <2>1, <1>t DEF AckApplies, Advances, AckType
    <3>2. row.status # "failed"
      BY <3>1 DEF TransitionFrom, Receipt
    <3>3. row'.there /\ row'.named /\ row'.status # "pending"
      BY <3>1, <1>t DEF Matches, Row, Receipt
    <3>4. at # "error" /\ at \in Ended
      BY <3>1, <3>2 DEF RowInv
    <3> QED BY <3>1, <3>3, <3>4 DEF RowInv, BeforeRow, Matches, Ended
  <2>2. CASE ~AckApplies(a)
    BY <1>6, <2>2 DEF AckHandler, AckMisses, AckRejected, AckArrives, RowInv, BeforeRow, Matches
  <2> QED BY <2>1, <2>2
<1>7. ASSUME NEW i \in Index, NEW s \in Sender, NEW e \in Emoji \cup {NoEmoji},
             ReactionArrives(i, s, e)
      PROVE  RowInv'
  <2>1. [NoReaction EXCEPT !.at = "chained", !.by = s, !.emoji = e].at = "chained"
    BY Literals DEF ReactionType
  <2> QED BY <1>7, <2>1, <1>t DEF ReactionArrives, RowInv, BeforeRow, Matches
<1>8. ASSUME NEW i \in Index, ReactionHandler(i) PROVE RowInv'
  <2>1. /\ reactions[i] \in ReactionType /\ reactions[i].copy \in Row
        /\ reactions[i].by \in Sender /\ reactions[i].emoji \in Emoji \cup {NoEmoji}
    BY <1>t DEF ReactionType
  <2>2. /\ UNCHANGED <<origin, at>>
        /\ \A j \in Index : j # i => reactions'[j] = reactions[j]
    BY <1>8, <1>t DEF ReactionHandler, ReactionReads, ReactionSaves, ReactionRejected
  <2>3. ReactionLost.at = "lost"
    BY Literals DEF ReactionLost, ReactionType
  <2>4. CASE ReactionReads(i)
    <3>1. /\ UNCHANGED row
          /\ \/ reactions'[i].at = "lost"
             \/ Matches /\ reactions'[i].at = "read" /\ reactions'[i].copy = row
      BY <2>4, <2>1, <2>3, <1>t DEF ReactionReads, ReactionType
    <3> QED BY <2>2, <3>1 DEF RowInv, BeforeRow, Matches
  <2>5. CASE ReactionSaves(i)
    <3> DEFINE b == reactions[i].copy
    <3>1. /\ row'.there = b.there /\ row'.named = b.named /\ row'.status = b.status
          /\ reactions'[i].at = "saved"
      BY <2>5, <2>1, <1>t DEF ReactionSaves, Row, ReactionType
    <3>2. /\ Matches /\ b.there /\ b.named /\ b.status # "pending"
          /\ at = "error" => b.status = "failed"
      BY <2>5 DEF ReactionSaves, RowInv
    <3> HIDE DEF b
    <3> QED BY <2>2, <3>1, <3>2 DEF RowInv, BeforeRow, Matches, Ended
  <2>6. CASE ReactionRejected(i)
    BY <2>6, <2>2, <2>3, <1>t DEF ReactionRejected, RowInv, BeforeRow, Matches
  <2> QED BY <1>8, <2>4, <2>5, <2>6 DEF ReactionHandler
<1>9. CASE RevokeHandler \/ RevokeArrives
  <2>1. /\ row'.there = row.there /\ row'.named = row.named /\ row'.status = row.status
        /\ row' = row \/ Matches
    BY <1>9, <1>t DEF RevokeHandler, RevokeApplies, RevokeRejected, RevokeArrives, Row
  <2>2. UNCHANGED <<origin, at, reactions>>
    BY <1>9 DEF RevokeHandler, RevokeApplies, RevokeRejected, RevokeArrives
  <2> QED BY <2>1, <2>2 DEF RowInv, BeforeRow, Matches, Ended
<1>10. CASE Restart
  <2>1. at' \in {"ok", "error", "dead"} /\ (at' # "dead" => at' = at) /\ UNCHANGED <<row, origin>>
    BY <1>10 DEF Restart
  <2>2. \A i \in Index : reactions'[i].at # "read"
    BY <1>10, <1>t, Literals DEF Restart, ReactionLost, ReactionType
  <2> QED BY <2>1, <2>2 DEF RowInv, BeforeRow, Matches, Ended
<1>11. CASE UNCHANGED vars
  BY <1>11 DEF vars, RowInv, BeforeRow, Matches
<1> QED BY <1>1, <1>2, <1>3, <1>4, <1>5, <1>6, <1>7, <1>8, <1>9, <1>10, <1>11
        DEF Next, Handler

\* What a caller was told stays true of the row, whatever receipts, reactions,
\* revocations, rejected statements and restarts follow.
THEOREM OutcomeIsTold == Spec => []RowTellsOutcome
<1>1. RowInv => RowTellsOutcome
  BY DEF RowInv, RowTellsOutcome
<1> QED BY <1>1, TypeInit, TypeStep, RowInit, RowStep, PTL DEF Spec

\* But for the save of a reaction, no step takes a delivery status back, loses
\* the id of the message or restores a revoked one.
THEOREM OnlyForward == Spec => OnlyReactionsUndo
<1>1. TypeOK /\ RowInv /\ [Next]_vars => [Forward \/ \E i \in Index : ReactionSaves(i)]_vars
  <2> SUFFICES ASSUME TypeOK, RowInv, Next, row.there, \A i \in Index : ~ReactionSaves(i)
               PROVE  /\ row'.there /\ row'.status \in Ahead(row.status)
                      /\ row.named => row'.named
                      /\ row.revoked => row'.revoked
    BY DEF Forward
  <2>t. row \in Row /\ row.status \in Status /\ acks \in [Ack -> AckType]
    BY DEF TypeOK, AckType, Row
  <2>1. \A s \in Status : s \in Ahead(s)
    BY DEF Ahead, Status
  <2>2. ~BeforeRow
    BY DEF RowInv, NoRow
  <2>3. CASE UNCHANGED row
    BY <2>1, <2>3, <2>t
  <2>4. CASE Record \/ RecordFails \/ MarkFailed
    <3>1. row.status = "pending" /\ ~row.named
      BY <2>4 DEF Record, RecordFails, MarkFailed, RowInv
    <3>2. row'.there /\ row'.revoked = row.revoked /\ row'.status \in {"sent", "failed", "pending"}
      BY <2>4, <2>t, <3>1 DEF Record, Recorded, RecordFails, MarkFailed, Row
    <3> QED BY <3>1, <3>2 DEF Ahead
  <2>5. ASSUME NEW a \in Ack, AckApplies(a)
        PROVE  /\ row'.there /\ row'.named = row.named /\ row'.revoked = row.revoked
               /\ row'.status \in Ahead(row.status)
    <3>1. /\ row.status \in TransitionFrom(acks[a].to) /\ acks[a].to \in Receipt
          /\ row' = [row EXCEPT !.status = acks[a].to]
      BY <2>5, <2>t DEF AckApplies, Advances, AckType
    <3>2. acks[a].to \in Ahead(row.status)
      BY <3>1 DEF TransitionFrom, Ahead, Receipt
    <3> QED BY <3>1, <3>2, <2>t DEF Row
  <2>6. CASE RevokeApplies
    BY <2>6, <2>1, <2>t DEF RevokeApplies, Row
  <2>7. CASE InsertPending \/ InsertSent
    BY <2>2, <2>7 DEF InsertPending, InsertSent, BeforeRow
  <2> QED BY <2>3, <2>4, <2>5, <2>6, <2>7 DEF Next, Handler, Hook, GoesOut, EngineResolves,
       EngineRejects, AckHandler, AckMisses, AckRejected, AckArrives, ReactionHandler,
       ReactionReads, ReactionRejected, ReactionArrives, RevokeHandler, RevokeRejected,
       RevokeArrives, Restart
<1> QED BY <1>1, TypeInit, TypeStep, RowInit, RowStep, PTL DEF Spec, OnlyReactionsUndo

-----------------------------------------------------------------------------
(* Reactions. At most one is between its read and its save, every earlier one *)
(* is settled by then, and nobody else writes the reactions of the row.     *)

ReactInv ==
  /\ EveryReactionCounts
  /\ \A i \in Index : reactions[i].at = "read" => reactions[i].copy.reacted = row.reacted
  /\ \A i \in Index : reactions[i].at \in {"read", "saved"} => row.there
  /\ \A i, j \in Index :
       j < i /\ reactions[i].at \in {"read", "saved"} => reactions[j].at \in {"saved", "lost"}

LEMMA ReactInit == Init => ReactInv
BY DEF Init, ReactInv, EveryReactionCounts, NoReaction, NoRow, NobodyReacted

\* A step that neither saves a reaction nor touches those of the row, and lets
\* every other reaction only go on to its end, keeps the invariant.
LEMMA ReactKept ==
  ASSUME TypeOK, ReactInv, row'.reacted = row.reacted, row.there => row'.there,
         \A i \in Index :
           \/ reactions'[i] = reactions[i]
           \/ reactions'[i].at = "chained" /\ reactions[i].at = "none"
           \/ reactions'[i].at = "lost" /\ reactions[i].at \in {"chained", "read"}
  PROVE  ReactInv'
<1>1. /\ \A i \in Index : reactions'[i].at \in {"read", "saved"} => reactions'[i] = reactions[i]
      /\ \A i \in Index : reactions[i].at = "saved" => reactions'[i] = reactions[i]
      /\ \A i \in Index : reactions[i].at = "lost" => reactions'[i].at = "lost"
  OBVIOUS
<1>2. EveryReactionCounts'
  BY <1>1 DEF ReactInv, EveryReactionCounts
<1> QED BY <1>1, <1>2 DEF ReactInv

LEMMA ReactStep == TypeOK /\ RowInv /\ ReactInv /\ [Next]_vars => ReactInv'
<1> SUFFICES ASSUME TypeOK, RowInv, ReactInv, [Next]_vars PROVE ReactInv'
  OBVIOUS
<1>t. /\ row \in Row /\ acks \in [Ack -> AckType] /\ reactions \in [Index -> ReactionType]
  BY DEF TypeOK, AckType, ReactionType
<1>1. CASE InsertPending \/ InsertSent
  <2>1. \A s \in {"pending", "sent"}, n \in BOOLEAN :
          NewRow(s, n).reacted = NobodyReacted /\ NewRow(s, n).there
    BY Literals DEF NewRow, NoRow, Row
  <2>2. row = NoRow /\ UNCHANGED reactions
    BY <1>1 DEF InsertPending, InsertSent, RowInv, BeforeRow, others
  <2>3. row'.reacted = row.reacted /\ (row.there => row'.there)
    BY <1>1, <2>1, <2>2 DEF InsertPending, InsertSent, NoRow
  <2> QED BY <2>2, <2>3, ReactKept
<1>2. CASE Record \/ RecordFails \/ MarkFailed
  <2>1. row'.reacted = row.reacted /\ row'.there = row.there /\ UNCHANGED reactions
    BY <1>2, <1>t DEF Record, Recorded, RecordFails, MarkFailed, Row, others
  <2> QED BY <2>1, ReactKept
<1>3. CASE Hook \/ GoesOut \/ EngineResolves \/ EngineRejects \/ RevokeArrives \/ RevokeHandler
  <2>1. row'.reacted = row.reacted /\ row'.there = row.there /\ UNCHANGED reactions
    BY <1>3, <1>t DEF Hook, GoesOut, EngineResolves, EngineRejects, RevokeArrives,
       RevokeHandler, RevokeApplies, RevokeRejected, Row, others
  <2> QED BY <2>1, ReactKept
<1>4. ASSUME NEW a \in Ack, AckHandler(a) \/ \E s \in Receipt : AckArrives(a, s)
      PROVE  ReactInv'
  <2>1. row'.reacted = row.reacted /\ row'.there = row.there /\ UNCHANGED reactions
    BY <1>4, <1>t DEF AckHandler, AckApplies, AckMisses, AckRejected, AckArrives, Row
  <2> QED BY <2>1, ReactKept
<1>5. ASSUME NEW i \in Index, NEW s \in Sender, NEW e \in Emoji \cup {NoEmoji},
             ReactionArrives(i, s, e)
      PROVE  ReactInv'
  <2>1. [NoReaction EXCEPT !.at = "chained", !.by = s, !.emoji = e].at = "chained"
    BY Literals DEF ReactionType
  <2>2. UNCHANGED row /\ reactions[i].at = "none" /\ reactions'[i].at = "chained"
        /\ \A j \in Index : j # i => reactions'[j] = reactions[j]
    BY <1>5, <2>1, <1>t DEF ReactionArrives
  <2> QED BY <2>2, ReactKept
<1>6. ASSUME NEW i \in Index, ReactionHandler(i) PROVE ReactInv'
  <2>1. /\ reactions[i] \in ReactionType /\ reactions[i].copy \in Row
        /\ reactions[i].by \in Sender /\ reactions[i].emoji \in Emoji \cup {NoEmoji}
    BY <1>t DEF ReactionType
  <2>2. \A j \in Index : j # i => reactions'[j] = reactions[j]
    BY <1>6, <1>t DEF ReactionHandler, ReactionReads, ReactionSaves, ReactionRejected
  <2>3. ReactionLost.at = "lost"
    BY Literals DEF ReactionLost, ReactionType
  <2>4. CASE ReactionRejected(i) \/ (ReactionReads(i) /\ ~Matches)
    <3>1. UNCHANGED row /\ reactions[i].at \in {"chained", "read"} /\ reactions'[i].at = "lost"
      BY <2>3, <2>4, <1>t DEF ReactionRejected, ReactionReads
    <3> QED BY <2>2, <3>1, ReactKept
  <2>5. CASE ReactionReads(i) /\ Matches
    <3>1. /\ UNCHANGED row /\ row.there /\ PriorSettled(i)
          /\ reactions[i].at = "chained" /\ reactions'[i].at = "read"
          /\ reactions'[i].copy = row
      BY <2>1, <2>5, <1>t DEF ReactionReads, ReactionType, Matches
    <3>2. EveryReactionCounts'
      BY <2>2, <3>1 DEF ReactInv, EveryReactionCounts
    <3>3. \A j \in Index : j < i => reactions[j].at \in {"saved", "lost"}
      BY <3>1 DEF PriorSettled
    <3> QED BY <2>2, <3>1, <3>2, <3>3 DEF ReactInv
  <2>6. CASE ReactionSaves(i)
    <3> DEFINE s == reactions[i].by
               e == reactions[i].emoji
    <3>1. /\ reactions[i].at = "read" /\ reactions'[i].at = "saved"
          /\ reactions'[i].by = s /\ reactions'[i].emoji = e
      BY <2>1, <2>6, <1>t DEF ReactionSaves, ReactionType
    <3>2. row'.there
      BY <2>1, <2>6 DEF ReactionSaves, RowInv, Row
    <3>3. row'.reacted = [row.reacted EXCEPT ![s] = e]
      BY <2>1, <2>6, <3>1 DEF ReactionSaves, ReactInv, Row
    <3>4. /\ row'.reacted[s] = e
          /\ \A u \in Sender : u # s => row'.reacted[u] = row.reacted[u]
      BY <2>1, <3>3, <1>t DEF Row, Reacted
    <3>5. \A j \in Index : j > i => reactions[j].at \notin {"read", "saved"}
      BY <3>1 DEF ReactInv
    <3>6. \A j \in Index : j # i => reactions[j].at # "read"
      <4>1. \A j \in Index : j < i => reactions[j].at \in {"saved", "lost"}
        BY <3>1 DEF ReactInv
      <4>2. \A j \in Index : j < i \/ j = i \/ j > i
        BY MessageAssumption DEF Index
      <4> QED BY <3>5, <4>1, <4>2
    <3>7. \A j \in Index : reactions[j].by \in Sender
      BY <1>t DEF ReactionType
    <3> HIDE DEF s, e
    <3>8. EveryReactionCounts'
      <4>1. ASSUME NEW k \in Index, reactions'[k].at = "saved",
                   \A j \in Index : j > k /\ reactions'[j].at = "saved"
                                      => reactions'[j].by # reactions'[k].by
            PROVE  row'.reacted[reactions'[k].by] = reactions'[k].emoji
        <5>1. CASE k = i
          BY <5>1, <3>1, <3>4
        <5>2. CASE k # i
          <6>1. reactions'[k] = reactions[k] /\ reactions[k].at = "saved"
            BY <5>2, <2>2, <4>1
          <6>2. k < i
            BY <5>2, <6>1, <3>5, MessageAssumption DEF Index
          <6>3. reactions[k].by # s
            BY <6>1, <6>2, <4>1, <3>1
          <6>4. \A j \in Index : j > k /\ reactions[j].at = "saved"
                                   => reactions[j].by # reactions[k].by
            BY <2>2, <3>1, <4>1, <6>1
          <6>5. row.reacted[reactions[k].by] = reactions[k].emoji
            BY <6>1, <6>4 DEF ReactInv, EveryReactionCounts
          <6> QED BY <6>1, <6>3, <6>5, <3>4, <3>7
        <5> QED BY <5>1, <5>2
      <4>2. ASSUME NEW u \in Sender,
                   \A j \in Index : reactions'[j].at = "saved" => reactions'[j].by # u
            PROVE  row'.reacted[u] = NoEmoji
        <5>1. u # s
          BY <4>2, <3>1
        <5>2. \A j \in Index : reactions[j].at = "saved" => reactions[j].by # u
          BY <4>2, <2>2, <3>1
        <5> QED BY <5>1, <5>2, <3>4 DEF ReactInv, EveryReactionCounts
      <4> QED BY <4>1, <4>2 DEF EveryReactionCounts
    <3> QED BY <2>2, <3>1, <3>2, <3>6, <3>8 DEF ReactInv
  <2> QED BY <1>6, <2>4, <2>5, <2>6 DEF ReactionHandler
<1>7. CASE Restart
  <2>1. ReactionLost.at = "lost"
    BY Literals DEF ReactionLost, ReactionType
  <2>2. UNCHANGED row /\ \A i \in Index :
          \/ reactions'[i] = reactions[i]
          \/ reactions'[i].at = "lost" /\ reactions[i].at \in {"chained", "read"}
    BY <1>7, <1>t, <2>1 DEF Restart
  <2> QED BY <2>2, ReactKept
<1>8. CASE UNCHANGED vars
  BY <1>8, ReactKept DEF vars
<1> QED BY <1>1, <1>2, <1>3, <1>4, <1>5, <1>6, <1>7, <1>8 DEF Next, Handler

\* For any number of reactions by any senders, the row shows each sender's last
\* reaction that was saved: none is lost to another.
THEOREM ReactionsCount == Spec => []EveryReactionCounts
<1>1. ReactInv => EveryReactionCounts
  BY DEF ReactInv
<1> QED BY <1>1, TypeInit, TypeStep, RowInit, RowStep, ReactInit, ReactStep, PTL DEF Spec

-----------------------------------------------------------------------------
(* An acknowledgement is given up only where there is nothing left to do.    *)

\* The row has come as far as a receipt can take it, or will never be matched.
Shown ==
  \/ row.status \in {"delivered", "read", "failed"}
  \/ at \in {"error", "dead"} \/ (at = "ok" /\ ~row.named)

\* A handler of a receipt ends, if no statement of it is rejected and the
\* process does not die.
AckEnds(a) ==
  /\ acks[a].at \in {"issued", "retry"} /\ acks[a].to \in {"delivered", "read"}
  /\ acks'[a].at = "done" /\ restarted' = restarted

AckDecides == \A a \in Ack : AckEnds(a) => Shown'

\* Only what is out is acknowledged, and that has passed its hook.
AckInv ==
  /\ at = "hook" /\ origin # "inbound" => ~out
  /\ \A a \in Ack : acks[a].at # "none" => out /\ origin # "inbound"

LEMMA AckInit == Init => AckInv
<1>1. Init /\ origin # "inbound" => ~out
  BY DEF Init
<1>2. Init => \A a \in Ack : acks[a].at = "none"
  BY DEF Init, NoAck
<1> QED BY <1>1, <1>2 DEF AckInv

\* A row that has an id is there.
Named == row.named => row.there

LEMMA NamedStep == TypeOK /\ RowInv /\ Named /\ [Next]_vars => Named'
<1> SUFFICES ASSUME TypeOK, RowInv, Named, [Next]_vars PROVE Named'
  OBVIOUS
<1>t. row \in Row /\ reactions \in [Index -> ReactionType]
  BY DEF TypeOK, ReactionType
<1>k. UNCHANGED row => Named'
  BY DEF Named
<1>1. CASE InsertPending \/ InsertSent
  <2>1. \A s \in Status, n \in BOOLEAN : NewRow(s, n).there
    BY Literals DEF NewRow, Row
  <2> QED BY <1>1, <2>1, <1>k DEF InsertPending, InsertSent, Named, Status
<1>2. CASE Record \/ RecordFails \/ MarkFailed
  <2>1. row.there
    BY <1>2 DEF Record, RecordFails, MarkFailed, RowInv
  <2>2. row'.there
    BY <1>2, <2>1, <1>t DEF Record, Recorded, RecordFails, MarkFailed, Row
  <2> QED BY <2>2 DEF Named
<1>3. ASSUME NEW a \in Ack, AckApplies(a) PROVE Named'
  BY <1>3, <1>t DEF AckApplies, Advances, Matches, Named, Row
<1>4. ASSUME NEW i \in Index, ReactionSaves(i) PROVE Named'
  <2>1. reactions[i].copy.there /\ reactions[i].copy \in Row
    BY <1>4, <1>t DEF ReactionSaves, RowInv, ReactionType
  <2>2. row'.there
    BY <1>4, <2>1 DEF ReactionSaves, Row
  <2> QED BY <2>2 DEF Named
<1>5. CASE RevokeApplies
  BY <1>5, <1>t, <1>k DEF RevokeApplies, Named, Row
<1> QED BY <1>1, <1>2, <1>3, <1>4, <1>5, <1>k
        DEF Next, Handler, Hook, GoesOut, EngineResolves, EngineRejects,
            AckHandler, AckMisses, AckRejected, AckArrives, ReactionHandler, ReactionReads,
            ReactionRejected, ReactionArrives, RevokeHandler, RevokeRejected, RevokeArrives,
            Restart, vars

LEMMA AckStep == TypeOK /\ AckInv /\ [Next]_vars => AckInv'
<1> SUFFICES ASSUME TypeOK, AckInv, [Next]_vars PROVE AckInv'
  OBVIOUS
<1>t. acks \in [Ack -> AckType]
  BY DEF TypeOK, AckType
<1>k. ASSUME UNCHANGED <<origin, acks>>, out => out', at' = "hook" => at = "hook" /\ out' = out
      PROVE  AckInv'
  BY <1>k DEF AckInv
<1>1. CASE Handler \/ GoesOut
  <2>1. at' # "hook" /\ UNCHANGED <<origin, acks>>
    BY <1>1 DEF Handler, Hook, InsertPending, InsertSent, GoesOut, EngineResolves,
                EngineRejects, Record, RecordFails, MarkFailed, others
  <2>2. out' = out \/ out' = TRUE
    BY <1>1 DEF Handler, Hook, InsertPending, InsertSent, GoesOut, EngineResolves,
                EngineRejects, Record, RecordFails, MarkFailed
  <2>3. out => out'
    BY <2>2
  <2> QED BY <2>1, <2>3, <1>k
<1>2. ASSUME NEW a \in Ack, AckHandler(a) \/ \E s \in Receipt : AckArrives(a, s) PROVE AckInv'
  <2>1. UNCHANGED <<origin, at, out>> /\ \A b \in Ack : b # a => acks'[b] = acks[b]
    BY <1>2, <1>t DEF AckHandler, AckApplies, AckMisses, AckRejected, AckArrives
  <2>2. acks[a].at # "none" \/ (out /\ origin # "inbound")
    BY <1>2 DEF AckHandler, AckApplies, AckMisses, AckRejected, AckArrives, Due
  <2> QED BY <2>1, <2>2 DEF AckInv
<1>3. (\E i \in Index : \/ ReactionHandler(i)
                        \/ \E s \in Sender, e \in Emoji \cup {NoEmoji} : ReactionArrives(i, s, e))
        \/ RevokeHandler \/ RevokeArrives \/ UNCHANGED vars
        => UNCHANGED <<origin, acks, out, at>>
  BY DEF ReactionHandler, ReactionReads, ReactionSaves, ReactionRejected, ReactionArrives,
         RevokeHandler, RevokeApplies, RevokeRejected, RevokeArrives, vars
<1>4. CASE Restart
  <2>1. UNCHANGED <<origin, out>> /\ at' # "hook"
    BY <1>4 DEF Restart
  <2>2. \A a \in Ack : acks'[a].at # "none" => acks[a].at # "none"
    BY <1>4, <1>t DEF Restart
  <2> QED BY <2>1, <2>2 DEF AckInv
<1> QED BY <1>1, <1>2, <1>3, <1>4, <1>k DEF Next

\* As long as the save of the message's id is no slower than the delay of the
\* second try, no receipt is dropped while the row is "left stuck at SENT": the
\* handler that ends without an error has written its status, has found one
\* that is as good, or its message failed or has no id to match.  That it ends
\* is fairness (AckLands).
THEOREM ReceiptsDecide ==
  ASSUME PromptSave
  PROVE  Spec => [][AckDecides]_vars
<1>1. TypeOK /\ Named /\ AckInv /\ [Next]_vars => [AckDecides]_vars
  <2> SUFFICES ASSUME TypeOK, Named, AckInv, Next, NEW a \in Ack, AckEnds(a)
               PROVE  Shown'
    BY DEF AckDecides
  <2>t. /\ row \in Row /\ at \in At /\ acks \in [Ack -> AckType]
        /\ acks[a].at \in {"issued", "retry"} /\ acks[a].to \in {"delivered", "read"}
        /\ acks'[a] # acks[a]
    BY DEF TypeOK, AckType, AckEnds
  <2>r. restarted \in BOOLEAN /\ ~Restart
    BY DEF TypeOK, AckEnds, Restart
  <2>1. AckApplies(a) \/ AckMisses(a)
    <3>1. PICK b \in Ack : AckHandler(b) \/ \E s \in Receipt : AckArrives(b, s)
      BY <2>t, <2>r DEF Next, Handler, Hook, InsertPending, InsertSent, GoesOut,
           EngineResolves, EngineRejects, Record, RecordFails, MarkFailed, others,
           ReactionHandler, ReactionReads, ReactionSaves, ReactionRejected, ReactionArrives,
           RevokeHandler, RevokeApplies, RevokeRejected, RevokeArrives
    <3>2. b = a
      BY <3>1, <2>t DEF AckHandler, AckApplies, AckMisses, AckRejected, AckArrives
    <3>3. AckLost.at = "lost"
      BY Literals DEF AckLost, AckType
    <3> QED BY <3>1, <3>2, <3>3, <2>t
            DEF AckHandler, AckRejected, AckArrives, AckEnds
  <2>2. CASE AckApplies(a)
    BY <2>2, <2>t DEF AckApplies, Shown, Row
  <2>3. CASE AckMisses(a)
    <3>1. acks[a].at = "retry"
      <4>1. acks[a].at = "issued" => AfterMiss(acks[a]).at = "retry"
        BY <2>t DEF AfterMiss, AckType
      <4> QED BY <2>3, <4>1, <2>t DEF AckMisses, AckEnds
    <3>2. at \in {"ok", "error", "dead"}
      BY <2>3, <3>1, <2>t DEF AckMisses, Due, AckInv, At
    <3>3. UNCHANGED <<row, at>> /\ ~Advances(a)
      BY <2>3 DEF AckMisses
    <3>4. CASE at = "ok" /\ row.named
      <4>1. row.there
        BY <3>4 DEF Named
      <4>2. row.status \notin TransitionFrom(acks[a].to) /\ row.status \in Status
        BY <3>3, <3>4, <4>1, <2>t DEF Advances, Matches, Row
      <4> QED BY <3>3, <4>2, <2>t DEF TransitionFrom, Status, Shown
    <3>5. CASE ~(at = "ok" /\ row.named)
      BY <3>2, <3>3, <3>5 DEF Shown
    <3> QED BY <3>4, <3>5
  <2> QED BY <2>1, <2>2, <2>3
<1>2. Init => Named
  BY DEF Init, Named, NoRow
<1> QED BY <1>1, <1>2, TypeInit, TypeStep, RowInit, RowStep, NamedStep, AckInit, AckStep, PTL DEF Spec

=============================================================================
