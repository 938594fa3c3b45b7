------------------------------ MODULE ChatView ------------------------------
(***************************************************************************)
(* The chat page of the dashboard (src/dashboard/src/pages/Chats.tsx) with *)
(* one session selected, and what feeds it:                                *)
(*   - the send requests of message.service.ts (a row saved PENDING, the   *)
(*     engine call, the row saved again with the WhatsApp id);             *)
(*   - onMessage / onMessageCreate / onMessageAck / onMessageRevoked of    *)
(*     session.service.ts, whose events reach the page in order while the  *)
(*     row of an inbound message is saved without being awaited;           *)
(*   - the history requests, answered from the rows as they were read.     *)
(* A bubble is known by its WhatsApp id ("wa") once it has one, before by  *)
(* the row's own id ("row") or the placeholder's temporary one ("temp").   *)
(* Reactions and the chat list beside the messages are left out.           *)
(***************************************************************************)
EXTENDS Naturals, Sequences, FiniteSets, SequencesExt

CONSTANTS
    Chat,          \* the chats of the session
    ChatMessage,   \* messages, sent from the page or received
    HistoryLoad,   \* history requests that may be in flight together
    NoChatOpen,    \* no chat is open
    MaxChatEvents  \* bound: events on their way to the page

ASSUME ChatAssumption == IsFiniteSet(ChatMessage)

BubbleStatus == {"none", "pending", "sent", "delivered", "failed"}

VARIABLES
    chatOf,   \* Message -> the chat it belongs to, None before it exists
    chatRow,  \* Message -> status of its row, "none" without a row
    named,    \* messages whose row has its waMessageId
    out,      \* messages the engine has sent or received
    echoed,   \* messages whose message.sent / message.received was emitted
    post,     \* Message -> send request: "none", "asked", "accepted", "over"
    gone,     \* messages revoked on WhatsApp
    events,   \* events on their way to the page, in order
    active,   \* activeChat
    bubbles,  \* messages, the list the page draws
    loads     \* Load -> history request: chat, step and the rows it read

chatVars == <<chatOf, chatRow, named, out, echoed, post, gone, events, active, bubbles, loads>>
chatStored == <<chatRow, named>>
chatPhone == <<out, echoed, gone>>

Bubble == [of : ChatMessage, id : {"temp", "row", "wa"}, status : BubbleStatus \ {"none"}, revoked : BOOLEAN]
NoLoad == [chat |-> NoChatOpen, step |-> "idle", data |-> <<>>]

ChatTypeOK ==
    /\ chatOf \in [ChatMessage -> Chat \cup {NoChatOpen}]
    /\ chatRow \in [ChatMessage -> BubbleStatus] /\ named \in SUBSET ChatMessage
    /\ out \in SUBSET ChatMessage /\ echoed \in SUBSET out /\ gone \in SUBSET out
    /\ post \in [ChatMessage -> {"none", "asked", "accepted", "over"}]
    /\ active \in Chat \cup {NoChatOpen}
    /\ bubbles \in Seq(Bubble)
    /\ \A l \in HistoryLoad : loads[l].step \in {"idle", "asked", "read"} /\ loads[l].data \in Seq(Bubble)

ChatInit ==
    /\ chatOf = [m \in ChatMessage |-> NoChatOpen] /\ chatRow = [m \in ChatMessage |-> "none"] /\ named = {}
    /\ out = {} /\ echoed = {} /\ gone = {} /\ post = [m \in ChatMessage |-> "none"]
    /\ events = <<>> /\ active = NoChatOpen /\ bubbles = <<>> /\ loads = [l \in HistoryLoad |-> NoLoad]

\* The guard of every handler: m.id === id || m.waMessageId === id.
Is(b, m) == b.of = m /\ b.id = "wa"
Has(m) == \E i \in DOMAIN bubbles : Is(bubbles[i], m)

Placeholder(m) == [of |-> m, id |-> "temp", status |-> "pending", revoked |-> FALSE]
EchoBubble(m) == [of |-> m, id |-> "wa", status |-> "sent", revoked |-> FALSE]

\* setMessages(prev => prev.map(...)): f for the bubbles that satisfy P.
BubblesMapped(P(_), f(_)) == [i \in DOMAIN bubbles |-> IF P(bubbles[i]) THEN f(bubbles[i]) ELSE bubbles[i]]

TickRank(s) == CASE s = "pending" -> 0 [] s = "sent" -> 1 [] OTHER -> 2

\* As a plausible change: the latest ack wins.
MergedLatest(current, incoming) == incoming

\* mergeDeliveryStatus()
Merged(current, incoming) ==
    CASE current = "failed"  -> "failed"
      [] incoming = "failed" -> IF current \in {"pending", "sent"} THEN "failed" ELSE current
      [] OTHER               -> IF TickRank(incoming) >= TickRank(current) THEN incoming ELSE current

EmitEvent(e) == Len(events) < MaxChatEvents /\ events' = Append(events, e)
ChatEvent(kind, m, s) == [kind |-> kind, of |-> m, status |-> s]

-----------------------------------------------------------------------------
(* The server and the engine.                                              *)

\* The request reaches send(): the row is saved PENDING.
SaveFirst(m) ==
    /\ post[m] = "asked" /\ chatRow[m] = "none"
    /\ chatRow' = [chatRow EXCEPT ![m] = "pending"]
    /\ UNCHANGED <<chatOf, named, chatPhone, post, events, active, bubbles, loads>>

\* The engine sends it; from now on WhatsApp may echo and acknowledge it.
EngineSends(m) ==
    /\ chatRow[m] = "pending" /\ m \notin out
    /\ out' = out \cup {m}
    /\ UNCHANGED <<chatOf, chatStored, echoed, gone, post, events, active, bubbles, loads>>

\* The row is saved with its WhatsApp id and the request is answered.
SaveSecond(m) ==
    /\ chatRow[m] = "pending" /\ m \in out /\ post[m] = "asked"
    /\ chatRow' = [chatRow EXCEPT ![m] = "sent"] /\ named' = named \cup {m}
    /\ post' = [post EXCEPT ![m] = "accepted"]
    /\ UNCHANGED <<chatOf, chatPhone, events, active, bubbles, loads>>

\* The engine refuses: the row is saved FAILED, the request fails.
EngineRefuses(m) ==
    /\ chatRow[m] = "pending" /\ m \notin out
    /\ chatRow' = [chatRow EXCEPT ![m] = "failed"]
    /\ UNCHANGED <<chatOf, named, chatPhone, post, events, active, bubbles, loads>>

\* onMessage: after the hooks the row's save is started and the event emitted.
ReceiveMessage(m, c) ==
    /\ chatOf[m] = NoChatOpen
    /\ chatOf' = [chatOf EXCEPT ![m] = c]
    /\ out' = out \cup {m} /\ echoed' = echoed \cup {m}
    /\ EmitEvent(ChatEvent("message", m, "sent"))
    /\ UNCHANGED <<chatStored, post, gone, active, bubbles, loads>>

\* The save that onMessage does not await.
SaveReceived(m) ==
    /\ m \in out /\ post[m] = "none" /\ chatRow[m] = "none"
    /\ chatRow' = [chatRow EXCEPT ![m] = "sent"] /\ named' = named \cup {m}
    /\ UNCHANGED <<chatOf, chatPhone, post, events, active, bubbles, loads>>

\* onMessageCreate: the echo of a message of ours; no row is written.
EchoSent(m) ==
    /\ m \in out \ echoed
    /\ echoed' = echoed \cup {m}
    /\ EmitEvent(ChatEvent("message", m, "sent"))
    /\ UNCHANGED <<chatOf, chatStored, out, post, gone, active, bubbles, loads>>

\* onMessageAck: a guarded UPDATE of the row, an event for every receipt; an
\* ack may come late or again.
AckArrives(m, s) ==
    /\ m \in out /\ post[m] # "none"
    /\ chatRow' = [chatRow EXCEPT ![m] = IF m \in named /\ @ \in {"sent", "delivered"} THEN Merged(@, s) ELSE @]
    /\ EmitEvent(ChatEvent("ack", m, s))
    /\ UNCHANGED <<chatOf, named, chatPhone, post, active, bubbles, loads>>

\* onMessageRevoked
RevokeArrives(m) ==
    /\ m \in out \ gone
    /\ gone' = gone \cup {m}
    /\ EmitEvent(ChatEvent("revoked", m, "sent"))
    /\ UNCHANGED <<chatOf, chatStored, out, echoed, post, active, bubbles, loads>>

-----------------------------------------------------------------------------
(* The page.                                                               *)

\* A chat is selected: loadMessages(). The bubbles of the chat before it stay
\* until an answer comes.
OpenChat(c, l) ==
    /\ c # active /\ loads[l].step = "idle"
    /\ active' = c
    /\ loads' = [loads EXCEPT ![l] = [NoLoad EXCEPT !.chat = c, !.step = "asked"]]
    /\ UNCHANGED <<chatOf, chatStored, chatPhone, post, events, bubbles>>

\* The rows the server reads for a history request.
HistoryRows(c) == LET ms == {m \in ChatMessage : chatOf[m] = c /\ chatRow[m] # "none"}
           IN [i \in 1 .. Cardinality(ms) |->
                 LET m == SetToSeq(ms)[i]
                 IN [of |-> m, id |-> IF m \in named THEN "wa" ELSE "row", status |-> chatRow[m],
                     revoked |-> m \in gone /\ m \in named]]

HistoryRead(l) ==
    /\ loads[l].step = "asked"
    /\ loads' = [loads EXCEPT ![l] = [@ EXCEPT !.step = "read", !.data = HistoryRows(loads[l].chat)]]
    /\ UNCHANGED <<chatOf, chatStored, chatPhone, post, events, active, bubbles>>

\* setMessages(data): whatever the list holds, and whichever chat is open.
HistoryShown(l) ==
    /\ loads[l].step = "read"
    /\ bubbles' = loads[l].data
    /\ loads' = [loads EXCEPT ![l] = NoLoad]
    /\ UNCHANGED <<chatOf, chatStored, chatPhone, post, events, active>>

HistoryFails(l) ==
    /\ loads[l].step # "idle"
    /\ bubbles' = <<>>
    /\ loads' = [loads EXCEPT ![l] = NoLoad]
    /\ UNCHANGED <<chatOf, chatStored, chatPhone, post, events, active>>

\* handleSend(): one request at a time (`sending`), a placeholder bubble.
SendMessage(m) ==
    /\ active # NoChatOpen /\ chatOf[m] = NoChatOpen
    /\ \A n \in ChatMessage : post[n] \in {"none", "over"}
    /\ chatOf' = [chatOf EXCEPT ![m] = active]
    /\ post' = [post EXCEPT ![m] = "asked"]
    /\ bubbles' = Append(bubbles, Placeholder(m))
    /\ UNCHANGED <<chatStored, chatPhone, events, active, loads>>

\* As a plausible change: the race guard is missing.
AnsweredUnguarded(m) == BubblesMapped(LAMBDA b : b = Placeholder(m), LAMBDA b : EchoBubble(m))

\* The answer: the placeholder, of which there is one at most, is dropped if the
\* echo was first, else it takes the WhatsApp id.
BubblesAnswered(m) ==
    IF Has(m)
    THEN RemoveFirst(bubbles, Placeholder(m))
    ELSE BubblesMapped(LAMBDA b : b = Placeholder(m), LAMBDA b : EchoBubble(m))

SendAccepted(m) ==
    /\ post[m] = "accepted"
    /\ post' = [post EXCEPT ![m] = "over"]
    /\ bubbles' = BubblesAnswered(m)
    /\ UNCHANGED <<chatOf, chatStored, chatPhone, events, active, loads>>

\* The request fails, at the engine or on its way there and back.
SendRequestFails(m) ==
    /\ post[m] \in {"asked", "accepted"}
    /\ post' = [post EXCEPT ![m] = "over"]
    /\ bubbles' = BubblesMapped(LAMBDA b : b = Placeholder(m), LAMBDA b : [b EXCEPT !.status = "failed"])
    /\ UNCHANGED <<chatOf, chatStored, chatPhone, events, active, loads>>

\* The bubbles after event e.
BubblesAfter(e) ==
    CASE e.kind = "message" -> IF chatOf[e.of] = active /\ ~Has(e.of)
                               THEN Append(bubbles, EchoBubble(e.of)) ELSE bubbles
      [] e.kind = "ack"     -> BubblesMapped(LAMBDA b : Is(b, e.of),
                                      LAMBDA b : [b EXCEPT !.status = Merged(@, e.status)])
      [] e.kind = "revoked" -> BubblesMapped(LAMBDA b : Is(b, e.of), LAMBDA b : [b EXCEPT !.revoked = TRUE])

DeliverEvent ==
    /\ events # <<>>
    /\ events' = Tail(events)
    /\ bubbles' = BubblesAfter(Head(events))
    /\ UNCHANGED <<chatOf, chatStored, chatPhone, post, active, loads>>

\* handleDeleteMessage(): the bubble is emptied when the request succeeds.
DeleteMessage(m) ==
    /\ Has(m) /\ m \in out \ gone
    /\ gone' = gone \cup {m}
    /\ bubbles' = BubblesMapped(LAMBDA b : Is(b, m), LAMBDA b : [b EXCEPT !.revoked = TRUE])
    /\ UNCHANGED <<chatOf, chatStored, out, echoed, post, events, active, loads>>

ChatNext ==
    \/ \E m \in ChatMessage :
        \/ SaveFirst(m) \/ EngineSends(m) \/ SaveSecond(m) \/ EngineRefuses(m)
        \/ SaveReceived(m) \/ EchoSent(m) \/ RevokeArrives(m)
        \/ SendMessage(m) \/ SendAccepted(m) \/ SendRequestFails(m) \/ DeleteMessage(m)
        \/ \E c \in Chat : ReceiveMessage(m, c)
        \/ \E s \in {"sent", "delivered", "failed"} : AckArrives(m, s)
    \/ \E l \in HistoryLoad : HistoryRead(l) \/ HistoryShown(l) \/ HistoryFails(l) \/ \E c \in Chat : OpenChat(c, l)
    \/ DeliverEvent

ChatSpec == ChatInit /\ [][ChatNext]_chatVars

-----------------------------------------------------------------------------
(* Properties.                                                             *)

\* A bubble that no WhatsApp id can match: a row read before its second save,
\* or the placeholder of a request that failed on the way back.
Nameless(b) == b.id = "row" \/ (b.id = "temp" /\ b.status = "failed")

\* No message is drawn twice, in whichever order the answer of the request,
\* the echo on the socket and the history come, except beside such a bubble.
NobodyDrawnTwice ==
    \A i, j \in DOMAIN bubbles :
        i # j /\ bubbles[i].of = bubbles[j].of
        => \/ Nameless(bubbles[i]) \/ Nameless(bubbles[j])
           \/ bubbles[i].id = "temp" /\ post[bubbles[i].of] # "over"
           \/ bubbles[j].id = "temp" /\ post[bubbles[j].of] # "over"

\* The statuses a tick may show after another.
Onward == [pending |-> BubbleStatus, sent |-> {"sent", "delivered", "failed"},
           delivered |-> {"delivered"}, failed |-> {"failed"}]

\* The tick of a message never goes back and a deleted message never comes
\* back, except when a history is drawn that was read before.
TicksAdvance ==
    \/ \A i \in DOMAIN bubbles, j \in DOMAIN bubbles' :
         Is(bubbles[i], bubbles[i].of) /\ Is(bubbles'[j], bubbles[i].of)
         => /\ bubbles'[j].status \in Onward[bubbles[i].status]
            /\ bubbles[i].revoked => bubbles'[j].revoked
    \/ \E l \in HistoryLoad : HistoryShown(l)

TicksOnlyAdvance == [][TicksAdvance]_bubbles
=============================================================================
