------------------------------ MODULE EngineCalls ------------------------------
(***************************************************************************)
(* A request that an API service passes on to the engine of a session:     *)
(* what each operation of the two adapters awaits, in order, and how the   *)
(* request ends when a step fails or the engine is torn down between two   *)
(* steps.  The libraries behind the adapters are external: each of their   *)
(* calls may reject; one that rejects has done nothing.                    *)
(***************************************************************************)
EXTENDS Sequences, Naturals

CONSTANT CallRequest

VARIABLES
  callAdapter,  \* which engine is configured
  callEngine,   \* engines.get(id), and whether it is READY and has its client
  apiCall      \* the requests

callVars == <<callAdapter, callEngine, apiCall>>

-----------------------------------------------------------------------------
\* The awaits of an operation:
\*   load     something other than the library: a remote file, an import
\*   ask      a query, through this.client or this.sock
\*   find     the message or chat asked for, which may be unknown
\*   group    whether the chat found is a group
\*   send     the effect, through this.client or this.sock
\*   act      the effect, through an object that the library gave before
\*   recover  after the effect, the id of what was sent; never fails the request
Through == {"ask", "send", "recover"}
Effect == {"send", "act"}

\* Plain operations reject when a step does, quiet ones log it and answer null,
\* false or an empty list.
Plain(names, steps) == {[name |-> n, steps |-> steps, quiet |-> FALSE] : n \in names}
Quiet(names, steps) == {[name |-> n, steps |-> steps, quiet |-> TRUE] : n \in names}

(* whatsapp-web.js-adapter.                                                 *)
WebJsSends ==
  Plain({"sendTextMessage"}, <<"send">>) \cup
  Plain({"sendImageMessage", "sendVideoMessage", "sendAudioMessage", "sendDocumentMessage"},
        <<"load", "send">>)

WebJsContacts ==
  Plain({"getContacts", "getNumberId", "checkNumberExists", "getGroups"}, <<"ask">>) \cup
  Quiet({"getContactById", "resolveContactPhone"}, <<"ask">>)

WebJsMoreSends ==
  Plain({"sendLocationMessage", "sendStickerMessage"}, <<"load", "send">>) \cup
  Plain({"sendContactMessage"}, <<"send">>)

WebJsReply == Plain({"replyToMessage"}, <<"ask", "find", "act">>)

\* The library's forward() returns nothing: the copy is looked for in the chat.
WebJsForward == Plain({"forwardMessage"}, <<"ask", "find", "act", "recover">>)

WebJsGroups ==
  Quiet({"getGroupInfo"}, <<"ask">>) \cup
  Plain({"createGroup"}, <<"send">>) \cup
  Plain({"addParticipants", "removeParticipants", "promoteParticipants", "demoteParticipants"},
        <<"ask", "group", "act">>)

WebJsGroupSettings ==
  Plain({"leaveGroup", "setGroupSubject", "setGroupDescription"}, <<"ask", "group", "act">>)

WebJsReactions ==
  Plain({"reactToMessage"}, <<"ask", "find", "act">>) \cup
  Plain({"getMessageReactions"}, <<"ask", "find", "load">>)

WebJsLabels ==
  Plain({"getLabels", "getLabelById"}, <<"ask">>) \cup
  Plain({"getChatLabels"}, <<"ask", "load">>) \cup
  Plain({"addLabelToChat", "removeLabelFromChat"}, <<"ask", "act">>)

WebJsChannels ==
  Plain({"getSubscribedChannels"}, <<"ask">>) \cup
  Quiet({"getChannelById"}, <<"ask">>) \cup
  Plain({"subscribeToChannel", "unsubscribeFromChannel"}, <<"send">>) \cup
  Quiet({"getChannelMessages"}, <<"ask", "find", "load">>)

WebJsHistory == Plain({"getChatHistory"}, <<"ask", "load">>)

WebJsDelete == Plain({"deleteMessage"}, <<"ask", "find", "act">>)

WebJsBlocking ==
  Quiet({"getProfilePicture"}, <<"ask">>) \cup
  Plain({"blockContact", "unblockContact"}, <<"ask", "act">>) \cup
  Plain({"getGroupInviteCode"}, <<"ask", "group", "load">>) \cup
  Plain({"revokeGroupInviteCode"}, <<"ask", "group", "act">>)

\* Stubs, which still ask whether the engine is ready.
WebJsStubs ==
  Plain({"getContactStatuses", "getContactStatus", "getCatalog", "getProducts", "getProduct"}, <<>>)

WebJsChats ==
  Plain({"getChats"}, <<"ask">>) \cup
  Quiet({"sendSeen", "markUnread", "deleteChat", "sendChatState"}, <<"ask", "act">>)

(* baileys-adapter.                                                         *)
BaileysSends ==
  Plain({"sendTextMessage"}, <<"send">>) \cup
  Plain({"checkNumberExists", "getNumberId"}, <<"ask">>) \cup
  Plain({"sendChatState"}, <<"send">>) \cup
  Plain({"sendImageMessage", "sendVideoMessage", "sendAudioMessage", "sendDocumentMessage",
         "sendStickerMessage"}, <<"load", "send">>) \cup
  Plain({"sendLocationMessage", "sendContactMessage"}, <<"send">>)

\* By an id that only the message store can resolve.
BaileysById ==
  Plain({"replyToMessage", "forwardMessage", "reactToMessage", "deleteMessage"}, <<"find", "send">>)

BaileysGroups ==
  Plain({"getGroups", "getGroupInviteCode"}, <<"ask">>) \cup
  Quiet({"getGroupInfo"}, <<"ask">>) \cup
  Plain({"createGroup", "addParticipants", "removeParticipants", "promoteParticipants",
         "demoteParticipants", "leaveGroup", "setGroupSubject", "setGroupDescription",
         "revokeGroupInviteCode"}, <<"send">>)

BaileysBlocking ==
  Quiet({"getProfilePicture"}, <<"ask">>) \cup
  Plain({"blockContact", "unblockContact"}, <<"send">>)

\* From the snapshot in memory; a chat without a known message answers false at once.
BaileysChats ==
  Plain({"getContacts", "getContactById", "resolveContactPhone", "getChats",
         "sendSeen", "markUnread", "deleteChat"}, <<>>) \cup
  Plain({"sendSeen", "markUnread", "deleteChat"}, <<"send">>)

-----------------------------------------------------------------------------
\* Not in this adapter: rejected before anything is asked (baileys) or after (webjs).
BaileysUnsupported ==
  Plain({"getMessageReactions", "getChatHistory", "getLabels", "getLabelById", "getChatLabels",
   "addLabelToChat", "removeLabelFromChat", "getSubscribedChannels", "getChannelById",
   "subscribeToChannel", "unsubscribeFromChannel", "getChannelMessages", "getContactStatuses",
   "getContactStatus", "postTextStatus", "postImageStatus", "postVideoStatus", "deleteStatus",
   "getCatalog", "getProducts", "getProduct", "sendProduct", "sendCatalog"}, <<"unsupported">>)

WebJsUnsupported ==
  Plain({"postTextStatus", "postImageStatus", "postVideoStatus", "deleteStatus", "sendProduct",
         "sendCatalog"}, <<"unsupported">>)

Operations ==
  [webjs |-> UNION {WebJsSends, WebJsContacts, WebJsMoreSends, WebJsReply, WebJsForward,
       WebJsGroups, WebJsGroupSettings, WebJsReactions, WebJsLabels, WebJsChannels,
       WebJsHistory, WebJsDelete, WebJsBlocking, WebJsStubs, WebJsChats, WebJsUnsupported},
   baileys |-> UNION {BaileysSends, BaileysById, BaileysGroups, BaileysBlocking, BaileysChats,
       BaileysUnsupported}]

-----------------------------------------------------------------------------
(* The services.                                                            *)

Answer == {"none", "ok", "absent", "conflict", "unsupported", "not started", "error", "crash"}

\* op is a set of one operation, or empty.
NoCall == [op |-> {}, at |-> 0, up |-> TRUE, did |-> FALSE, answer |-> "none"]

CallTypeOK ==
  /\ callAdapter \in DOMAIN Operations
  /\ callEngine \in {"none", "starting", "ready"}
  /\ apiCall \in [CallRequest -> [op : SUBSET Operations[callAdapter], at : 0..4, up : BOOLEAN,
                           did : BOOLEAN, answer : Answer]]

CallInit ==
  /\ callAdapter \in DOMAIN Operations
  /\ callEngine = "none"
  /\ apiCall = [r \in CallRequest |-> NoCall]

\* Where an empty answer of the engine is a 404 of the service.
NotFoundIfNull == {"getGroupInfo", "getContactById", "getLabelById", "getChannelById"}

Nulls(op) == IF op.name \in NotFoundIfNull THEN "absent" ELSE "ok"

\* Mutant of Failed: looking for the copy of a forwarded message may fail the request.
FailedAnyway(op, step, why) == IF op.quiet THEN Nulls(op) ELSE why

\* The answer when a step fails for the reason why.
Failed(op, step, why) ==
  IF op.quiet THEN Nulls(op) ELSE IF step = "recover" THEN "ok" ELSE why

\* Step i of the operation begins, if there is one: what goes through a client or
\* socket that is null by now ends in a TypeError.
Reached(c, op, i) ==
  IF i > Len(op.steps) THEN [c EXCEPT !.answer = "ok"]
  ELSE IF op.steps[i] \in Through /\ ~c.up
       THEN [c EXCEPT !.answer = Failed(op, op.steps[i], "crash")]
       ELSE [c EXCEPT !.at = i]

\* The status and catalog services answer 404 where the others answer 400.
NotFoundIfNone ==
  {"getContactStatuses", "getContactStatus", "postTextStatus", "postImageStatus", "postVideoStatus",
   "deleteStatus", "getCatalog", "getProducts", "getProduct", "sendProduct", "sendCatalog"}

Rejected == <<"unsupported">>

\* The lookup of the engine, unsupported(), then ensureReady(): the answers that end
\* the request before its first step.
Refusals(op) ==
  IF callEngine = "none" THEN {IF op.name \in NotFoundIfNone THEN "absent" ELSE "not started"}
  ELSE IF callAdapter = "baileys" /\ op.steps = Rejected THEN {"unsupported"}
  ELSE IF callEngine = "starting" THEN {"conflict"}
  ELSE IF op.steps = Rejected THEN {"unsupported"}
  ELSE {}

\* A request of any of the services.
BeginCall(r, op) ==
  /\ apiCall[r].op = {}
  /\ LET c == [NoCall EXCEPT !.op = {op}] IN
       apiCall' = [apiCall EXCEPT ![r] =
                  IF Refusals(op) = {} THEN Reached(c, op, 1)
                  ELSE [c EXCEPT !.answer = CHOOSE a \in Refusals(op) : TRUE]]
  /\ UNCHANGED <<callAdapter, callEngine>>

StepSucceeds(r, op) ==
  /\ apiCall[r].op = {op} /\ apiCall[r].answer = "none"
  /\ LET c == [apiCall[r] EXCEPT !.did = @ \/ op.steps[apiCall[r].at] \in Effect] IN
       apiCall' = [apiCall EXCEPT ![r] = Reached(c, op, c.at + 1)]
  /\ UNCHANGED <<callAdapter, callEngine>>

\* The library rejects, the message is not found, the chat is not a group.
StepFails(r, op) ==
  /\ apiCall[r].op = {op} /\ apiCall[r].answer = "none"
  /\ LET step == op.steps[apiCall[r].at] IN
       \E why \in {"error"} \cup (IF step = "find" THEN {"absent"} ELSE {}) :
         apiCall' = [apiCall EXCEPT ![r].answer = Failed(op, step, why)]
  /\ UNCHANGED <<callAdapter, callEngine>>

\* The caller has its answer and asks for something else.
CallAnswered(r) ==
  /\ apiCall[r].answer # "none"
  /\ apiCall' = [apiCall EXCEPT ![r] = NoCall]
  /\ UNCHANGED <<callAdapter, callEngine>>

\* The session is started, gets ready and loses its connection.
SessionMoves ==
  /\ callEngine' \in CASE callEngine = "none" -> {"starting"}
                  [] callEngine = "starting" -> {"ready"}
                  [] callEngine = "ready" -> {"starting"}
  /\ UNCHANGED <<callAdapter, apiCall>>

\* disconnect() and destroy() set the client or socket to null under the requests
\* that hold the adapter.
CallTearDown ==
  /\ callEngine # "none"
  /\ callEngine' = "none"
  /\ apiCall' = [r \in CallRequest |-> [apiCall[r] EXCEPT !.up = @ /\ apiCall[r].op = {}]]
  /\ UNCHANGED callAdapter

CallNext ==
  \/ \E r \in CallRequest, op \in Operations[callAdapter] :
       BeginCall(r, op) \/ StepSucceeds(r, op) \/ StepFails(r, op)
  \/ \E r \in CallRequest : CallAnswered(r)
  \/ SessionMoves \/ CallTearDown

CallSpec == CallInit /\ [][CallNext]_callVars

-----------------------------------------------------------------------------
\* What has been done in WhatsApp is never answered with an error, whatever fails or
\* is torn down after it: a client that is told of an error repeats the request, and
\* a copy of the message is sent twice.
DoneIsTold == \A r \in CallRequest : apiCall[r].did => apiCall[r].answer \in {"none", "ok"}
=============================================================================
