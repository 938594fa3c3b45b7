---------------------------- MODULE WebJsInbound ----------------------------
(***************************************************************************)
(* The message events of whatsapp-web-js.adapter.ts (setupEventHandlers),  *)
(* with message-mapper.ts and inbound-media-cap.ts: what SessionService is *)
(* told of each message of the page.  The handler of an incoming message   *)
(* awaits its contact, its media and the message it quotes; the handlers   *)
(* of own messages, acks, revocations and reactions tell at once, so they  *)
(* may overtake the message they are about.                                *)
(***************************************************************************)
EXTENDS Naturals, FiniteSets

CONSTANTS
    PageMessage,
    Peer,       \* conversations: persons, groups and the status broadcast
    Self,       \* the account's own id
    NoChat

VARIABLES
    inUp,         \* the browser runs: events arrive and calls of the page answer
    raw,        \* Message -> the message of the page, once it has arrived
    inJob,        \* Message -> "none", what its handler awaits, "done"
    built,      \* Message -> the IncomingMessage built so far
    told,       \* what SessionService has been told, each with how often
    later       \* Message -> what the page still reports of it

inboundVars == <<inUp, raw, inJob, built, told, later>>

Raw == [from : Peer \cup {Self}, to : Peer \cup {Self}, media : {"none", "small", "big"}, quotes : BOOLEAN]
Later == {"ack", "revoke", "reaction"}
Event == [kind : {"message", "created"} \cup Later, of : PageMessage]
Unbuilt == [chat |-> NoChat, contact |-> "push", media |-> "none", quoted |-> FALSE]

InboundTypeOK ==
    /\ inUp \in BOOLEAN
    /\ raw \in [PageMessage -> Raw]
    /\ inJob \in [PageMessage -> {"none", "contact", "media", "quote", "done"}]
    /\ built \in [PageMessage -> [chat : Peer \cup {Self, NoChat}, contact : {"push", "saved"},
                              media : {"none", "data", "omitted"}, quoted : BOOLEAN]]
    /\ told \in [Event -> [times : 0 .. 2, chat : Peer \cup {Self, NoChat}]]
    /\ later \in [PageMessage -> SUBSET Later]

InboundInit ==
    /\ inUp = TRUE
    /\ raw = [m \in PageMessage |-> [from |-> Self, to |-> Self, media |-> "none", quotes |-> FALSE]]
    /\ inJob = [m \in PageMessage |-> "none"]
    /\ built = [m \in PageMessage |-> Unbuilt]
    /\ told = [e \in Event |-> [times |-> 0, chat |-> NoChat]]
    /\ later = [m \in PageMessage |-> {}]

FromMe(r) == r.from = Self

\* As a plausible change: the conversation is whoever sent the message.
ChatOfSender(r) == r.from

\* buildIncomingMessageBase(): the conversation is the other side.
ChatOf(r) == IF FromMe(r) THEN r.to ELSE r.from

\* message_revoke_everyone compares with the id of the client.
ChatOfRevoked(r) == IF r.from = Self THEN r.to ELSE r.from

Tell(kind, m, chat) ==
    told' = [told EXCEPT ![[kind |-> kind, of |-> m]] = [times |-> @.times + 1, chat |-> chat]]

\* message_create comes for every message, message only for those of others.
OnMessageCreate(m, r) ==
    /\ FromMe(r)
    /\ inJob' = [inJob EXCEPT ![m] = "done"]
    /\ Tell("created", m, ChatOf(r))

OnMessage(m, r) ==
    /\ ~FromMe(r)
    /\ inJob' = [inJob EXCEPT ![m] = "contact"]
    /\ UNCHANGED told

Arrive(m, r) ==
    /\ inUp = TRUE /\ inJob[m] = "none"
    /\ raw' = [raw EXCEPT ![m] = r]
    /\ built' = [built EXCEPT ![m].chat = ChatOf(r)]
    /\ later' = [later EXCEPT ![m] = Later]
    /\ OnMessageCreate(m, r) \/ OnMessage(m, r)
    /\ UNCHANGED inUp

\* getContact(): its failure, or a browser that is gone, leaves the push name.
GetContact(m) ==
    /\ inJob[m] = "contact"
    /\ \E c \in IF inUp THEN {"push", "saved"} ELSE {"push"} : built' = [built EXCEPT ![m].contact = c]
    /\ inJob' = [inJob EXCEPT ![m] = "media"]
    /\ UNCHANGED <<inUp, raw, told, later>>

\* As a plausible change: the size is looked at when the media is sent on.
CapLate(size) == IF size = "none" THEN "none" ELSE "data"

\* capInboundMedia()
Capped(size) == CASE size = "none" -> "none" [] size = "small" -> "data" [] size = "big" -> "omitted"

\* downloadMedia(): answers, finds nothing, or fails.
DownloadMedia(m) ==
    /\ inJob[m] = "media"
    /\ \E size \in IF inUp THEN {raw[m].media, "none"} ELSE {"none"} :
          built' = [built EXCEPT ![m].media = Capped(size)]
    /\ inJob' = [inJob EXCEPT ![m] = "quote"]
    /\ UNCHANGED <<inUp, raw, told, later>>

\* As a plausible change: a quoted message that cannot be read ends the handler.
TellsIfQuoted(m, found) == raw[m].quotes => found

\* The message is told, with or without the message it quotes.
TellsAnyway(m, found) == TRUE

\* getQuotedMessage(), and what follows it without a wait.
GetQuoted(m) ==
    /\ inJob[m] = "quote"
    /\ \E found \in IF inUp THEN BOOLEAN ELSE {FALSE} :
          /\ built' = [built EXCEPT ![m].quoted = raw[m].quotes /\ found]
          /\ IF TellsAnyway(m, found) THEN Tell("message", m, built[m].chat) ELSE UNCHANGED told
    /\ inJob' = [inJob EXCEPT ![m] = "done"]
    /\ UNCHANGED <<inUp, raw, later>>

\* An ack, a revocation or a reaction; the chat of an ack is not told.
Report(m, kind) ==
    /\ inUp = TRUE /\ kind \in later[m]
    /\ later' = [later EXCEPT ![m] = @ \ {kind}]
    /\ Tell(kind, m, CASE kind = "ack" -> NoChat [] kind = "revoke" -> ChatOfRevoked(raw[m])
                       [] kind = "reaction" -> ChatOf(raw[m]))
    /\ UNCHANGED <<inUp, raw, inJob, built>>

\* destroy() or a crash of the browser.
BrowserGone ==
    /\ inUp = TRUE
    /\ inUp' = FALSE
    /\ UNCHANGED <<raw, inJob, built, told, later>>

InboundNext ==
    \/ \E m \in PageMessage, r \in Raw : r.from # r.to /\ (r.from = Self \/ r.to = Self) /\ Arrive(m, r)
    \/ \E m \in PageMessage : GetContact(m) \/ DownloadMedia(m) \/ GetQuoted(m)
    \/ \E m \in PageMessage, kind \in Later : Report(m, kind)
    \/ BrowserGone

InboundSpec == InboundInit /\ [][InboundNext]_inboundVars

-----------------------------------------------------------------------------
(* Properties.                                                             *)

Times(kind, m) == told[[kind |-> kind, of |-> m]].times

\* Whatever fails while a message is completed, the browser included, it is told
\* once: another's as received, an own one as sent.  Its contents are told with
\* it unless they are beyond the cap, and it and its revocation name one chat.
ToldOnce ==
    \A m \in PageMessage : inJob[m] = "done" =>
        /\ Times("message", m) + Times("created", m) = 1
        /\ FromMe(raw[m]) <=> Times("created", m) = 1
        /\ built[m].media = "data" => raw[m].media = "small"
        /\ built[m].media = "omitted" => raw[m].media = "big"
        /\ \A kind \in {"revoke", "reaction"} : Times(kind, m) = 1 =>
              told[[kind |-> kind, of |-> m]].chat = built[m].chat
=============================================================================
