----------------------------- MODULE SessionsPage -----------------------------
(***************************************************************************)
(* The sessions page of the dashboard: its list, which whole answers and   *)
(* single events write, the requests it has under way, and the QR dialog   *)
(* with the poll behind it.  A handler keeps the list of the render its    *)
(* button was drawn in, and most of them write that list back.  The        *)
(* service is here as the rows it answers from and the events it emits.    *)
(* Statuses the page treats alike are one: "idle" is created, idle and     *)
(* disconnected, "coming" what leads to ready.                             *)
(***************************************************************************)
EXTENDS Naturals, Sequences, FiniteSets, SequencesExt

CONSTANTS
  Sid, NoSid,
  PageCall,  \* requests of the page that may be under way at once
  QrFetch,   \* bound: polls of the QR dialog that may be under way at once
  LatePoll,  \* TRUE: a QR dialog may open while a poll of another one is under way
  MaxTurns,  \* bound: buttons pressed and changes of status the engines make
  MaxEvents  \* bound: events on their way to the page

ASSUME PageAssumption == IsFiniteSet(Sid) /\ NoSid \notin Sid /\ LatePoll \in BOOLEAN

Status == {"idle", "coming", "ready", "failed"}

VARIABLES
  pageRow,      \* sessions.status by session, "absent" before there is a row, "gone" after
  pageEvents,   \* session.status events on their way to the page
  pageHeard,    \* the page's socket has joined the room
  pageList,     \* sessions: what the page shows
  pageLoading,  \* a spinner stands for the page
  pageCalls,    \* its requests
  dialog,       \* qrData: the session polled, the name above the code
  dialogName,   \* currentSessionName.current
  qrPoll,       \* the runs of fetchQR(): the session of each and how far it is
  astray,       \* history: sessions whose entry was overwritten by an older list, or whose change was lost
  pageTurns

pageVars ==
  <<pageRow, pageEvents, pageHeard, pageList, pageLoading, pageCalls, dialog, dialogName, qrPoll,
    astray, pageTurns>>

Entry == [of : Sid, status : Status]
NotAsking == [kind |-> "none", of |-> NoSid, at |-> "none", seen |-> <<>>, got |-> <<>>, since |-> {}]
NoModal == [of |-> NoSid, name |-> NoSid]
NoPoll == [of |-> NoSid, at |-> "none"]

\* Requests for the list: fetchSessions() by itself, and awaited by a start, after
\* which the QR dialog opens, or by a start that failed.
Listing == {"fetch", "relist", "recheck"}

PageTypeOK ==
  /\ pageRow \in [Sid -> Status \cup {"absent", "gone"}]
  /\ pageList \in Seq(Entry) /\ pageEvents \in Seq(Entry)
  /\ {pageHeard, pageLoading} \subseteq BOOLEAN
  /\ \A c \in PageCall :
       /\ pageCalls[c].kind \in {"none", "create", "delete", "start", "stop", "kill", "show"} \cup Listing
       /\ pageCalls[c].at \in {"none", "sent", "back"}
       /\ pageCalls[c].seen \in Seq(Entry) /\ pageCalls[c].got \in Seq(Entry)
  /\ dialog \in [of : Sid \cup {NoSid}, name : Sid \cup {NoSid}]
  /\ qrPoll \in [QrFetch -> [of : Sid \cup {NoSid}, at : {"none", "code", "status"}]]
  /\ astray \subseteq Sid

ShownIn(l, s) == {l[i].status : i \in {i \in DOMAIN l : l[i].of = s}}
With(l, s, st) == [i \in DOMAIN l |-> IF l[i].of = s THEN [l[i] EXCEPT !.status = st] ELSE l[i]]

\* A list has a session once (ListedOnce), so the filter removes one entry at most.
LessOne(l, s) ==
  LET at == {i \in DOMAIN l : l[i].of = s}
  IN IF at = {} THEN l ELSE RemoveAt(l, CHOOSE i \in at : TRUE)

\* findAll()
Exists(s) == pageRow[s] \in Status
Rows == LET ss == SetToSeq({s \in Sid : Exists(s)})
        IN [i \in DOMAIN ss |-> [of |-> ss[i], status |-> pageRow[ss[i]]]]

Fetching == [NotAsking EXCEPT !.kind = "fetch", !.at = "sent"]

\* The page is mounted: the first fetchSessions().
PageInit ==
  /\ pageRow \in [Sid -> {"absent", "coming", "ready"}]
  /\ pageEvents = <<>> /\ pageHeard = FALSE
  /\ pageList = <<>> /\ pageLoading = TRUE
  /\ pageCalls = [c \in PageCall |-> IF c = CHOOSE d \in PageCall : TRUE THEN Fetching ELSE NotAsking]
  /\ dialog = NoModal /\ dialogName = NoSid
  /\ qrPoll = [p \in QrFetch |-> NoPoll]
  /\ astray = Sid /\ pageTurns = 0

\* Answers under way that were read before something reached, or missed, the page.
Touched(cs, ss) ==
  [c \in PageCall |-> IF cs[c].at = "back" THEN [cs[c] EXCEPT !.since = @ \cup ss] ELSE cs[c]]

-----------------------------------------------------------------------------
(* The service and the socket.                                              *)

\* updateStatus(): the row, then the event, which a page out of the room misses.
Emits(s, st, cs) ==
  /\ pageRow' = [pageRow EXCEPT ![s] = st]
  /\ IF pageHeard
     THEN /\ Len(pageEvents) < MaxEvents
          /\ pageEvents' = Append(pageEvents, [of |-> s, status |-> st])
          /\ pageCalls' = cs
          /\ UNCHANGED astray
     ELSE /\ pageCalls' = Touched(cs, {s})
          /\ astray' = astray \cup {s}
          /\ UNCHANGED pageEvents

EngineChanges(s, st) ==
  /\ Exists(s) /\ pageRow[s] # st
  /\ pageTurns < MaxTurns /\ pageTurns' = pageTurns + 1
  /\ Emits(s, st, pageCalls)
  /\ UNCHANGED <<pageHeard, pageList, pageLoading, dialog, dialogName, qrPoll>>

\* subscribe('*', ...) whenever the socket is connected.
Subscribes ==
  /\ ~pageHeard
  /\ pageHeard' = TRUE
  /\ UNCHANGED <<pageRow, pageEvents, pageList, pageLoading, pageCalls, dialog, dialogName,
                 qrPoll, astray, pageTurns>>

SocketDrops ==
  /\ pageHeard
  /\ pageHeard' = FALSE /\ pageEvents' = <<>>
  /\ LET lost == {pageEvents[i].of : i \in DOMAIN pageEvents}
     IN /\ astray' = astray \cup lost
        /\ pageCalls' = Touched(pageCalls, lost)
  /\ UNCHANGED <<pageRow, pageList, pageLoading, dialog, dialogName, qrPoll, pageTurns>>

\* The service does what call c asks.
Serves(c) ==
  /\ pageCalls[c].at = "sent"
  /\ LET k == pageCalls[c].kind
         s == pageCalls[c].of
         back == [pageCalls EXCEPT ![c].at = "back"]
     IN \/ /\ k \in Listing
           /\ pageCalls' = [back EXCEPT ![c].got = Rows]
           /\ UNCHANGED <<pageRow, pageEvents, astray>>
        \/ /\ k = "create"
           /\ pageRow' = [pageRow EXCEPT ![s] = "idle"]
           /\ pageCalls' = [Touched(pageCalls, {s}) EXCEPT ![c].at = "back"]
           /\ UNCHANGED <<pageEvents, astray>>
        \/ /\ k = "delete" /\ Exists(s)
           /\ pageRow' = [pageRow EXCEPT ![s] = "gone"]
           /\ pageCalls' = [Touched(pageCalls, {s}) EXCEPT ![c].at = "back"]
           /\ UNCHANGED <<pageEvents, astray>>
        \/ k = "start" /\ Exists(s) /\ Emits(s, "coming", back)
        \/ k \in {"stop", "kill"} /\ Exists(s) /\ Emits(s, "idle", back)
        \/ k = "show" /\ Exists(s) /\ pageCalls' = back /\ UNCHANGED <<pageRow, pageEvents, astray>>
  /\ UNCHANGED <<pageHeard, pageList, pageLoading, dialog, dialogName, qrPoll, pageTurns>>

-----------------------------------------------------------------------------
(* What the page does with events and answers.                              *)

Differing(new) == {s \in Sid : ShownIn(pageList, s) # ShownIn(new, s)}

\* fetchSessions(), not awaited.
FetchesToo(cs) ==
  /\ \E d \in PageCall : cs[d].kind = "none" /\ pageCalls' = [cs EXCEPT ![d] = Fetching]
  /\ pageLoading' = TRUE

\* As a plausible change: a failure is left to the list fetched for its reason.
HearsFetching ==
  /\ pageEvents # <<>>
  /\ LET e == Head(pageEvents)
         cs == Touched(pageCalls, {e.of})
     IN /\ pageEvents' = Tail(pageEvents)
        /\ IF e.status = "failed" THEN FetchesToo(cs) /\ UNCHANGED pageList
           ELSE pageList' = With(pageList, e.of, e.status) /\ pageCalls' = cs /\ UNCHANGED pageLoading
  /\ UNCHANGED <<pageRow, pageHeard, dialog, dialogName, qrPoll, astray, pageTurns>>

\* onSessionStatus()
Hears ==
  /\ pageEvents # <<>>
  /\ LET e == Head(pageEvents)
         cs == Touched(pageCalls, {e.of})
     IN /\ pageEvents' = Tail(pageEvents)
        /\ pageList' = With(pageList, e.of, e.status)
        /\ IF e.status = "failed" THEN FetchesToo(cs) ELSE pageCalls' = cs /\ UNCHANGED pageLoading
  /\ UNCHANGED <<pageRow, pageHeard, dialog, dialogName, qrPoll, astray, pageTurns>>

\* setQrData() of handleShowQR(), before its request.
Opens(s) ==
  /\ LatePoll \/ \A p \in QrFetch : qrPoll[p].of \in {s, NoSid}
  /\ dialog' = [of |-> s, name |-> s] /\ dialogName' = s

Showing(s) == [NotAsking EXCEPT !.kind = "show", !.of = s, !.at = "sent"]

\* What a request for the list was awaited for; "fresh" is what fetchSessions() returned.
GoesOn(c, fresh) ==
  LET s == pageCalls[c].of
      over == /\ pageCalls' = [pageCalls EXCEPT ![c] = NotAsking] /\ UNCHANGED <<dialog, dialogName>>
      shows == /\ Opens(s) /\ pageCalls' = [pageCalls EXCEPT ![c] = Showing(s)]
  IN CASE pageCalls[c].kind = "fetch"   -> over
       [] pageCalls[c].kind = "relist"  -> shows
       [] pageCalls[c].kind = "recheck" -> IF ShownIn(fresh, s) = {"ready"} THEN over ELSE shows

\* setSessions(data): sessions that changed since it was read go astray, the others
\* are found again.
Fetched(c) ==
  /\ pageCalls[c].kind \in Listing /\ pageCalls[c].at = "back"
  /\ pageList' = pageCalls[c].got /\ pageLoading' = FALSE
  /\ astray' = {s \in pageCalls[c].since : s \in Differing(pageList') \/ s \in astray}
  /\ GoesOn(c, pageList')
  /\ UNCHANGED <<pageRow, pageEvents, pageHeard, qrPoll, pageTurns>>

FetchFails(c) ==
  /\ pageCalls[c].kind \in Listing
  /\ pageLoading' = FALSE
  /\ astray' = IF pageCalls[c].kind = "relist" THEN astray \cup {pageCalls[c].of} ELSE astray
  /\ GoesOn(c, <<>>)
  /\ UNCHANGED <<pageRow, pageEvents, pageHeard, pageList, qrPoll, pageTurns>>

\* A handler writes back the list its button was drawn with, but for its own session.
WritesBack(c, new) ==
  /\ pageList' = new
  /\ astray' = astray \cup {s \in Differing(new) : s # pageCalls[c].of \/ s \in pageCalls[c].since}

\* As a plausible change: the new session joins the list of the moment.
CreatedOnTop(c) == Append(pageList, [of |-> pageCalls[c].of, status |-> "idle"])

\* handleCreate()
Created(c) == Append(pageCalls[c].seen, [of |-> pageCalls[c].of, status |-> "idle"])

\* handleDelete(), handleStop(), handleForceKill()
ListAfter(c) ==
  CASE pageCalls[c].kind = "create" -> Created(c)
    [] pageCalls[c].kind = "delete" -> LessOne(pageCalls[c].seen, pageCalls[c].of)
    [] OTHER                    -> With(pageCalls[c].seen, pageCalls[c].of, "idle")

Answered(c) ==
  /\ pageCalls[c].kind \in {"create", "delete", "stop", "kill"} /\ pageCalls[c].at = "back"
  /\ WritesBack(c, ListAfter(c))
  /\ pageCalls' = [pageCalls EXCEPT ![c] = NotAsking]
  /\ UNCHANGED <<pageRow, pageEvents, pageHeard, pageLoading, dialog, dialogName, qrPoll,
                 pageTurns>>

\* A create or delete that fails, though it may have been done, refreshes nothing.
ChangeFails(c) ==
  /\ pageCalls[c].kind \in {"create", "delete"}
  /\ astray' = IF pageCalls[c].at = "back" THEN astray \cup {pageCalls[c].of} ELSE astray
  /\ pageCalls' = [pageCalls EXCEPT ![c] = NotAsking]
  /\ UNCHANGED <<pageRow, pageEvents, pageHeard, pageList, pageLoading, dialog, dialogName,
                 qrPoll, pageTurns>>

StopFails(c) ==
  /\ pageCalls[c].kind \in {"stop", "kill"}
  /\ pageCalls' = [pageCalls EXCEPT ![c] = Fetching] /\ pageLoading' = TRUE
  /\ UNCHANGED <<pageRow, pageEvents, pageHeard, pageList, dialog, dialogName, qrPoll, astray,
                 pageTurns>>

\* handleStart(): "connecting" at once, then the list is awaited.
StartAnswered(c) ==
  /\ pageCalls[c].kind = "start" /\ pageCalls[c].at = "back"
  /\ WritesBack(c, With(pageCalls[c].seen, pageCalls[c].of, "coming"))
  /\ pageCalls' = [pageCalls EXCEPT ![c] = [Fetching EXCEPT !.kind = "relist", !.of = pageCalls[c].of]]
  /\ pageLoading' = TRUE
  /\ UNCHANGED <<pageRow, pageEvents, pageHeard, dialog, dialogName, qrPoll, pageTurns>>

StartFails(c) ==
  /\ pageCalls[c].kind = "start"
  /\ pageCalls' = [pageCalls EXCEPT ![c] = [Fetching EXCEPT !.kind = "recheck", !.of = pageCalls[c].of]]
  /\ pageLoading' = TRUE
  /\ UNCHANGED <<pageRow, pageEvents, pageHeard, pageList, dialog, dialogName, qrPoll, astray,
                 pageTurns>>

\* handleShowQR() has the code: it opens the dialog again if that was closed.
Shown(c) ==
  /\ pageCalls[c].kind = "show" /\ pageCalls[c].at = "back"
  /\ Opens(pageCalls[c].of)
  /\ pageCalls' = [pageCalls EXCEPT ![c] = NotAsking]
  /\ UNCHANGED <<pageRow, pageEvents, pageHeard, pageList, pageLoading, qrPoll, astray, pageTurns>>

\* A request without an answer leaves the dialog to the poll.
ShowFails(c) ==
  /\ pageCalls[c].kind = "show"
  /\ pageCalls' = [pageCalls EXCEPT ![c] = NotAsking]
  /\ UNCHANGED <<pageRow, pageEvents, pageHeard, pageList, pageLoading, dialog, dialogName,
                 qrPoll, astray, pageTurns>>

-----------------------------------------------------------------------------
(* The QR dialog's polls: fetchQR(), by an interval that runs while the     *)
(* dialog is open, whether or not the fetch before has come back.           *)

ClosesDialog == dialog' = NoModal /\ dialogName' = NoSid
PollGoes(p, next) == qrPoll' = [qrPoll EXCEPT ![p] = next]

Polls(p) ==
  /\ dialog # NoModal /\ qrPoll[p] = NoPoll
  /\ IF ShownIn(pageList, dialog.of) = {"ready"} THEN ClosesDialog /\ UNCHANGED qrPoll
     ELSE PollGoes(p, [of |-> dialog.of, at |-> "code"]) /\ UNCHANGED <<dialog, dialogName>>
  /\ UNCHANGED <<pageRow, pageEvents, pageHeard, pageList, pageLoading, pageCalls, astray,
                 pageTurns>>

\* setQrData() of a poll: under the name of the last dialog, none once a poll has
\* closed that.
PollShows(p) == dialog' = [of |-> qrPoll[p].of, name |-> dialogName] /\ UNCHANGED dialogName

\* getQR() answers; a session that is ready meanwhile needs no code.  The row was read
\* some time after the poll was sent: a code may be shown after the session is ready,
\* gone, or after a later poll was answered.
PollAnswered(p) ==
  /\ qrPoll[p].at = "code"
  /\ PollGoes(p, NoPoll)
  /\ \/ Exists(qrPoll[p].of) /\ pageRow[qrPoll[p].of] = "ready" /\ ClosesDialog /\ FetchesToo(pageCalls)
     \/ PollShows(p) /\ UNCHANGED <<pageCalls, pageLoading>>
  /\ UNCHANGED <<pageRow, pageEvents, pageHeard, pageList, astray, pageTurns>>

\* getQR() fails: is the session still on its way?
PollRefused(p) ==
  /\ qrPoll[p].at = "code"
  /\ PollGoes(p, [qrPoll[p] EXCEPT !.at = "status"])
  /\ UNCHANGED <<pageRow, pageEvents, pageHeard, pageList, pageLoading, pageCalls, dialog,
                 dialogName, astray, pageTurns>>

PollEnds(p) ==
  /\ qrPoll[p].at = "status"
  /\ PollGoes(p, NoPoll)
  /\ \/ pageRow[qrPoll[p].of] = "coming" /\ UNCHANGED <<pageCalls, pageLoading, dialog, dialogName>>
     \/ ClosesDialog /\ FetchesToo(pageCalls)
  /\ UNCHANGED <<pageRow, pageEvents, pageHeard, pageList, astray, pageTurns>>

-----------------------------------------------------------------------------
(* The user.  A spinner or a dialog covers the buttons.                     *)

UserCloses ==
  /\ dialog # NoModal /\ ~pageLoading
  /\ dialog' = NoModal
  /\ UNCHANGED <<pageRow, pageEvents, pageHeard, pageList, pageLoading, pageCalls, dialogName,
                 qrPoll, astray, pageTurns>>

\* The buttons drawn for session s.
Buttons(s) ==
  CASE ShownIn(pageList, s) = {"idle"}   -> {"start", "delete"}
    [] ShownIn(pageList, s) = {"coming"} -> {"stop", "delete", "show"}
    [] ShownIn(pageList, s) = {"ready"}  -> {"stop", "delete"}
    [] ShownIn(pageList, s) = {"failed"} -> {"start", "delete", "kill"}
    [] ShownIn(pageList, s) = {} /\ pageRow[s] = "absent"
       /\ (\A c \in PageCall : pageCalls[c].kind # "create") -> {"create"}
    [] OTHER -> {}

Clicks(c, s) ==
  /\ ~pageLoading /\ dialog = NoModal /\ pageCalls[c].kind = "none"
  /\ pageTurns < MaxTurns /\ pageTurns' = pageTurns + 1
  /\ \E b \in Buttons(s) :
       /\ pageCalls' = [pageCalls EXCEPT ![c] = [NotAsking EXCEPT !.kind = b, !.of = s, !.at = "sent",
                                                     !.seen = IF b = "show" THEN <<>> ELSE pageList]]
       /\ IF b = "show" THEN Opens(s) ELSE UNCHANGED <<dialog, dialogName>>
  /\ UNCHANGED <<pageRow, pageEvents, pageHeard, pageList, pageLoading, qrPoll, astray>>

PageNext ==
  \/ \E s \in Sid, st \in Status : EngineChanges(s, st)
  \/ Subscribes \/ SocketDrops \/ Hears
  \/ \E c \in PageCall : Serves(c) \/ Fetched(c) \/ FetchFails(c) \/ Answered(c) \/ ChangeFails(c)
                       \/ StopFails(c) \/ StartAnswered(c) \/ StartFails(c) \/ Shown(c) \/ ShowFails(c)
                       \/ \E s \in Sid : Clicks(c, s)
  \/ UserCloses
  \/ \E p \in QrFetch : Polls(p) \/ PollAnswered(p) \/ PollRefused(p) \/ PollEnds(p)

PageSpec == PageInit /\ [][PageNext]_pageVars

-----------------------------------------------------------------------------
\* However a create, the lists read before and after it and the list it was asked from
\* come together, no session is shown twice.
ListedOnce == \A i, j \in DOMAIN pageList : pageList[i].of = pageList[j].of => i = j

\* Once nothing is under way the page shows what the service has, for every session
\* but those whose change the socket missed or an older list took back.
ListAgrees ==
  (pageEvents = <<>> /\ \A c \in PageCall : pageCalls[c].kind \in {"none", "show"}) =>
    \A s \in Sid \ astray : ShownIn(pageList, s) = IF Exists(s) THEN {pageRow[s]} ELSE {}

\* No code is shown under another session's name, unless a poll of one dialog outlives
\* it and another is opened meanwhile (LatePoll); a poll that another one overtook,
\* which found the session ready, shows it without a name.
NameAgrees == dialog.of # NoSid => dialog.name \in {dialog.of, NoSid}
=============================================================================
