------------------------------ MODULE Translation ------------------------------
(***************************************************************************)
(* The translation extension in one group.  Its state is one document,     *)
(* loaded when a message comes and saved as a whole when the message has   *)
(* been handled; nothing makes the messages of a group wait for each other,*)
(* so one handled at the same time as another saves over what it did.      *)
(***************************************************************************)
EXTENDS Naturals, FiniteSets

CONSTANTS Person, Lang,
  NoLang,        \* no language
  TrJob,         \* the messages being handled at one time
  Threshold,   \* failures in a row that open the circuit
  MaxMessages  \* bound

ASSUME TrAssumption == IsFiniteSet(Lang) /\ Threshold \in Nat /\ MaxMessages \in Nat

VARIABLES
  trDoc,      \* the document in the storage of the plugin
  trFailures, \* consecutiveFailures of the client
  trOpen,     \* whether openUntil is in the future
  trJob,      \* handleMessage()
  trMessages  \* how many have come

trVars == <<trDoc, trFailures, trOpen, trJob, trMessages>>

-----------------------------------------------------------------------------
\* A participant that is not there yet is as ensureParticipant() makes it.
NewParticipant == [lang |-> NoLang, pinned |-> FALSE, enabled |-> TRUE, pending |-> NoLang]

NewGroup == [active |-> FALSE, announced |-> FALSE, people |-> [p \in Person |-> NewParticipant]]

\* What a participant reads, if the extension knows it and was not told to ignore him.
Reads(s) == [p \in Person |-> IF s.people[p].enabled THEN s.people[p].lang ELSE NoLang]

\* heard: a history, what everybody read in the document when the message came.
TrIdle == [at |-> "idle", state |-> NewGroup, heard |-> Reads(NewGroup), sender |-> NoLang,
           cmd |-> "none", source |-> NoLang, own |-> NoLang, targets |-> {}]

Commands == {"help", "status", "on", "off", "setlang", "auto", "ignore", "unignore"}

Known(state) ==
  {state.people[p].lang : p \in {q \in Person : state.people[q].enabled}} \ {NoLang}

Participant == [lang : Lang \cup {NoLang}, pinned : BOOLEAN, enabled : BOOLEAN, pending : Lang \cup {NoLang}]

TrTypeOK ==
  /\ trFailures \in Nat /\ trOpen \in BOOLEAN /\ trMessages \in 0..MaxMessages
  /\ \A s \in {trDoc} \cup {trJob[j].state : j \in TrJob} :
       /\ s.active \in BOOLEAN /\ s.announced \in BOOLEAN
       /\ s.people \in [Person -> Participant]
  /\ \A j \in TrJob :
       /\ trJob[j].at \in {"idle", "announcing", "handling", "asking", "detecting", "translating", "replying", "saving"}
       /\ trJob[j].sender \in Person \cup {NoLang} /\ trJob[j].cmd \in Commands \cup {"none"}
       /\ trJob[j].source \in Lang \cup {NoLang} /\ trJob[j].own \in Lang \cup {NoLang}
       /\ trJob[j].heard \in [Person -> Lang \cup {NoLang}] /\ trJob[j].targets \subseteq Lang

\* The document that was stored before, if the group is not new.
StoredGroup == [active : BOOLEAN, announced : {TRUE}, people : [Person -> Participant]]

TrInit ==
  /\ trDoc = NewGroup \/ trDoc \in StoredGroup
  /\ trFailures = 0 /\ trOpen = FALSE
  /\ trJob = [j \in TrJob |-> TrIdle]
  /\ trMessages = 0

-----------------------------------------------------------------------------
Goes(j, e) == trJob' = [trJob EXCEPT ![j] = e]

\* The state is loaded and, the first time in the group, the help announced.
Receive(j) ==
  /\ trJob[j].at = "idle" /\ trMessages < MaxMessages
  /\ trMessages' = trMessages + 1
  /\ Goes(j, [TrIdle EXCEPT !.state = trDoc, !.heard = Reads(trDoc),
                          !.at = IF trDoc.announced THEN "handling" ELSE "announcing"])
  /\ UNCHANGED <<trDoc, trFailures, trOpen>>

Announced(j) ==
  /\ trJob[j].at = "announcing"
  /\ LET s == [trJob[j].state EXCEPT !.announced = TRUE] IN
       /\ trDoc' = s
       /\ Goes(j, [trJob[j] EXCEPT !.state = s, !.at = "handling"])
  /\ UNCHANGED <<trFailures, trOpen, trMessages>>

\* Sending to the group fails: the hook logs it, and nothing more is saved.
SendFails(j) ==
  /\ trJob[j].at \in {"announcing", "asking", "replying"}
  /\ Goes(j, TrIdle)
  /\ UNCHANGED <<trDoc, trFailures, trOpen, trMessages>>

(* Commands.                                                                *)

\* parseCommand() finds one; unless it is for everyone, the admins are asked for.
Command(j, cmd) ==
  /\ trJob[j].at = "handling"
  /\ Goes(j, IF cmd \in {"help", "status"} THEN TrIdle ELSE [trJob[j] EXCEPT !.at = "asking", !.cmd = cmd])
  /\ UNCHANGED <<trDoc, trFailures, trOpen, trMessages>>

\* Not an admin, no target or an unsupported language: answered and nothing saved.
CommandRefused(j) ==
  /\ trJob[j].at = "asking"
  /\ Goes(j, TrIdle)
  /\ UNCHANGED <<trDoc, trFailures, trOpen, trMessages>>

\* A command on person p changes the state that was loaded.
Changed(s, cmd, p, lang) ==
  CASE cmd = "on" -> [s EXCEPT !.active = TRUE]
    [] cmd = "off" -> [s EXCEPT !.active = FALSE]
    [] cmd = "setlang" -> [s EXCEPT !.people[p] = [@ EXCEPT !.lang = lang, !.pinned = TRUE, !.pending = NoLang]]
    [] cmd = "auto" -> [s EXCEPT !.people[p] = [@ EXCEPT !.pinned = FALSE, !.pending = NoLang]]
    [] cmd = "ignore" -> [s EXCEPT !.people[p].enabled = FALSE]
    [] cmd = "unignore" -> [s EXCEPT !.people[p].enabled = TRUE]

\* confirm() saves and then answers.
Confirmed(j) ==
  /\ trJob[j].at = "asking"
  /\ \E p \in Person, lang \in Lang : trDoc' = Changed(trJob[j].state, trJob[j].cmd, p, lang)
  /\ Goes(j, TrIdle)
  /\ UNCHANGED <<trFailures, trOpen, trMessages>>

(* Messages to translate.                                                   *)

\* The group is not active, the text is not worth it, or its sender is left out.
Skipped(j) ==
  /\ trJob[j].at = "handling"
  /\ Goes(j, TrIdle)
  /\ UNCHANGED <<trDoc, trFailures, trOpen, trMessages>>

\* The sender is the author or, as whatsapp-web.js mistakes one for another, the
\* participant whom the name points to.
Text(j, sender) ==
  /\ trJob[j].at = "handling"
  /\ trJob[j].state.active /\ trJob[j].state.people[sender].enabled
  /\ ~trOpen
  /\ Goes(j, [trJob[j] EXCEPT !.at = "detecting", !.sender = sender])
  /\ UNCHANGED <<trDoc, trFailures, trOpen, trMessages>>

\* applyLearning(): a new language counts when it is seen a second time in a row.
Learned(p, detected) ==
  IF p.pinned THEN p
  ELSE IF p.lang = detected THEN [p EXCEPT !.pending = NoLang]
  ELSE IF p.pending = detected THEN [p EXCEPT !.lang = detected, !.pending = NoLang]
  ELSE [p EXCEPT !.pending = detected, !.lang = IF p.lang = NoLang THEN detected ELSE @]

\* Mutant of Targets: without the backstop.
TargetsNone(known, source, own) == known \ {source, own}

\* targetLanguages(): not the source, not the sender's own; if that leaves nobody, all
\* but the source.
Targets(known, source, own) ==
  LET others == known \ {source, own} IN IF others = {} THEN known \ {source} ELSE others

\* Detection is often wrong: it is believed of the languages of the group only.
Detected(j, detected) ==
  /\ trJob[j].at = "detecting"
  /\ trFailures' = 0
  /\ LET who == trJob[j].sender
         s == [trJob[j].state EXCEPT !.people[who] = Learned(@, detected)]
         own == s.people[who].lang
         source == IF detected \in Known(s) \/ own = NoLang THEN detected ELSE own
         targets == Targets(Known(s), source, own) IN
       Goes(j, [trJob[j] EXCEPT !.state = s, !.source = source, !.own = own, !.targets = targets,
                              !.at = IF targets = {} \/ trOpen THEN "saving" ELSE "translating"])
  /\ UNCHANGED <<trDoc, trOpen, trMessages>>

\* post() fails: the message is skipped.
DetectFails(j) ==
  /\ trJob[j].at = "detecting"
  /\ trFailures' = trFailures + 1
  /\ trOpen' = (trOpen \/ trFailures + 1 >= Threshold)
  /\ Goes(j, TrIdle)
  /\ UNCHANGED <<trDoc, trMessages>>

\* Some of the requests fail; what could be translated is sent in one reply.  A request
\* that succeeds after others have failed starts the count again.
Translated(j) ==
  /\ trJob[j].at = "translating"
  /\ \E bad \in SUBSET trJob[j].targets :
       /\ trFailures' \in IF bad = trJob[j].targets THEN {trFailures + Cardinality(bad)} ELSE 0..Cardinality(bad)
       /\ trOpen' \in {trOpen \/ trFailures' >= Threshold, trOpen \/ trFailures + Cardinality(bad) >= Threshold}
       /\ Goes(j, [trJob[j] EXCEPT !.at = IF bad = trJob[j].targets THEN "saving" ELSE "replying"])
  /\ UNCHANGED <<trDoc, trMessages>>

\* A message that was translated, or had nobody to be translated for, is saved.
Saved(j) ==
  /\ trJob[j].at \in {"replying", "saving"}
  /\ trDoc' = trJob[j].state
  /\ Goes(j, TrIdle)
  /\ UNCHANGED <<trFailures, trOpen, trMessages>>

\* The time of the cooldown is over; the count of failures stays.
CooledDown ==
  /\ trOpen
  /\ trOpen' = FALSE
  /\ UNCHANGED <<trDoc, trFailures, trJob, trMessages>>

TrNext ==
  \/ \E j \in TrJob, p \in Person : Text(j, p)
  \/ \E j \in TrJob, c \in Commands : Command(j, c)
  \/ \E j \in TrJob, l \in Lang : Detected(j, l)
  \/ \E j \in TrJob : Receive(j) \/ Announced(j) \/ SendFails(j) \/ CommandRefused(j) \/ Confirmed(j) \/ Skipped(j)
                      \/ DetectFails(j) \/ Translated(j) \/ Saved(j)
  \/ CooledDown

TrSpec == TrInit /\ [][TrNext]_trVars

-----------------------------------------------------------------------------
\* What others than the sender read, in the document as it was when the message came.
Readers(c) == {c.heard[p] : p \in Person \ {c.sender}} \ {NoLang}

\* Whatever is detected, mistaken, pinned or saved over meanwhile: of a message that is
\* handled no translation into the language it is taken to be in is requested, one is
\* for every language others read but that and the sender's own (of whose readers the
\* code takes care only when nobody reads a third one), and none at all is requested
\* only when all others read the language it is taken to be in.
ReadersAsked ==
  \A j \in TrJob : trJob[j].at \in {"translating", "replying", "saving"} =>
    /\ trJob[j].source \notin trJob[j].targets
    /\ Readers(trJob[j]) \ {trJob[j].source, trJob[j].own} \subseteq trJob[j].targets
    /\ trJob[j].targets = {} => Readers(trJob[j]) \subseteq {trJob[j].source}

\* Messages that save over each other undo commands and what was learnt, but never that
\* the help was announced: every document that is saved says so, and no message that
\* comes after one announces it again.
AnnouncedStays == trDoc # NewGroup => trDoc.announced
=============================================================================
