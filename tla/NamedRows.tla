------------------------------ MODULE NamedRows ------------------------------
(***************************************************************************)
(* Rows with a name: sessions (session.service.ts, create) and templates   *)
(* (template.service.ts), in a database that keeps the names unique and    *)
(* deletes a session's templates with it.  A request reads first and       *)
(* writes later, so that two requests interleave between the two.          *)
(***************************************************************************)
EXTENDS Naturals, FiniteSets

CONSTANTS NamedSession, Template, RowName, RowCall, NoName

ASSUME NamesAssumption == NoName \notin NamedSession \cup RowName

VARIABLES
    rowDialect,     \* "sqlite" or "postgres"
    sessionRow,     \* Session -> its name, None if there is no such row
    templateRow,    \* Template -> [of, name], NoRow if there is none
    rowCall,        \* Call -> what a request is about to write
    rowAnswer       \* Call -> how the request before ended

namesVars == <<rowDialect, sessionRow, templateRow, rowCall, rowAnswer>>

NoWrite == [op |-> "none"]
TemplateRows == [of : NamedSession, name : RowName]
NoRow == [of |-> NoName, name |-> NoName]

NamesTypeOK ==
    /\ rowDialect \in {"sqlite", "postgres"}
    /\ sessionRow \in [NamedSession -> RowName \cup {NoName}]
    /\ templateRow \in [Template -> TemplateRows \cup {NoRow}]
    /\ \A c \in RowCall : rowCall[c].op \in {"none", "session", "update", "delete"}
    /\ rowAnswer \in [RowCall -> {"none", "saved", "conflict", "missing", "error"}]

NamesInit ==
    /\ rowDialect \in {"sqlite", "postgres"}
    /\ sessionRow = [s \in NamedSession |-> NoName] /\ templateRow = [t \in Template |-> NoRow]
    /\ rowCall = [c \in RowCall |-> NoWrite] /\ rowAnswer = [c \in RowCall |-> "none"]

AnswerRow(c, a) == rowCall' = [rowCall EXCEPT ![c] = NoWrite] /\ rowAnswer' = [rowAnswer EXCEPT ![c] = a]
WaitToWrite(c, w) == rowCall' = [rowCall EXCEPT ![c] = w] /\ rowAnswer' = [rowAnswer EXCEPT ![c] = "none"]

-----------------------------------------------------------------------------
(* SessionService.create(): a lookup, then an insert in a transaction.     *)

NameTaken(n) == \E s \in NamedSession : sessionRow[s] = n

FindSession(c, n) ==
    /\ rowCall[c].op = "none"
    /\ IF NameTaken(n) THEN AnswerRow(c, "conflict") ELSE WaitToWrite(c, [op |-> "session", name |-> n])
    /\ UNCHANGED <<rowDialect, sessionRow, templateRow>>

\* Two creates of one name that both found none: the second breaks the unique
\* column, and its error is passed on as it is.
SaveSession(c, s) ==
    /\ rowCall[c].op = "session" /\ sessionRow[s] = NoName
    /\ IF NameTaken(rowCall[c].name)
       THEN AnswerRow(c, "error") /\ UNCHANGED sessionRow
       ELSE AnswerRow(c, "saved") /\ sessionRow' = [sessionRow EXCEPT ![s] = rowCall[c].name]
    /\ UNCHANGED <<rowDialect, templateRow>>

\* The row of a session goes, and with it its templates (ON DELETE CASCADE).
DeleteSession(s) ==
    /\ sessionRow[s] # NoName
    /\ sessionRow' = [sessionRow EXCEPT ![s] = NoName]
    /\ templateRow' = [t \in Template |-> IF templateRow[t].of = s THEN NoRow ELSE templateRow[t]]
    /\ UNCHANGED <<rowDialect, rowCall, rowAnswer>>

-----------------------------------------------------------------------------
(* TemplateService.                                                        *)

\* resolve() by name
Named(s, n) == {t \in Template : templateRow[t] = [of |-> s, name |-> n]}

\* As a plausible change: the index is not unique.
ClashesNever(t, r) == FALSE

\* The unique index on a session and a name.
Clashes(t, r) == Named(r.of, r.name) \ {t} # {}

Orphan(r) == sessionRow[r.of] = NoName

\* isUniqueViolation(): with SQLite the code of every constraint is the same, the
\* foreign key's included.
Refusal(t, r) == IF Clashes(t, r) \/ rowDialect = "sqlite" THEN "conflict" ELSE "error"

\* save() of a row: inserted or updated, unless a constraint refuses it.
WriteTemplate(c, t, r) ==
    IF Orphan(r) \/ Clashes(t, r)
    THEN AnswerRow(c, Refusal(t, r)) /\ UNCHANGED templateRow
    ELSE AnswerRow(c, "saved") /\ templateRow' = [templateRow EXCEPT ![t] = r]

CreateTemplate(c, t, r) ==
    /\ rowCall[c].op = "none" /\ templateRow[t] = NoRow
    /\ \A d \in RowCall : rowCall[d].op \in {"update", "delete"} => rowCall[d].row # t
    /\ WriteTemplate(c, t, r)
    /\ UNCHANGED <<rowDialect, sessionRow>>

\* findOne(): by its id and the session of the route
FindTemplate(c, t, s, w) ==
    /\ rowCall[c].op = "none"
    /\ IF templateRow[t].of # s THEN AnswerRow(c, "missing") ELSE WaitToWrite(c, w)
    /\ UNCHANGED <<rowDialect, sessionRow, templateRow>>

\* update(): save() reads the row again; one that is gone by then is inserted
\* anew, and one that goes between its SELECT and its UPDATE stays gone.
SaveTemplate(c) ==
    /\ rowCall[c].op = "update"
    /\ \/ WriteTemplate(c, rowCall[c].row, rowCall[c].to)
       \/ /\ templateRow[rowCall[c].row] = NoRow
          /\ AnswerRow(c, "saved") /\ UNCHANGED templateRow
    /\ UNCHANGED <<rowDialect, sessionRow>>

RemoveTemplate(c) ==
    /\ rowCall[c].op = "delete"
    /\ templateRow' = [templateRow EXCEPT ![rowCall[c].row] = NoRow]
    /\ AnswerRow(c, "saved")
    /\ UNCHANGED <<rowDialect, sessionRow>>

NamesNext ==
    \/ \E c \in RowCall, n \in RowName : FindSession(c, n)
    \/ \E c \in RowCall, s \in NamedSession : SaveSession(c, s)
    \/ \E s \in NamedSession : DeleteSession(s)
    \/ \E c \in RowCall, t \in Template, r \in TemplateRows :
         \/ CreateTemplate(c, t, r)
         \/ FindTemplate(c, t, r.of, [op |-> "update", row |-> t, to |-> r])
    \/ \E c \in RowCall, t \in Template, s \in NamedSession : FindTemplate(c, t, s, [op |-> "delete", row |-> t])
    \/ \E c \in RowCall : SaveTemplate(c) \/ RemoveTemplate(c)

NamesSpec == NamesInit /\ [][NamesNext]_namesVars

-----------------------------------------------------------------------------
(* Properties.                                                             *)

\* However creates, updates and deletes overlap, a name stands for one row, so
\* that a send by template name is deterministic, and no template is left of a
\* session that is gone.
NamesAgree ==
    /\ \A s1, s2 \in NamedSession : sessionRow[s1] = sessionRow[s2] /\ sessionRow[s1] # NoName => s1 = s2
    /\ \A s \in NamedSession, n \in RowName : Cardinality(Named(s, n)) <= 1
    /\ \A t \in Template : templateRow[t] # NoRow => ~Orphan(templateRow[t])

\* A request is answered as a server error only when another took the name
\* between its lookup and its insert, or the session of a template is gone.
ErrorsAreRaces ==
    \A c \in RowCall : rowAnswer[c] # "error" /\ rowAnswer'[c] = "error" =>
        \/ rowCall[c].op = "session" /\ NameTaken(rowCall[c].name)
        \/ rowDialect = "postgres" /\ \E s \in NamedSession : sessionRow[s] = NoName
=============================================================================
