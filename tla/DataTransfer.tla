---------------------------- MODULE DataTransfer ----------------------------
(***************************************************************************)
(* exportData() and importData() of infra.controller.ts beside the writes  *)
(* of a live server: one export, and one import of what it has exported.   *)
(* The rows: sessions, whose names are unique, and webhooks, each of which *)
(* belongs to a session by a foreign key; messages and message_batches are *)
(* copied the same way without a key.  The database is PostgreSQL, where a *)
(* failed statement dooms the transaction and other requests wait for the  *)
(* rows it holds, or SQLite, whose one connection and one query runner all *)
(* requests share: the statements of others are part of the transaction    *)
(* that is open, and a transaction begun while one is open is a savepoint  *)
(* in it, the innermost of which is what a commit or a rollback ends.      *)
(***************************************************************************)
EXTENDS FiniteSets, Naturals

CONSTANTS
    DataSession, DataWebhook,   \* rows
    OwnerOf,            \* Webhook -> the session it belongs to
    NameOf,             \* session -> its name
    MaxDbWrites         \* bound: the writes and transactions of the server

ASSUME TransferAssumption ==
    /\ OwnerOf \in [DataWebhook -> DataSession] /\ DataSession \cap DataWebhook = {}
    /\ DataSession \subseteq DOMAIN NameOf /\ MaxDbWrites \in Nat

DataRow == DataSession \cup DataWebhook

VARIABLES
    dbDialect,   \* "sqlite" or "postgres"
    db,          \* the committed rows; for SQLite those the open transaction sees
    dbDepth,     \* SQLite: the transactions that are open, one in another
    dbFrame,     \* SQLite: the rows each of them would restore
    dbOther,     \* SQLite: one of them is another request's
    dbDump,      \* the exported rows, the payload of the import
    dbExport,    \* "none", "sessions", "done"
    dbQuiet,     \* history: nothing was written while the export was read
    dbImport,    \* "none", "sessions", "webhooks", "done", "refused", "thrown"
    dbView,      \* PostgreSQL: the rows the import's transaction has inserted
    dbBefore,    \* the rows when the transaction began
    dbLive,      \* history: rows written by the server while it was open
    dbGone,      \* history: rows deleted by the server while it was open
    dbMingled,   \* history: its end or another's rollback came inside the other
    dbTodo,      \* rows of the payload still to insert
    dbWarnings,  \* an INSERT has failed
    dbWrites,    \* how many writes and transactions of the server there were
    dbOdd        \* a row of the payload the database refuses (an edited file)

dbNest == <<dbDepth, dbFrame, dbOther>>
dbTaken == <<dbDump, dbExport, dbQuiet>>
dbSeen == <<dbLive, dbGone, dbMingled>>
dbGiven == <<dbDialect, dbOdd>>
transferVars == <<dbGiven, db, dbNest, dbTaken, dbSeen, dbImport, dbView, dbBefore, dbTodo, dbWarnings, dbWrites>>
ImportRuns == dbImport \in {"sessions", "webhooks"}

\* Bound: what the server writes after the import is left out.
WithinBound ==
    /\ dbImport = "none" \/ ImportRuns
    /\ dbWrites < MaxDbWrites /\ dbWrites' = dbWrites + 1

TransferTypeOK ==
    /\ dbDialect \in {"sqlite", "postgres"}
    /\ db \subseteq DataRow /\ dbDump \subseteq DataRow /\ dbView \subseteq DataRow /\ dbBefore \subseteq DataRow
    /\ dbLive \subseteq DataRow /\ dbGone \subseteq DataRow /\ dbTodo \subseteq DataRow /\ dbOdd \subseteq DataRow
    /\ dbDepth \in 0 .. 2 /\ dbFrame \in [1 .. 2 -> SUBSET DataRow] /\ dbOther \in BOOLEAN
    /\ dbExport \in {"none", "sessions", "done"}
    /\ dbImport \in {"none", "sessions", "webhooks", "done", "refused", "thrown"}
    /\ dbQuiet \in BOOLEAN /\ dbMingled \in BOOLEAN /\ dbWarnings \in BOOLEAN
    /\ dbWrites \in 0 .. MaxDbWrites

\* The foreign key of webhooks, and the unique name and identifier.
KeysHold(rows) == \A w \in rows \cap DataWebhook : OwnerOf[w] \in rows
SameKey(q, r) == q = r \/ (q \in DataSession /\ r \in DataSession /\ NameOf[q] = NameOf[r])
KeyFree(r, rows) == \A q \in rows : ~SameKey(q, r)
Insertable(r, rows) == KeyFree(r, rows) /\ KeysHold(rows \cup {r})
NamesHold(rows) == \A q, r \in rows : SameKey(q, r) => q = r

TransferInit ==
    /\ dbDialect \in {"sqlite", "postgres"} /\ dbOdd \in {{}} \cup {{r} : r \in DataRow}
    /\ db \in {rows \in SUBSET DataRow : KeysHold(rows) /\ NamesHold(rows)}
    /\ dbDepth = 0 /\ dbFrame = [d \in 1 .. 2 |-> {}] /\ dbOther = FALSE
    /\ dbDump = {} /\ dbExport = "none" /\ dbQuiet = TRUE
    /\ dbImport = "none" /\ dbView = {} /\ dbBefore = {} /\ dbTodo = {} /\ dbWarnings = FALSE
    /\ dbLive = {} /\ dbGone = {} /\ dbMingled = FALSE /\ dbWrites = 0

-----------------------------------------------------------------------------
(* The server's own writes.                                                *)

NotesWrite(rows) ==
    /\ dbQuiet' = (dbQuiet = TRUE /\ dbExport \in {"none", "done"})
    /\ dbLive' = IF ImportRuns THEN (dbLive \cup (rows \ db)) \ (db \ rows) ELSE dbLive
    /\ dbGone' = IF ImportRuns THEN (dbGone \cup (db \ rows)) \ (rows \ db) ELSE dbGone

\* Sessions are created and deleted in transactions; for SQLite those are actions below.
InItsTransaction(r) == dbDialect = "sqlite" /\ r \in DataSession => dbOther

ServerWrites(rows) ==
    /\ db' = rows /\ NotesWrite(rows)
    /\ UNCHANGED <<dbGiven, dbNest, dbDump, dbExport, dbMingled, dbImport, dbView, dbBefore, dbTodo, dbWarnings>>

\* For PostgreSQL, what has to wait for the import's transaction: an equal key it has
\* inserted, the session of a webhook that it has deleted; and a row it has deleted, or
\* that a webhook it has inserted belongs to.
CreationWaits(r) ==
    /\ dbDialect = "postgres" /\ ImportRuns
    /\ ~KeyFree(r, dbView) \/ (r \in DataWebhook /\ OwnerOf[r] \in dbBefore)
DeletionWaits(r) ==
    /\ dbDialect = "postgres" /\ ImportRuns
    /\ r \in dbBefore \/ \E w \in dbView \cap DataWebhook : OwnerOf[w] = r

\* A session has a new identifier (uuid); a webhook, as a message, may be one that was
\* read before and is saved again, after it has gone.
CreateRow(r) ==
    /\ WithinBound /\ Insertable(r, db) /\ InItsTransaction(r) /\ ~CreationWaits(r)
    /\ r \in DataSession => r \notin dbDump \cup dbBefore
    /\ ServerWrites(db \cup {r})

\* Deleting a session deletes its webhooks (ON DELETE CASCADE).
DeleteRow(r) ==
    /\ WithinBound /\ r \in db /\ InItsTransaction(r) /\ ~DeletionWaits(r)
    /\ ServerWrites({q \in db \ {r} : q \in DataWebhook => OwnerOf[q] # r})

(* Transactions on SQLite's query runner.                                   *)

Nests == dbDepth' = dbDepth + 1 /\ dbFrame' = [dbFrame EXCEPT ![dbDepth + 1] = db]
Unnests == dbDepth' = dbDepth - 1 /\ dbFrame' = [dbFrame EXCEPT ![dbDepth] = {}]

\* dataSource.transaction() of create() and delete(), or a save() while none is open.
OtherBegins ==
    /\ WithinBound /\ dbDialect = "sqlite" /\ ~dbOther
    /\ Nests /\ dbOther' = TRUE
    /\ UNCHANGED <<dbGiven, db, dbTaken, dbSeen, dbImport, dbView, dbBefore, dbTodo, dbWarnings>>

\* Whichever was begun last is the one that ends.
OtherCommits ==
    /\ dbOther /\ Unnests /\ dbOther' = FALSE
    /\ UNCHANGED <<dbGiven, db, dbTaken, dbSeen, dbImport, dbView, dbBefore, dbTodo, dbWarnings, dbWrites>>

OtherFails ==
    /\ dbOther /\ Unnests /\ dbOther' = FALSE
    /\ db' = dbFrame[dbDepth] /\ NotesWrite(db') /\ dbMingled' = (dbMingled \/ ImportRuns)
    /\ UNCHANGED <<dbGiven, dbDump, dbExport, dbImport, dbView, dbBefore, dbTodo, dbWarnings, dbWrites>>

-----------------------------------------------------------------------------
(* exportData(): one SELECT after another, outside a transaction.          *)

ExportSessions ==
    /\ dbExport = "none"
    /\ dbExport' = "sessions" /\ dbDump' = db \cap DataSession /\ dbQuiet' = TRUE
    /\ UNCHANGED <<dbGiven, db, dbNest, dbSeen, dbImport, dbView, dbBefore, dbTodo, dbWarnings, dbWrites>>

ExportWebhooks ==
    /\ dbExport = "sessions"
    /\ dbExport' = "done" /\ dbDump' = dbDump \cup (db \cap DataWebhook)
    /\ UNCHANGED <<dbGiven, db, dbNest, dbQuiet, dbSeen, dbImport, dbView, dbBefore, dbTodo, dbWarnings, dbWrites>>

-----------------------------------------------------------------------------
(* importData()                                                            *)

\* What an INSERT of the import meets, and where it goes.
SeenRows == IF dbDialect = "sqlite" THEN db ELSE dbView \cup (db \ dbBefore)
Inserts(r) == IF dbDialect = "sqlite" THEN db' = db \cup {r} /\ UNCHANGED dbView
                                      ELSE dbView' = dbView \cup {r} /\ UNCHANGED db

\* The transaction begins and every table is emptied.
BeginImport ==
    /\ dbExport = "done" /\ dbImport = "none"
    /\ dbImport' = "sessions" /\ dbBefore' = db /\ dbTodo' = dbDump /\ dbWarnings' = FALSE
    /\ dbLive' = {} /\ dbGone' = {} /\ dbMingled' = dbOther
    /\ IF dbDialect = "sqlite" THEN db' = {} /\ Nests ELSE UNCHANGED <<db, dbDepth, dbFrame>>
    /\ UNCHANGED <<dbGiven, dbTaken, dbOther, dbView, dbWrites>>

\* A statement is refused: the row itself, its keys, or what came before it.
InsertRefused(r) ==
    \/ r \in dbOdd \/ ~Insertable(r, SeenRows)
    \/ dbDialect = "postgres" /\ dbWarnings = TRUE

RowsOfTable == IF dbImport = "sessions" THEN DataSession ELSE DataWebhook

InsertRow(r) ==
    /\ ImportRuns /\ r \in dbTodo \cap RowsOfTable
    /\ dbTodo' = dbTodo \ {r}
    /\ IF InsertRefused(r) THEN dbWarnings' = TRUE /\ UNCHANGED <<db, dbView>>
                     ELSE Inserts(r) /\ UNCHANGED dbWarnings
    /\ UNCHANGED <<dbGiven, dbNest, dbTaken, dbSeen, dbImport, dbBefore, dbWrites>>

NextTable ==
    /\ dbImport = "sessions" /\ dbTodo \cap DataSession = {}
    /\ dbImport' = "webhooks"
    /\ UNCHANGED <<dbGiven, db, dbNest, dbTaken, dbSeen, dbView, dbBefore, dbTodo, dbWarnings, dbWrites>>

\* As a plausible change: what could be inserted is committed.
ImportKeptAnyway == TRUE

\* Any warning rolls everything back.
ImportKept == dbWarnings = FALSE

\* PostgreSQL's commit leaves what the others have committed meanwhile; SQLite's
\* statements are done, and only closing the transaction is left.
Committed ==
    IF dbDialect = "sqlite" THEN Unnests /\ UNCHANGED db
    ELSE db' = SeenRows /\ UNCHANGED <<dbDepth, dbFrame>>

\* SQLite's rollback takes the writes of the others with it.
RolledBack ==
    IF dbDialect = "sqlite" THEN Unnests /\ db' = dbFrame[dbDepth]
    ELSE UNCHANGED <<db, dbDepth, dbFrame>>

FinishImport ==
    /\ dbImport = "webhooks" /\ dbTodo = {}
    /\ dbImport' = IF ImportKept THEN "done" ELSE "refused"
    /\ IF ImportKept THEN Committed ELSE RolledBack
    /\ dbView' = {} /\ dbMingled' = (dbMingled \/ dbOther)
    /\ UNCHANGED <<dbGiven, dbOther, dbTaken, dbLive, dbGone, dbBefore, dbTodo, dbWarnings, dbWrites>>

\* A statement other than an INSERT fails, or the connection: rolled back and
\* thrown.
ImportThrows ==
    /\ ImportRuns
    /\ dbImport' = "thrown"
    /\ RolledBack
    /\ dbView' = {} /\ dbTodo' = {} /\ dbMingled' = (dbMingled \/ dbOther)
    /\ UNCHANGED <<dbGiven, dbOther, dbTaken, dbLive, dbGone, dbBefore, dbWarnings, dbWrites>>

TransferNext ==
    \/ \E r \in DataRow : CreateRow(r) \/ DeleteRow(r) \/ InsertRow(r)
    \/ OtherBegins \/ OtherCommits \/ OtherFails
    \/ ExportSessions \/ ExportWebhooks \/ BeginImport \/ NextTable \/ FinishImport \/ ImportThrows

TransferSpec == TransferInit /\ [][TransferNext]_transferVars

-----------------------------------------------------------------------------
(* Properties.                                                             *)

\* "Replace all data" is all or nothing, unless another transaction of SQLite's one
\* connection was open when it began or ended, or failed inside it: at its end the
\* database has every row of the payload but those the server has deleted meanwhile, and
\* of the rows before it only what the server wrote again; or every row it had before
\* and nothing but what the server wrote.
EndsAllOrNothing ==
    /\ dbImport' = "done" /\ dbImport # "done" /\ ~dbMingled' =>
         /\ dbDump \ dbGone \subseteq db'
         /\ (dbBefore \cap db') \subseteq (dbDump \cup dbLive)
    /\ dbImport' \in {"refused", "thrown"} /\ ImportRuns /\ ~dbMingled' =>
         /\ dbBefore \subseteq db'
         /\ db' \subseteq (dbBefore \cup dbLive)

AllOrNothing == [][EndsAllOrNothing]_dbImport

\* While it ran the server wrote or deleted a row with an identifier or a name of the
\* payload.
PayloadMet == \E q \in dbLive \cup dbGone, r \in dbDump : SameKey(q, r)

\* An export read while nothing was written can be imported, whatever the server wrote
\* before the import and whatever else it writes during it.
ExportIsImportable ==
    dbImport = "refused" /\ dbQuiet = TRUE => dbOdd # {} \/ PayloadMet
=============================================================================
