----------------------------- MODULE InfraConfig -----------------------------
(***************************************************************************)
(* The settings an administrator edits on the dashboard:                   *)
(*   - src/src/modules/infra/infra.controller.ts, getConfig, saveConfig and *)
(*     getStatus over data/.env.generated;                                 *)
(*   - src/src/main.ts, which loads that file beneath the environment;     *)
(*   - src/dashboard/src/pages/Infrastructure.tsx, whose form is filled by  *)
(*     two queries that answer in either order and again whenever their    *)
(*     data changes.                                                       *)
(* A section is the database or the storage: a local type (sqlite, local)  *)
(* or a remote one (postgres, s3), built-in or external, its connection    *)
(* keys, its secret and, for storage, the local path; Redis is the cache.  *)
(***************************************************************************)
EXTENDS Naturals, FiniteSets

CONSTANTS
    Conn, Secret, Path,  \* what an administrator may type
    MaxTouched           \* bound: fields edited since they were filled

VARIABLES
    cfgFile,     \* data/.env.generated: its section
    cfgCache,    \* data/.env.generated: Redis enabled, its connection keys
    cfgEngine,   \* data/.env.generated: the engine's keys
    cfgEnv,      \* the type in the process environment or .env, "unset" if none
    cfgRunning,  \* the type the process was started with
    form,        \* the fields of the page
    drawn,       \* the status has come, so the form is drawn
    filled,      \* the saved configuration was the last to fill the form
    touched      \* the fields the administrator has edited since then

configVars == <<cfgFile, cfgCache, cfgEngine, cfgEnv, cfgRunning, form, drawn, filled, touched>>
cfgSaved == <<cfgFile, cfgCache, cfgEngine>>
cfgPage == <<form, drawn, filled, touched>>

Types == {"local", "remote"}
Typed == {"conn", "path", "cacheConn"}
Fields == {"type", "builtIn", "conn", "secret", "path", "enabled", "cacheConn"}

ConfigTypeOK ==
    /\ cfgFile \in [type : Types, builtIn : BOOLEAN, conn : Conn \cup {"unset", "container", "localhost"},
                 secret : Secret \cup {"unset", "container"}, path : Path \cup {"unset", "uploads", "media"}]
    /\ cfgCache \in [enabled : BOOLEAN, conn : Conn \cup {"unset", "localhost"}]
    /\ cfgEngine \in {"unset", "set"} /\ cfgEnv \in Types \cup {"unset"}
    /\ cfgRunning \in Types
    /\ DOMAIN form = Fields
    /\ drawn \in BOOLEAN /\ filled \in BOOLEAN /\ touched \subseteq Fields

\* dotenv with override: false, and getStatus() of what was loaded.
LoadedType(f) == IF cfgEnv = "unset" THEN f.type ELSE cfgEnv

\* The values useState() starts with.
Blank == [type |-> "local", builtIn |-> FALSE, conn |-> "localhost", secret |-> "", path |-> "media",
          enabled |-> FALSE, cacheConn |-> "localhost"]

\* What the minimal file of the first run says of a section.
MinimalSection == [type |-> "local", builtIn |-> FALSE, conn |-> "unset", secret |-> "unset", path |-> "unset"]

\* A saved file is one saveConfig() wrote, or the minimal one.
ConfigInit ==
    /\ \/ cfgFile = MinimalSection
       \/ \E c \in Conn, s \in Secret :
            cfgFile = [type |-> "remote", builtIn |-> FALSE, conn |-> c, secret |-> s, path |-> "unset"]
    /\ \/ cfgCache = [enabled |-> FALSE, conn |-> "unset"]
       \/ \E c \in Conn : cfgCache = [enabled |-> TRUE, conn |-> c]
    /\ cfgEngine \in {"unset", "set"} /\ cfgEnv \in Types \cup {"unset"}
    /\ cfgRunning = LoadedType(cfgFile)
    /\ form = Blank /\ drawn = FALSE /\ filled = FALSE /\ touched = {}

-----------------------------------------------------------------------------
(* The page.                                                               *)

\* getStatus(): what the process runs with. storage.path is no key of the
\* configuration, so the answer always holds the fallback './uploads'.
RunningStatus == [type |-> cfgRunning, path |-> "uploads"]

\* getConfig(): the file, without its secrets.
SavedConfig == [type |-> cfgFile.type, builtIn |-> cfgFile.builtIn, conn |-> cfgFile.conn, path |-> cfgFile.path,
                enabled |-> cfgCache.enabled, cacheConn |-> cfgCache.conn]

\* The effect of [infraStatus].
StatusFills ==
    /\ form' = [form EXCEPT !.type = RunningStatus.type, !.path = RunningStatus.path]
    /\ drawn' = TRUE /\ filled' = FALSE /\ touched' = touched \ {"type", "path"}
    /\ UNCHANGED <<cfgSaved, cfgEnv, cfgRunning>>

\* The effect of [savedConfig]: what the file does not hold keeps its place.
ConfigFills ==
    /\ form' = [k \in Fields |-> IF k = "secret" \/ (k \in Typed /\ SavedConfig[k] = "unset")
                                 THEN form[k] ELSE SavedConfig[k]]
    /\ filled' = TRUE
    /\ touched' = touched \cap ({"secret"} \cup {k \in {"conn", "path"} : cfgFile[k] = "unset"}
                               \cup {k \in {"cacheConn"} : cfgCache.conn = "unset"})
    /\ UNCHANGED <<cfgSaved, cfgEnv, cfgRunning, drawn>>

\* The update...Config handlers of the inputs.
EditField(k, v) ==
    /\ drawn = TRUE /\ v # form[k] /\ Cardinality(touched \cup {k}) <= MaxTouched
    /\ form' = [form EXCEPT ![k] = v]
    /\ touched' = touched \cup {k}
    /\ UNCHANGED <<cfgSaved, cfgEnv, cfgRunning, drawn, filled>>

FieldChoices(k) == CASE k = "type" -> Types
                [] k \in {"builtIn", "enabled"} -> BOOLEAN
                [] k \in {"conn", "cacheConn"} -> Conn
                [] k = "secret" -> Secret
                [] k = "path" -> Path

-----------------------------------------------------------------------------
(* saveConfig(): merged into the file, keys of the type left are dropped.  *)

\* As plausible changes: the secret of an empty field is blanked; the keys of
\* the other type stay.
KeptSecretBlank(typed) == IF typed = "" THEN "unset" ELSE typed
DropsNothing(f) == [f EXCEPT !.type = form.type, !.builtIn = form.builtIn]

KeptSecret(typed) == IF typed = "" THEN cfgFile.secret ELSE typed

KeysDropped(f) == [f EXCEPT !.type = form.type, !.builtIn = form.builtIn,
                        !.conn = IF form.type = "local" THEN "unset" ELSE @,
                        !.secret = IF form.type = "local" THEN "unset" ELSE @,
                        !.path = IF form.type = "remote" THEN "unset" ELSE @]

NewSection ==
    KeysDropped(CASE form.type = "local" -> [cfgFile EXCEPT !.path = form.path]
              [] form.type = "remote" /\ form.builtIn = TRUE ->
                    [cfgFile EXCEPT !.conn = "container", !.secret = "container"]
              [] form.type = "remote" /\ form.builtIn = FALSE ->
                    [cfgFile EXCEPT !.conn = form.conn, !.secret = KeptSecret(form.secret)])

\* Redis' connection keys are written while it is enabled and never dropped.
NewCache == [enabled |-> form.enabled, conn |-> IF form.enabled THEN form.cacheConn ELSE cfgCache.conn]

\* handleSaveConfig(): the payload has every section the page draws.
SaveConfig ==
    /\ drawn = TRUE
    /\ cfgFile' = NewSection /\ cfgCache' = NewCache
    /\ UNCHANGED <<cfgEngine, cfgEnv, cfgRunning, cfgPage>>

\* requestRestart(), or any restart: the file is loaded again.
LoadAgain ==
    /\ cfgRunning' = LoadedType(cfgFile)
    /\ cfgRunning' # cfgRunning
    /\ UNCHANGED <<cfgSaved, cfgEnv, cfgPage>>

ConfigNext ==
    \/ StatusFills \/ ConfigFills \/ SaveConfig \/ LoadAgain
    \/ \E k \in Fields : \E v \in FieldChoices(k) : EditField(k, v)

ConfigSpec == ConfigInit /\ [][ConfigNext]_configVars

-----------------------------------------------------------------------------
(* Properties.                                                             *)

\* The comments of saveConfig(): a reload never sees a type alongside leftover
\* keys of the other one.
NoLeftovers ==
    /\ cfgFile.type = "local" => cfgFile.conn = "unset" /\ cfgFile.secret = "unset"
    /\ cfgFile.type = "remote" => cfgFile.path = "unset"

Keeps(k) ==
    CASE k = "type" -> cfgFile'.type = cfgFile.type
      [] k = "builtIn" -> cfgFile'.builtIn = cfgFile.builtIn
      [] k = "conn" -> cfgFile'.conn = cfgFile.conn \/ cfgFile.conn = "unset"
      [] k = "secret" -> cfgFile'.secret = cfgFile.secret
      [] k = "path" -> cfgFile'.path = cfgFile.path \/ cfgFile.path = "unset"
      [] k = "enabled" -> cfgCache'.enabled = cfgCache.enabled
      [] k = "cacheConn" -> cfgCache'.conn = cfgCache.conn \/ cfgCache.conn = "unset"

\* Fields a change of the type or of the built-in switch rewrites.
Rewritten == IF touched \cap {"type", "builtIn"} # {} \/ cfgFile.builtIn = TRUE
             THEN {"conn", "secret", "path"} ELSE {}

KeepsUnseen == \A k \in Fields \ (touched \cup Rewritten) : Keeps(k)

\* A save from a form the saved configuration has filled changes nothing the
\* administrator did not edit: secrets the page never saw, and the engine's
\* keys it does not send, included.
FilledKeepsUnseen == filled = TRUE => KeepsUnseen /\ cfgEngine' = cfgEngine

\* getConfig()'s comment: "lets the dashboard hydrate the form so a save no
\* longer overwrites unseen fields (#226)". The code does not hold it: the form
\* is drawn once the status has come, and a later status fills over it.
SaveKeepsUnseen == [][KeepsUnseen]_cfgSaved
=============================================================================
