---------------------------- MODULE InfraRestart ----------------------------
(***************************************************************************)
(* A restart asked for on the dashboard:                                   *)
(*   - src/dashboard/src/pages/Infrastructure.tsx: the profiles of the last *)
(*     two saves, the request, the polling of the health check;            *)
(*   - requestRestart() of infra.controller.ts, which removes and starts   *)
(*     containers one call at a time and then asks for the shutdown;       *)
(*   - docker.service.ts: the lookup by label, then by a part of the name, *)
(*     starting, creating and removing, and the orchestration at boot;     *)
(*   - shutdown.service.ts and the probes of health.controller.ts.         *)
(* Two requests may overlap (two tabs, or the API); each dies with the     *)
(* process, but a stop it has sent goes on in the Docker daemon.           *)
(***************************************************************************)
EXTENDS Naturals

CONSTANTS
    Profile,      \* the built-in services: redis, postgres, minio
    RestartRequest,      \* restart requests
    MaxStarts,    \* bound: starts of the process
    MaxHealthChecks     \* the page's maxAttempts (60 in the code)

ASSUME RestartAssumption == MaxStarts \in Nat \ {0} /\ MaxHealthChecks \in Nat \ {0}

VARIABLES
    wanted,       \* built-in profiles of the saved file
    loadedProfiles,       \* built-in profiles the running process has in its environment
    container,    \* Profile -> "absent", "stopped", "running"
    stops,        \* containers whose stop the Docker daemon has been sent
    late,         \* containers the boot found running with a stop under way
    foreign,      \* a container of somebody else whose name contains a service's
    docker,       \* whether the Docker API answered at start
    process,      \* "booting", "up", "closing", "down"
    draining,     \* shuttingDown: readiness answers 503
    grace,        \* a shutdown's grace is running
    starts,       \* starts of the process
    boot,         \* profiles the orchestration at boot has not reached
    refused,      \* the orchestration at boot was skipped or a call of it failed
    req,          \* Request -> remove and start lists still to do, step
    savedBefore, lastSaved,   \* profiles of the save before and of the last one
    modal, checks, saw   \* restartStatus, attempts, the start whose health it saw

restartVars == <<wanted, loadedProfiles, container, stops, late, foreign, docker, process, draining, grace, starts, boot, refused,
          req, savedBefore, lastSaved, modal, checks, saw>>
containers == <<container, stops, late, foreign>>
restartLife == <<process, draining, grace, starts, loadedProfiles, boot, refused, docker>>
restartTab == <<savedBefore, lastSaved, modal, checks, saw>>

NoRequest == [step |-> "none", remove |-> {}, start |-> {}]

RestartTypeOK ==
    /\ wanted \subseteq Profile /\ loadedProfiles \subseteq Profile /\ boot \subseteq Profile
    /\ container \in [Profile -> {"absent", "stopped", "running"}]
    /\ stops \subseteq Profile /\ late \subseteq Profile
    /\ foreign \in {"absent", "stopped", "running"} /\ docker \in BOOLEAN
    /\ process \in {"booting", "up", "closing", "down"} /\ draining \in BOOLEAN
    /\ grace \in BOOLEAN /\ starts \in 1 .. MaxStarts /\ refused \in BOOLEAN
    /\ req \in [RestartRequest -> [step : {"none", "busy"}, remove : SUBSET Profile, start : SUBSET Profile]]
    /\ savedBefore \subseteq Profile /\ lastSaved \subseteq Profile
    /\ modal \in {"idle", "saved", "asked", "waiting", "success", "error"}
    /\ checks \in 0 .. MaxHealthChecks /\ saw \in 0 .. MaxStarts

RestartInit ==
    /\ wanted \in SUBSET Profile /\ loadedProfiles = wanted
    /\ container \in [Profile -> {"absent", "stopped", "running"}]
    /\ stops = {} /\ late = {}
    /\ foreign \in {"absent", "running"} /\ docker \in BOOLEAN
    /\ process = "booting" /\ draining = FALSE /\ grace = FALSE /\ starts = 1
    /\ boot = wanted /\ refused = FALSE
    /\ req = [r \in RestartRequest |-> NoRequest]
    /\ savedBefore = {} /\ lastSaved = {} /\ modal = "idle" /\ checks = 0 /\ saw = 0

-----------------------------------------------------------------------------
(* docker.service.ts                                                       *)

\* startService(p): the container found is started unless it runs; without
\* one it is created. Another's container is taken for ours if we have none.
Started(p) ==
    CASE container[p] # "absent" -> container' = [container EXCEPT ![p] = "running"] /\ UNCHANGED foreign
      [] container[p] = "absent" /\ foreign # "absent" -> foreign' = "running" /\ UNCHANGED container
      [] container[p] = "absent" /\ foreign = "absent" ->
            container' = [container EXCEPT ![p] = "running"] /\ UNCHANGED foreign

\* removeService(p) once the container does not run: it is removed, and a stop
\* still under way has nothing left to stop. Nothing to remove is a success.
\* Another's container is stopped and removed at once.
Removed(p) ==
    IF container[p] # "absent"
    THEN /\ container[p] = "stopped" /\ container' = [container EXCEPT ![p] = "absent"]
         /\ stops' = stops \ {p} /\ UNCHANGED foreign
    ELSE foreign' = "absent" /\ UNCHANGED <<container, stops>>

\* A call of the Docker API fails: at once, or once a container is created or stopped.
StartFailed(p) ==
    /\ \/ UNCHANGED container
       \/ container[p] = "absent" /\ foreign = "absent" /\ container' = [container EXCEPT ![p] = "stopped"]
    /\ UNCHANGED foreign

RemovalFailed(p) ==
    /\ \/ UNCHANGED foreign
       \/ container[p] = "absent" /\ foreign = "running" /\ foreign' = "stopped"
    /\ UNCHANGED <<container, stops>>

\* The Docker daemon stops the container it was told to, whoever still waits for it.
StopLands(p) ==
    /\ p \in stops
    /\ stops' = stops \ {p}
    /\ container' = [container EXCEPT ![p] = IF @ = "running" THEN "stopped" ELSE @]
    /\ UNCHANGED <<wanted, late, foreign, restartLife, req, restartTab>>

\* bootstrapOrchestration(), one profile at a time; without Docker it is skipped.
BootStarts(p) ==
    /\ process = "booting" /\ docker = TRUE /\ p \in boot
    /\ boot' = boot \ {p}
    /\ Started(p)
    /\ late' = IF p \in stops THEN late \cup {p} ELSE late
    /\ UNCHANGED <<wanted, loadedProfiles, stops, docker, process, draining, grace, starts, refused, req, restartTab>>

BootFails(p) ==
    /\ process = "booting" /\ docker = TRUE /\ p \in boot
    /\ boot' = boot \ {p} /\ refused' = TRUE
    /\ StartFailed(p)
    /\ UNCHANGED <<wanted, loadedProfiles, stops, late, docker, process, draining, grace, starts, req, restartTab>>

\* As a plausible change: the application listens while it orchestrates.
BootLeftBehind == {}

\* What is left to orchestrate before the application may listen.
BootLeft == IF docker THEN boot ELSE {}

Listen ==
    /\ process = "booting" /\ BootLeft = {}
    /\ process' = "up" /\ boot' = {} /\ refused' = (refused = TRUE \/ docker = FALSE)
    /\ UNCHANGED <<wanted, loadedProfiles, containers, docker, draining, grace, starts, req, restartTab>>

\* isDockerAvailable(): with DOCKER_HOST set a failed connect is tried again;
\* the orchestration at boot is not.
DockerReturns ==
    /\ process = "up" /\ docker = FALSE
    /\ docker' = TRUE
    /\ UNCHANGED <<wanted, loadedProfiles, containers, process, draining, grace, starts, boot, refused, req, restartTab>>

-----------------------------------------------------------------------------
(* requestRestart() and the shutdown.                                      *)

Serving == process = "up"

AskRestart(r, remove, start) ==
    /\ Serving /\ req[r].step = "none"
    /\ req' = [req EXCEPT ![r] = [step |-> "busy", remove |-> remove, start |-> start]]

\* Another tab, or the API, asks with lists of its own.
AskOutside(r) ==
    /\ \E remove, start \in SUBSET Profile : AskRestart(r, remove, start)
    /\ UNCHANGED <<wanted, containers, restartLife, restartTab>>

\* The stop of a container that runs, which removeService() awaits.
SendStop(r, p) ==
    /\ Serving /\ docker = TRUE /\ req[r].step = "busy" /\ p \in req[r].remove
    /\ container[p] = "running" /\ p \notin stops
    /\ stops' = stops \cup {p}
    /\ UNCHANGED <<wanted, container, late, foreign, restartLife, req, restartTab>>

RemoveOne(r, p) ==
    /\ Serving /\ docker = TRUE /\ req[r].step = "busy" /\ p \in req[r].remove
    /\ req' = [req EXCEPT ![r].remove = @ \ {p}]
    /\ Removed(p) \/ RemovalFailed(p)
    /\ UNCHANGED <<wanted, late, restartLife, restartTab>>

\* A start that fails is reported in the answer, which restarts all the same.
StartOne(r, p) ==
    /\ Serving /\ docker = TRUE /\ req[r].step = "busy" /\ req[r].remove = {} /\ p \in req[r].start
    /\ req' = [req EXCEPT ![r].start = @ \ {p}]
    /\ Started(p) \/ StartFailed(p)
    /\ UNCHANGED <<wanted, stops, late, restartLife, restartTab>>

\* Without Docker a signal file is written for a script of the host. Then
\* shutdown(): readiness turns to 503 and the grace begins.
AnswerRestart(r) ==
    /\ Serving /\ req[r].step = "busy"
    /\ docker = TRUE => req[r].remove = {} /\ req[r].start = {}
    /\ req' = [req EXCEPT ![r] = NoRequest]
    /\ draining' = TRUE /\ grace' = TRUE
    /\ modal' = IF modal = "asked" THEN "waiting" ELSE modal
    /\ UNCHANGED <<wanted, containers, process, starts, loadedProfiles, boot, refused, docker,
                   savedBefore, lastSaved, checks, saw>>

\* The first grace that runs out closes the application.
GraceOver ==
    /\ process = "up" /\ grace = TRUE
    /\ process' = "closing" /\ grace' = FALSE
    /\ UNCHANGED <<wanted, containers, draining, starts, loadedProfiles, boot, refused, docker, req, restartTab>>

\* SIGTERM: the draining flag and Nest's own close at once.
SigTerm ==
    /\ process = "up" /\ starts < MaxStarts
    /\ process' = "closing" /\ draining' = TRUE
    /\ UNCHANGED <<wanted, containers, grace, starts, loadedProfiles, boot, refused, docker, req, restartTab>>

\* process.exit(0), however the close ended; a request in progress goes with it.
ProcessExits ==
    /\ process = "closing"
    /\ process' = "down" /\ grace' = FALSE /\ draining' = FALSE
    /\ req' = [r \in RestartRequest |-> NoRequest]
    /\ modal' = IF modal = "asked" THEN "waiting" ELSE modal
    /\ UNCHANGED <<wanted, containers, starts, loadedProfiles, boot, refused, docker, savedBefore, lastSaved, checks, saw>>

\* The supervisor starts it again; the file as it is now is loaded.
StartAgain ==
    /\ process = "down" /\ starts < MaxStarts
    /\ process' = "booting" /\ starts' = starts + 1
    /\ loadedProfiles' = wanted /\ boot' = wanted /\ refused' = FALSE /\ docker' \in BOOLEAN
    /\ late' = {}
    /\ UNCHANGED <<wanted, container, stops, foreign, draining, grace, req, restartTab>>

-----------------------------------------------------------------------------
(* Infrastructure.tsx                                                      *)

\* handleSaveConfig(): the file's built-in flags, and the lists of the restart
\* that may follow, which the answer names only for services of the built-in
\* type (postgres, s3) or enabled (redis).
SaveProfiles(ps, answered) ==
    /\ Serving /\ modal \in {"idle", "saved"}
    /\ wanted' = ps /\ savedBefore' = lastSaved /\ lastSaved' = answered /\ modal' = "saved"
    /\ UNCHANGED <<containers, restartLife, req, checks, saw>>

\* handleRestart()
ClickRestart(r) ==
    /\ modal = "saved"
    /\ AskRestart(r, savedBefore \ lastSaved, lastSaved)
    /\ modal' = "asked" /\ checks' = 0
    /\ UNCHANGED <<wanted, containers, restartLife, savedBefore, lastSaved, saw>>

\* checkServerHealth(): any process that answers is a success.
CheckHealth ==
    /\ modal = "waiting"
    /\ IF process = "up"
       THEN modal' = "success" /\ saw' = starts /\ UNCHANGED checks
       ELSE /\ checks' = checks + 1 /\ UNCHANGED saw
            /\ modal' = IF checks + 1 < MaxHealthChecks THEN "waiting" ELSE "error"
    /\ UNCHANGED <<wanted, containers, restartLife, req, savedBefore, lastSaved>>

\* The page is loaded anew: what it had saved before is forgotten.
ReloadPage ==
    /\ modal \in {"success", "error", "saved"}
    /\ modal' = "idle" /\ savedBefore' = {} /\ lastSaved' = {} /\ checks' = 0 /\ saw' = 0
    /\ UNCHANGED <<wanted, containers, restartLife, req>>

RestartNext ==
    \/ \E p \in Profile : BootStarts(p) \/ BootFails(p)
    \/ Listen \/ DockerReturns \/ GraceOver \/ SigTerm \/ ProcessExits \/ StartAgain
    \/ \E r \in RestartRequest : AskOutside(r) \/ AnswerRestart(r) \/ ClickRestart(r)
    \/ \E r \in RestartRequest, p \in Profile : SendStop(r, p) \/ RemoveOne(r, p) \/ StartOne(r, p)
    \/ \E p \in Profile : StopLands(p)
    \/ \E ps \in SUBSET Profile : \E answered \in SUBSET ps : SaveProfiles(ps, answered)
    \/ CheckHealth \/ ReloadPage

RestartSpec == RestartInit /\ [][RestartNext]_restartVars

-----------------------------------------------------------------------------
(* Properties.                                                             *)

\* Whatever restart requests overlapped, were cut off by the exit of the
\* process or failed half-way, a process that has started with Docker and
\* whose calls did not fail has every built-in service its configuration asks
\* for running, until a request for another restart touches them. Left aside
\* are the containers the boot found running although the stop an earlier
\* process had sent was under way: the boot takes them for started, and they
\* stop later.
BuiltInsRun ==
    process = "up" /\ docker = TRUE /\ refused = FALSE /\ draining = FALSE
        /\ (\A r \in RestartRequest : req[r].step = "none") /\ foreign = "absent"
    => \A p \in loadedProfiles : container[p] = "running" \/ p \in late
=============================================================================
