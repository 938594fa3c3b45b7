---------------------------- MODULE EngineContract ----------------------------
(***************************************************************************)
(* What SessionService relies on of an engine object, whatever the adapter *)
(* (IWhatsAppEngine): how its status may move while it is in use, and that *)
(* one that was torn down has gone for good.  SessionLifecycle is checked  *)
(* with engines that move like this; BaileysAdapter and WebJsAdapter       *)
(* implement it.                                                           *)
(***************************************************************************)
EXTENDS EngineStates

VARIABLES
  phase,   \* "new", "live" from initialize() on, "dead" once torn down
  st       \* getStatus()

engineVars == <<phase, st>>

Init == phase = "new" /\ st = "disconnected"

Open ==
  /\ phase = "new"
  /\ phase' = "live"
  /\ st' = "initializing"

Move ==
  /\ phase = "live"
  /\ st' \in EngineMoves(st)
  /\ UNCHANGED phase

TearDown ==
  /\ phase = "live"
  /\ phase' = "dead"
  /\ st' = "disconnected"

\* An initialize() that the teardown overtook reports its failure.  SessionService
\* has taken the engine out of its map by then, and does not listen.
Complain ==
  /\ phase = "dead"
  /\ st' \in {"failed", "disconnected"}
  /\ UNCHANGED phase

Next == Open \/ Move \/ TearDown \/ Complain

Spec == Init /\ [][Next]_engineVars
=============================================================================
