------------------------- MODULE MCSessionLifecycle -------------------------
(* Instances of SessionLifecycle for TLC.                                   *)
EXTENDS SessionLifecycle, TLC

Symmetric == Permutations(Engine) \cup Permutations(Proc)
=============================================================================
