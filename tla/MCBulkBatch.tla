----------------------------- MODULE MCBulkBatch -----------------------------
(* Instances of BulkBatch for TLC.                                          *)
EXTENDS BulkBatch, TLC
=============================================================================
