------------------------------ MODULE MCWorklets ------------------------------
(* The harness with three instances, a cap of two and three passes beside  *)
(* the closing one, so that two may hang; the phone with three runs; the   *)
(* sidecar.                                                                *)
EXTENDS Worklets
===============================================================================
