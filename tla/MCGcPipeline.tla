---------------------------- MODULE MCGcPipeline ----------------------------
EXTENDS GcPipeline, TLC

(* Instances of GcPipeline for TLC.                                         *)
CONSTANTS p, q, x, y

(* an object that owns another                                              *)
OneChild == (x :> {y}) @@ (y :> {})
=============================================================================
