------------------------------ MODULE MCKVLog ------------------------------
(***************************************************************************)
(* Instances of KVLog for TLC.                                             *)
(***************************************************************************)
EXTENDS KVLog, TLC

CONSTANTS k1, k2

OneEach == (k1 :> 1) @@ (k2 :> 2)
=============================================================================
