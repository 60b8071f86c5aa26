------------------------------- MODULE Fleet -------------------------------
(* The processes of a deployment that share its tables and its Redis.       *)

CONSTANT Pods
=============================================================================
