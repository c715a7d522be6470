-------------------------- MODULE MCRuntimeRegistry --------------------------
(* The instances of RuntimeRegistry that TLC checks. *)
EXTENDS RuntimeRegistry
=============================================================================
