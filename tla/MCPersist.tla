------------------------------ MODULE MCPersist ------------------------------
(* Instances of Persist for TLC. *)
EXTENDS Persist, TLC
=============================================================================
