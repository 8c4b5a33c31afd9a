------------------------------- MODULE MCPvm --------------------------------
(* Values of Pvm's constants for TLC. *)
EXTENDS Pvm

MCRequests == {<<1, 1>>}
=============================================================================
