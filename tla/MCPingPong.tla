----------------------------- MODULE MCPingPong -----------------------------
(* Values of PingPong's constants for TLC. *)
EXTENDS PingPong

\* The exit signal, and two sizes with different repeat counts.
MCRequests == {<<0, 1>>, <<8, 2>>, <<9, 1>>}
=============================================================================
