----------------------------- MODULE MCTcpConn ------------------------------
(* TcpConn with the bounds of the configurations MCConn*.cfg. *)
EXTENDS TcpConn
=============================================================================
