------------------------------- MODULE MCAtoa -------------------------------
(* Values for model checking Atoa. *)
EXTENDS Atoa

MCRequests == {<<8, 1>>, <<16, 2>>}
=============================================================================
