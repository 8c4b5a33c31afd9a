------------------------------- MODULE MCIbRun ------------------------------
(* Values for model checking IbRun, as in MCInfiniband. *)
EXTENDS IbRun

MCRequests == {<<103, 1>>, <<4, 2>>}

MCPattern == [n \in {4, 103} |-> [r |-> "other", s |-> IF n = 103 THEN "b" ELSE "other"]]
=============================================================================
