---------------------------- MODULE MCInfiniband ----------------------------
(* Values for model checking Infiniband.  The octets are those that module   *)
(* BufferData computes for such sizes (LastOctets): the message of 103 bytes *)
(* ends in the octet that RecvData waits for, that of 4 bytes does not, nor  *)
(* do those of nearly all sizes.                                             *)
EXTENDS Infiniband

MCRequests == {<<103, 1>>, <<103, 3>>, <<4, 2>>}

MCPattern == [n \in {4, 103} |-> [r |-> "other", s |-> IF n = 103 THEN "b" ELSE "other"]]

\* These values are ones the theorems about "run" speak of.
ASSUME MCPatternsTellApart == PatternsTellApart
=============================================================================
