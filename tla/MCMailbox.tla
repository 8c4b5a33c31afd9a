----------------------------- MODULE MCMailbox ------------------------------
(* Values of Mailbox's constants for TLC. *)
EXTENDS Mailbox

\* Four octets: no last octet is the one SHMEM and ARMCI wait for.  599: the receive
\* buffer's own one is.
FourOctets == {<<4, 1>>}
AlreadyThere == {<<599, 1>>}
MCPattern == [size \in {4, 599} |-> [r |-> IF size = 599 THEN "b" ELSE "other", s |-> "other"]]
=============================================================================
