------------------------------- MODULE MCMpi --------------------------------
(* Values of Mpi's constants for TLC. *)
EXTENDS Mpi

MCRepeats == {1}
=============================================================================
