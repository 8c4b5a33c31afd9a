------------------------------ MODULE MCTcpRun ------------------------------
(* Values of TcpRun's constants for TLC. *)
EXTENDS TcpRun

\* The exit signal, a message larger than the socket buffers bounced twice, two octets
\* (a size that is no multiple of 8) bounced once, and no repetition at all.
MCRequests == {<<0, 1>>, <<56, 2>>, <<9, 1>>, <<8, 0>>}

\* What the scripts of tests/ do: the same arguments in every call.
TestRequests == {<<16, 1>>}

\* A measurement and the exit signal.
SignalRequests == {<<0, 1>>, <<8, 1>>}
=============================================================================
