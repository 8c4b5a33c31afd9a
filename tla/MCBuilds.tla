------------------------------ MODULE MCBuilds ------------------------------
(* Values for model checking Builds. *)
EXTENDS Builds

MCOrders == {"hostFirst", "initFirst"}

\* The one-sided modules: a size that ends in the octet they wait for and one that, like
\* most, does not.  GM: 8 octets are of the size class of the counts, 60 are not.  PVM: no repetition
\* at all as well.
MCRequests ==
    [mailbox |-> {<<103, 2>>, <<4, 1>>},
     atoa    |-> {<<8, 1>>, <<16, 2>>},
     gm      |-> {<<8, 1>>, <<8, 2>>, <<60, 2>>},
     pvm     |-> {<<1, 1>>, <<1, 2>>, <<2, 2>>, <<2, 0>>}]

\* What LastOctets shows; four octets hold one word, which is neither.
MCPattern == [size \in {4, 103} |-> [r |-> "other", s |-> IF size = 103 THEN "b" ELSE "other"]]

MCRepeats == {1, 2, 3}
MCAddr == {"x", "y", "z"}

\* Every alignment, on both sides of zero.
MCAddresses == -17..17
MCCopySizes == 0..50

\* Damage anywhere in short messages; the sizes of LastOctets arrive as they are.
MCSizes == (1..33) \cup {103, 134, 599}
MCArrivals == [size \in MCSizes |-> IF size > 33 THEN {"intact"} ELSE {"intact", "cut", "flip"}]
=============================================================================
