------------------------------ MODULE ArmciHeap -----------------------------
(***************************************************************************)
(* The registry of src/src/armci.c: ARMCI_Malloc allocates on both          *)
(* processes at once, and every process keeps a linked list of the pairs    *)
(* of addresses, the newest in front, from which SendData and SendRepeat    *)
(* learn where their puts go (remote_ptr).  Addresses are handed out again  *)
(* after they were freed.  The client is any program that frees what it     *)
(* has allocated; FreeBuff and MyMalloc are one such program.               *)
(***************************************************************************)
EXTENDS Integers, Sequences

CONSTANTS
    Addr,        \* addresses of one process
    MaxAllocs    \* bound on the calls of armci_malloc

VARIABLES
    made,   \* made[n][p]: address of allocation n on p (node->ptrs)
    list,   \* list[p]: the allocations of p's linked list, from m_first on
    owner,  \* owner[p][a]: allocation that holds address a of p now, 0 for none
    failed  \* ARMCI_Error was called

vars == <<made, list, owner, failed>>

Proc == {"tr", "rcv"}
Peer(p) == IF p = "tr" THEN "rcv" ELSE "tr"

Init ==
    /\ made = <<>>
    /\ list = [p \in Proc |-> <<>>]
    /\ owner = [p \in Proc |-> [a \in Addr |-> 0]]
    /\ failed = FALSE

-----------------------------------------------------------------------------

\* Places of the list at which address a of p is found.
Hits(p, a) == {i \in 1..Len(list[p]) : made[list[p][i]][p] = a}

\* The place of the first node that holds a, 0 when there is none.
mfind(p, a) ==
    LET hits == Hits(p, a)
    IN IF hits = {} THEN 0 ELSE CHOOSE i \in hits : \A j \in hits : i <= j

mlink_front(s, n) == [j \in 1..(Len(s) + 1) |-> IF j = 1 THEN n ELSE s[j - 1]]

\* Variant of munlink that takes every node for the first one.
munlinkFirst(s, i) == [j \in 1..(Len(s) - i) |-> s[j + i]]

munlink(s, i) == [j \in 1..(Len(s) - 1) |-> IF j < i THEN s[j] ELSE s[j + 1]]

remote_ptr(p, a) == made[list[p][mfind(p, a)]][Peer(p)]

armci_malloc ==
    LET n == Len(made) + 1
    IN /\ ~failed /\ Len(made) < MaxAllocs
       /\ \E ptrs \in [Proc -> Addr] :
             /\ \A p \in Proc : owner[p][ptrs[p]] = 0
             /\ made' = [m \in 1..n |-> IF m = n THEN ptrs ELSE made[m]]
             /\ owner' = [p \in Proc |-> [owner[p] EXCEPT ![ptrs[p]] = n]]
       /\ list' = [p \in Proc |-> mlink_front(list[p], n)]
       /\ UNCHANGED failed

\* A pointer the list does not hold ends the program; with an empty list it is freed.
armci_free(p) ==
    /\ ~failed
    /\ \E a \in Addr :
          LET i == mfind(p, a)
          IN /\ owner[p][a] # 0
             /\ owner' = [owner EXCEPT ![p][a] = 0]
             /\ failed' = (i = 0 /\ Len(list[p]) > 0)
             /\ list' = IF i = 0 THEN list ELSE [list EXCEPT ![p] = munlink(@, i)]
    /\ UNCHANGED made

Next == armci_malloc \/ \E p \in Proc : armci_free(p)

Spec == Init /\ [][Next]_vars

-----------------------------------------------------------------------------
(* Properties. *)

\* The addresses in the lists, the memory they stand for, and the allocations
\* made so far belong together.
TypeOK ==
    /\ made \in Seq([Proc -> Addr])
    /\ list \in [Proc -> Seq(Nat)]
    /\ \A p \in Proc : \A i \in 1..Len(list[p]) : list[p][i] \in 1..Len(made)
    /\ owner \in [Proc -> [Addr -> 0..Len(made)]]
    /\ failed \in BOOLEAN

\* The list of a process holds exactly what the process has allocated and not
\* freed (mlink_front, munlink).
ListIsLive ==
    /\ \A p \in Proc : \A i \in 1..Len(list[p]) : owner[p][made[list[p][i]][p]] = list[p][i]
    /\ \A p \in Proc : \A a \in Addr :
          owner[p][a] # 0 => \E i \in 1..Len(list[p]) : list[p][i] = owner[p][a]
    /\ \A p \in Proc : \A i, j \in 1..Len(list[p]) : list[p][i] = list[p][j] => i = j
    /\ \A p \in Proc : \A a \in Addr : owner[p][a] # 0 => made[owner[p][a]][p] = a

\* ARMCI_Error("Cannot find pointer in linked list") is never called (mfind).
PointerIsFound == ~failed

\* A put goes into the peer's part of the same allocation, whatever addresses
\* were handed out before, as long as the peer has not freed it (remote_ptr).
RemoteIsPartner ==
    \A p \in Proc : \A a \in Addr :
        owner[p][a] # 0
        => /\ mfind(p, a) # 0
           /\ LET b == remote_ptr(p, a)
              IN \A c \in Addr : owner[Peer(p)][c] = owner[p][a] => c = b
=============================================================================
