-------------------------- MODULE ArmciHeapProofs ---------------------------
(***************************************************************************)
(* The address list of src/src/armci.c holds exactly what is allocated, and *)
(* so remote_ptr gives the peer's part of the same allocation: for every    *)
(* set of addresses and any number of allocations.  ListIsLive is inductive *)
(* once it is known that mfind finds a live address; that in turn follows   *)
(* from ListIsLive, because no address occurs in two nodes.                 *)
(***************************************************************************)
EXTENDS ArmciHeap, TLAPS

USE DEF Proc

\* The list, the memory it stands for, and ARMCI_Error.
Inv == TypeOK /\ ListIsLive /\ PointerIsFound

\* The list is a list of allocations that have been made.
LEMMA Nodes ==
    ASSUME Inv, NEW p \in Proc
    PROVE  /\ Len(made) \in Nat /\ Len(list[p]) \in Nat
           /\ \A m \in 1..Len(made) : made[m] \in [Proc -> Addr]
           /\ \A i \in 1..Len(list[p]) : list[p][i] \in 1..Len(made)
           /\ list \in [Proc -> Seq(Nat)]
           /\ owner \in [Proc -> [Addr -> 0..Len(made)]]
  BY DEF Inv, TypeOK

\* The same without what the provers do not need about places in the list.
LEMMA Places ==
    ASSUME Inv
    PROVE  /\ Len(made) \in Nat
           /\ \A p \in Proc : Len(list[p]) \in Nat
           /\ \A p \in Proc : \A i \in 1..Len(list[p]) : list[p][i] \in 1..Len(made)
  BY Nodes

\* mfind finds the one node of a live address, and only a live one has a node.
LEMMA Found ==
    ASSUME Inv, NEW p \in Proc, NEW a \in Addr, owner[p][a] # 0
    PROVE  /\ mfind(p, a) \in 1..Len(list[p])
           /\ list[p][mfind(p, a)] = owner[p][a]
<1>1. PICK i \in 1..Len(list[p]) : list[p][i] = owner[p][a]
  BY DEF Inv, ListIsLive
<1>2. made[list[p][i]][p] = a
  BY <1>1 DEF Inv, ListIsLive
<1>3. Hits(p, a) = {i}
  <2>1. i \in Hits(p, a)
    BY <1>2 DEF Hits
  <2>2. ASSUME NEW k \in Hits(p, a)  PROVE k = i
    <3>1. k \in 1..Len(list[p]) /\ made[list[p][k]][p] = a
      BY DEF Hits
    <3>2. list[p][k] = list[p][i]
      BY <1>1, <3>1 DEF Inv, ListIsLive
    <3> QED  BY <3>1, <3>2 DEF Inv, ListIsLive
  <2> QED  BY <2>1, <2>2
<1>4. mfind(p, a) = i
  <2>1. i \in Nat
    BY Nodes
  <2>2. \A k \in {i} : \A q \in {i} : k <= q
    BY <2>1
  <2>3. mfind(p, a) = CHOOSE k \in {i} : \A q \in {i} : k <= q
    BY <1>3 DEF mfind
  <2> QED  BY <2>2, <2>3
<1> QED  BY <1>1, <1>4

\* What mfind finds leads to the peer's address of the same allocation (remote_ptr).
LEMMA Partner == Inv => RemoteIsPartner
<1> SUFFICES ASSUME Inv, NEW p \in Proc, NEW a \in Addr, owner[p][a] # 0,
                    NEW c \in Addr, owner[Peer(p)][c] = owner[p][a]
             PROVE  mfind(p, a) # 0 /\ c = remote_ptr(p, a)
  BY Found, Nodes DEF RemoteIsPartner
<1>1. mfind(p, a) \in 1..Len(list[p]) /\ list[p][mfind(p, a)] = owner[p][a]
  BY Found
<1>2. Peer(p) \in Proc
  BY DEF Peer
<1>3. made[owner[Peer(p)][c]][Peer(p)] = c
  BY <1>2 DEF Inv, ListIsLive
<1>4. remote_ptr(p, a) = made[owner[p][a]][Peer(p)]
  BY <1>1 DEF remote_ptr
<1> QED  BY <1>1, <1>3, <1>4, Nodes

\* armci_malloc puts the new allocation in front, and leaves the others (mlink_front).
LEMMA Linked ==
    ASSUME Inv, armci_malloc
    PROVE  Inv'
<1> DEFINE n == Len(made) + 1
<1>1. PICK ptrs \in [Proc -> Addr] :
          /\ \A p \in Proc : owner[p][ptrs[p]] = 0
          /\ made' = [m \in 1..n |-> IF m = n THEN ptrs ELSE made[m]]
          /\ owner' = [p \in Proc |-> [owner[p] EXCEPT ![ptrs[p]] = n]]
  BY DEF armci_malloc
<1>2. n \in Nat \ {0} /\ n \notin 1..Len(made)
  BY Nodes
<1> HIDE DEF n
<1>3. /\ made' \in Seq([Proc -> Addr]) /\ Len(made') = n /\ Len(made) = n - 1
      /\ \A m \in 1..Len(made) : made'[m] = made[m] /\ made'[n] = ptrs
  <2>1. made' \in [1..n -> [Proc -> Addr]]
    BY <1>1, <1>2, Nodes DEF n
  <2> QED  BY <1>1, <1>2, <2>1, Nodes, SMTT(30) DEF n
<1>4. /\ list' \in [Proc -> Seq(Nat)]
      /\ \A p \in Proc : /\ Len(list'[p]) = Len(list[p]) + 1
                         /\ \A i \in 1..Len(list'[p]) : list'[p][i] = IF i = 1 THEN n ELSE list[p][i - 1]
  <2>1. ASSUME NEW p \in Proc  PROVE mlink_front(list[p], n) \in [1..(Len(list[p]) + 1) -> Nat]
    BY <1>2, Nodes, SMTT(30) DEF mlink_front
  <2>2. list' = [p \in Proc |-> mlink_front(list[p], n)]
    BY DEF armci_malloc, n
  <2>3. ASSUME NEW p \in Proc
        PROVE  /\ list'[p] \in Seq(Nat)
               /\ Len(list'[p]) = Len(list[p]) + 1
               /\ \A i \in 1..Len(list'[p]) : list'[p][i] = IF i = 1 THEN n ELSE list[p][i - 1]
    <3>1. list'[p] = mlink_front(list[p], n)
      BY <2>2
    <3> QED  BY <2>1, <3>1, Nodes DEF mlink_front
  <2> QED  BY <2>2, <2>3
<1>front. ASSUME NEW p \in Proc
       PROVE  /\ Len(list[p]) \in Nat /\ Len(list'[p]) = Len(list[p]) + 1
              /\ 1 \in 1..Len(list'[p]) /\ list'[p][1] = n
              /\ \A i \in 1..Len(list[p]) :
                    i + 1 \in 1..Len(list'[p]) /\ list'[p][i + 1] = list[p][i]
              /\ \A i \in 1..Len(list'[p]) : i = 1 \/
                    (i - 1 \in 1..Len(list[p]) /\ list'[p][i] = list[p][i - 1])
  <2>1. Len(list[p]) \in Nat /\ Len(list'[p]) = Len(list[p]) + 1
    BY <1>4, Places
  <2>2. \A i \in 1..Len(list'[p]) : list'[p][i] = IF i = 1 THEN n ELSE list[p][i - 1]
    BY <1>4
  <2>3. ASSUME NEW i \in 1..Len(list[p])
        PROVE  i + 1 \in 1..Len(list'[p]) /\ list'[p][i + 1] = list[p][i]
    <3>1. i + 1 \in 1..Len(list'[p]) /\ i + 1 # 1 /\ (i + 1) - 1 = i
      BY <2>1
    <3> QED  BY <2>2, <3>1
  <2>4. ASSUME NEW i \in 1..Len(list'[p])
        PROVE  i = 1 \/ (i - 1 \in 1..Len(list[p]) /\ list'[p][i] = list[p][i - 1])
    <3>1. ASSUME i # 1  PROVE i - 1 \in 1..Len(list[p])
      BY <2>1, <3>1
    <3>2. ASSUME i # 1  PROVE list'[p][i] = list[p][i - 1]
      BY <2>2, <3>2
    <3> QED  BY <3>1, <3>2
  <2>5. 1 \in 1..Len(list'[p]) /\ list'[p][1] = n
    BY <2>1, <2>2
  <2> QED  BY <2>1, <2>3, <2>4, <2>5
<1>5. owner' \in [Proc -> [Addr -> 0..Len(made')]]
  BY <1>1, <1>2, <1>3, Nodes
<1>6. \A p \in Proc : \A i \in 1..Len(list'[p]) : list'[p][i] \in 1..Len(made')
  <2>1. Len(made') = Len(made) + 1 /\ n = Len(made) + 1
    BY <1>3 DEF n
  <2>2. ASSUME NEW p \in Proc, NEW i \in 1..Len(list'[p])  PROVE list'[p][i] \in 1..Len(made')
    <3>1. CASE i = 1
      BY <1>2, <1>front, <2>1, <3>1
    <3>2. CASE i # 1
      <4>1. list'[p][i] \in 1..Len(made)
        BY <1>front, <3>2, Places
      <4> QED  BY <2>1, <4>1, Places
    <3> QED  BY <3>1, <3>2
  <2> QED  BY <2>2
<1>7. TypeOK' /\ PointerIsFound'
  BY <1>3, <1>4, <1>5, <1>6 DEF Inv, TypeOK, PointerIsFound, armci_malloc
<1>8. ASSUME NEW p \in Proc, NEW i \in 1..Len(list'[p])
      PROVE  owner'[p][made'[list'[p][i]][p]] = list'[p][i]
  <2>1. CASE i = 1
    BY <1>1, <1>2, <1>3, <1>4, <2>1, Nodes, SMTT(30)
  <2>2. CASE i # 1
    <3>1. i - 1 \in 1..Len(list[p]) /\ list'[p][i] = list[p][i - 1]
      BY <1>front, <2>2, Places
    <3>2. owner[p][made[list[p][i - 1]][p]] = list[p][i - 1] /\ list[p][i - 1] \in 1..Len(made)
      BY <3>1, Nodes DEF Inv, ListIsLive
    <3>3. made[list[p][i - 1]][p] # ptrs[p] /\ made[list[p][i - 1]][p] \in Addr
      BY <1>1, <3>2, Nodes
    <3> QED  BY <1>1, <1>3, <3>1, <3>2, <3>3, Nodes
  <2> QED  BY <2>1, <2>2
<1>9. ASSUME NEW p \in Proc, NEW a \in Addr, owner'[p][a] # 0
      PROVE  (\E i \in 1..Len(list'[p]) : list'[p][i] = owner'[p][a]) /\ made'[owner'[p][a]][p] = a
  <2>1. CASE a = ptrs[p]
    <3>1. owner'[p][a] = n
      BY <1>1, <2>1, Nodes
    <3>2. 1 \in 1..Len(list'[p]) /\ list'[p][1] = n
      BY <1>front, Places
    <3> QED  BY <1>1, <1>2, <1>3, <2>1, <3>1, <3>2
  <2>2. CASE a # ptrs[p]
    <3>1. owner'[p][a] = owner[p][a]
      BY <1>1, <2>2, Nodes
    <3>2. PICK i \in 1..Len(list[p]) : list[p][i] = owner[p][a]
      BY <1>9, <3>1 DEF Inv, ListIsLive
    <3>3. made[owner[p][a]][p] = a /\ owner[p][a] \in 1..Len(made)
      BY <1>9, <3>1, <3>2, Nodes DEF Inv, ListIsLive
    <3>4. i + 1 \in 1..Len(list'[p]) /\ list'[p][i + 1] = list[p][i]
      BY <1>front, Places
    <3> QED  BY <1>1, <1>3, <3>1, <3>2, <3>3, <3>4
  <2> QED  BY <2>1, <2>2
<1>10. ASSUME NEW p \in Proc, NEW i \in 1..Len(list'[p]), NEW k \in 1..Len(list'[p]), list'[p][i] = list'[p][k]
       PROVE  i = k
  <2>1. \A m \in 1..Len(list[p]) : list[p][m] # n
    BY <1>2, Places
  <2>2. list'[p][1] = n
    BY <1>front
  <2>3. \A u, v \in 1..Len(list[p]) : list[p][u] = list[p][v] => u = v
    BY DEF Inv, ListIsLive
  <2>4. i = 1 \/ (i - 1 \in 1..Len(list[p]) /\ list'[p][i] = list[p][i - 1])
    BY <1>front
  <2>5. k = 1 \/ (k - 1 \in 1..Len(list[p]) /\ list'[p][k] = list[p][k - 1])
    BY <1>front
  <2>6. i \in Int /\ k \in Int
    OBVIOUS
  <2>7. i = k \/ i - 1 = k - 1
    BY <1>10, <2>1, <2>2, <2>3, <2>4, <2>5
  <2> QED  BY <2>6, <2>7
<1> QED  BY <1>7, <1>8, <1>9, <1>10 DEF Inv, ListIsLive

\* armci_free takes out the one node that it looked up (munlink).
LEMMA Unlinked ==
    ASSUME Inv, NEW p \in Proc, armci_free(p)
    PROVE  Inv'
<1>1. PICK a \in Addr :
          LET i == mfind(p, a)
          IN /\ owner[p][a] # 0
             /\ owner' = [owner EXCEPT ![p][a] = 0]
             /\ failed' = (i = 0 /\ Len(list[p]) > 0)
             /\ list' = IF i = 0 THEN list ELSE [list EXCEPT ![p] = munlink(@, i)]
  BY DEF armci_free
<1> DEFINE i == mfind(p, a)
<1>2. i \in 1..Len(list[p]) /\ list[p][i] = owner[p][a] /\ made' = made
  BY <1>1, Found DEF armci_free
<1>3. owner' = [owner EXCEPT ![p][a] = 0] /\ failed' = FALSE
  <2>1. i # 0
    BY <1>2, Places
  <2> QED  BY <1>1, <2>1
<1>4. list' = [list EXCEPT ![p] = munlink(list[p], i)]
  <2>1. i # 0
    BY <1>2, Places
  <2> QED  BY <1>1, <2>1
<1> HIDE DEF i
<1>5. /\ list'[p] \in Seq(Nat)
      /\ Len(list'[p]) = Len(list[p]) - 1
      /\ \A k \in 1..Len(list'[p]) : list'[p][k] = IF k < i THEN list[p][k] ELSE list[p][k + 1]
  <2>1. Len(list[p]) - 1 \in Nat
    BY <1>2, Nodes
  <2>2. munlink(list[p], i) \in [1..(Len(list[p]) - 1) -> Nat]
    <3>1. \A k \in 1..(Len(list[p]) - 1) : k \in 1..Len(list[p]) /\ k + 1 \in 1..Len(list[p])
      BY Places
    <3>2. \A k \in 1..Len(list[p]) : list[p][k] \in Nat
      BY Places
    <3> QED  BY <3>1, <3>2 DEF munlink
  <2>3. list'[p] = munlink(list[p], i)
    BY <1>4, Nodes
  <2>4. list'[p] \in Seq(Nat) /\ Len(list'[p]) = Len(list[p]) - 1
    BY <2>1, <2>2, <2>3
  <2> QED  BY <2>3, <2>4 DEF munlink
<1>short. /\ Len(list[p]) \in Nat /\ Len(list'[p]) = Len(list[p]) - 1 /\ i \in 1..Len(list[p])
          /\ \A k \in 1..Len(list'[p]) : k < i => list'[p][k] = list[p][k]
          /\ \A k \in 1..Len(list'[p]) : ~(k < i) => list'[p][k] = list[p][k + 1]
  BY <1>2, <1>5, Places
<1>6. \A q \in Proc : q # p => list'[q] = list[q] /\ owner'[q] = owner[q]
  BY <1>3, <1>4, Nodes
<1>7. \A b \in Addr : owner'[p][b] = IF b = a THEN 0 ELSE owner[p][b]
  BY <1>3, Nodes
<1>8. list' \in [Proc -> Seq(Nat)] /\ owner' \in [Proc -> [Addr -> 0..Len(made)]]
  BY <1>3, <1>4, <1>5, Nodes
<1>9. \* a node that stays is one that was there, at its old place or the next one
      \A k \in 1..Len(list'[p]) :
          \E m \in 1..Len(list[p]) : m # i /\ list'[p][k] = list[p][m] /\ m = IF k < i THEN k ELSE k + 1
  <2>1. ASSUME NEW k \in 1..Len(list'[p])
        PROVE  LET m == IF k < i THEN k ELSE k + 1
               IN  m \in 1..Len(list[p]) /\ m # i /\ list'[p][k] = list[p][m]
    <3>1. CASE k < i
      BY <1>short, <3>1
    <3>2. CASE ~(k < i)
      <4>1. k + 1 \in 1..Len(list[p]) /\ k + 1 # i
        BY <1>short, <3>2
      <4> QED  BY <1>short, <3>2, <4>1
    <3> QED  BY <3>1, <3>2
  <2> QED  BY <2>1
<1>10. \A m \in 1..Len(list[p]) : m # i =>
          \E k \in 1..Len(list'[p]) : list'[p][k] = list[p][m]
  <2>1. ASSUME NEW m \in 1..Len(list[p]), m # i
        PROVE \E k \in 1..Len(list'[p]) : list'[p][k] = list[p][m]
    <3>1. CASE m < i
      <4>1. m \in 1..Len(list'[p]) /\ list'[p][m] = list[p][m]
        BY <1>short, <3>1
      <4> QED  BY <4>1
    <3>2. CASE m > i
      <4>1. m - 1 \in 1..Len(list'[p]) /\ ~(m - 1 < i)
        BY <1>short, <3>2
      <4>2. list'[p][m - 1] = list[p][m - 1 + 1] /\ m - 1 + 1 = m
        BY <1>short, <4>1
      <4> QED  BY <4>1, <4>2
    <3> QED  BY <2>1, <3>1, <3>2, <1>short
  <2> QED  BY <2>1
<1>11. TypeOK' /\ PointerIsFound'
  BY <1>2, <1>3, <1>6, <1>8, <1>9, Nodes DEF Inv, TypeOK, PointerIsFound
<1>12. ASSUME NEW k \in 1..Len(list'[p])
       PROVE  owner'[p][made'[list'[p][k]][p]] = list'[p][k]
  <2>1. PICK m \in 1..Len(list[p]) : m # i /\ list'[p][k] = list[p][m]
    BY <1>9
  <2>2. owner[p][made[list[p][m]][p]] = list[p][m] /\ made[list[p][m]][p] \in Addr
    <3>1. made[list[p][m]] \in [Proc -> Addr]
      BY Nodes
    <3> QED  BY <3>1 DEF Inv, ListIsLive
  <2>3. list[p][m] # list[p][i]
    BY <1>2, <2>1 DEF Inv, ListIsLive
  <2> QED  BY <1>2, <1>7, <2>1, <2>2, <2>3
<1>13. ASSUME NEW b \in Addr, owner'[p][b] # 0
       PROVE  (\E k \in 1..Len(list'[p]) : list'[p][k] = owner'[p][b]) /\ made'[owner'[p][b]][p] = b
  <2>1. b # a /\ owner'[p][b] = owner[p][b]
    BY <1>7, <1>13
  <2>2. made[owner[p][b]][p] = b /\ made[owner[p][a]][p] = a
    BY <1>1, <1>13, <2>1 DEF Inv, ListIsLive
  <2>3. PICK m \in 1..Len(list[p]) : list[p][m] = owner[p][b]
    BY <1>13, <2>1 DEF Inv, ListIsLive
  <2>4. m # i
    BY <1>2, <2>1, <2>2, <2>3
  <2> QED  BY <1>2, <1>10, <2>1, <2>2, <2>3, <2>4
<1>14. ASSUME NEW k \in 1..Len(list'[p]), NEW l \in 1..Len(list'[p]), list'[p][k] = list'[p][l]
       PROVE  k = l
  <2>1. PICK m \in 1..Len(list[p]) : list'[p][k] = list[p][m] /\ m = IF k < i THEN k ELSE k + 1
    BY <1>9
  <2>2. PICK q \in 1..Len(list[p]) : list'[p][l] = list[p][q] /\ q = IF l < i THEN l ELSE l + 1
    BY <1>9
  <2>3. \A u, v \in 1..Len(list[p]) : list[p][u] = list[p][v] => u = v
    BY DEF Inv, ListIsLive
  <2>4. m = q
    BY <1>14, <2>1, <2>2, <2>3
  <2>5. k \in Int /\ l \in Int /\ i \in Int
    BY <1>2
  <2> QED  BY <2>1, <2>2, <2>4, <2>5
<1>15. ListIsLive'
  <2>1. ASSUME NEW q \in Proc, q # p
        PROVE  /\ \A k \in 1..Len(list'[q]) : owner'[q][made'[list'[q][k]][q]] = list'[q][k]
               /\ \A b \in Addr : owner'[q][b] # 0 =>
                     /\ \E k \in 1..Len(list'[q]) : list'[q][k] = owner'[q][b]
                     /\ made'[owner'[q][b]][q] = b
               /\ \A k, l \in 1..Len(list'[q]) : list'[q][k] = list'[q][l] => k = l
    <3>1. list'[q] = list[q] /\ owner'[q] = owner[q] /\ made' = made
      BY <1>2, <1>6, <2>1
    <3> QED  BY <3>1, SMTT(30) DEF Inv, ListIsLive
  <2> QED  BY <2>1, <1>12, <1>13, <1>14 DEF ListIsLive
<1> QED  BY <1>11, <1>15 DEF Inv

LEMMA Starts == Init => Inv
<1> SUFFICES ASSUME Init  PROVE Inv
  OBVIOUS
<1>1. made = <<>> /\ Len(made) = 0 /\ \A p \in Proc : list[p] = <<>> /\ Len(list[p]) = 0
  BY DEF Init
<1>2. TypeOK /\ PointerIsFound
  <2>1. made \in Seq([Proc -> Addr]) /\ list \in [Proc -> Seq(Nat)]
    BY DEF Init
  <2>2. owner \in [Proc -> [Addr -> 0..Len(made)]]
    BY <1>1 DEF Init
  <2>3. \A p \in Proc : \A i \in 1..Len(list[p]) : list[p][i] \in 1..Len(made)
    BY <1>1
  <2>4. failed = FALSE
    BY DEF Init
  <2> QED  BY <2>1, <2>2, <2>3, <2>4 DEF TypeOK, PointerIsFound
<1>3. ListIsLive
  BY <1>1 DEF Init, ListIsLive
<1> QED  BY <1>2, <1>3 DEF Inv

LEMMA Inductive == Inv /\ [Next]_vars => Inv'
<1>1. Inv /\ UNCHANGED vars => Inv'
  BY DEF vars, Inv, TypeOK, ListIsLive, PointerIsFound
<1> QED  BY <1>1, Linked, Unlinked DEF Next

LEMMA Invariance == Spec => []Inv
  BY Starts, Inductive, PTL DEF Spec

\* The list of each process holds exactly its live blocks, whatever was allocated and
\* freed before, and no pointer is ever missing (mlink_front, munlink, mfind).
THEOREM ListHoldsLiveBlocks == Spec => [](ListIsLive /\ PointerIsFound)
<1>1. Inv => ListIsLive /\ PointerIsFound
  BY DEF Inv
<1> QED  BY <1>1, Invariance, PTL

\* A put goes into the peer's part of the same allocation (remote_ptr).
THEOREM PutsReachPartner == Spec => []RemoteIsPartner
  BY Partner, Invariance, PTL
=============================================================================
