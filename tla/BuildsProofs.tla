---------------------------- MODULE BuildsProofs ----------------------------
(***************************************************************************)
(* Machine-checked proofs about Builds, for all bounds: the copy, the       *)
(* address list, the all-to-all program, the one-sided modules and the test *)
(* pattern, and with the invariants of MessageProofs the properties of all  *)
(* of them.                                                                 *)
(***************************************************************************)
EXTENDS MessageProofs, SequenceTheorems, TLAPS

AHP == INSTANCE ArmciHeapProofs

-----------------------------------------------------------------------------
(* The memory copy.  The inductive invariant says that the octets before the *)
(* place reached are the ones written, and that place and remaining count     *)
(* always add up to nbytes.                                                   *)

\* The types of the variables of a copy.
CopyTyped ==
    /\ width \in MC!Widths /\ at \in Int /\ n \in Nat
    /\ pc \in {"before", "main", "after", "done"}
    /\ off \in Nat /\ left \in Nat
    /\ copied \in [0..(n + 1) -> Nat]

\* What has been written is what lies before the place reached.
CopyReached ==
    /\ off + left = n
    /\ pc = "before" => off = 0
    /\ pc # "done" => \A x \in 0..(n + 1) : copied[x] = IF x < off THEN 1 ELSE 0
    /\ pc = "done" => \A x \in 0..(n + 1) : copied[x] = IF x < n THEN 1 ELSE 0

CopyOk == CopyTyped /\ CopyReached /\ MC!MainOnBoundary

\* The distance to the next boundary is positive, whatever the sign of the address
\* (the first line of memcpy_8 and memcpy_16), and leads to a boundary.
LEMMA CopyDistance ==
    ASSUME CopyTyped
    PROVE  MC!nb_b4 \in Nat \ {0} /\ (at + MC!nb_b4) % width = 0 /\ (MC!nb_b4 = width => at % width = 0)
<1>1. CASE width = 8
  <2>1. CASE at >= 0
    BY <1>1, <2>1 DEF CopyTyped, MC!nb_b4, MC!Remainder
  <2>2. CASE at < 0
    BY <1>1, <2>2 DEF CopyTyped, MC!nb_b4, MC!Remainder
  <2> QED  BY <2>1, <2>2 DEF CopyTyped
<1>2. CASE width = 16
  <2>1. CASE at >= 0
    BY <1>2, <2>1 DEF CopyTyped, MC!nb_b4, MC!Remainder
  <2>2. CASE at < 0
    BY <1>2, <2>2 DEF CopyTyped, MC!nb_b4, MC!Remainder
  <2> QED  BY <2>1, <2>2 DEF CopyTyped
<1> QED  BY <1>1, <1>2 DEF CopyTyped, MC!Widths

\* The rest after the whole pieces is part of what is left (nb_after).
LEMMA CopyRest ==
    ASSUME CopyTyped
    PROVE  MC!nb_after \in 0..left
<1>1. CASE width = 8
  BY <1>1 DEF CopyTyped, MC!nb_after
<1>2. CASE width = 16
  BY <1>2 DEF CopyTyped, MC!nb_after
<1> QED  BY <1>1, <1>2 DEF CopyTyped, MC!Widths

\* A piece that starts at the place reached extends what has been written.
LEMMA CopyExtends ==
    ASSUME CopyTyped, NEW len \in Nat, off + len <= n, MC!Copy(off, len),
           \A x \in 0..(n + 1) : copied[x] = IF x < off THEN 1 ELSE 0
    PROVE  /\ copied' \in [0..(n + 1) -> Nat]
           /\ \A x \in 0..(n + 1) : copied'[x] = IF x < off + len THEN 1 ELSE 0
<1>1. DOMAIN copied = 0..(n + 1)
  BY DEF CopyTyped
<1>2. copied' = [x \in 0..(n + 1) |-> IF x \in off..(off + len - 1) THEN copied[x] + 1 ELSE copied[x]]
  BY <1>1 DEF MC!Copy
<1> QED  BY <1>2 DEF CopyTyped

\* The invariant holds at the call and is kept by each of the three pieces.
LEMMA CopyInvInductive == CopyOk /\ [MC!Next]_(MC!vars) => CopyOk'
<1> SUFFICES ASSUME CopyOk, [MC!Next]_(MC!vars)  PROVE CopyOk'
  OBVIOUS
<1> USE DEF CopyOk
<1>1. CASE MC!Before
  <2>1. MC!nb_b4 \in Nat \ {0} /\ (at + MC!nb_b4) % width = 0 /\ (MC!nb_b4 = width => at % width = 0)
    BY CopyDistance
  <2>2. /\ pc = "before" /\ pc' = "main" /\ off = 0 /\ left = n
        /\ width' = width /\ at' = at /\ n' = n /\ MC!nb_b4' = MC!nb_b4
    BY <1>1 DEF MC!Before, CopyReached, CopyTyped, MC!nb_b4, MC!Remainder
  <2>3. CASE MC!nb_b4 # width /\ MC!nb_b4 <= left
    <3>1. MC!Copy(off, MC!nb_b4) /\ off' = MC!nb_b4 /\ left' = left - MC!nb_b4
      BY <1>1, <2>2, <2>3 DEF MC!Before
    <3>2. /\ copied' \in [0..(n + 1) -> Nat]
          /\ \A x \in 0..(n + 1) : copied'[x] = IF x < off + MC!nb_b4 THEN 1 ELSE 0
      BY <2>1, <2>2, <2>3, <3>1, CopyExtends DEF CopyReached, CopyTyped
    <3> QED  BY <2>1, <2>2, <2>3, <3>1, <3>2 DEF CopyTyped, CopyReached, MC!MainOnBoundary
  <2>4. CASE ~(MC!nb_b4 # width /\ MC!nb_b4 <= left)
    <3>1. UNCHANGED <<copied, off, left>>
      BY <1>1, <2>4 DEF MC!Before
    <3>2. CopyTyped' /\ CopyReached'
      BY <2>2, <3>1 DEF CopyTyped, CopyReached
    <3>3. MC!MainOnBoundary'
      BY <2>1, <2>2, <2>4, <3>1 DEF CopyTyped, MC!MainOnBoundary
    <3> QED  BY <3>2, <3>3
  <2> QED  BY <2>3, <2>4
<1>2. CASE MC!Main
  <2>1. MC!nb_after \in 0..left
    BY CopyRest
  <2>2. /\ pc = "main" /\ pc' = "after" /\ MC!Copy(off, left - MC!nb_after)
        /\ off' = off + left - MC!nb_after /\ left' = MC!nb_after
        /\ width' = width /\ at' = at /\ n' = n
    BY <1>2 DEF MC!Main
  <2>3. /\ copied' \in [0..(n + 1) -> Nat]
        /\ \A x \in 0..(n + 1) : copied'[x] = IF x < off + (left - MC!nb_after) THEN 1 ELSE 0
    BY <2>1, <2>2, CopyExtends DEF CopyReached, CopyTyped
  <2> QED  BY <2>1, <2>2, <2>3 DEF CopyTyped, CopyReached, MC!MainOnBoundary
<1>3. CASE MC!After
  <2>1. /\ pc = "after" /\ pc' = "done" /\ MC!Copy(off, left)
        /\ UNCHANGED <<width, at, n, off, left>>
    BY <1>3 DEF MC!After
  <2>2. /\ copied' \in [0..(n + 1) -> Nat]
        /\ \A x \in 0..(n + 1) : copied'[x] = IF x < off + left THEN 1 ELSE 0
    BY <2>1, CopyExtends DEF CopyReached, CopyTyped
  <2> QED  BY <2>1, <2>2 DEF CopyTyped, CopyReached, MC!MainOnBoundary
<1>4. CASE UNCHANGED MC!vars
  BY <1>4 DEF MC!vars, CopyTyped, CopyReached, MC!MainOnBoundary, MC!nb_b4, MC!Remainder
<1> QED  BY <1>1, <1>2, <1>3, <1>4 DEF MC!Next

\* A call of memcpy_8 or memcpy_16 starts with nothing written.
LEMMA CopyOkStarts == MC!Init => CopyOk
BY BoundsAssumption DEF MC!Init, CopyOk, CopyTyped, CopyReached, MC!MainOnBoundary, MC!Widths

\* The invariant gives what is promised of a copy.
LEMMA CopyPromises == CopyOk => MC!EachOctetOnce /\ MC!MainOnBoundary
BY DEF CopyOk, CopyTyped, CopyReached, MC!EachOctetOnce

\* For every address and every nbytes each octet is written exactly once and none
\* after the end (memcpy_8, memcpy_16).
THEOREM CopiesOnce == MC!Spec => []MC!EachOctetOnce
BY CopyOkStarts, CopyInvInductive, CopyPromises, PTL DEF MC!Spec

\* For every address, negative ones included, the main loop starts on a boundary
\* unless the distance to it exceeds nbytes (memcpy_16).
THEOREM StartsOnBoundary == MC!Spec => []MC!MainOnBoundary
BY CopyOkStarts, CopyInvInductive, CopyPromises, PTL DEF MC!Spec

CopyInv == built = "copy" => CopyOk

LEMMA CopyStarts == Init => CopyInv
BY CopyOkStarts DEF Init, CopyInv

LEMMA CopyInductive == CopyInv /\ [Next]_vars => CopyInv'
<1> SUFFICES ASSUME CopyInv, [Next]_vars, built' = "copy"  PROVE CopyOk'
  BY DEF CopyInv
<1>1. CopyOk /\ built = "copy"
  BY SameBuild DEF CopyInv
<1>2. CASE CopyStep
  BY <1>1, <1>2, CopyInvInductive DEF CopyStep
<1>3. CASE UNCHANGED vars
  <2>1. UNCHANGED MC!vars
    BY <1>3 DEF vars, copyOnly, MC!vars
  <2> QED  BY <1>1, <2>1, CopyInvInductive
<1> QED
  BY <1>1, <1>2, <1>3
     DEF Next, MailboxStep, MpiStep, AtoaStep, GmStep, PvmStep, HeapStep, PatternStep

\* In the composition: for every address and length the three pieces of a copy write
\* every octet exactly once, and the main one starts on a boundary (memcpy_8,
\* memcpy_16).
THEOREM CopiesExactly == Spec => []EachOctetOnce
<1>1. CopyInv => EachOctetOnce
  BY CopyPromises DEF CopyInv, EachOctetOnce
<1> QED  BY <1>1, CopyStarts, CopyInductive, PTL DEF Spec

-----------------------------------------------------------------------------
(* The address list of ARMCI: ArmciHeapProofs in this composition *)

HeapInv == built = "heap" => AHP!Inv

LEMMA HeapStarts == Init => HeapInv
<1>1. AH!Init => AHP!Init
  BY DEF AH!Init, AHP!Init, AH!Proc, AHP!Proc
<1> QED  BY <1>1, AHP!Starts DEF Init, HeapInv

LEMMA HeapInductive == HeapInv /\ [Next]_vars => HeapInv'
<1> SUFFICES ASSUME HeapInv, [Next]_vars, built' = "heap"  PROVE AHP!Inv'
  BY DEF HeapInv
<1>1. AHP!Inv /\ built = "heap"
  BY SameBuild DEF HeapInv
<1>2. AH!Next => AHP!Next
  BY DEF AH!Next, AH!armci_malloc, AH!armci_free, AH!mfind, AH!Hits, AH!mlink_front, AH!munlink, AH!Proc,
         AHP!Next, AHP!armci_malloc, AHP!armci_free, AHP!mfind, AHP!Hits, AHP!mlink_front, AHP!munlink, AHP!Proc
<1>3. CASE HeapStep
  BY <1>1, <1>2, <1>3, AHP!Inductive DEF HeapStep
<1>4. CASE UNCHANGED vars
  <2>1. UNCHANGED AHP!vars
    BY <1>4 DEF vars, heapOnly, AHP!vars
  <2> QED  BY <1>1, <2>1, AHP!Inductive
<1> QED
  BY <1>1, <1>3, <1>4
     DEF Next, MailboxStep, MpiStep, AtoaStep, GmStep, PvmStep, CopyStep, PatternStep

\* For every set of addresses and any number of allocations a put goes into the peer's
\* part of the same allocation, and the list holds exactly what is live (mlink_front,
\* munlink, mfind, remote_ptr).
THEOREM PutsReachPartner == Spec => []RemoteIsPartner
<1>1. HeapInv => RemoteIsPartner
  <2>1. AHP!Inv => AH!TypeOK /\ AH!ListIsLive /\ AH!PointerIsFound
    BY DEF AHP!Inv, AHP!TypeOK, AHP!ListIsLive, AHP!PointerIsFound, AHP!Proc,
           AH!TypeOK, AH!ListIsLive, AH!PointerIsFound, AH!Proc
  <2>2. AHP!RemoteIsPartner => AH!RemoteIsPartner
    BY DEF AHP!RemoteIsPartner, AHP!remote_ptr, AHP!mfind, AHP!Hits, AHP!Peer, AHP!Proc,
           AH!RemoteIsPartner, AH!remote_ptr, AH!mfind, AH!Hits, AH!Peer, AH!Proc
  <2> QED  BY <2>1, <2>2, AHP!Partner DEF HeapInv, RemoteIsPartner
<1> QED  BY <1>1, HeapStarts, HeapInductive, PTL DEF Spec

-----------------------------------------------------------------------------
(* The all-to-all program.  Only the calls say how far a rank is: its place in *)
(* run_iters gives the calls of this measurement (Pos), the rest (Base) belong *)
(* to the ones before, and ranks of the same measurement have the same Base.   *)

\* Collective calls that rank r has made in its current measurement: two broadcasts, the
\* barrier, and two all-to-alls in each turn; and the calls it had made before.
Full(r) == 3 + 2 * arg[r][2]
Pos(r) ==
    CASE pc[r] = "bcast" -> k[r] - 1
      [] pc[r] = "inBcast" -> k[r]
      [] pc[r] \in {"malloc", "sync"} -> 2
      [] pc[r] = "inSync" -> 3
      [] pc[r] = "alltoall" -> 3 + 2 * (arg[r][2] - left[r]) + k[r] - 1
      [] pc[r] = "inAlltoall" -> 3 + 2 * (arg[r][2] - left[r]) + k[r]
      [] pc[r] = "free" -> Full(r)
      [] pc[r] \in {"script", "ended"} -> IF runs[r] = 0 THEN 0
                                          ELSE IF arg[r][1] = 0 THEN 2 ELSE Full(r)
Base(r) == Len(ops[r]) - Pos(r)

\* r has made the last collective call of its measurement.
AtEnd(r) ==
    \/ pc[r] = "inSync" /\ left[r] = 0
    \/ pc[r] = "inAlltoall" /\ k[r] = 2 /\ left[r] = 1
    \/ pc[r] = "free"
    \/ pc[r] \in {"script", "ended"} /\ (runs[r] = 0 \/ arg[r][1] # 0)

\* r has received the size, or nrepeat too, of its measurement.
Knows(r) == pc[r] \notin {"bcast", "inBcast"}
KnowsSize(r) == Knows(r) \/ k[r] = 2

\* By how many calls another rank may be behind.
Lag(r) ==
    CASE pc[r] \in {"alltoall", "free"} -> 0
      [] pc[r] = "inAlltoall" -> 1
      [] pc[r] \in {"script", "ended"} -> IF runs[r] > 0 /\ arg[r][1] = 0 THEN 2 ELSE 0
      [] pc[r] \in {"bcast", "inBcast", "malloc", "sync", "inSync"} -> Pos(r)

KindAt(j) == IF j <= 2 THEN "bcast" ELSE IF j = 3 THEN "barrier" ELSE "alltoall"
CountAt(r, j) == IF j <= 2 THEN 1 ELSE IF j = 3 THEN 0 ELSE arg[r][1]

Call == [kind : {"bcast", "barrier", "alltoall"}, count : Nat, v : Nat]

AtoaTypes ==
    /\ pc \in [AT!Rank -> AT!Labels] /\ k \in [AT!Rank -> 1..2]
    /\ left \in [AT!Rank -> Nat] /\ runs \in [AT!Rank -> Nat]
    /\ arg \in [AT!Rank -> Nat \X Nat]
    /\ ops \in [AT!Rank -> Seq(Call)]
    /\ runs[0] <= MaxRuns

AtoaLocal(r) ==
    /\ pc[r] \in {"script", "malloc", "sync", "inSync", "free", "ended"} => k[r] = 1
    /\ runs[r] = 0 => pc[r] = "script" \/ (pc[r] = "ended" /\ r = 0)
    /\ pc[r] \in {"malloc", "sync", "inSync", "alltoall", "inAlltoall", "free"} => arg[r][1] # 0
    /\ pc[r] = "script" /\ runs[r] > 0 => arg[r][1] # 0
    /\ pc[r] \in {"sync", "inSync"} => left[r] = arg[r][2]
    /\ pc[r] \in {"alltoall", "inAlltoall"} => left[r] \in 1..arg[r][2]
    /\ Base(r) \in Nat
    /\ KnowsSize(r) => runs[r] <= runs[0]

Recorded(r) ==
    \A j \in 1..Pos(r) : /\ ops[r][Base(r) + j].kind = KindAt(j)
                         /\ ops[r][Base(r) + j].count = CountAt(r, j)

RootGives ==
    /\ Pos(0) >= 1 => ops[0][Base(0) + 1].v = arg[0][1]
    /\ Pos(0) >= 2 => ops[0][Base(0) + 2].v = arg[0][2]

Coupled(r, s) ==
    /\ runs[r] <= runs[s] + 1
    /\ runs[r] = runs[s] => Base(r) = Base(s)
    /\ runs[r] = runs[s] + 1 => Base(r) = Len(ops[s]) /\ AtEnd(s)
    /\ Len(ops[s]) >= Len(ops[r]) - Lag(r)
    /\ runs[r] = runs[s] /\ KnowsSize(r) /\ (KnowsSize(s) \/ s = 0) => arg[r][1] = arg[s][1]
    /\ runs[r] = runs[s] /\ Knows(r) /\ (Knows(s) \/ s = 0) => arg[r][2] = arg[s][2]

Synchronous ==
    /\ AtoaTypes
    /\ \A r \in AT!Rank : AtoaLocal(r) /\ Recorded(r)
    /\ RootGives
    /\ \A r, s \in AT!Rank : Coupled(r, s)
    /\ AT!CollectivesMatch

LEMMA RootIsRank == 0 \in AT!Rank
  BY BoundsAssumption DEF AT!Rank

\* What the place of a rank says of its calls.
Placed(r) ==
    /\ Pos(r) \in Nat /\ Lag(r) \in Nat /\ Len(ops[r]) \in Nat /\ Len(ops[r]) = Base(r) + Pos(r)
    /\ Pos(r) > 2 => Knows(r) /\ Pos(r) <= Full(r) /\ (Pos(r) = Full(r) /\ arg[r][1] # 0 => AtEnd(r))
    /\ pc[r] = "bcast" => Pos(r) = k[r] - 1 /\ Lag(r) = k[r] - 1 /\ ~AtEnd(r)
    /\ pc[r] = "inBcast" => Pos(r) = k[r] /\ Lag(r) = k[r] /\ ~AtEnd(r)
    /\ pc[r] \in {"malloc", "sync"} => Pos(r) = 2 /\ Lag(r) = 2 /\ ~AtEnd(r)
    /\ pc[r] = "inSync" => Pos(r) = 3 /\ Lag(r) = 3 /\ (AtEnd(r) <=> left[r] = 0)
    /\ pc[r] = "alltoall" => /\ Pos(r) = 3 + 2 * (arg[r][2] - left[r]) + k[r] - 1 
                             /\ Lag(r) = 0 /\ ~AtEnd(r) /\ Pos(r) >= 3
    /\ pc[r] = "inAlltoall" => /\ Pos(r) = 3 + 2 * (arg[r][2] - left[r]) + k[r] 
                               /\ Lag(r) = 1 /\ Pos(r) >= 4 /\ (AtEnd(r) <=> k[r] = 2 /\ left[r] = 1)
    /\ pc[r] = "free" => Pos(r) = Full(r) /\ Lag(r) = 0 /\ AtEnd(r)
    /\ pc[r] \in {"script", "ended"} /\ runs[r] = 0 => Pos(r) = 0 /\ Lag(r) = 0 /\ AtEnd(r)
    /\ pc[r] \in {"script", "ended"} /\ runs[r] # 0 /\ arg[r][1] # 0 => Pos(r) = Full(r) /\ Lag(r) = 0 /\ AtEnd(r)
    /\ pc[r] \in {"script", "ended"} /\ runs[r] # 0 /\ arg[r][1] = 0 => Pos(r) = 2 /\ Lag(r) = 2 /\ ~AtEnd(r)

LEMMA Places == \A r \in AT!Rank : AtoaTypes /\ AtoaLocal(r) => Placed(r)
<1> SUFFICES ASSUME NEW r \in AT!Rank, AtoaTypes, AtoaLocal(r)  PROVE Placed(r)
  OBVIOUS
<1>1. /\ pc[r] \in AT!Labels /\ k[r] \in 1..2 /\ left[r] \in Nat /\ runs[r] \in Nat
      /\ arg[r][1] \in Nat /\ arg[r][2] \in Nat /\ Len(ops[r]) \in Nat
  BY DEF AtoaTypes
<1>2. Pos(r) \in Int => Len(ops[r]) = Base(r) + Pos(r)
  BY <1>1 DEF Base
<1>3. CASE pc[r] = "bcast"
  BY <1>1, <1>2, <1>3 DEF Placed, Pos, Lag, AtEnd, Full, Knows
<1>4. CASE pc[r] = "inBcast"
  BY <1>1, <1>2, <1>4 DEF Placed, Pos, Lag, AtEnd, Full, Knows
<1>5. CASE pc[r] = "malloc" \/ pc[r] = "sync"
  <2>1. Pos(r) = 2
    BY <1>5 DEF Pos
  <2>2. Lag(r) = 2
    BY <1>5, <2>1 DEF Lag
  <2>3. ~AtEnd(r)
    BY <1>5 DEF AtEnd
  <2> QED  BY <1>1, <1>2, <1>5, <2>1, <2>2, <2>3 DEF Placed
<1>6. CASE pc[r] = "inSync"
  BY <1>1, <1>2, <1>6 DEF Placed, Pos, Lag, AtEnd, Full, Knows, AtoaLocal
<1>7. CASE pc[r] = "alltoall"
  <2>1. Pos(r) = 3 + 2 * (arg[r][2] - left[r]) + k[r] - 1 /\ Lag(r) = 0
    BY <1>7 DEF Pos, Lag
  <2>2. left[r] \in 1..arg[r][2]
    BY <1>7 DEF AtoaLocal
  <2>3. /\ Pos(r) \in Nat /\ Pos(r) >= 3 /\ Pos(r) <= Full(r)
        /\ Pos(r) = Full(r) => k[r] = 2 /\ left[r] = 1 /\ pc[r] = "inAlltoall"
    BY <1>1, <1>7, <2>1, <2>2, SMTT(30) DEF Full
  <2>4. ~AtEnd(r)
    BY <1>7 DEF AtEnd
  <2> QED  BY <1>1, <1>2, <1>7, <2>1, <2>3, <2>4 DEF Placed, Knows
<1>8. CASE pc[r] = "inAlltoall"
  <2>1. Pos(r) = 3 + 2 * (arg[r][2] - left[r]) + k[r] /\ Lag(r) = 1
    BY <1>8 DEF Pos, Lag
  <2>2. left[r] \in 1..arg[r][2]
    BY <1>8 DEF AtoaLocal
  <2>3. /\ Pos(r) \in Nat /\ Pos(r) >= 4 /\ Pos(r) <= Full(r)
        /\ Pos(r) = Full(r) => k[r] = 2 /\ left[r] = 1 /\ pc[r] = "inAlltoall"
    <3>1. CASE k[r] = 1
      BY <1>1, <1>8, <2>1, <2>2, <3>1 DEF Full
    <3>2. CASE k[r] = 2
      BY <1>1, <1>8, <2>1, <2>2, <3>2, SMTT(30) DEF Full
    <3> QED  BY <1>1, <3>1, <3>2
  <2>4. (AtEnd(r) <=> k[r] = 2 /\ left[r] = 1)
    BY <1>8 DEF AtEnd
  <2> QED  BY <1>1, <1>2, <1>8, <2>1, <2>3, <2>4 DEF Placed, Knows
<1>9. CASE pc[r] = "free"
  BY <1>1, <1>2, <1>9 DEF Placed, Pos, Lag, AtEnd, Full, Knows, AtoaLocal
<1>10. CASE pc[r] \in {"script", "ended"}
  BY <1>1, <1>2, <1>10, SMTT(30) DEF Placed, Pos, Lag, AtEnd, Full, Knows, AtoaLocal
<1> QED  BY <1>1, <1>3, <1>4, <1>5, <1>6, <1>7, <1>8, <1>9, <1>10 DEF AT!Labels

LEMMA PlacesNext == (\A r \in AT!Rank : AtoaTypes /\ AtoaLocal(r) => Placed(r))'
  BY Places, PTL

\* A step of r leaves what concerns the other ranks alone.
Alone(r) == \A s \in AT!Rank \ {r} :
    /\ pc'[s] = pc[s] /\ arg'[s] = arg[s] /\ k'[s] = k[s] /\ left'[s] = left[s]
    /\ runs'[s] = runs[s] /\ ops'[s] = ops[s]

LEMMA OthersStay ==
    ASSUME NEW r \in AT!Rank, NEW s \in AT!Rank \ {r}, Alone(r)
    PROVE  /\ Pos(s)' = Pos(s) /\ Base(s)' = Base(s) /\ Lag(s)' = Lag(s) /\ AtEnd(s)' = AtEnd(s)
           /\ Knows(s)' = Knows(s) /\ KnowsSize(s)' = KnowsSize(s) /\ Len(ops[s])' = Len(ops[s])
           /\ Recorded(s) => Recorded(s)'
<1>1. Pos(s)' = Pos(s)
  BY DEF Alone, Pos, Full
<1>2. Base(s)' = Base(s) /\ Lag(s)' = Lag(s)
  BY <1>1 DEF Alone, Base, Lag
<1>3. AtEnd(s)' = AtEnd(s) /\ Knows(s)' = Knows(s) /\ KnowsSize(s)' = KnowsSize(s)
  BY DEF Alone, AtEnd, Knows, KnowsSize
<1>4. Recorded(s) => Recorded(s)'
  BY <1>1, <1>2 DEF Alone, Recorded, CountAt
<1> QED  BY <1>1, <1>2, <1>3, <1>4 DEF Alone

LEMMA AtoaStarts == AT!Init => Synchronous
<1> SUFFICES ASSUME AT!Init PROVE Synchronous
  OBVIOUS
<1>1. AtoaTypes
  <2>1. <<>> \in Seq(Call)
    OBVIOUS
  <2> HIDE DEF Call
  <2> QED  BY <2>1, RootIsRank, BoundsAssumption DEF AT!Init, AtoaTypes, AT!Labels
<1>2. ASSUME NEW r \in AT!Rank
      PROVE  pc[r] = "script" /\ runs[r] = 0 /\ k[r] = 1 /\ ops[r] = <<>> /\ arg[r] = <<0, 0>>
  BY DEF AT!Init
<1>3. ASSUME NEW r \in AT!Rank
      PROVE  Pos(r) = 0 /\ Base(r) = 0 /\ Len(ops[r]) = 0 /\ Lag(r) = 0
  BY <1>2 DEF Pos, Base, Lag
<1>4. ASSUME NEW r \in AT!Rank PROVE AtoaLocal(r) /\ Recorded(r)
  BY <1>2, <1>3, RootIsRank DEF AtoaLocal, Recorded, Knows, KnowsSize
<1>5. ASSUME NEW r \in AT!Rank, NEW s \in AT!Rank PROVE Coupled(r, s)
  BY <1>2, <1>3 DEF Coupled, AtEnd, Knows, KnowsSize
<1>6. RootGives /\ AT!CollectivesMatch
  BY <1>2, <1>3, RootIsRank DEF RootGives, AT!CollectivesMatch
<1> QED  BY <1>1, <1>4, <1>5, <1>6 DEF Synchronous

LEMMA OthersCoupled ==
    ASSUME NEW r \in AT!Rank, NEW s \in AT!Rank \ {r}, NEW t \in AT!Rank \ {r}, Alone(r), Coupled(s, t)
    PROVE  Coupled(s, t)'
<1>1. /\ Base(s)' = Base(s) /\ Lag(s)' = Lag(s) /\ Len(ops[s])' = Len(ops[s])
      /\ Knows(s)' = Knows(s) /\ KnowsSize(s)' = KnowsSize(s)
  BY OthersStay
<1>2. /\ Base(t)' = Base(t) /\ AtEnd(t)' = AtEnd(t) /\ Len(ops[t])' = Len(ops[t])
      /\ Knows(t)' = Knows(t) /\ KnowsSize(t)' = KnowsSize(t)
  BY OthersStay
<1> QED  BY <1>1, <1>2 DEF Alone, Coupled

\* Of two ranks at most one is a measurement ahead, and then the other has made all its
\* calls.
LEMMA Apart ==
    ASSUME Synchronous, NEW r \in AT!Rank, NEW s \in AT!Rank
    PROVE  /\ runs[r] \in Nat /\ runs[s] \in Nat /\ Placed(r) /\ Placed(s)
           /\ Base(r) \in Nat /\ Base(s) \in Nat
           /\ \/ runs[r] = runs[s] /\ Base(r) = Base(s)
              \/ runs[r] = runs[s] + 1 /\ Base(r) = Len(ops[s]) /\ AtEnd(s)
              \/ runs[s] = runs[r] + 1 /\ Base(s) = Len(ops[r]) /\ AtEnd(r)
<1>1. runs[r] \in Nat /\ runs[s] \in Nat
  BY DEF Synchronous, AtoaTypes
<1>2. Placed(r) /\ Placed(s) /\ AtoaLocal(r) /\ AtoaLocal(s)
  BY Places DEF Synchronous
<1>3. Coupled(r, s) /\ Coupled(s, r)
  BY DEF Synchronous
<1>4. Base(r) \in Nat /\ Base(s) \in Nat
  BY <1>2 DEF AtoaLocal
<1> QED  BY <1>1, <1>2, <1>3, <1>4 DEF Coupled

LEMMA Entering ==
    ASSUME Synchronous, AtoaTypes', NEW r \in AT!Rank, Alone(r), NEW o \in Call,
           ops'[r] = Append(ops[r], o),
           arg'[r] = arg[r], k'[r] = k[r], left'[r] = left[r], runs'[r] = runs[r],
           \/ pc[r] = "bcast" /\ pc'[r] = "inBcast" /\ (r = 0 => o.v = arg[0][k[0]])
           \/ pc[r] = "sync" /\ pc'[r] = "inSync"
           \/ pc[r] = "alltoall" /\ pc'[r] = "inAlltoall",
           o.kind = KindAt(Pos(r) + 1), o.count = CountAt(r, Pos(r) + 1)
    PROVE  Synchronous'
<1> USE RootIsRank
<1>1. /\ k[r] \in 1..2 /\ left[r] \in Nat /\ runs[r] \in Nat
      /\ arg[r][1] \in Nat /\ arg[r][2] \in Nat /\ ops[r] \in Seq(Call)
  BY DEF Synchronous, AtoaTypes
<1>2. \A s \in AT!Rank : AtoaLocal(s) /\ Placed(s) /\ Recorded(s)
  BY Places DEF Synchronous
<1>3. ~AtEnd(r)
  BY <1>2 DEF Placed
<1>4. Pos(r)' = Pos(r) + 1
  <2>1. Placed(r)
    BY <1>2
  <2>2. CASE pc[r] = "bcast" /\ pc'[r] = "inBcast"
    <3>1. Pos(r) = k[r] - 1 /\ Pos(r)' = k[r]
      BY <2>1, <2>2 DEF Pos, Placed
    <3> QED  BY <1>1, <3>1
  <2>3. CASE pc[r] = "sync" /\ pc'[r] = "inSync"
    BY <2>1, <2>3 DEF Pos, Placed
  <2>4. CASE pc[r] = "alltoall" /\ pc'[r] = "inAlltoall"
    <3>1. Pos(r)' = 3 + 2 * (arg[r][2] - left[r]) + k[r]
      BY <2>4 DEF Pos
    <3>2. Pos(r) = 3 + 2 * (arg[r][2] - left[r]) + k[r] - 1
      BY <2>1, <2>4 DEF Placed
    <3> QED  BY <1>1, <3>1, <3>2
  <2> QED  BY <2>2, <2>3, <2>4
<1>5. Lag(r)' = Lag(r) + 1
  BY <1>1, <1>2, <1>4, SMTT(30) DEF Lag, Placed
<1>6. Knows(r)' = Knows(r) /\ KnowsSize(r)' = KnowsSize(r)
  BY DEF Knows, KnowsSize
<1>7. /\ Len(ops'[r]) = Len(ops[r]) + 1 /\ ops'[r][Len(ops[r]) + 1] = o
      /\ \A m \in 1..Len(ops[r]) : ops'[r][m] = ops[r][m]
  BY <1>1
<1>8. /\ Base(r)' = Base(r) /\ Base(r) \in Nat /\ Pos(r) \in Nat /\ Lag(r) \in Nat
      /\ Len(ops[r]) = Base(r) + Pos(r)
  <2>1. Placed(r) /\ AtoaLocal(r)
    BY <1>2
  <2>2. /\ Base(r) \in Nat /\ Pos(r) \in Nat /\ Lag(r) \in Nat
        /\ Len(ops[r]) = Base(r) + Pos(r)
    BY <2>1 DEF Placed, AtoaLocal
  <2>3. Base(r)' = Len(ops'[r]) - Pos(r)' /\ Base(r) = Len(ops[r]) - Pos(r)
    BY DEF Base
  <2>4. Len(ops[r]) \in Nat
    BY <1>1
  <2> QED  BY <1>4, <1>7, <2>2, <2>3, <2>4
<1>9. ASSUME NEW s \in AT!Rank \ {r}
      PROVE  Coupled(r, s)' /\ Coupled(s, r)'
  <2>1. /\ Base(s)' = Base(s) /\ AtEnd(s)' = AtEnd(s) /\ Lag(s)' = Lag(s)
        /\ Len(ops[s])' = Len(ops[s]) /\ Knows(s)' = Knows(s) /\ KnowsSize(s)' = KnowsSize(s)
    BY OthersStay
  <2>2. Coupled(r, s) /\ Coupled(s, r)
    BY DEF Synchronous
  <2>3. arg'[s] = arg[s] /\ runs'[s] = runs[s] /\ Len(ops[s]) \in Nat /\ runs[s] \in Nat /\ Lag(s) \in Nat
    BY <1>2 DEF Alone, Synchronous, AtoaTypes, Placed
  <2>4. Coupled(r, s)'
    BY <1>1, <1>5, <1>6, <1>7, <1>8, <2>1, <2>2, <2>3 DEF Coupled
  <2>5. Coupled(s, r)'
    BY <1>1, <1>3, <1>6, <1>7, <1>8, <2>1, <2>2, <2>3 DEF Coupled
  <2> QED  BY <2>4, <2>5
<1>10. Coupled(r, r)'
  <2>1. runs[r]' \in Nat /\ Len(ops[r])' \in Nat /\ Lag(r)' \in Nat
    BY <1>1, <1>5, <1>7, <1>8, SMTT(30)
  <2> QED  BY <2>1 DEF Coupled
<1>11. AtoaLocal(r)'
  <2>1. runs[0]' = runs[0]
    BY DEF Alone
  <2>2. AtoaLocal(r)
    BY <1>2
  <2> QED  BY <1>1, <1>6, <1>8, <2>1, <2>2 DEF AtoaLocal
<1>12. ASSUME NEW s \in AT!Rank \ {r}  PROVE AtoaLocal(s)' /\ Recorded(s)'
  <2>1. Base(s)' = Base(s) /\ KnowsSize(s)' = KnowsSize(s) /\ Recorded(s)'
    BY <1>2, OthersStay
  <2>2. runs[0]' = runs[0] /\ AtoaLocal(s)
    BY <1>2 DEF Alone
  <2> QED  BY <2>1, <2>2 DEF AtoaLocal, Alone
<1>13. Recorded(r)'
  <2> SUFFICES ASSUME NEW j \in 1..(Pos(r) + 1)
               PROVE  /\ ops'[r][Base(r) + j].kind = KindAt(j)
                      /\ ops'[r][Base(r) + j].count = CountAt(r, j)'
    BY <1>4, <1>8 DEF Recorded
  <2>1. CountAt(r, j)' = CountAt(r, j)
    BY DEF CountAt
  <2>2. CASE j = Pos(r) + 1
    <3>1. Base(r) + j = Len(ops[r]) + 1
      BY <1>8, <2>2
    <3> QED  BY <1>7, <2>1, <2>2, <3>1
  <2>3. CASE j \in 1..Pos(r)
    <3>1. Base(r) + j \in 1..Len(ops[r])
      BY <1>8, <2>3
    <3> QED  BY <1>2, <1>7, <2>1, <2>3, <3>1 DEF Recorded
  <2>4. Pos(r) \in Nat
    BY <1>8
  <2>5. j = Pos(r) + 1 \/ j \in 1..Pos(r)
    BY <2>4
  <2> QED  BY <2>2, <2>3, <2>5
<1>14. RootGives'
  <2>1. CASE r = 0
    <3>1. Pos(r) >= 1 => Base(r) + 1 \in 1..Len(ops[r])
      BY <1>8
    <3>2. Pos(r) >= 2 => Base(r) + 2 \in 1..Len(ops[r])
      BY <1>8
    <3>3. RootGives
      BY DEF Synchronous
    <3>4. CASE pc[r] = "bcast"
      <4>1. Pos(r) = k[r] - 1 /\ o.v = arg[r][k[r]]
        BY <1>2, <2>1, <3>4 DEF Placed
      <4>2. CASE k[r] = 1
        BY <1>4, <1>7, <1>8, <2>1, <4>1, <4>2 DEF RootGives
      <4>3. CASE k[r] = 2
        <5>1. Pos(r) = 1 /\ Pos(r)' = 2
          BY <1>4, <4>1, <4>3
        <5>2. ops'[r][Base(r) + 1] = ops[r][Base(r) + 1] /\ ops'[r][Base(r) + 2] = o
          BY <1>7, <1>8, <3>1, <5>1
        <5> QED  BY <1>8, <2>1, <3>3, <4>1, <4>3, <5>1, <5>2, SMTT(30) DEF RootGives
      <4> QED  BY <1>1, <4>2, <4>3
    <3>5. CASE pc[r] # "bcast"
      <4>1. Pos(r) >= 2
        BY <1>2, <3>5 DEF Placed
      <4>2. ops'[r][Base(r) + 1] = ops[r][Base(r) + 1] /\ ops'[r][Base(r) + 2] = ops[r][Base(r) + 2]
        BY <1>7, <1>8, <3>1, <3>2, <4>1
      <4>3. Pos(r) >= 1
        BY <1>8, <4>1
      <4> QED  BY <1>8, <2>1, <3>3, <4>1, <4>2, <4>3 DEF RootGives
    <3> QED  BY <3>4, <3>5
  <2>2. CASE r # 0
    <3>1. Pos(0)' = Pos(0) /\ Base(0)' = Base(0) /\ ops'[0] = ops[0] /\ arg'[0] = arg[0]
      BY <2>2, OthersStay DEF Alone
    <3> QED  BY <3>1 DEF RootGives, Synchronous
  <2> QED  BY <2>1, <2>2
<1>15. ASSUME NEW s \in AT!Rank \ {r}, Len(ops[s]) >= Len(ops[r]) + 1
       PROVE  /\ ops[s][Len(ops[r]) + 1].kind = o.kind
              /\ ops[s][Len(ops[r]) + 1].count = o.count
  <2>1. runs[r] = runs[s] /\ Base(r) = Base(s) /\ Placed(s)
    <3>1. Placed(s) /\ Len(ops[s]) \in Nat
      BY <1>2 DEF Placed
    <3>2. ~(runs[r] = runs[s] + 1 /\ Base(r) = Len(ops[s]))
      BY <1>8, <1>15
    <3> QED  BY <1>3, <3>1, <3>2, Apart
  <2>2. Pos(r) + 1 \in 1..Pos(s)
    BY <1>8, <1>15, <2>1 DEF Placed
  <2>3. /\ ops[s][Len(ops[r]) + 1].kind = KindAt(Pos(r) + 1)
        /\ ops[s][Len(ops[r]) + 1].count = CountAt(s, Pos(r) + 1)
    <3>1. Len(ops[r]) + 1 = Base(s) + (Pos(r) + 1)
      BY <1>8, <2>1
    <3> QED  BY <1>2, <2>2, <3>1 DEF Recorded
  <2>4. Pos(r) + 1 > 3 => arg[s][1] = arg[r][1]
    <3> SUFFICES ASSUME Pos(r) + 1 > 3  PROVE arg[s][1] = arg[r][1]
      OBVIOUS
    <3>1. Knows(s) /\ Knows(r)
      BY <1>2, <1>8, <2>1, <2>2, SMTT(30) DEF Placed
    <3> QED  BY <2>1, <3>1 DEF Synchronous, Coupled, KnowsSize
  <2> QED  BY <1>8, <2>3, <2>4 DEF CountAt
<1>16. AT!CollectivesMatch'
  <2> DEFINE n0 == Len(ops[r]) + 1
  <2>0. n0 = Len(ops'[r]) /\ Len(ops[r]) \in Nat /\ n0 \in Nat
    BY <1>7, <1>1
  <2> SUFFICES ASSUME NEW a \in AT!Rank, NEW b \in AT!Rank, NEW m \in 1..Len(ops'[a]),
                      m <= Len(ops'[b]), a # b
               PROVE  ops'[a][m].kind = ops'[b][m].kind /\ ops'[a][m].count = ops'[b][m].count
    BY DEF AT!CollectivesMatch
  <2>1. \A c \in AT!Rank \ {r} : ops'[c] = ops[c] /\ Len(ops[c]) \in Nat
    BY <1>2 DEF Alone, Placed
  <2>2. CASE m # Len(ops[r]) + 1 \/ (a # r /\ b # r)
    <3>1. ASSUME NEW c \in AT!Rank, c = a \/ c = b
          PROVE  ops'[c][m] = ops[c][m] /\ m \in 1..Len(ops[c])
      <4>1. CASE c = r
        <5>1. m # Len(ops[r]) + 1 /\ m \in 1..(Len(ops[r]) + 1)
          BY <1>7, <2>2, <3>1, <4>1
        <5> QED  BY <1>7, <2>0, <4>1, <5>1
      <4>2. CASE c # r
        BY <2>1, <3>1, <4>2
      <4> QED  BY <4>1, <4>2
    <3>2. /\ ops'[a][m] = ops[a][m] /\ m \in 1..Len(ops[a])
          /\ ops'[b][m] = ops[b][m] /\ m <= Len(ops[b])
      <4>1. m \in 1..Len(ops[b]) => m <= Len(ops[b])
        OBVIOUS
      <4> QED  BY <3>1, <4>1
    <3>3. AT!CollectivesMatch
      BY DEF Synchronous
    <3> QED  BY <3>2, <3>3 DEF AT!CollectivesMatch
  <2>3. CASE m = Len(ops[r]) + 1 /\ a = r
    <3>1. b \in AT!Rank \ {r} /\ ops'[b] = ops[b] /\ Len(ops[b]) \in Nat
      BY <2>1, <2>3
    <3>2. Len(ops[b]) >= Len(ops[r]) + 1
      BY <2>0, <2>3, <3>1
    <3>3. ops'[r][m] = o
      BY <1>7, <2>3
    <3> QED  BY <1>15, <2>3, <3>1, <3>2, <3>3
  <2>4. CASE m = Len(ops[r]) + 1 /\ b = r
    <3>1. a \in AT!Rank \ {r} /\ ops'[a] = ops[a] /\ Len(ops[a]) \in Nat
      BY <2>1, <2>4
    <3>2. Len(ops[a]) >= Len(ops[r]) + 1
      BY <2>0, <2>4, <3>1
    <3>3. ops'[r][m] = o
      BY <1>7, <2>4
    <3> QED  BY <1>15, <2>4, <3>1, <3>2, <3>3
  <2> QED  BY <2>2, <2>3, <2>4
<1>17. ASSUME NEW s \in AT!Rank, NEW t \in AT!Rank PROVE Coupled(s, t)'
  <2>1. CASE s # r /\ t # r
    BY <2>1, OthersCoupled DEF Synchronous
  <2> QED  BY <1>9, <1>10, <2>1
<1> QED  BY <1>11, <1>12, <1>13, <1>14, <1>16, <1>17 DEF Synchronous

LEMMA Passing ==
    ASSUME Synchronous, AtoaTypes', NEW r \in AT!Rank, Alone(r),
           ops' = ops, runs' = runs, AtoaLocal(r)',
           Pos(r)' = Pos(r), AtEnd(r) => AtEnd(r)',
           \A j \in 1..Pos(r) : CountAt(r, j)' = CountAt(r, j),
           \A s \in AT!Rank : Len(ops[s]) >= Len(ops[r]) - Lag(r)',
           r = 0 => arg'[0] = arg[0],
           KnowsSize(r)' => (runs[r] = runs[0] => arg'[r][1] = arg[0][1]),
           Knows(r)' => (runs[r] = runs[0] => arg'[r][2] = arg[0][2]),
           KnowsSize(r)' => (KnowsSize(r) => arg'[r][1] = arg[r][1]),
           Knows(r)' => (Knows(r) => arg'[r][2] = arg[r][2]),
           KnowsSize(r)' => KnowsSize(r) \/ runs[r] = runs[0],
           Knows(r)' => Knows(r) \/ runs[r] = runs[0]
    PROVE  Synchronous'
<1> USE RootIsRank
<1>2. \A s \in AT!Rank : AtoaLocal(s) /\ Placed(s) /\ Recorded(s)
  BY Places DEF Synchronous
<1>3. Base(r)' = Base(r)
  BY DEF Base
<1>4. Recorded(r)'
  <2>1. Recorded(r)
    BY <1>2
  <2> QED  BY <1>3, <2>1 DEF Recorded
<1>5. ASSUME NEW s \in AT!Rank \ {r}  PROVE AtoaLocal(s)' /\ Recorded(s)'
  <2>1. Base(s)' = Base(s) /\ KnowsSize(s)' = KnowsSize(s) /\ Recorded(s)'
    BY <1>2, OthersStay
  <2>2. runs[0]' = runs[0] /\ AtoaLocal(s)
    BY <1>2
  <2> QED  BY <2>1, <2>2 DEF AtoaLocal, Alone
<1>6. RootGives'
  <2>1. Pos(0)' = Pos(0) /\ Base(0)' = Base(0) /\ arg'[0] = arg[0]
    <3>1. CASE r = 0
      BY <1>3, <3>1
    <3>2. CASE r # 0
      BY <3>2, OthersStay DEF Alone
    <3> QED  BY <3>1, <3>2
  <2> QED  BY <2>1 DEF RootGives, Synchronous
<1>7. ASSUME NEW s \in AT!Rank \ {r}
      PROVE  Coupled(r, s)' /\ Coupled(s, r)'
  <2>1. /\ Base(s)' = Base(s) /\ AtEnd(s)' = AtEnd(s) /\ Lag(s)' = Lag(s)
        /\ Knows(s)' = Knows(s) /\ KnowsSize(s)' = KnowsSize(s) /\ arg'[s] = arg[s]
    BY OthersStay DEF Alone
  <2>2. Coupled(r, s) /\ Coupled(s, r) /\ Coupled(s, 0) /\ Coupled(0, s) /\ Coupled(r, 0)
    BY DEF Synchronous
  <2>3. ASSUME runs[r] = runs[s], KnowsSize(r)', KnowsSize(s) \/ s = 0
        PROVE  arg'[r][1] = arg[s][1]
    <3>1. CASE KnowsSize(r)
      BY <2>2, <2>3, <3>1 DEF Coupled
    <3>2. CASE runs[r] = runs[0]
      <4>1. arg'[r][1] = arg[0][1]
        BY <2>3, <3>2
      <4>2. s # 0 => arg[s][1] = arg[0][1]
        BY <2>2, <2>3, <3>2 DEF Coupled
      <4> QED  BY <4>1, <4>2
    <3> QED  BY <2>3, <3>1, <3>2
  <2>4. ASSUME runs[r] = runs[s], Knows(r)', Knows(s) \/ s = 0
        PROVE  arg'[r][2] = arg[s][2]
    <3>1. CASE Knows(r)
      BY <2>2, <2>4, <3>1 DEF Coupled
    <3>2. CASE runs[r] = runs[0]
      <4>1. arg'[r][2] = arg[0][2]
        BY <2>4, <3>2
      <4>2. s # 0 => arg[s][2] = arg[0][2]
        BY <2>2, <2>4, <3>2 DEF Coupled
      <4> QED  BY <4>1, <4>2
    <3> QED  BY <2>4, <3>1, <3>2
  <2>5. Coupled(r, s)'
    BY <1>3, <2>1, <2>2, <2>3, <2>4 DEF Coupled
  <2>6. ASSUME runs[r] = runs[s], KnowsSize(s), r = 0 PROVE arg'[r][1] = arg[s][1]
    BY <2>2, <2>6 DEF Coupled
  <2>7. ASSUME runs[r] = runs[s], Knows(s), r = 0 PROVE arg'[r][2] = arg[s][2]
    BY <2>2, <2>7 DEF Coupled
  <2>8. Coupled(s, r)'
    BY <1>3, <2>1, <2>2, <2>3, <2>4, <2>6, <2>7 DEF Coupled
  <2> QED  BY <2>5, <2>8
<1>8. Coupled(r, r)'
  <2>1. runs[r] \in Nat /\ Len(ops[r]) >= Len(ops[r]) - Lag(r)'
    BY DEF Synchronous, AtoaTypes
  <2> QED  BY <2>1 DEF Coupled
<1>9. ASSUME NEW s \in AT!Rank, NEW t \in AT!Rank PROVE Coupled(s, t)'
  <2>1. CASE s # r /\ t # r
    BY <2>1, OthersCoupled DEF Synchronous
  <2> QED  BY <1>7, <1>8, <2>1
<1>10. AT!CollectivesMatch'
  BY DEF AT!CollectivesMatch, Synchronous
<1> QED  BY <1>4, <1>5, <1>6, <1>9, <1>10 DEF Synchronous

\* The next measurement begins only when every rank has made all calls of the one before.
LEMMA Beginning ==
    ASSUME Synchronous, AtoaTypes', NEW r \in AT!Rank, Alone(r), pc[r] = "script", pc'[r] = "bcast",
           ops' = ops, runs'[r] = runs[r] + 1, k'[r] = 1
    PROVE  Synchronous'
<1> USE RootIsRank
<1>1. \A s \in AT!Rank : AtoaLocal(s) /\ Placed(s) /\ Recorded(s)
  BY Places DEF Synchronous
<1>2. runs[r] \in Nat /\ arg[r][2] \in Nat /\ Len(ops[r]) \in Nat /\ AtoaLocal(r) /\ Placed(r)
  BY <1>1 DEF Synchronous, AtoaTypes, Placed
<1>3. Pos(r)' = 0 /\ Base(r)' = Len(ops[r]) /\ Lag(r)' = 0
  BY <1>2 DEF Pos, Base, Lag
<1>4. ~Knows(r)' /\ ~KnowsSize(r)'
  BY DEF Knows, KnowsSize
<1>5. Lag(r) = 0 /\ AtEnd(r) /\ (runs[r] = 0 => Pos(r) = 0) /\ (runs[r] # 0 => Pos(r) = Full(r) /\ arg[r][1] # 0)
  BY <1>2 DEF Placed, AtoaLocal
<1>6. AtoaLocal(r)' /\ Recorded(r)'
  BY <1>2, <1>3, <1>4 DEF AtoaLocal, Recorded
<1>7. runs[0]' >= runs[0]
  <2>1. runs[0] \in Nat
    BY DEF Synchronous, AtoaTypes
  <2> QED  BY <2>1 DEF Alone
<1>8. ASSUME NEW s \in AT!Rank \ {r}  PROVE AtoaLocal(s)' /\ Recorded(s)'
  <2>1. Base(s)' = Base(s) /\ KnowsSize(s)' = KnowsSize(s) /\ Recorded(s)'
    BY <1>1, OthersStay
  <2>2. AtoaLocal(s) /\ runs[s] \in Nat /\ runs[0] \in Nat /\ runs[0]' \in Nat
    BY <1>1 DEF Synchronous, AtoaTypes
  <2> QED  BY <1>7, <2>1, <2>2 DEF AtoaLocal, Alone
<1>9. RootGives'
  <2>1. CASE r = 0
    BY <1>3, <2>1 DEF RootGives
  <2>2. CASE r # 0
    <3>1. Pos(0)' = Pos(0) /\ Base(0)' = Base(0) /\ arg'[0] = arg[0]
      BY <2>2, OthersStay DEF Alone
    <3> QED  BY <3>1 DEF RootGives, Synchronous
  <2> QED  BY <2>1, <2>2
<1>10. ASSUME NEW s \in AT!Rank \ {r}
       PROVE  Coupled(r, s)' /\ Coupled(s, r)'
  <2>1. /\ Base(s)' = Base(s) /\ AtEnd(s)' = AtEnd(s) /\ Lag(s)' = Lag(s)
        /\ Knows(s)' = Knows(s) /\ KnowsSize(s)' = KnowsSize(s) /\ arg'[s] = arg[s] /\ runs'[s] = runs[s]
    BY OthersStay DEF Alone
  <2>2. Coupled(r, s) /\ Coupled(s, r) /\ AtoaLocal(s) /\ Placed(s) /\ runs[s] \in Nat
        /\ Base(r) \in Nat /\ Base(s) \in Nat
    BY <1>1, Apart DEF Synchronous
  <2>3. Len(ops[s]) \in Nat /\ Pos(s) \in Nat /\ Len(ops[s]) = Base(s) + Pos(s) /\ Lag(s) \in Nat
    BY <2>2 DEF Placed
  <2>4. Len(ops[r]) = Base(r) + Pos(r) /\ Pos(r) \in Nat
    BY <1>2 DEF Placed
  <2>5. Len(ops[s]) >= Len(ops[r])
    BY <1>2, <1>5, <2>2, <2>3 DEF Coupled
  <2>6. runs[r] # runs[s] + 1
    <3> SUFFICES ASSUME runs[r] = runs[s] + 1  PROVE FALSE
      OBVIOUS
    <3>1. Base(r) = Len(ops[s])
      BY <2>2 DEF Coupled
    <3>2. Pos(r) >= 3
      BY <1>2, <1>5, <2>2 DEF Full
    <3> QED  BY <2>2, <2>3, <2>4, <2>5, <3>1, <3>2
  <2>7. ASSUME runs[s] = runs[r]  PROVE Len(ops[s]) = Len(ops[r]) /\ AtEnd(s)
    <3>1. Base(r) = Base(s)
      BY <2>2, <2>7 DEF Coupled
    <3>2. CASE runs[r] = 0
      BY <1>5, <2>2, <2>3, <2>4, <2>7, <3>1, <3>2 DEF AtoaLocal, Placed
    <3>3. CASE runs[r] # 0
      <4>1. Pos(s) >= Pos(r) /\ Pos(r) = Full(r) /\ Pos(r) >= 3
        <5>1. Pos(r) = Full(r) /\ Full(r) >= 3
          BY <1>2, <1>5, <3>3 DEF Full
        <5> QED  BY <2>2, <2>3, <2>4, <2>5, <3>1, <5>1
      <4>2. Knows(s) /\ Pos(s) <= Full(s) /\ (Pos(s) = Full(s) /\ arg[s][1] # 0 => AtEnd(s))
        BY <2>2, <2>3, <2>4, <4>1 DEF Placed
      <4>3. arg[s][1] = arg[r][1] /\ arg[s][2] = arg[r][2]
        <5>1. Knows(r) /\ KnowsSize(r) /\ KnowsSize(s)
          BY <4>2 DEF Knows, KnowsSize
        <5> QED  BY <2>2, <2>7, <4>2, <5>1 DEF Coupled
      <4>4. Full(s) = Full(r)
        BY <4>3 DEF Full
      <4> QED  BY <1>5, <2>3, <2>4, <3>1, <3>3, <4>1, <4>2, <4>3, <4>4
    <3> QED  BY <3>2, <3>3
  <2>8. Len(ops[s]) >= Len(ops[r]) - Lag(r)'
    BY <1>2, <1>3, <2>3, <2>5
  <2>9. Coupled(r, s)'
    <3>1. runs[r]' <= runs[s]' + 1
      BY <1>2, <2>1, <2>2, <2>6 DEF Coupled
    <3>2. runs[r]' = runs[s]' => Base(r)' = Base(s)'
      BY <1>2, <1>3, <2>1, <2>2 DEF Coupled
    <3>3. runs[r]' = runs[s]' + 1 => Base(r)' = Len(ops[s]') /\ AtEnd(s)'
      BY <1>2, <1>3, <2>1, <2>2, <2>7
    <3> QED  BY <1>4, <2>8, <3>1, <3>2, <3>3 DEF Coupled
  <2>10. Coupled(s, r)'
    <3>1. runs[s]' <= runs[r]' + 1 /\ runs[s]' # runs[r]' + 1
      BY <1>2, <2>1, <2>2 DEF Coupled
    <3>2. runs[s]' = runs[r]' => Base(s)' = Base(r)'
      BY <1>2, <1>3, <2>1, <2>2 DEF Coupled
    <3>3. runs[s]' = runs[r]' /\ KnowsSize(s)' => r # 0
      BY <1>2, <2>1, <2>2 DEF AtoaLocal
    <3>4. Knows(s)' => KnowsSize(s)'
      BY DEF KnowsSize
    <3>5. Len(ops[r])' >= Len(ops[s])' - Lag(s)'
      BY <2>1, <2>2 DEF Coupled
    <3> QED  BY <1>4, <3>1, <3>2, <3>3, <3>4, <3>5 DEF Coupled
  <2> QED  BY <2>9, <2>10
<1>11. Coupled(r, r)'
  <2>1. runs[r]' \in Nat /\ Len(ops[r])' >= Len(ops[r])' - Lag(r)'
    BY <1>2, <1>3
  <2> QED  BY <2>1 DEF Coupled
<1>12. ASSUME NEW s \in AT!Rank, NEW t \in AT!Rank PROVE Coupled(s, t)'
  <2>1. CASE s # r /\ t # r
    BY <2>1, OthersCoupled DEF Synchronous
  <2> QED  BY <1>10, <1>11, <2>1
<1>13. AT!CollectivesMatch'
  BY DEF AT!CollectivesMatch, Synchronous
<1> QED  BY <1>6, <1>8, <1>9, <1>12, <1>13 DEF Synchronous

LEMMA ScriptStep == ASSUME Synchronous, NEW r \in AT!Rank, AT!Script(r)  PROVE Synchronous'
<1> USE RootIsRank
<1>1. Alone(r)
  BY SMTT(30) DEF AT!Script, AT!Goto, Alone, Synchronous, AtoaTypes
<1>2. AtoaTypes'
  <2>1. Requests["atoa"] \subseteq Nat \X Nat
    BY BoundsAssumption
  <2>2. AtoaTypes
    BY DEF Synchronous
  <2>3. pc' \in [AT!Rank -> AT!Labels] /\ k' \in [AT!Rank -> 1..2] /\ left' \in [AT!Rank -> Nat]
    <3>1. "bcast" \in AT!Labels /\ "ended" \in AT!Labels
      BY DEF AT!Labels
    <3>2. pc' = [pc EXCEPT ![r] = "bcast"] \/ pc' = [pc EXCEPT ![r] = "ended"]
      BY DEF AT!Script, AT!Goto
    <3>3. k' = [k EXCEPT ![r] = 1] /\ left' = left
      BY DEF AT!Script
    <3>4. pc \in [AT!Rank -> AT!Labels] /\ k \in [AT!Rank -> 1..2] /\ left \in [AT!Rank -> Nat]
      BY <2>2 DEF AtoaTypes
    <3>5. pc' \in [AT!Rank -> AT!Labels]
      BY <3>1, <3>2, <3>4
    <3> QED  BY <3>3, <3>4, <3>5
  <2>4. runs' \in [AT!Rank -> Nat] /\ runs'[0] <= MaxRuns
    <3>1. runs \in [AT!Rank -> Nat] /\ runs[0] \in Nat /\ MaxRuns \in Nat /\ runs[0] <= MaxRuns
      BY <2>2, BoundsAssumption DEF AtoaTypes
    <3>2. CASE runs' = runs
      BY <3>1, <3>2
    <3>3. CASE r = 0 /\ runs[0] < MaxRuns /\ runs' = [runs EXCEPT ![0] = @ + 1]
      <4>1. runs'[0] = runs[0] + 1
        BY <3>1, <3>3
      <4> QED  BY <3>1, <3>3, <4>1
    <3>4. CASE r # 0 /\ runs' = [runs EXCEPT ![r] = @ + 1]
      BY <3>1, <3>4
    <3> QED  BY <3>2, <3>3, <3>4 DEF AT!Script
  <2>5. arg' \in [AT!Rank -> Nat \X Nat]
    BY <2>1, <2>2 DEF AT!Script, AtoaTypes
  <2>6. ops' \in [AT!Rank -> Seq(Call)]
    BY <2>2 DEF AT!Script, AtoaTypes
  <2> QED  BY <2>3, <2>4, <2>5, <2>6 DEF AtoaTypes
<1>3. CASE pc'[r] = "bcast"
  <2>1. pc[r] = "script" /\ ops' = ops /\ runs'[r] = runs[r] + 1 /\ k'[r] = 1
    BY <1>3 DEF AT!Script, AT!Goto, Synchronous, AtoaTypes
  <2> QED  BY <1>1, <1>2, <1>3, <2>1, Beginning
<1>4. CASE pc'[r] # "bcast"
  <2>1. r = 0 /\ pc[r] = "script" /\ pc'[r] = "ended" /\ ops' = ops /\ runs' = runs /\ arg' = arg
        /\ k'[r] = 1 /\ left' = left
    BY <1>4 DEF AT!Script, AT!Goto, Synchronous, AtoaTypes
  <2>2. AtoaLocal(r) /\ Placed(r)
    BY Places DEF Synchronous
  <2>3. Pos(r)' = Pos(r) /\ AtEnd(r)' = AtEnd(r) /\ Lag(r)' = Lag(r)
    BY <2>1 DEF Pos, AtEnd, Lag, Full
  <2>4. AtoaLocal(r)'
    BY <2>1, <2>2, <2>3 DEF AtoaLocal, Base, Knows, KnowsSize
  <2>5. Knows(r) /\ KnowsSize(r)
    BY <2>1 DEF Knows, KnowsSize
  <2>6. \A j \in 1..Pos(r) : CountAt(r, j)' = CountAt(r, j)
    BY <2>1 DEF CountAt
  <2>7. \A s \in AT!Rank : Len(ops[s]) >= Len(ops[r]) - Lag(r)'
    BY <2>3 DEF Synchronous, Coupled
  <2> QED  BY <1>1, <1>2, <2>1, <2>3, <2>4, <2>5, <2>6, <2>7, Passing
<1> QED  BY <1>3, <1>4

LEMMA EnterStep ==
    ASSUME Synchronous, NEW r \in AT!Rank, NEW to, NEW kind, NEW count, NEW v,
           pc' = [pc EXCEPT ![r] = to], AT!Enter(r, kind, count, v), UNCHANGED <<arg, k, left, runs>>,
           kind \in {"bcast", "barrier", "alltoall"}, count \in Nat, v \in Nat,
           \/ /\ pc[r] = "bcast" /\ to = "inBcast" /\ (r = 0 => v = arg[0][k[0]])
              /\ kind = "bcast" /\ count = 1
           \/ pc[r] = "sync" /\ to = "inSync" /\ kind = "barrier" /\ count = 0
           \/ pc[r] = "alltoall" /\ to = "inAlltoall" /\ kind = "alltoall" /\ count = arg[r][1]
    PROVE  Synchronous'
<1> USE RootIsRank
<1> DEFINE o == [kind |-> kind, count |-> count, v |-> v]
<1>1. o \in Call /\ o.kind = kind /\ o.count = count /\ o.v = v
  BY DEF Call
<1>2. ops' = [ops EXCEPT ![r] = Append(@, o)] /\ ops \in [AT!Rank -> Seq(Call)]
  BY DEF AT!Enter, Synchronous, AtoaTypes
<1> HIDE DEF o
<1>3. ops'[r] = Append(ops[r], o) /\ ops' \in [AT!Rank -> Seq(Call)]
  <2>1. Append(ops[r], o) \in Seq(Call)
    BY <1>1, <1>2
  <2> QED  BY <1>2, <2>1
<1>4. Alone(r) /\ pc'[r] = to
  BY <1>2 DEF Alone, Synchronous, AtoaTypes
<1>5. AtoaTypes'
  <2>1. pc' \in [AT!Rank -> AT!Labels]
    BY DEF Synchronous, AtoaTypes, AT!Labels
  <2> HIDE DEF Call
  <2> QED  BY <1>3, <2>1 DEF Synchronous, AtoaTypes
<1>6. Placed(r) /\ k[r] \in 1..2
  BY Places DEF Synchronous, AtoaTypes
<1>7. kind = KindAt(Pos(r) + 1) /\ count = CountAt(r, Pos(r) + 1)
  <2>1. CASE pc[r] = "bcast"
    <3>1. Pos(r) + 1 \in Int /\ Pos(r) + 1 <= 2
      BY <1>6, <2>1 DEF Placed
    <3> QED  BY <2>1, <3>1 DEF KindAt, CountAt
  <2>2. CASE pc[r] = "sync"
    <3>1. Pos(r) + 1 = 3
      BY <1>6, <2>2 DEF Placed
    <3> QED  BY <2>2, <3>1 DEF KindAt, CountAt
  <2>3. CASE pc[r] = "alltoall"
    <3>1. Pos(r) \in Nat /\ Pos(r) + 1 > 3
      BY <1>6, <2>3 DEF Placed
    <3> QED  BY <2>3, <3>1 DEF KindAt, CountAt
  <2> QED  BY <2>1, <2>2, <2>3
<1> QED  BY <1>1, <1>3, <1>4, <1>5, <1>7, Entering

LEMMA SendRepeatStep == ASSUME Synchronous, NEW r \in AT!Rank, AT!SendRepeat(r)  PROVE Synchronous'
<1>1. /\ r = 0 /\ pc[r] = "bcast" /\ pc' = [pc EXCEPT ![r] = "inBcast"]
      /\ AT!Enter(r, "bcast", 1, arg[r][k[r]]) /\ UNCHANGED <<arg, k, left, runs>>
  BY DEF AT!SendRepeat, AT!Goto
<1>2. arg[r][k[r]] \in Nat
  <2>1. arg[r] \in Nat \X Nat /\ k[r] \in 1..2
    BY DEF Synchronous, AtoaTypes
  <2> QED  BY <2>1
<1> QED  BY <1>1, <1>2, EnterStep

LEMMA RecvRepeatStep == ASSUME Synchronous, NEW r \in AT!Rank, AT!RecvRepeat(r)  PROVE Synchronous'
<1> USE RootIsRank
<1>1. CASE pc[r] # "inBcast"
  <2>1. /\ r # 0 /\ pc[r] = "bcast" /\ pc' = [pc EXCEPT ![r] = "inBcast"]
        /\ AT!Enter(r, "bcast", 1, 0) /\ UNCHANGED <<arg, k, left, runs>>
    BY <1>1 DEF AT!RecvRepeat, AT!Goto
  <2> QED  BY <2>1, EnterStep
<1>2. CASE pc[r] = "inBcast"
  <2>1. /\ Len(ops[0]) >= Len(ops[r])
        /\ arg' = IF r = 0 THEN arg ELSE [arg EXCEPT ![r][k[r]] = ops[0][Len(ops[r])].v]
        /\ k' = [k EXCEPT ![r] = 3 - k[r]]
        /\ pc' = [pc EXCEPT ![r] = IF k[r] = 1 THEN "bcast"
                                  ELSE IF arg'[r][1] = 0 THEN "ended" ELSE "malloc"]
        /\ left' = left /\ runs' = runs /\ ops' = ops
    BY <1>2 DEF AT!RecvRepeat, AT!Goto, AT!RootIsIn
  <2>2. /\ k[r] \in 1..2 /\ runs[r] \in Nat /\ arg[r] \in Nat \X Nat /\ arg[0] \in Nat \X Nat
        /\ AtoaLocal(r) /\ Placed(r) /\ Placed(0) /\ ~AtEnd(r) /\ Base(0) \in Nat /\ Base(r) \in Nat
        /\ pc \in [AT!Rank -> AT!Labels] /\ k \in [AT!Rank -> 1..2] /\ arg \in [AT!Rank -> Nat \X Nat]
    BY <1>2, Places DEF Synchronous, AtoaTypes, Placed, AtoaLocal
  <2>3. Pos(r) = k[r] /\ Lag(r) = k[r] /\ Len(ops[r]) = Base(r) + k[r]
    BY <1>2, <2>2 DEF Placed
  <2>4. runs[r] = runs[0] /\ Base(r) = Base(0)
    <3>1. Base(r) # Len(ops[0])
      BY <2>1, <2>2, <2>3
    <3> QED  BY <2>2, <3>1, Apart
  <2>5. Pos(0) >= k[r]
    BY <2>1, <2>2, <2>3, <2>4 DEF Placed
  <2>6. ops[0][Len(ops[r])].v = arg[0][k[r]]
    <3>1. RootGives
      BY DEF Synchronous
    <3>2. CASE k[r] = 1
      BY <2>2, <2>3, <2>4, <2>5, <3>1, <3>2 DEF RootGives
    <3>3. CASE k[r] = 2
      BY <2>2, <2>3, <2>4, <2>5, <3>1, <3>3 DEF RootGives
    <3> QED  BY <2>2, <3>2, <3>3
  <2>7. /\ arg'[r] \in Nat \X Nat /\ arg'[r][k[r]] = arg[0][k[r]]
        /\ arg'[r][3 - k[r]] = arg[r][3 - k[r]] /\ (r = 0 => arg'[r] = arg[r])
        /\ \A s \in AT!Rank \ {r} : arg'[s] = arg[s]
    <3>1. CASE r = 0
      BY <2>1, <2>2, <3>1
    <3>2. CASE r # 0
      <4>1. arg' = [arg EXCEPT ![r] = [arg[r] EXCEPT ![k[r]] = arg[0][k[r]]]]
        BY <2>1, <2>6, <3>2
      <4>2. arg'[r] = [arg[r] EXCEPT ![k[r]] = arg[0][k[r]]]
        BY <2>2, <4>1
      <4>3. DOMAIN arg[r] = 1..2 /\ arg[0][k[r]] \in Nat
        BY <2>2
      <4>4. \A s \in AT!Rank \ {r} : arg'[s] = arg[s]
        BY <2>2, <4>1
      <4>5. CASE k[r] = 1
        <5>1. arg'[r] = <<arg[0][1], arg[r][2]>>
          BY <2>2, <4>2, <4>5
        <5> QED  BY <2>2, <3>2, <4>4, <4>5, <5>1
      <4>6. CASE k[r] = 2
        <5>1. arg'[r] = <<arg[r][1], arg[0][2]>>
          BY <2>2, <4>2, <4>6
        <5> QED  BY <2>2, <3>2, <4>4, <4>6, <5>1
      <4> QED  BY <2>2, <4>5, <4>6
    <3> QED  BY <3>1, <3>2
  <2>8. k'[r] = 3 - k[r] /\ k' \in [AT!Rank -> 1..2]
    BY <2>1, <2>2
  <2>9. /\ k[r] = 1 => pc'[r] = "bcast"
        /\ k[r] = 2 /\ arg'[r][1] = 0 => pc'[r] = "ended"
        /\ k[r] = 2 /\ arg'[r][1] # 0 => pc'[r] = "malloc"
        /\ pc' \in [AT!Rank -> AT!Labels]
    BY <2>1, <2>2 DEF AT!Labels
  <2>10. arg' \in [AT!Rank -> Nat \X Nat]
    <3>1. CASE r = 0
      BY <2>1, <2>2, <3>1
    <3>2. CASE r # 0
      <4>1. DOMAIN arg' = AT!Rank /\ arg' = [s \in AT!Rank |-> arg'[s]]
        BY <2>1, <2>2, <3>2
      <4>2. \A s \in AT!Rank : arg'[s] \in Nat \X Nat
        BY <2>2, <2>7
      <4> QED  BY <4>1, <4>2
    <3> QED  BY <3>1, <3>2
  <2>11. AtoaTypes' /\ Alone(r)
    <3>1. AtoaTypes'
      BY <2>1, <2>8, <2>9, <2>10 DEF Synchronous, AtoaTypes
    <3>2. Alone(r)
      BY <2>1, <2>2, <2>7 DEF Alone
    <3> QED  BY <3>1, <3>2
  <2>12. runs[r] # 0
    BY <1>2, <2>2 DEF AtoaLocal
  <2>13. Pos(r)' = Pos(r) /\ Lag(r)' = Lag(r)
    <3>1. CASE k[r] = 1
      BY <2>3, <2>8, <2>9, <3>1 DEF Pos, Lag
    <3>2. CASE k[r] = 2
      <4>1. CASE arg'[r][1] = 0
        <5>1. pc'[r] = "ended" /\ runs'[r] # 0 /\ runs'[r] > 0
          BY <2>1, <2>2, <2>9, <2>12, <3>2, <4>1
        <5> QED  BY <2>3, <3>2, <4>1, <5>1 DEF Pos, Lag
      <4>2. CASE arg'[r][1] # 0
        <5>1. pc'[r] = "malloc"
          BY <2>9, <3>2, <4>2
        <5> QED  BY <2>3, <3>2, <5>1 DEF Pos, Lag
      <4> QED  BY <4>1, <4>2
    <3> QED  BY <2>2, <3>1, <3>2
  <2>14. AtoaLocal(r)'
    <3>1. Base(r)' = Base(r)
      BY <2>1, <2>13 DEF Base
    <3>2. runs[r]' <= runs[0]'
      BY <2>1, <2>2, <2>4
    <3>3. CASE k[r] = 1
      BY <2>1, <2>2, <2>8, <2>9, <2>12, <3>1, <3>2, <3>3 DEF AtoaLocal
    <3>4. CASE k[r] = 2
      BY <2>1, <2>2, <2>8, <2>9, <2>12, <3>1, <3>2, <3>4 DEF AtoaLocal
    <3> QED  BY <2>2, <3>3, <3>4
  <2>15. \A j \in 1..Pos(r) : CountAt(r, j)' = CountAt(r, j)
    BY <2>2, <2>3 DEF CountAt
  <2>16. \A s \in AT!Rank : Len(ops[s]) >= Len(ops[r]) - Lag(r)'
    BY <2>13 DEF Synchronous, Coupled
  <2>17. /\ KnowsSize(r)' => arg'[r][1] = arg[0][1]
         /\ Knows(r)' => arg'[r][2] = arg[0][2]
    <3>1. CASE k[r] = 1
      <4>1. ~Knows(r)'
        BY <2>9, <3>1 DEF Knows
      <4> QED  BY <2>7, <3>1, <4>1
    <3>2. CASE k[r] = 2
      <4>1. KnowsSize(r)
        BY <3>2 DEF KnowsSize
      <4>2. arg[r][1] = arg[0][1]
        BY <2>4, <4>1 DEF Synchronous, Coupled
      <4>3. arg'[r][1] = arg[r][1]
        BY <2>7, <3>2
      <4> QED  BY <2>7, <3>2, <4>2, <4>3
    <3> QED  BY <2>2, <3>1, <3>2
  <2>18. ~Knows(r) /\ (KnowsSize(r) => arg'[r][1] = arg[r][1])
    <3>1. ~Knows(r)
      BY <1>2 DEF Knows
    <3>2. KnowsSize(r) => k[r] = 2
      BY <3>1 DEF KnowsSize
    <3> QED  BY <2>7, <3>1, <3>2
  <2> QED  BY <2>1, <2>2, <2>4, <2>7, <2>11, <2>13, <2>14, <2>15, <2>16, <2>17, <2>18, Passing
<1> QED  BY <1>1, <1>2

\* A step that keeps what r has been told.
LEMMA PassStep ==
    ASSUME Synchronous, AtoaTypes', NEW r \in AT!Rank, Alone(r), ops' = ops, runs' = runs, arg' = arg,
           AtoaLocal(r)', Pos(r)' = Pos(r), AtEnd(r) => AtEnd(r)', Knows(r),
           \A s \in AT!Rank : Len(ops[s]) >= Len(ops[r]) - Lag(r)'
    PROVE  Synchronous'
<1> USE RootIsRank
<1>1. KnowsSize(r) /\ (runs[r] = runs[0] => arg[r][1] = arg[0][1] /\ arg[r][2] = arg[0][2])
  BY DEF KnowsSize, Synchronous, Coupled
<1>2. \A j \in 1..Pos(r) : CountAt(r, j)' = CountAt(r, j)
  BY DEF CountAt
<1> QED  BY <1>1, <1>2, Passing

LEMMA MallocStep == ASSUME Synchronous, NEW r \in AT!Rank, AT!MyMalloc(r)  PROVE Synchronous'
<1>1. /\ pc[r] = "malloc" /\ pc'[r] = "sync" /\ left'[r] = arg[r][2]
      /\ ops' = ops /\ runs' = runs /\ arg' = arg /\ k' = k
  BY DEF AT!MyMalloc, AT!Goto, Synchronous, AtoaTypes
<1>2. AtoaTypes' /\ Alone(r)
  <2>1. arg[r][2] \in Nat /\ "sync" \in AT!Labels
    BY DEF Synchronous, AtoaTypes, AT!Labels
  <2> QED  BY <2>1 DEF AT!MyMalloc, AT!Goto, Synchronous, AtoaTypes, Alone
<1>3. AtoaLocal(r) /\ Placed(r)
  BY Places DEF Synchronous
<1>4. Pos(r)' = 2 /\ Lag(r)' = 2 /\ Pos(r) = 2 /\ Lag(r) = 2 /\ ~AtEnd(r) /\ Knows(r)
  BY <1>1, <1>3 DEF Pos, Lag, Placed, Knows
<1>5. AtoaLocal(r)'
  BY <1>1, <1>3, <1>4 DEF AtoaLocal, Base, Knows, KnowsSize
<1>6. \A s \in AT!Rank : Len(ops[s]) >= Len(ops[r]) - Lag(r)'
  BY <1>4 DEF Synchronous, Coupled
<1> QED  BY <1>1, <1>2, <1>4, <1>5, <1>6, PassStep

LEMMA SyncStep == ASSUME Synchronous, NEW r \in AT!Rank, AT!Sync(r)  PROVE Synchronous'
<1>1. CASE pc[r] # "inSync"
  <2>1. /\ pc[r] = "sync" /\ pc' = [pc EXCEPT ![r] = "inSync"]
        /\ AT!Enter(r, "barrier", 0, 0) /\ UNCHANGED <<arg, k, left, runs>>
    BY <1>1 DEF AT!Sync, AT!Goto
  <2> QED  BY <2>1, EnterStep
<1>2. CASE pc[r] = "inSync"
  <2>1. /\ pc' = [pc EXCEPT ![r] = AT!LoopHead(left[r])] /\ AT!AllAreIn(r)
        /\ UNCHANGED <<arg, k, left, runs, ops>>
    BY <1>2 DEF AT!Sync, AT!Goto
  <2>2. AtoaTypes' /\ Alone(r)
    BY <2>1 DEF AT!LoopHead, AT!Labels, Synchronous, AtoaTypes, Alone
  <2>3. AtoaLocal(r) /\ Placed(r) /\ left[r] \in Nat /\ k[r] = 1 /\ left[r] = arg[r][2] /\ Pos(r) = 3 /\ arg[r][1] # 0
        /\ Knows(r)
    BY <1>2, Places DEF Synchronous, AtoaTypes, AtoaLocal, Placed, Knows
  <2>4. pc'[r] = IF left[r] = 0 THEN "free" ELSE "alltoall"
    BY <2>1 DEF AT!LoopHead, Synchronous, AtoaTypes
  <2>5. Pos(r)' = 3 /\ Lag(r)' = 0
    BY <2>1, <2>3, <2>4 DEF Pos, Lag, Full
  <2>6. AtEnd(r) => AtEnd(r)'
    BY <1>2, <2>3, <2>4 DEF AtEnd, Placed
  <2>7. AtoaLocal(r)'
    BY <1>2, <2>1, <2>3, <2>4, <2>5 DEF AtoaLocal, Base, Knows, KnowsSize
  <2>8. \A s \in AT!Rank : Len(ops[s]) >= Len(ops[r]) - Lag(r)'
    <3>1. Len(ops[r]) \in Nat
      BY <2>3 DEF Placed
    <3> QED  BY <2>1, <2>5, <3>1 DEF AT!AllAreIn
  <2> QED  BY <2>1, <2>2, <2>3, <2>5, <2>6, <2>7, <2>8, PassStep
<1> QED  BY <1>1, <1>2

LEMMA AlltoallStep == ASSUME Synchronous, NEW r \in AT!Rank, AT!Alltoall(r)  PROVE Synchronous'
<1>1. CASE pc[r] # "inAlltoall"
  <2>1. /\ pc[r] = "alltoall" /\ pc' = [pc EXCEPT ![r] = "inAlltoall"]
        /\ AT!Enter(r, "alltoall", arg[r][1], 0) /\ UNCHANGED <<arg, k, left, runs>>
    BY <1>1 DEF AT!Alltoall, AT!Goto
  <2>2. arg[r][1] \in Nat
    BY DEF Synchronous, AtoaTypes
  <2> QED  BY <2>1, <2>2, EnterStep
<1>2. CASE pc[r] = "inAlltoall"
  <2>1. /\ AT!AllAreIn(r) /\ arg' = arg /\ runs' = runs /\ ops' = ops
        /\ IF k[r] = 1 THEN pc' = [pc EXCEPT ![r] = "alltoall"] /\ k' = [k EXCEPT ![r] = 2] /\ left' = left
          ELSE /\ pc' = [pc EXCEPT ![r] = AT!LoopHead(left[r] - 1)]
               /\ k' = [k EXCEPT ![r] = 1] /\ left' = [left EXCEPT ![r] = @ - 1]
    BY <1>2 DEF AT!Alltoall, AT!Goto
  <2>2. /\ AtoaLocal(r) /\ Placed(r) /\ left[r] \in 1..arg[r][2] /\ k[r] \in 1..2 /\ arg[r][2] \in Nat
        /\ Pos(r) = 3 + 2 * (arg[r][2] - left[r]) + k[r] /\ arg[r][1] # 0 /\ Knows(r)
        /\ (AtEnd(r) <=> k[r] = 2 /\ left[r] = 1)
    BY <1>2, Places DEF Synchronous, AtoaTypes, AtoaLocal, Placed, Knows
  <2>3. AtoaTypes' /\ Alone(r)
    <3>1. CASE k[r] = 1
      <4>1. /\ pc' = [pc EXCEPT ![r] = "alltoall"] /\ k' = [k EXCEPT ![r] = 2] /\ left' = left
            /\ "alltoall" \in AT!Labels
        BY <2>1, <3>1 DEF AT!Labels
      <4>2. AtoaTypes'
        BY <2>1, <4>1, SMTT(30) DEF Synchronous, AtoaTypes
      <4> QED  BY <2>1, <4>1, <4>2 DEF Alone, Synchronous, AtoaTypes
    <3>2. CASE k[r] # 1
      <4>1. left[r] - 1 \in Nat /\ AT!LoopHead(left[r] - 1) \in AT!Labels
        BY <2>2 DEF AT!LoopHead, AT!Labels
      <4>2. /\ pc' = [pc EXCEPT ![r] = AT!LoopHead(left[r] - 1)]
            /\ k' = [k EXCEPT ![r] = 1] /\ left' = [left EXCEPT ![r] = left[r] - 1]
        BY <2>1, <3>2
      <4>3. AtoaTypes'
        BY <2>1, <4>1, <4>2, SMTT(30) DEF Synchronous, AtoaTypes
      <4> QED  BY <2>1, <4>2, <4>3 DEF Alone, Synchronous, AtoaTypes
    <3> QED  BY <3>1, <3>2
  <2>4. /\ k[r] = 1 => pc'[r] = "alltoall" /\ k'[r] = 2 /\ left'[r] = left[r]
        /\ k[r] = 2 => /\ k'[r] = 1 /\ left'[r] = left[r] - 1
                       /\ pc'[r] = IF left[r] - 1 = 0 THEN "free" ELSE "alltoall"
    BY <2>1 DEF AT!LoopHead, Synchronous, AtoaTypes
  <2>5. Pos(r)' = Pos(r) /\ Lag(r)' = 0
    <3>1. CASE k[r] = 1
      <4>1. Pos(r)' = 3 + 2 * (arg[r][2] - left[r]) + 2 - 1 /\ Lag(r)' = 0
        BY <2>1, <2>4, <3>1 DEF Pos, Lag
      <4> QED  BY <2>2, <3>1, <4>1
    <3>2. CASE k[r] = 2
      <4>1. CASE left[r] = 1
        <5>1. Pos(r)' = 3 + 2 * arg[r][2] /\ Lag(r)' = 0
          BY <2>1, <2>4, <3>2, <4>1 DEF Pos, Lag, Full
        <5> QED  BY <2>2, <3>2, <4>1, <5>1
      <4>2. CASE left[r] # 1
        <5>1. pc'[r] = "alltoall"
          BY <2>2, <2>4, <3>2, <4>2
        <5>2. Pos(r)' = 3 + 2 * (arg[r][2] - (left[r] - 1)) + 1 - 1 /\ Lag(r)' = 0
          BY <2>1, <2>4, <3>2, <5>1 DEF Pos, Lag
        <5> QED  BY <2>2, <3>2, <5>2
      <4> QED  BY <4>1, <4>2
    <3> QED  BY <2>2, <3>1, <3>2
  <2>6. AtEnd(r) => AtEnd(r)'
    BY <2>2, <2>4 DEF AtEnd
  <2>7. AtoaLocal(r)'
    <3>1. Base(r)' = Base(r)
      BY <2>1, <2>5 DEF Base
    <3>2. CASE k[r] = 1
      BY <1>2, <2>1, <2>2, <2>4, <3>1, <3>2 DEF AtoaLocal, Knows, KnowsSize
    <3>3. CASE k[r] = 2
      BY <1>2, <2>1, <2>2, <2>4, <3>1, <3>3 DEF AtoaLocal, Knows, KnowsSize
    <3> QED  BY <2>2, <3>2, <3>3
  <2>8. \A s \in AT!Rank : Len(ops[s]) >= Len(ops[r]) - Lag(r)'
    <3>1. Len(ops[r]) \in Nat
      BY <2>2 DEF Placed
    <3> QED  BY <2>1, <2>5, <3>1 DEF AT!AllAreIn
  <2> QED  BY <2>1, <2>2, <2>3, <2>5, <2>6, <2>7, <2>8, PassStep
<1> QED  BY <1>1, <1>2

LEMMA FreeStep == ASSUME Synchronous, NEW r \in AT!Rank, AT!FreeBuff(r)  PROVE Synchronous'
<1>1. /\ pc[r] = "free" /\ pc'[r] = "script" /\ left' = left
      /\ ops' = ops /\ runs' = runs /\ arg' = arg /\ k' = k
  BY DEF AT!FreeBuff, AT!Goto, Synchronous, AtoaTypes
<1>2. AtoaTypes' /\ Alone(r)
  BY DEF AT!FreeBuff, AT!Goto, Synchronous, AtoaTypes, Alone, AT!Labels
<1>3. AtoaLocal(r) /\ Placed(r) /\ runs[r] \in Nat
  BY Places DEF Synchronous, AtoaTypes
<1>4. runs[r] # 0 /\ arg[r][1] # 0 /\ Pos(r) = Full(r) /\ Lag(r) = 0 /\ Knows(r)
  BY <1>1, <1>3 DEF Placed, AtoaLocal, Knows
<1>5. Pos(r)' = Full(r) /\ Lag(r)' = 0 /\ AtEnd(r)'
  BY <1>1, <1>4 DEF Pos, Lag, AtEnd, Full
<1>6. AtoaLocal(r)'
  BY <1>1, <1>3, <1>4, <1>5 DEF AtoaLocal, Base, Knows, KnowsSize
<1>7. \A s \in AT!Rank : Len(ops[s]) >= Len(ops[r]) - Lag(r)'
  BY <1>4, <1>5 DEF Synchronous, Coupled
<1> QED  BY <1>1, <1>2, <1>4, <1>5, <1>6, <1>7, PassStep

LEMMA AtoaSteps == Synchronous /\ AT!Next => Synchronous'
  BY ScriptStep, SendRepeatStep, RecvRepeatStep, MallocStep, SyncStep, AlltoallStep, FreeStep
     DEF AT!Next, AT!Step

AtoaInv == built = "atoa" => Synchronous

LEMMA AtoaInductive == AtoaInv /\ [Next]_vars => AtoaInv'
<1> SUFFICES ASSUME AtoaInv, [Next]_vars, built' = "atoa"  PROVE Synchronous'
  BY DEF AtoaInv
<1>1. Synchronous /\ built = "atoa"
  BY SameBuild DEF AtoaInv
<1>2. CASE AtoaStep
  BY <1>1, <1>2, AtoaSteps DEF AtoaStep
<1>3. CASE UNCHANGED vars
  <2>1. UNCHANGED <<pc, arg, k, left, runs, ops>>
    BY <1>3 DEF vars, atoaOnly
  <2>2. ASSUME NEW r \in AT!Rank
        PROVE  /\ Pos(r)' = Pos(r) /\ Base(r)' = Base(r) /\ Lag(r)' = Lag(r) /\ AtEnd(r)' = AtEnd(r)
               /\ Knows(r)' = Knows(r) /\ KnowsSize(r)' = KnowsSize(r)
    <3>1. Pos(r)' = Pos(r)
      BY <2>1 DEF Pos, Full
    <3> QED  BY <2>1, <3>1 DEF Base, Lag, AtEnd, Knows, KnowsSize
  <2>3. AtoaTypes' /\ AT!CollectivesMatch'
    BY <1>1, <2>1 DEF Synchronous, AtoaTypes, AT!CollectivesMatch
  <2>4. ASSUME NEW r \in AT!Rank PROVE AtoaLocal(r)' /\ Recorded(r)'
    BY <1>1, <2>1, <2>2 DEF Synchronous, AtoaLocal, Recorded, CountAt
  <2>5. RootGives'
    BY <1>1, <2>1, <2>2, RootIsRank DEF Synchronous, RootGives
  <2>6. ASSUME NEW r \in AT!Rank, NEW s \in AT!Rank PROVE Coupled(r, s)'
    BY <1>1, <2>1, <2>2 DEF Synchronous, Coupled
  <2> QED  BY <2>3, <2>4, <2>5, <2>6 DEF Synchronous
<1> QED
  BY <1>1, <1>2, <1>3
     DEF Next, MailboxStep, MpiStep, GmStep, PvmStep, HeapStep, CopyStep, PatternStep

\* For any number of ranks, of measurements and of repetitions, the ranks make the same
\* collective calls in the same order and with the same counts, nobody still allocates
\* while one is in the timed loop, and no two are in the loops of different measurements
\* (run_iters, SendRepeat, RecvRepeat, Sync).
THEOREM AllInStep == Spec => []RanksInStep
<1>1. Init => AtoaInv
  BY AtoaStarts DEF Init, AtoaInv
<1>2. AtoaInv => RanksInStep
  <2> SUFFICES ASSUME Synchronous
               PROVE  AT!TypeOK /\ AT!CollectivesMatch /\ AT!NobodyStillPrepares /\ AT!SameMeasurement
    BY DEF AtoaInv, RanksInStep
  <2>1. AT!TypeOK
    <3>1. ASSUME NEW r \in AT!Rank PROVE runs[r] \in 0..(MaxRuns + 1)
      <4>1. runs[r] \in Nat /\ runs[0] \in Nat /\ runs[r] <= runs[0] + 1 /\ runs[0] <= MaxRuns
        BY RootIsRank DEF Synchronous, AtoaTypes, Coupled
      <4> QED  BY <4>1, BoundsAssumption
    <3> QED  BY <3>1 DEF AT!TypeOK, Synchronous, AtoaTypes
  <2>2. ASSUME NEW r \in AT!Rank, NEW s \in AT!Rank, pc[r] \in {"alltoall", "inAlltoall"}
        PROVE  /\ Len(ops[s]) >= Base(r) + 3 /\ Base(r) \in Nat
               /\ Placed(s) /\ Len(ops[s]) \in Nat /\ Base(s) \in Nat
    <3>1. Placed(r) /\ Placed(s) /\ Coupled(r, s) /\ Base(r) \in Nat /\ Base(s) \in Nat
      BY Places DEF Synchronous, AtoaLocal
    <3>2. Pos(r) - Lag(r) >= 3 /\ Pos(r) \in Nat /\ Lag(r) \in Nat /\ Len(ops[r]) = Base(r) + Pos(r)
      BY <2>2, <3>1, SMTT(30) DEF Placed
    <3>3. Len(ops[s]) >= Len(ops[r]) - Lag(r) /\ Len(ops[s]) \in Nat
      BY <3>1 DEF Coupled, Placed
    <3> QED  BY <3>1, <3>2, <3>3
  <2>3. AT!NobodyStillPrepares
    <3> SUFFICES ASSUME NEW r \in AT!Rank, NEW s \in AT!Rank, pc[r] \in {"alltoall", "inAlltoall"},
                        runs[s] = runs[r], pc[s] \in {"bcast", "inBcast", "malloc", "sync"}
                 PROVE  FALSE
      BY DEF AT!NobodyStillPrepares
    <3>1. Base(r) = Base(s)
      BY DEF Synchronous, Coupled
    <3>2. Len(ops[s]) >= Base(s) + 3 /\ Placed(s) /\ Base(s) \in Nat
      BY <2>2, <3>1
    <3>3. Pos(s) <= 2 /\ Pos(s) \in Nat /\ Len(ops[s]) = Base(s) + Pos(s)
      <4>1. k[s] \in 1..2
        BY DEF Synchronous, AtoaTypes
      <4> QED  BY <3>2, <4>1 DEF Placed
    <3> QED  BY <3>2, <3>3
  <2>4. AT!SameMeasurement
    <3> SUFFICES ASSUME NEW r \in AT!Rank, NEW s \in AT!Rank, pc[r] \in {"alltoall", "inAlltoall"},
                        pc[s] \in {"alltoall", "inAlltoall"}, runs[r] # runs[s]
                 PROVE  FALSE
      BY DEF AT!SameMeasurement
    <3>1. /\ Len(ops[s]) >= Base(r) + 3 /\ Len(ops[r]) >= Base(s) + 3
          /\ Base(r) \in Nat /\ Base(s) \in Nat
      BY <2>2
    <3>2. Base(r) = Len(ops[s]) \/ Base(s) = Len(ops[r])
      BY Apart
    <3> QED  BY <3>1, <3>2
  <2>5. AT!CollectivesMatch
    BY DEF Synchronous
  <2> QED  BY <2>1, <2>3, <2>4, <2>5
<1> QED  BY <1>1, <1>2, AtoaInductive, PTL DEF Spec

-----------------------------------------------------------------------------
(* The one-sided modules: the inductive invariant *)

\* InitBufferData never leaves the octet in a receive buffer that RecvData waits for;
\* LastOctets of BufferData checks it for the sizes measured here.
PatternsTellApart == \A r \in Requests["mailbox"] : Pattern[r[1]].r # "b"

\* No announcement is there for p, and nothing is under way to it.
Unannounced(p) == flag[p] = IF MB!Counts THEN 0 ELSE MB!ipe(MB!Peer(p))
Quiet(p) == net[p] = <<>> /\ ~offset[p] /\ Unannounced(p)

\* What the two calls of SendRepeat put, in order; how many of these puts were made and
\* have arrived, and which of the values the last to arrive was.
SlotPut(x) == [to |-> "slot", v |-> arg["tr"][x]]
FlagPut == [to |-> "flag", v |-> 1]
PutAt(x) ==
    IF MB!Counts THEN SlotPut(x)
    ELSE IF x = 1 THEN SlotPut(1) ELSE IF x = 3 THEN SlotPut(2) ELSE FlagPut
PutsMade == IF MB!Counts THEN k["tr"] - 1 ELSE 2 * (k["tr"] - 1)
Arrived == PutsMade - Len(net["rcv"])
LastValue == IF MB!Counts THEN Arrived ELSE IF Arrived = 0 THEN 0 ELSE IF Arrived <= 2 THEN 1 ELSE 2

LastOctet == {"a"} \cup {Pattern[x].r : x \in Nat} \cup {Pattern[x].s : x \in Nat}

MailTypes ==
    /\ lib \in {"shmem", "armci", "lapi"}
    /\ pc \in [MB!Proc -> MB!Labels] /\ k \in [MB!Proc -> 1..3]
    /\ arg \in [MB!Proc -> [1..2 -> Nat]]
    /\ last \in [MB!Proc -> LastOctet]
    /\ left \in [MB!Proc -> Nat] /\ calls \in [MB!Proc -> Nat]
    /\ flag \in [MB!Proc -> Nat] /\ slot \in [MB!Proc -> Nat] /\ offset \in [MB!Proc -> BOOLEAN]
    /\ net \in [MB!Proc -> Seq([to : {"slot", "flag", "offset", "data"}, v : Nat])]
    /\ got \in [MB!Proc -> Nat] /\ taken \in [MB!Proc -> Nat]

\* The transmitter works on what the script asked for, and not more often than that.
Scripted ==
    /\ calls["tr"] \in 0..MaxCalls
    /\ pc["tr"] # "idle" => calls["tr"] < MaxCalls /\ arg["tr"] = req /\ req \in Requests["mailbox"]

\* The receiver has the values that have arrived, in the order in which they were put.
\* It can take an announcement back that was made twice, and then waits for ever.
Hearing ==
    /\ \A x \in 1..Len(net["rcv"]) : net["rcv"][x] = PutAt(Arrived + x)
    /\ Arrived >= 0
    /\ LastValue > 0 => slot["rcv"] = arg["tr"][LastValue]
    /\ MB!Counts /\ pc["rcv"] = "free" => flag["rcv"] = Arrived
    /\ MB!Counts /\ pc["rcv"] # "free" => flag["rcv"] = Arrived - (k["rcv"] - 1)
    /\ ~MB!Counts => flag["rcv"] \in {0, 1}
    /\ ~MB!Counts /\ k["rcv"] # 2 /\ pc["rcv"] \in {"free", "wait"} => (flag["rcv"] = 1 <=> Arrived >= 2)
    /\ ~MB!Counts /\ pc["rcv"] \in {"read", "clear"} => Arrived >= 2
    /\ ~MB!Counts /\ k["rcv"] = 2 => Arrived >= 2 /\ (flag["rcv"] = 1 => Arrived = 4)
    /\ ~MB!Counts /\ pc["rcv"] = "malloc" => Arrived = 4 /\ flag["rcv"] = 0
    /\ pc["rcv"] \in {"read", "clear"} => flag["rcv"] >= 1
    /\ pc["rcv"] = "clear" /\ k["rcv"] = 2 => arg["rcv"][2] = req[2]
    /\ pc["rcv"] = "malloc" => arg["rcv"][2] = req[2]

\* From one measurement to the buffers of the next.
Asking ==
    /\ pc["tr"] \in {"idle", "sendRepeat", "malloc"}
    /\ pc["tr"] = "idle" => k["tr"] = 1
    /\ pc["tr"] = "sendRepeat" => k["tr"] \in {1, 2}
    /\ pc["tr"] = "malloc" => k["tr"] = 3
    /\ pc["rcv"] \in {"free", "wait", "read", "clear", "malloc"}
    /\ pc["rcv"] \in {"free", "malloc"} => k["rcv"] = 3
    /\ pc["rcv"] \in {"wait", "read", "clear"} => k["rcv"] \in {1, 2}
    /\ pc["rcv"] = "free" => calls["rcv"] = calls["tr"] - 1
    /\ pc["rcv"] # "free" => calls["rcv"] = calls["tr"]
    /\ got["tr"] = taken["tr"] /\ got["rcv"] = taken["rcv"]
    /\ Quiet("tr") /\ ~offset["rcv"]
    /\ Hearing

\* The peer's offset has arrived at p.
Here(p) == IF MB!Counts THEN flag[p] = 1 ELSE offset[p]
NotHere(p) == IF MB!Counts THEN flag[p] = 0 ELSE ~offset[p]

\* It is there between the peer's put or message and the wait of p, or still under way.
OffsetPut == [to |-> "offset", v |-> 0]
Offset(p) ==
    LET q == MB!Peer(p) IN
    IF lib # "shmem" /\ pc[p] # "sync" /\ pc[q] \in {"alignRecv", "sync"}
    THEN (MB!Counts /\ net[p] = <<OffsetPut>> /\ NotHere(p)) \/ (net[p] = <<>> /\ Here(p))
    ELSE net[p] = <<>> /\ NotHere(p)

\* From MyMalloc to the end of Sync.
Preparing ==
    /\ arg["rcv"] = arg["tr"] /\ calls["rcv"] = calls["tr"]
    /\ \A p \in MB!Proc :
        /\ pc[p] \in {"init", "alignSend", "alignRecv", "sync"}
        /\ lib = "shmem" => pc[p] \in {"init", "sync"}
        /\ lib # "shmem" /\ pc[p] = "sync" => pc[MB!Peer(p)] \in {"alignRecv", "sync"}
        /\ k[p] = 3 /\ got[p] = taken[p]
        /\ IF MB!Counts THEN ~offset[p] ELSE Unannounced(p)
        /\ pc[p] # "init" => left[p] = arg[p][2] /\ last[p] = Pattern[arg[p][1]].r
        /\ Offset(p)

DataPut == [to |-> "data", v |-> 0]
Watching(p) == Unannounced(p) /\ (~MB!Counts => last[p] # "b")
NoData(p) == ~offset[p] /\ net[p] = <<>> /\ got[p] = taken[p] /\ Watching(p)
OneData(p) ==
    /\ ~offset[p]
    /\ \/ net[p] = <<DataPut>> /\ got[p] = taken[p] /\ Watching(p)
       \/ /\ net[p] = <<>> /\ got[p] = taken[p] + 1
          /\ IF MB!Counts THEN flag[p] = 1
             ELSE Unannounced(p) /\ last[p] = Pattern[arg["tr"][1]].s

\* A message is under way to the receiver, or to the transmitter, or to neither.
Looping ==
    /\ arg["rcv"] = arg["tr"] /\ k["tr"] = 3
    /\ pc["rcv"] = "wait" => k["rcv"] = 1 /\ calls["rcv"] = calls["tr"] + 1
    /\ pc["rcv"] # "wait" => k["rcv"] = 3 /\ calls["rcv"] = calls["tr"]
    /\ \/ /\ <<pc["tr"], pc["rcv"]>> \in {<<"send", "recv">>, <<"recv", "send">>}
          /\ left["tr"] = left["rcv"] /\ left["tr"] > 0
          /\ NoData("tr") /\ NoData("rcv")
       \/ /\ pc["tr"] = "recv" /\ pc["rcv"] = "recv"
          /\ left["tr"] = left["rcv"] /\ left["tr"] > 0
          /\ NoData("tr") /\ OneData("rcv")
       \/ /\ pc["tr"] = "recv" /\ left["tr"] = left["rcv"] + 1
          /\ IF left["rcv"] = 0 THEN pc["rcv"] \in {"free", "wait"} ELSE pc["rcv"] = "recv"
          /\ OneData("tr") /\ NoData("rcv")
       \/ /\ pc["tr"] = "free" /\ pc["rcv"] \in {"free", "wait"}
          /\ NoData("tr") /\ NoData("rcv")

\* The sizes differed.
Undefined ==
    /\ calls["rcv"] = calls["tr"]
    /\ \A p \in MB!Proc :
        pc[p] = "undefined" /\ net[p] = <<>> /\ got[p] = taken[p] /\ flag[p] \in {0, 1}

MailInv == MailTypes /\ Scripted /\ (Asking \/ Preparing \/ Looping \/ Undefined)

-----------------------------------------------------------------------------
(* The one-sided modules: every step keeps the invariant *)

Puts == [to : {"slot", "flag", "offset", "data"}, v : Nat]

\* What put and delivery do to a sequence of puts.
LEMMA PutOne ==
    ASSUME NEW s \in Seq(Puts), NEW e \in Puts
    PROVE  /\ s \o <<e>> \in Seq(Puts) /\ Len(s \o <<e>>) = Len(s) + 1
           /\ \A x \in 1..Len(s) : (s \o <<e>>)[x] = s[x]
           /\ (s \o <<e>>)[Len(s) + 1] = e
           /\ s = <<>> => s \o <<e>> = <<e>>
<1>1. s = <<>> => s \o <<e>> = <<e>>
  OBVIOUS
<1>2. s \o <<e>> \in Seq(Puts) /\ Len(s \o <<e>>) = Len(s) + 1
  OBVIOUS
<1> QED  BY <1>1, <1>2

LEMMA PutTwo ==
    ASSUME NEW s \in Seq(Puts), NEW e \in Puts, NEW f \in Puts
    PROVE  /\ s \o <<e, f>> \in Seq(Puts) /\ Len(s \o <<e, f>>) = Len(s) + 2
           /\ \A x \in 1..Len(s) : (s \o <<e, f>>)[x] = s[x]
           /\ (s \o <<e, f>>)[Len(s) + 1] = e
           /\ (s \o <<e, f>>)[Len(s) + 2] = f
  OBVIOUS

LEMMA TakeOne ==
    ASSUME NEW s \in Seq(Puts), s # <<>>
    PROVE  /\ Len(s) \in Nat \ {0} /\ Head(s) = s[1] /\ Head(s) \in Puts
           /\ Tail(s) \in Seq(Puts) /\ Len(Tail(s)) = Len(s) - 1
           /\ \A x \in 1..(Len(s) - 1) : Tail(s)[x] = s[x + 1]
  OBVIOUS

LEMMA OnlyOne ==
    ASSUME NEW e \in Puts
    PROVE  Head(<<e>>) = e /\ Tail(<<e>>) = <<>> /\ <<e>> # <<>>
  OBVIOUS

LEMMA EmptyIsEmpty ==
    ASSUME NEW s \in Seq(Puts)
    PROVE  Len(s) \in Nat /\ (Len(s) = 0 <=> s = <<>>)
  OBVIOUS

LEMMA MailStarts == MB!Init => MailInv
<1> SUFFICES ASSUME MB!Init PROVE MailInv
  OBVIOUS
<1> USE DEF MB!Init, MB!Proc, MB!All
<1>1. MailTypes
  BY DEF MailTypes, MB!Labels, MB!ipe, MB!Peer, LastOctet
<1>2. Scripted
  BY BoundsAssumption DEF Scripted
<1>3. Asking
  <2>1. Quiet("tr")
    BY DEF Quiet, Unannounced, MB!Counts
  <2>2. Len(net["rcv"]) = 0 /\ PutsMade = 0 /\ Arrived = 0 /\ LastValue = 0
    BY DEF PutsMade, Arrived, LastValue, MB!Counts
  <2>3. Hearing
    BY <2>2 DEF Hearing, MB!Counts, MB!ipe, MB!Peer
  <2> QED  BY <2>1, <2>3 DEF Asking
<1> QED  BY <1>1, <1>2, <1>3 DEF MailInv

LEMMA MailCall ==
    ASSUME MailInv, NEW p \in MB!Proc, MB!Call(p)
    PROVE  MailInv'
<1> USE DEF MB!Proc
<1>1. p = "tr" /\ pc["tr"] = "idle" /\ Asking /\ k["tr"] = 1
  BY DEF MB!Call, MB!Goto, MailInv, Preparing, Looping, Undefined, Asking
<1>2. PICK r \in Requests["mailbox"] : req' = r /\ arg' = [arg EXCEPT !["tr"] = r]
  BY <1>1 DEF MB!Call
<1>3. r \in Nat \X Nat /\ r \in [1..2 -> Nat]
  BY BoundsAssumption
<1>4. /\ pc' = [pc EXCEPT !["tr"] = "sendRepeat"] /\ k' = [k EXCEPT !["tr"] = 1]
      /\ UNCHANGED <<lib, left, calls, flag, slot, offset, last, net, got, taken>>
      /\ calls["tr"] < MaxCalls
  BY <1>1 DEF MB!Call, MB!Goto
<1>5. MailTypes'
  <2>1. arg' \in [MB!Proc -> [1..2 -> Nat]]
    BY <1>2, <1>3 DEF MailInv, MailTypes
  <2>2. pc' \in [MB!Proc -> MB!Labels]
    BY <1>4 DEF MailInv, MailTypes, MB!Labels
  <2>3. k' \in [MB!Proc -> 1..3]
    BY <1>4 DEF MailInv, MailTypes
  <2> QED  BY <1>4, <2>1, <2>2, <2>3 DEF MailInv, MailTypes
<1>6. Scripted'
  BY <1>2, <1>4 DEF MailInv, MailTypes, Scripted
<1>7. /\ pc'["tr"] = "sendRepeat" /\ pc'["rcv"] = pc["rcv"] /\ k'["tr"] = 1 /\ k'["rcv"] = k["rcv"]
      /\ arg'["rcv"] = arg["rcv"]
  BY <1>1, <1>2, <1>4 DEF MailInv, MailTypes
<1>8. PutsMade = 0 /\ PutsMade' = 0 /\ net["rcv"] \in Seq(Puts)
  BY <1>1, <1>4, <1>7 DEF PutsMade, MB!Counts, MailInv, MailTypes, Puts
<1>9. Arrived = 0 /\ Arrived' = 0 /\ LastValue = 0 /\ LastValue' = 0 /\ Len(net["rcv"]) = 0
  BY <1>1, <1>4, <1>8, EmptyIsEmpty DEF Arrived, LastValue, MB!Counts, Asking, Hearing
<1>10. Hearing'
  <2>1. pc["rcv"] \notin {"read", "clear", "malloc"}
    <3>1. flag["rcv"] \in Nat /\ k["rcv"] \in 1..3
      BY DEF MailInv, MailTypes
    <3>2. CASE MB!Counts
      BY <1>1, <1>9, <3>1, <3>2 DEF Asking, Hearing
    <3>3. CASE ~MB!Counts
      BY <1>1, <1>9, <3>1, <3>3 DEF Asking, Hearing
    <3> QED  BY <3>2, <3>3
  <2> QED  BY <1>1, <1>4, <1>7, <1>9, <2>1 DEF Hearing, MB!Counts, Asking
<1>11. Quiet("tr")'
  BY <1>1, <1>4 DEF Quiet, Unannounced, MB!Counts, Asking
<1>12. Asking'
  BY <1>1, <1>4, <1>7, <1>10, <1>11 DEF Asking
<1> QED  BY <1>5, <1>6, <1>12 DEF MailInv

\* SendRepeat adds the next put or two.
LEMMA MailSendRepeat ==
    ASSUME MailInv, NEW p \in MB!Proc, MB!SendRepeat(p)
    PROVE  MailInv'
<1> USE DEF MB!Proc
<1> DEFINE c == net["rcv"]
<1>1. p = "tr" /\ pc["tr"] = "sendRepeat" /\ Asking /\ k["tr"] \in {1, 2}
  BY DEF MB!SendRepeat, MailInv, Preparing, Looping, Undefined, Asking
<1>2. /\ pc' = [pc EXCEPT !["tr"] = IF k["tr"] = 1 THEN "sendRepeat" ELSE "malloc"]
      /\ k' = [k EXCEPT !["tr"] = @ + 1]
      /\ slot' = IF MB!Counts THEN slot ELSE [slot EXCEPT !["tr"] = arg["tr"][k["tr"]]]
      /\ UNCHANGED <<lib, req, arg, left, calls, flag, offset, last, got, taken>>
  BY <1>1 DEF MB!SendRepeat
<1>3. /\ c \in Seq(Puts) /\ Len(c) \in Nat /\ arg["tr"][k["tr"]] \in Nat
      /\ ~MB!Counts => flag["tr"] = 1
  BY <1>1, EmptyIsEmpty, SMTT(30)
     DEF MailInv, MailTypes, Puts, Asking, Quiet, Unannounced, MB!Counts, MB!ipe, MB!Peer
<1>4. SlotPut(k["tr"]) \in Puts /\ FlagPut \in Puts
  BY <1>3 DEF SlotPut, FlagPut, Puts
<1>5. net' = [net EXCEPT !["rcv"] = IF MB!Counts THEN c \o <<SlotPut(k["tr"])>>
                                    ELSE c \o <<SlotPut(k["tr"]), FlagPut>>]
  <2>1. net' = [net EXCEPT !["rcv"] = @ \o (IF MB!Counts THEN <<[to |-> "slot", v |-> arg["tr"][k["tr"]]]>>
              ELSE <<[to |-> "slot", v |-> arg["tr"][k["tr"]]], [to |-> "flag", v |-> flag["tr"]]>>)]
    BY <1>1 DEF MB!SendRepeat, MB!Put, MB!Peer
  <2>2. CASE MB!Counts
    BY <2>1, <2>2 DEF SlotPut
  <2>3. CASE ~MB!Counts
    BY <1>3, <2>1, <2>3 DEF SlotPut, FlagPut
  <2> QED  BY <2>2, <2>3
<1>6. net'["tr"] = net["tr"] /\ net'["rcv"] = IF MB!Counts THEN c \o <<SlotPut(k["tr"])>>
                                               ELSE c \o <<SlotPut(k["tr"]), FlagPut>>
  BY <1>5 DEF MailInv, MailTypes
<1>7. /\ pc'["tr"] = IF k["tr"] = 1 THEN "sendRepeat" ELSE "malloc"
      /\ pc'["rcv"] = pc["rcv"] /\ k'["tr"] = k["tr"] + 1 /\ k'["rcv"] = k["rcv"]
      /\ slot'["rcv"] = slot["rcv"]
  BY <1>2 DEF MailInv, MailTypes
<1>8. MailTypes'
  <2>1. pc' \in [MB!Proc -> MB!Labels]
    BY <1>2 DEF MailInv, MailTypes, MB!Labels
  <2>2. k' \in [MB!Proc -> 1..3]
    <3>1. k \in [MB!Proc -> 1..3]
      BY DEF MailInv, MailTypes
    <3>2. k["tr"] + 1 \in 1..3
      BY <1>1
    <3> QED  BY <1>2, <3>1, <3>2
  <2>3. slot' \in [MB!Proc -> Nat]
    BY <1>2, <1>3 DEF MailInv, MailTypes
  <2>4. net' \in [MB!Proc -> Seq(Puts)]
    <3>1. net'["rcv"] \in Seq(Puts)
      BY <1>3, <1>4, <1>6, PutOne, PutTwo
    <3> QED  BY <1>5, <1>6, <3>1 DEF MailInv, MailTypes, Puts
  <2> QED  BY <1>2, <2>1, <2>2, <2>3, <2>4 DEF MailInv, MailTypes, Puts
<1>9. Scripted'
  BY <1>1, <1>2, <1>7 DEF MailInv, Scripted
<1>10. PutsMade' = PutsMade + (Len(c') - Len(c)) /\ Arrived' = Arrived /\ LastValue' = LastValue
  <2>1. PutsMade' = PutsMade + (Len(c') - Len(c)) /\ Len(c') \in Nat /\ PutsMade \in Nat
    <3>1. CASE MB!Counts
      <4>1. Len(c') = Len(c) + 1 /\ MB!Counts'
        BY <1>2, <1>3, <1>4, <1>6, <3>1, PutOne DEF MB!Counts
      <4> QED  BY <1>1, <1>3, <1>7, <3>1, <4>1 DEF PutsMade
    <3>2. CASE ~MB!Counts
      <4>1. Len(c') = Len(c) + 2 /\ ~MB!Counts'
        BY <1>2, <1>3, <1>4, <1>6, <3>2, PutTwo DEF MB!Counts
      <4> QED  BY <1>1, <1>3, <1>7, <3>2, <4>1 DEF PutsMade
    <3> QED  BY <3>1, <3>2
  <2>2. Arrived' = Arrived
    BY <1>3, <2>1 DEF Arrived
  <2> QED  BY <1>2, <2>1, <2>2 DEF LastValue, MB!Counts
<1>11. \A x \in 1..Len(c') : c'[x] = PutAt(Arrived + x)'
  <2> SUFFICES ASSUME NEW x \in 1..Len(c')  PROVE c'[x] = PutAt(Arrived + x)'
    OBVIOUS
  <2>1. PutAt(Arrived + x)' = PutAt(Arrived + x)
    BY <1>2, <1>10 DEF PutAt, SlotPut, FlagPut, MB!Counts
  <2>2. CASE x <= Len(c)
    <3>1. x \in 1..Len(c) /\ c'[x] = c[x]
      BY <1>3, <1>4, <1>6, <2>2, PutOne, PutTwo
    <3> QED  BY <1>1, <2>1, <3>1 DEF Asking, Hearing
  <2>3. CASE x > Len(c) /\ MB!Counts
    <3>1. x = Len(c) + 1 /\ c'[x] = SlotPut(k["tr"])
      BY <1>3, <1>4, <1>6, <2>3, PutOne
    <3>2. Arrived + x = k["tr"]
      BY <1>1, <1>3, <2>3, <3>1 DEF Arrived, PutsMade
    <3> QED  BY <2>1, <2>3, <3>1, <3>2 DEF PutAt
  <2>4. CASE x > Len(c) /\ ~MB!Counts
    <3>1. \/ x = Len(c) + 1 /\ c'[x] = SlotPut(k["tr"])
          \/ x = Len(c) + 2 /\ c'[x] = FlagPut
      BY <1>3, <1>4, <1>6, <2>4, PutTwo
    <3>2. PutsMade = IF k["tr"] = 1 THEN 0 ELSE 2
      BY <1>1, <2>4 DEF PutsMade
    <3>3. CASE k["tr"] = 1
      <4>1. Arrived = 0 - Len(c)
        BY <3>2, <3>3 DEF Arrived
      <4>2. \/ c'[x] = SlotPut(1) /\ Arrived + x = 1
            \/ c'[x] = FlagPut /\ Arrived + x = 2
        BY <1>3, <3>1, <3>3, <4>1
      <4> QED  BY <2>1, <2>4, <4>2 DEF PutAt
    <3>4. CASE k["tr"] = 2
      <4>1. Arrived = 2 - Len(c)
        BY <3>2, <3>4 DEF Arrived
      <4>2. \/ c'[x] = SlotPut(2) /\ Arrived + x = 3
            \/ c'[x] = FlagPut /\ Arrived + x = 4
        BY <1>3, <3>1, <3>4, <4>1
      <4> QED  BY <2>1, <2>4, <4>2 DEF PutAt
    <3> QED  BY <1>1, <3>3, <3>4
  <2> QED  BY <1>3, <2>2, <2>3, <2>4
<1>12. Hearing'
  BY <1>1, <1>2, <1>7, <1>10, <1>11 DEF Hearing, Asking, MB!Counts
<1>13. Asking'
  BY <1>1, <1>2, <1>6, <1>7, <1>12 DEF Asking, Quiet, Unannounced, MB!Counts
<1> QED  BY <1>8, <1>9, <1>13 DEF MailInv

\* What RecvRepeat does needs the receiver only.
LEMMA MailRecvRepeat ==
    ASSUME MailInv, NEW p \in MB!Proc, MB!RecvRepeat(p)
    PROVE  MailInv'
<1> USE DEF MB!Proc
<1>1. p = "rcv" /\ pc["rcv"] \in {"wait", "read", "clear"}
  BY DEF MB!RecvRepeat, MB!AwaitRepeat, MB!ReadRepeat, MB!ClearRepeat, MB!Goto,
         MailInv, Preparing, Looping, Undefined, Asking
<1>2. CASE MB!AwaitRepeat(p) /\ ~Asking
  <2>1. pc["rcv"] = "wait" /\ Looping /\ (IF MB!Counts THEN flag["rcv"] >= 1 ELSE flag["rcv"] = 1)
    BY <1>1, <1>2 DEF MB!AwaitRepeat, MB!Goto, MailInv, Preparing, Undefined, MB!ipe
  <2>2. NoData("rcv")
    BY <2>1 DEF Looping
  <2> QED  BY <2>1, <2>2 DEF NoData, Watching, Unannounced, MB!ipe, MB!Peer
<1> SUFFICES ASSUME Asking  PROVE MailInv'
  BY <1>1, <1>2 DEF MB!RecvRepeat, MB!ReadRepeat, MB!ClearRepeat, MB!Goto,
         MailInv, Preparing, Looping, Undefined
<1>3. k["rcv"] \in {1, 2} /\ flag["rcv"] \in Nat /\ flag["tr"] \in Nat /\ slot["rcv"] \in Nat
  BY <1>1 DEF Asking, MailInv, MailTypes
<1>4. CASE MB!AwaitRepeat(p)
  <2>1. /\ pc["rcv"] = "wait" /\ pc' = [pc EXCEPT !["rcv"] = "read"]
        /\ IF MB!Counts THEN flag["rcv"] >= 1 ELSE flag["rcv"] = 1
        /\ UNCHANGED <<lib, req, arg, k, left, calls, flag, slot, offset, last, net, got, taken>>
    BY <1>1, <1>4 DEF MB!AwaitRepeat, MB!Goto, MB!ipe
  <2>2. pc'["rcv"] = "read" /\ pc'["tr"] = pc["tr"]
    BY <2>1 DEF MailInv, MailTypes
  <2>3. pc' \in [MB!Proc -> MB!Labels]
    BY <2>1 DEF MailInv, MailTypes, MB!Labels
  <2>4. MailTypes'
    BY <2>1, <2>3 DEF MailInv, MailTypes
  <2>5. Arrived' = Arrived /\ LastValue' = LastValue
    BY <2>1 DEF Arrived, LastValue, PutsMade, MB!Counts
  <2>6. \A x \in 1..Len(net["rcv"]) : PutAt(Arrived + x)' = PutAt(Arrived + x)
    BY <2>1, <2>5 DEF PutAt, SlotPut, FlagPut, MB!Counts
  <2>7. Hearing'
    BY <1>3, <2>1, <2>2, <2>5, <2>6 DEF Hearing, Asking, MB!Counts
  <2>8. Asking' /\ Scripted'
    BY <2>1, <2>2, <2>7 DEF Asking, Quiet, Unannounced, MB!Counts, MailInv, Scripted
  <2> QED  BY <2>4, <2>8 DEF MailInv
<1>5. CASE MB!ReadRepeat(p)
  <2>1. /\ pc["rcv"] = "read" /\ pc' = [pc EXCEPT !["rcv"] = "clear"]
        /\ arg' = [arg EXCEPT !["rcv"][k["rcv"]] = slot["rcv"]]
        /\ UNCHANGED <<lib, req, k, left, calls, flag, slot, offset, last, net, got, taken>>
    BY <1>1, <1>5 DEF MB!ReadRepeat, MB!Goto
  <2>2. pc'["rcv"] = "clear" /\ pc'["tr"] = pc["tr"]
    BY <2>1 DEF MailInv, MailTypes
  <2>3. pc' \in [MB!Proc -> MB!Labels]
    BY <2>1 DEF MailInv, MailTypes, MB!Labels
  <2>4. arg'["tr"] = arg["tr"] /\ arg'["rcv"][k["rcv"]] = slot["rcv"] /\ arg' \in [MB!Proc -> [1..2 -> Nat]]
    <3>1. arg \in [MB!Proc -> [1..2 -> Nat]]
      BY DEF MailInv, MailTypes
    <3> QED  BY <1>3, <2>1, <3>1
  <2>5. MailTypes'
    BY <2>1, <2>3, <2>4 DEF MailInv, MailTypes
  <2>6. Arrived' = Arrived /\ LastValue' = LastValue
    BY <2>1 DEF Arrived, LastValue, PutsMade, MB!Counts
  <2>7. \A x \in 1..Len(net["rcv"]) : PutAt(Arrived + x)' = PutAt(Arrived + x)
    BY <2>1, <2>4, <2>6 DEF PutAt, SlotPut, FlagPut, MB!Counts
  <2>8. k["rcv"] = 2 => slot["rcv"] = req[2]
    <3> SUFFICES ASSUME k["rcv"] = 2  PROVE slot["rcv"] = req[2]
      OBVIOUS
    <3>1. LastValue = 2 /\ pc["tr"] # "idle"
      <4>1. Len(net["rcv"]) \in Nat /\ k["tr"] \in 1..3
        BY EmptyIsEmpty DEF MailInv, MailTypes, Puts
      <4>2. CASE MB!Counts
        BY <1>3, <2>1, <4>1, <4>2 DEF Asking, Hearing, LastValue, Arrived, PutsMade
      <4>3. CASE ~MB!Counts
        BY <1>3, <2>1, <4>1, <4>3 DEF Asking, Hearing, LastValue, Arrived, PutsMade
      <4> QED  BY <4>2, <4>3
    <3> QED  BY <3>1 DEF Asking, Hearing, MailInv, Scripted
  <2>9. Hearing'
    BY <1>3, <2>1, <2>2, <2>4, <2>6, <2>7, <2>8 DEF Hearing, Asking, MB!Counts
  <2>10. Asking' /\ Scripted'
    BY <2>1, <2>2, <2>4, <2>9 DEF Asking, Quiet, Unannounced, MB!Counts, MailInv, Scripted
  <2> QED  BY <2>5, <2>10 DEF MailInv
<1>6. CASE MB!ClearRepeat(p)
  <2>1. /\ pc["rcv"] = "clear" /\ pc' = [pc EXCEPT !["rcv"] = IF k["rcv"] = 1 THEN "wait" ELSE "malloc"]
        /\ flag' = [flag EXCEPT !["rcv"] = IF MB!Counts THEN @ - 1 ELSE 0]
        /\ k' = [k EXCEPT !["rcv"] = @ + 1]
        /\ UNCHANGED <<lib, req, arg, left, calls, slot, offset, last, net, got, taken>>
    BY <1>1, <1>6 DEF MB!ClearRepeat, MB!Goto, MB!ipe, MB!Peer
  <2>2. /\ pc'["rcv"] = IF k["rcv"] = 1 THEN "wait" ELSE "malloc"
        /\ pc'["tr"] = pc["tr"] /\ k'["tr"] = k["tr"] /\ k'["rcv"] = k["rcv"] + 1
        /\ flag'["tr"] = flag["tr"] /\ flag'["rcv"] = IF MB!Counts THEN flag["rcv"] - 1 ELSE 0
    BY <2>1 DEF MailInv, MailTypes
  <2>3. pc' \in [MB!Proc -> MB!Labels]
    BY <2>1 DEF MailInv, MailTypes, MB!Labels
  <2>4. k' \in [MB!Proc -> 1..3]
    <3>1. k \in [MB!Proc -> 1..3]
      BY DEF MailInv, MailTypes
    <3>2. k["rcv"] + 1 \in 1..3
      BY <1>3
    <3> QED  BY <2>1, <3>1, <3>2
  <2>5. flag["rcv"] >= 1
    BY <2>1 DEF Asking, Hearing
  <2>6. flag' \in [MB!Proc -> Nat]
    <3>1. flag \in [MB!Proc -> Nat]
      BY DEF MailInv, MailTypes
    <3>2. flag["rcv"] - 1 \in Nat
      BY <1>3, <2>5
    <3> QED  BY <2>1, <3>1, <3>2
  <2>7. MailTypes'
    BY <2>1, <2>3, <2>4, <2>6 DEF MailInv, MailTypes
  <2>8. Arrived' = Arrived /\ LastValue' = LastValue
    BY <2>1, <2>2 DEF Arrived, LastValue, PutsMade, MB!Counts
  <2>9. \A x \in 1..Len(net["rcv"]) : PutAt(Arrived + x)' = PutAt(Arrived + x)
    BY <2>1, <2>8 DEF PutAt, SlotPut, FlagPut, MB!Counts
  <2>10. Arrived \in Int
    <3>1. Len(net["rcv"]) \in Nat /\ k["tr"] \in 1..3
      BY EmptyIsEmpty DEF MailInv, MailTypes, Puts
    <3> QED  BY <3>1 DEF Arrived, PutsMade
  <2>11. Hearing'
    <3>1. CASE MB!Counts
      <4>1. MB!Counts'
        BY <2>1, <3>1 DEF MB!Counts
      <4> QED  BY <1>3, <2>1, <2>2, <2>5, <2>8, <2>9, <2>10, <3>1, <4>1 DEF Hearing, Asking
    <3>2. CASE ~MB!Counts
      <4>1. ~MB!Counts'
        BY <2>1, <3>2 DEF MB!Counts
      <4> QED  BY <1>3, <2>1, <2>2, <2>5, <2>8, <2>9, <2>10, <3>2, <4>1 DEF Hearing, Asking
    <3> QED  BY <3>1, <3>2
  <2>12. Asking' /\ Scripted'
    BY <1>3, <2>1, <2>2, <2>11 DEF Asking, Quiet, Unannounced, MB!Counts, MailInv, Scripted
  <2> QED  BY <2>7, <2>12 DEF MailInv
<1> QED  BY <1>4, <1>5, <1>6 DEF MB!RecvRepeat

\* Both processes have read everything when they allocate.
LEMMA MailMyMalloc ==
    ASSUME MailInv, MB!MyMalloc
    PROVE  MailInv'
<1> USE DEF MB!Proc
<1>1. /\ pc["tr"] = "malloc" /\ pc["rcv"] = "malloc"
      /\ UNCHANGED <<lib, req, arg, k, left, calls, flag, slot, offset, last, net, got, taken>>
      /\ pc' = [p \in MB!Proc |-> IF arg["tr"] = arg["rcv"] THEN "init" ELSE "undefined"]
  BY DEF MB!MyMalloc, MB!Together, MB!All
<1>2. Asking /\ k["tr"] = 3 /\ k["rcv"] = 3
  BY <1>1 DEF MailInv, Preparing, Looping, Undefined, Asking
<1>3. net["rcv"] = <<>> /\ flag["rcv"] = 0
  <2>1. Len(net["rcv"]) \in Nat /\ (Len(net["rcv"]) = 0 <=> net["rcv"] = <<>>) /\ flag["rcv"] \in Nat
    BY EmptyIsEmpty DEF MailInv, MailTypes, Puts
  <2>2. CASE MB!Counts
    <3>1. Arrived = 2 - Len(net["rcv"]) /\ flag["rcv"] = Arrived - 2
      BY <1>1, <1>2, <2>1, <2>2 DEF Asking, Hearing, Arrived, PutsMade
    <3> QED  BY <2>1, <3>1
  <2>3. CASE ~MB!Counts
    <3>1. Arrived = 4 - Len(net["rcv"]) /\ Arrived = 4 /\ flag["rcv"] = 0
      BY <1>1, <1>2, <2>1, <2>3 DEF Asking, Hearing, Arrived, PutsMade
    <3> QED  BY <2>1, <3>1
  <2> QED  BY <2>2, <2>3
<1>4. pc' \in [MB!Proc -> MB!Labels]
  BY <1>1 DEF MB!Labels
<1>5. MailTypes'
  BY <1>1, <1>4 DEF MailInv, MailTypes
<1>6. Scripted'
  BY <1>1 DEF MailInv, Scripted
<1>7. CASE arg["tr"] = arg["rcv"]
  <2>1. \A p \in MB!Proc : pc'[p] = "init" /\ pc'[MB!Peer(p)] = "init"
    BY <1>1, <1>7 DEF MB!Peer
  <2>2. \A p \in MB!Proc :
          net[p] = <<>> /\ ~offset[p] /\ Unannounced(p) /\ k[p] = 3 /\ got[p] = taken[p]
    BY <1>2, <1>3 DEF Asking, Quiet, Unannounced, MB!ipe, MB!Peer
  <2>3. \A p \in MB!Proc : Offset(p)' /\ Unannounced(p)'
    BY <1>1, <2>1, <2>2 DEF Offset, NotHere, Unannounced, MB!Counts
  <2>4. calls["rcv"] = calls["tr"]
    BY <1>1, <1>2 DEF Asking
  <2>5. Preparing'
    BY <1>1, <1>7, <2>1, <2>2, <2>3, <2>4 DEF Preparing
  <2> QED  BY <1>5, <1>6, <2>5 DEF MailInv
<1>8. CASE arg["tr"] # arg["rcv"]
  <2>1. \A p \in MB!Proc : pc'[p] = "undefined"
    BY <1>1, <1>8
  <2>2. \A p \in MB!Proc : net[p] = <<>> /\ flag[p] \in {0, 1} /\ got[p] = taken[p]
    BY <1>2, <1>3 DEF Asking, Quiet, Unannounced, MB!ipe, MB!Peer
  <2>3. Undefined'
    BY <1>1, <1>2, <2>1, <2>2 DEF Undefined, Asking
  <2> QED  BY <1>5, <1>6, <2>3 DEF MailInv
<1> QED  BY <1>7, <1>8

LEMMA MailInit ==
    ASSUME MailInv, NEW p \in MB!Proc, MB!InitBufferData(p)
    PROVE  MailInv'
<1> USE DEF MB!Proc
<1> DEFINE next == IF lib = "shmem" THEN "sync" ELSE "alignSend"
<1>1. pc[p] = "init" /\ Preparing
  BY DEF MB!InitBufferData, MB!Goto, MailInv, Asking, Looping, Undefined
<1>2. /\ pc' = [pc EXCEPT ![p] = next]
      /\ last' = [last EXCEPT ![p] = Pattern[arg[p][1]].r]
      /\ left' = [left EXCEPT ![p] = arg[p][2]]
      /\ UNCHANGED <<lib, req, arg, k, calls, flag, slot, offset, net, got, taken>>
  BY DEF MB!InitBufferData, MB!Goto
<1>3. arg \in [MB!Proc -> [1..2 -> Nat]]
  BY DEF MailInv, MailTypes
<1>4. MailTypes'
  <2>1. pc' \in [MB!Proc -> MB!Labels]
    BY <1>2 DEF MailInv, MailTypes, MB!Labels
  <2>2. last' \in [MB!Proc -> LastOctet]
    <3>1. last \in [MB!Proc -> LastOctet]
      BY DEF MailInv, MailTypes
    <3>2. Pattern[arg[p][1]].r \in LastOctet
      BY <1>3 DEF LastOctet
    <3> QED  BY <1>2, <3>1, <3>2
  <2>3. left' \in [MB!Proc -> Nat]
    <3>1. left \in [MB!Proc -> Nat]
      BY DEF MailInv, MailTypes
    <3> QED  BY <1>2, <1>3, <3>1
  <2> QED  BY <1>2, <2>1, <2>2, <2>3 DEF MailInv, MailTypes
<1>5. /\ pc'[p] = next /\ last'[p] = Pattern[arg[p][1]].r /\ left'[p] = arg[p][2]
      /\ \A q \in MB!Proc : q # p => pc'[q] = pc[q] /\ last'[q] = last[q] /\ left'[q] = left[q]
  BY <1>2 DEF MailInv, MailTypes
<1>6. Scripted'
  BY <1>1, <1>2, <1>5 DEF MailInv, Scripted
<1>7. ASSUME NEW q \in MB!Proc  PROVE Offset(q)'
  <2>1. Offset(q) /\ MB!Peer(q) \in MB!Proc /\ MB!Peer(q) # q
    BY <1>1 DEF Preparing, MB!Peer
  <2>2. Here(q)' = Here(q) /\ NotHere(q)' = NotHere(q)
    BY <1>2 DEF Here, NotHere, MB!Counts
  <2>3. lib # "shmem" => (pc'[q] = "sync" <=> pc[q] = "sync")
    BY <1>1, <1>5
  <2>4. lib # "shmem" => (pc'[MB!Peer(q)] \in {"alignRecv", "sync"} <=> pc[MB!Peer(q)] \in {"alignRecv", "sync"})
    BY <1>1, <1>5, <2>1
  <2>5. MB!Counts' = MB!Counts /\ net' = net /\ lib' = lib
    BY <1>2 DEF MB!Counts
  <2> QED  BY <2>1, <2>2, <2>3, <2>4, <2>5 DEF Offset, OffsetPut
<1>8. ASSUME NEW q \in MB!Proc
      PROVE  /\ pc'[q] \in {"init", "alignSend", "alignRecv", "sync"}
             /\ lib' = "shmem" => pc'[q] \in {"init", "sync"}
             /\ lib' # "shmem" /\ pc'[q] = "sync" => pc'[MB!Peer(q)] \in {"alignRecv", "sync"}
             /\ k'[q] = 3 /\ got'[q] = taken'[q]
             /\ IF MB!Counts' THEN ~offset'[q] ELSE Unannounced(q)'
             /\ pc'[q] # "init" => left'[q] = arg'[q][2] /\ last'[q] = Pattern[arg'[q][1]].r
  <2>1. MB!Peer(q) \in MB!Proc /\ MB!Peer(q) # q
    BY DEF MB!Peer
  <2>2. Unannounced(q)' = Unannounced(q) /\ MB!Counts' = MB!Counts
    BY <1>2 DEF Unannounced, MB!Counts
  <2>3. /\ pc'[q] \in {"init", "alignSend", "alignRecv", "sync"}
        /\ lib' = "shmem" => pc'[q] \in {"init", "sync"}
        /\ lib' # "shmem" /\ pc'[q] = "sync" => pc'[MB!Peer(q)] \in {"alignRecv", "sync"}
    BY <1>1, <1>2, <1>5, <2>1 DEF Preparing
  <2> QED  BY <1>1, <1>2, <1>5, <2>2, <2>3 DEF Preparing
<1>9. Preparing'
  BY <1>1, <1>2, <1>7, <1>8 DEF Preparing
<1> QED  BY <1>4, <1>6, <1>9 DEF MailInv

LEMMA MailAlign ==
    ASSUME MailInv, NEW p \in MB!Proc, MB!AfterAlignmentInit(p)
    PROVE  MailInv'
<1> USE DEF MB!Proc
<1> DEFINE q == MB!Peer(p)
<1>1. /\ pc[p] \in {"alignSend", "alignRecv"} /\ Preparing /\ lib # "shmem"
      /\ UNCHANGED <<lib, req, arg, k, left, calls, slot, last, got, taken>>
  <2>1. pc[p] \in {"alignSend", "alignRecv"}
    BY DEF MB!AfterAlignmentInit, MB!Goto
  <2>2. Preparing
    BY <2>1 DEF MailInv, Asking, Looping, Undefined
  <2> QED  BY <2>1, <2>2 DEF MB!AfterAlignmentInit, Preparing
<1>2. q \in MB!Proc /\ q # p /\ MB!Peer(q) = p /\ MB!Proc = {p, q}
  BY DEF MB!Peer
<1>3. OffsetPut \in Puts /\ net[p] \in Seq(Puts) /\ net[q] \in Seq(Puts)
  BY <1>2 DEF OffsetPut, Puts, MailInv, MailTypes
<1>4. CASE pc[p] = "alignSend"
  <2>1. /\ pc' = [pc EXCEPT ![p] = "alignRecv"] /\ flag' = flag
        /\ IF MB!Counts THEN net' = [net EXCEPT ![q] = @ \o <<OffsetPut>>] /\ offset' = offset
           ELSE offset' = [offset EXCEPT ![q] = TRUE] /\ net' = net
    BY <1>4 DEF MB!AfterAlignmentInit, MB!Goto, MB!Put, OffsetPut
  <2>2. /\ pc'[p] = "alignRecv" /\ pc'[q] = pc[q] /\ net'[p] = net[p] /\ offset'[p] = offset[p]
        /\ MB!Counts => net'[q] = net[q] \o <<OffsetPut>> /\ offset'[q] = offset[q]
        /\ ~MB!Counts => net'[q] = net[q] /\ offset'[q]
    BY <1>2, <2>1 DEF MailInv, MailTypes
  <2>3. pc[q] # "sync" /\ net[q] = <<>> /\ NotHere(q)
    BY <1>1, <1>2, <1>4 DEF Preparing, Offset
  <2>4. MB!Counts => net'[q] = <<OffsetPut>>
    BY <1>3, <2>2, <2>3, PutOne
  <2>5. MailTypes'
    <3>1. pc' \in [MB!Proc -> MB!Labels]
      BY <2>1 DEF MailInv, MailTypes, MB!Labels
    <3>2. net' \in [MB!Proc -> Seq(Puts)]
      <4>1. net \in [MB!Proc -> Seq(Puts)]
        BY DEF MailInv, MailTypes, Puts
      <4>2. net[q] \o <<OffsetPut>> \in Seq(Puts)
        BY <1>3, PutOne
      <4> QED  BY <1>2, <2>1, <4>1, <4>2
    <3>3. offset' \in [MB!Proc -> BOOLEAN]
      <4>1. offset \in [MB!Proc -> BOOLEAN]
        BY DEF MailInv, MailTypes
      <4> QED  BY <1>2, <2>1, <4>1
    <3> QED  BY <1>1, <2>1, <3>1, <3>2, <3>3 DEF MailInv, MailTypes, Puts
  <2>6. Scripted'
    BY <1>1, <1>2, <1>4, <2>2 DEF MailInv, Scripted
  <2>7. /\ MB!Counts' = MB!Counts /\ \A x \in MB!Proc : Unannounced(x)' = Unannounced(x)
        /\ Here(p)' = Here(p) /\ NotHere(p)' = NotHere(p)
    BY <1>1, <2>1, <2>2 DEF Here, NotHere, Unannounced, MB!Counts
  <2>8. Offset(q)'
    <3>1. CASE MB!Counts
      <4>1. NotHere(q)'
        BY <1>1, <2>1, <2>3, <2>7, <3>1 DEF NotHere
      <4> QED  BY <1>1, <1>2, <2>2, <2>3, <2>4, <2>7, <3>1, <4>1 DEF Offset, OffsetPut
    <3>2. CASE ~MB!Counts
      <4>1. Here(q)' /\ net'[q] = <<>>
        BY <2>2, <2>3, <2>7, <3>2 DEF Here
      <4> QED  BY <1>1, <1>2, <2>2, <2>3, <4>1 DEF Offset
    <3> QED  BY <3>1, <3>2
  <2>9. Offset(p)'
    <3>1. Offset(p)
      BY <1>1 DEF Preparing
    <3> QED  BY <1>1, <1>2, <1>4, <2>2, <2>7, <3>1 DEF Offset, OffsetPut
  <2>10. ASSUME NEW x \in MB!Proc
         PROVE  /\ pc'[x] \in {"init", "alignSend", "alignRecv", "sync"}
                /\ lib' = "shmem" => pc'[x] \in {"init", "sync"}
                /\ lib' # "shmem" /\ pc'[x] = "sync" => pc'[MB!Peer(x)] \in {"alignRecv", "sync"}
                /\ k'[x] = 3 /\ got'[x] = taken'[x]
                /\ IF MB!Counts' THEN ~offset'[x] ELSE Unannounced(x)'
                /\ pc'[x] # "init" => left'[x] = arg'[x][2] /\ last'[x] = Pattern[arg'[x][1]].r
                /\ Offset(x)'
    <3>1. CASE x = p
      BY <1>1, <1>4, <2>1, <2>2, <2>7, <2>9, <3>1 DEF Preparing
    <3>2. CASE x = q
      BY <1>1, <1>2, <1>4, <2>2, <2>3, <2>7, <2>8, <3>2 DEF Preparing
    <3> QED  BY <1>2, <3>1, <3>2
  <2>11. Preparing'
    BY <1>1, <2>10 DEF Preparing
  <2> QED  BY <2>5, <2>6, <2>11 DEF MailInv
<1>5. CASE pc[p] = "alignRecv"
  <2>1. /\ pc' = [pc EXCEPT ![p] = "sync"] /\ net' = net
        /\ IF MB!Counts THEN flag[p] >= 1 /\ flag' = [flag EXCEPT ![p] = @ - 1] /\ offset' = offset
           ELSE offset[p] /\ offset' = [offset EXCEPT ![p] = FALSE] /\ flag' = flag
    BY <1>5 DEF MB!AfterAlignmentInit, MB!Goto, MB!WaitCounter
  <2>2. pc'[p] = "sync" /\ pc'[q] = pc[q]
    BY <1>2, <2>1 DEF MailInv, MailTypes
  <2>3. /\ Offset(p) /\ Offset(q) /\ flag[p] \in Nat
        /\ flag \in [MB!Proc -> Nat] /\ offset \in [MB!Proc -> BOOLEAN]
    BY <1>1, <1>2 DEF Preparing, MailInv, MailTypes
  <2>4. Here(p) /\ net[p] = <<>> /\ pc[q] \in {"alignRecv", "sync"}
    BY <1>2, <1>5, <2>1, <2>3 DEF Offset, Here, NotHere
  <2>5. MailTypes'
    <3>1. pc' \in [MB!Proc -> MB!Labels]
      BY <2>1 DEF MailInv, MailTypes, MB!Labels
    <3>2. flag' \in [MB!Proc -> Nat]
      <4>1. MB!Counts => flag[p] - 1 \in Nat
        BY <2>1, <2>3
      <4> QED  BY <2>1, <2>3, <4>1
    <3>3. offset' \in [MB!Proc -> BOOLEAN]
      BY <2>1, <2>3
    <3> QED  BY <1>1, <2>1, <3>1, <3>2, <3>3 DEF MailInv, MailTypes
  <2>6. Scripted'
    BY <1>1, <1>2, <1>5, <2>2 DEF MailInv, Scripted
  <2>7. /\ flag'[q] = flag[q] /\ offset'[q] = offset[q]
        /\ MB!Counts => flag'[p] = flag[p] - 1 /\ offset'[p] = offset[p]
        /\ ~MB!Counts => flag'[p] = flag[p] /\ ~offset'[p]
    BY <1>2, <2>1, <2>3
  <2>8. MB!Counts' = MB!Counts /\ NotHere(p)' /\ Here(q)' = Here(q) /\ NotHere(q)' = NotHere(q)
    BY <1>1, <2>3, <2>4, <2>7 DEF Here, NotHere, MB!Counts
  <2>9. ~MB!Counts => \A x \in MB!Proc : Unannounced(x)' = Unannounced(x)
    BY <1>2, <2>7, <2>8 DEF Unannounced
  <2>10. Offset(p)'
    BY <2>1, <2>2, <2>4, <2>8 DEF Offset
  <2>11. Offset(q)'
    BY <1>1, <1>2, <1>5, <2>1, <2>2, <2>3, <2>8 DEF Offset, OffsetPut
  <2>12. ASSUME NEW x \in MB!Proc
         PROVE  /\ pc'[x] \in {"init", "alignSend", "alignRecv", "sync"}
                /\ lib' = "shmem" => pc'[x] \in {"init", "sync"}
                /\ lib' # "shmem" /\ pc'[x] = "sync" => pc'[MB!Peer(x)] \in {"alignRecv", "sync"}
                /\ k'[x] = 3 /\ got'[x] = taken'[x]
                /\ IF MB!Counts' THEN ~offset'[x] ELSE Unannounced(x)'
                /\ pc'[x] # "init" => left'[x] = arg'[x][2] /\ last'[x] = Pattern[arg'[x][1]].r
                /\ Offset(x)'
    <3>1. CASE x = p
      BY <1>1, <1>2, <1>5, <2>2, <2>4, <2>7, <2>8, <2>9, <2>10, <3>1 DEF Preparing
    <3>2. CASE x = q
      BY <1>1, <1>2, <2>2, <2>7, <2>8, <2>9, <2>11, <3>2 DEF Preparing
    <3> QED  BY <1>2, <3>1, <3>2
  <2>13. Preparing'
    BY <1>1, <2>12 DEF Preparing
  <2> QED  BY <2>5, <2>6, <2>13 DEF MailInv
<1> QED  BY <1>1, <1>4, <1>5

\* A barrier: the buffers of both are ready, and nothing is under way.
LEMMA MailSync ==
    ASSUME PatternsTellApart, MailInv, MB!Sync
    PROVE  MailInv'
<1> USE DEF MB!Proc
<1>1. /\ pc["tr"] = "sync" /\ pc["rcv"] = "sync" /\ Preparing
      /\ pc' = [p \in MB!Proc |-> MB!LoopHead(p, left[p])]
      /\ UNCHANGED <<lib, req, arg, k, left, calls, flag, slot, offset, last, net, got, taken>>
  BY DEF MB!Sync, MB!All, MailInv, Asking, Looping, Undefined
<1>2. left["tr"] \in Nat /\ left["rcv"] = left["tr"] /\ arg["rcv"] = arg["tr"]
  BY <1>1 DEF Preparing, MailInv, MailTypes
<1>3. /\ pc'["tr"] = IF left["tr"] = 0 THEN "free" ELSE "send"
      /\ pc'["rcv"] = IF left["tr"] = 0 THEN "free" ELSE "recv"
  BY <1>1, <1>2 DEF MB!LoopHead
<1>4. arg["tr"] \in Requests["mailbox"] /\ Pattern[arg["tr"][1]].r # "b"
  BY <1>1 DEF MailInv, Scripted, PatternsTellApart
<1>5. ASSUME NEW p \in MB!Proc  PROVE NoData(p)'
  <2>1. net[p] = <<>> /\ NotHere(p)
    BY <1>1 DEF Preparing, Offset, MB!Peer
  <2>2. ~offset[p] /\ Unannounced(p) /\ last[p] # "b" /\ got[p] = taken[p]
    BY <1>1, <1>4, <2>1 DEF Preparing, NotHere, Unannounced
  <2> QED  BY <1>1, <2>1, <2>2 DEF NoData, Watching, Unannounced, MB!Counts
<1>6. pc' \in [MB!Proc -> MB!Labels]
  BY <1>1 DEF MB!Labels, MB!LoopHead
<1>7. MailTypes'
  BY <1>1, <1>6 DEF MailInv, MailTypes
<1>8. Scripted'
  BY <1>1 DEF MailInv, Scripted
<1>9. Looping'
  BY <1>1, <1>2, <1>3, <1>5 DEF Looping, Preparing
<1> QED  BY <1>7, <1>8, <1>9 DEF MailInv

LEMMA MailSendData ==
    ASSUME MailInv, NEW p \in MB!Proc, MB!SendData(p)
    PROVE  MailInv'
<1> USE DEF MB!Proc
<1> DEFINE q == MB!Peer(p)
<1>1. /\ pc[p] = "send" /\ Looping /\ UNCHANGED <<lib, req, arg, k, calls, flag, slot, offset, last, got, taken>>
      /\ left' = [left EXCEPT ![p] = IF p = "tr" THEN @ ELSE @ - 1]
      /\ pc' = [pc EXCEPT ![p] = IF p = "tr" THEN "recv" ELSE MB!LoopHead(p, left[p] - 1)]
      /\ net' = [net EXCEPT ![q] = @ \o <<DataPut>>]
  BY DEF MB!SendData, MB!Put, DataPut, MailInv, Asking, Preparing, Undefined
<1>2. q \in MB!Proc /\ q # p /\ pc[q] = "recv" /\ left[p] = left[q] /\ left[p] > 0 /\ NoData("tr") /\ NoData("rcv")
  BY <1>1 DEF Looping, MB!Peer
<1>3. DataPut \in Puts /\ net \in [MB!Proc -> Seq(Puts)] /\ left \in [MB!Proc -> Nat] /\ pc \in [MB!Proc -> MB!Labels]
  BY DEF DataPut, Puts, MailInv, MailTypes
<1>4. net'[p] = net[p] /\ net'[q] = <<DataPut>> /\ net' \in [MB!Proc -> Seq(Puts)]
  <2>1. net[q] \o <<DataPut>> \in Seq(Puts) /\ net[q] \o <<DataPut>> = <<DataPut>>
    BY <1>2, <1>3, PutOne DEF NoData
  <2> QED  BY <1>1, <1>2, <1>3, <2>1
<1>5. /\ pc'[q] = "recv" /\ left'[q] = left[q]
      /\ pc'[p] = IF p = "tr" THEN "recv" ELSE MB!LoopHead(p, left[p] - 1)
      /\ left'[p] = IF p = "tr" THEN left[p] ELSE left[p] - 1
  BY <1>1, <1>2, <1>3
<1>6. MailTypes'
  <2>1. left[p] - 1 \in Nat
    BY <1>2, <1>3
  <2>2. left' \in [MB!Proc -> Nat]
    BY <1>1, <1>3, <2>1
  <2>3. pc' \in [MB!Proc -> MB!Labels]
    BY <1>1, <1>3 DEF MB!Labels, MB!LoopHead
  <2> QED  BY <1>1, <1>4, <2>2, <2>3 DEF MailInv, MailTypes, Puts
<1>7. Scripted'
  BY <1>1, <1>2, <1>5 DEF MailInv, Scripted
<1>8. OneData(q)' /\ NoData(p)'
  <2>1. NoData(p) /\ NoData(q)
    BY <1>2
  <2> QED  BY <1>1, <1>4, <2>1 DEF NoData, OneData, Watching, Unannounced, MB!Counts, DataPut
<1>9. Looping'
  <2>1. /\ arg'["rcv"] = arg'["tr"] /\ k'["tr"] = 3 /\ k'["rcv"] = 3 /\ calls'["rcv"] = calls'["tr"]
    BY <1>1, <1>2 DEF Looping, MB!Peer
  <2>2. CASE p = "tr"
    BY <1>2, <1>5, <1>8, <2>1, <2>2 DEF Looping, MB!Peer
  <2>3. CASE p = "rcv"
    <3>1. /\ pc'["tr"] = "recv" /\ left'["tr"] = left'["rcv"] + 1 /\ OneData("tr")' /\ NoData("rcv")'
          /\ pc'["rcv"] = IF left'["rcv"] = 0 THEN "free" ELSE "recv"
      BY <1>2, <1>3, <1>5, <1>8, <2>3 DEF MB!LoopHead, MB!Peer
    <3> QED  BY <2>1, <3>1 DEF Looping
  <2> QED  BY <2>2, <2>3
<1> QED  BY <1>6, <1>7, <1>9 DEF MailInv

\* RecvData finds the message that was sent, and no other.
LEMMA MailRecvData ==
    ASSUME MailInv, NEW p \in MB!Proc, MB!RecvData(p)
    PROVE  MailInv'
<1> USE DEF MB!Proc
<1> DEFINE q == MB!Peer(p)
<1>1. /\ pc[p] = "recv" /\ Looping /\ UNCHANGED <<lib, req, arg, k, calls, slot, offset, net, got>>
      /\ left' = [left EXCEPT ![p] = IF p = "tr" THEN @ - 1 ELSE @]
      /\ pc' = [pc EXCEPT ![p] = IF p = "tr" THEN MB!LoopHead(p, left[p] - 1) ELSE "send"]
      /\ taken' = [taken EXCEPT ![p] = @ + 1]
      /\ IF MB!Counts THEN flag[p] >= 1 /\ flag' = [flag EXCEPT ![p] = @ - 1] /\ last' = last
         ELSE last[p] = "b" /\ last' = [last EXCEPT ![p] = "a"] /\ flag' = flag
  BY DEF MB!RecvData, MB!AfterRecvData, MB!WaitCounter, MB!WaitLastOctet,
         MailInv, Asking, Preparing, Undefined
<1>2. q \in MB!Proc /\ q # p /\ MB!Proc = {p, q}
  BY DEF MB!Peer
<1>3. /\ flag \in [MB!Proc -> Nat] /\ left \in [MB!Proc -> Nat] /\ pc \in [MB!Proc -> MB!Labels]
      /\ taken \in [MB!Proc -> Nat] /\ got \in [MB!Proc -> Nat] /\ last \in [MB!Proc -> LastOctet]
  BY DEF MailInv, MailTypes
<1>4. ~NoData(p)
  BY <1>1, <1>3 DEF NoData, Watching, Unannounced
<1>5. OneData(p) /\ NoData(q) /\ net[p] = <<>> /\ got[p] = taken[p] + 1 /\ (MB!Counts => flag[p] = 1) /\ ~offset[p]
  <2>1. OneData(p) /\ NoData(q)
    BY <1>1, <1>4 DEF Looping, MB!Peer
  <2> QED  BY <1>1, <1>3, <2>1 DEF OneData, Watching, Unannounced
<1>6. /\ pc'[q] = pc[q] /\ left'[q] = left[q] /\ taken'[q] = taken[q]
      /\ pc'[p] = IF p = "tr" THEN MB!LoopHead(p, left[p] - 1) ELSE "send"
      /\ left'[p] = IF p = "tr" THEN left[p] - 1 ELSE left[p]
      /\ taken'[p] = taken[p] + 1 /\ flag'[q] = flag[q] /\ last'[q] = last[q]
      /\ MB!Counts => flag'[p] = 0
      /\ ~MB!Counts => flag'[p] = flag[p] /\ last'[p] = "a"
  BY <1>1, <1>2, <1>3, <1>5
<1>7. MailTypes'
  <2>1. left["tr"] > 0
    BY <1>1, <1>3, <1>4, <1>5 DEF Looping, MB!Peer
  <2>2. left' \in [MB!Proc -> Nat]
    BY <1>1, <1>3, <2>1
  <2>3. pc' \in [MB!Proc -> MB!Labels]
    BY <1>1, <1>3 DEF MB!Labels, MB!LoopHead
  <2>4. taken' \in [MB!Proc -> Nat]
    BY <1>1, <1>3
  <2>5. flag' \in [MB!Proc -> Nat]
    BY <1>1, <1>3, <1>5
  <2>6. last' \in [MB!Proc -> LastOctet]
    <3>1. "a" \in LastOctet
      BY DEF LastOctet
    <3> QED  BY <1>1, <1>3, <3>1
  <2> QED  BY <1>1, <2>2, <2>3, <2>4, <2>5, <2>6 DEF MailInv, MailTypes
<1>8. Scripted'
  BY <1>1, <1>2, <1>6 DEF MailInv, Scripted, Looping
<1>9. MB!Counts' = MB!Counts
  BY <1>1 DEF MB!Counts
<1>10. NoData(p)'
  <2>1. ~MB!Counts => Unannounced(p)
    BY <1>3, <1>5 DEF OneData, Watching
  <2>2. Unannounced(p)'
    BY <1>6, <1>9, <2>1 DEF Unannounced
  <2> QED  BY <1>1, <1>3, <1>5, <1>6, <1>9, <2>2 DEF NoData, Watching
<1>11. NoData(q)'
  BY <1>1, <1>5, <1>6, <1>9 DEF NoData, Watching, Unannounced
<1>12. Looping'
  <2>1. CASE p = "rcv"
    <3>1. pc["tr"] = "recv" /\ left["tr"] = left["rcv"] /\ left["tr"] > 0
      BY <1>1, <1>4, <2>1 DEF Looping
    <3>2. <<pc'["tr"], pc'["rcv"]>> = <<"recv", "send">> /\ left'["tr"] = left'["rcv"] /\ left'["tr"] > 0
      BY <1>6, <2>1, <3>1 DEF MB!Peer
    <3> QED  BY <1>1, <1>10, <1>11, <2>1, <3>2 DEF Looping, MB!Peer
  <2>2. CASE p = "tr"
    <3>1. /\ left["tr"] = left["rcv"] + 1
          /\ IF left["rcv"] = 0 THEN pc["rcv"] \in {"free", "wait"} ELSE pc["rcv"] = "recv"
      BY <1>1, <1>4, <2>2 DEF Looping
    <3>2. left'["tr"] = left'["rcv"] /\ left'["rcv"] = left["rcv"] /\ pc'["rcv"] = pc["rcv"]
      BY <1>3, <1>6, <2>2, <3>1 DEF MB!Peer
    <3>3. CASE left["rcv"] = 0
      <4>1. pc'["tr"] = "free"
        BY <1>3, <1>6, <2>2, <3>1, <3>3 DEF MB!LoopHead
      <4> QED  BY <1>1, <1>10, <1>11, <2>2, <3>1, <3>2, <3>3, <4>1 DEF Looping, MB!Peer
    <3>4. CASE left["rcv"] # 0
      <4>1. pc'["tr"] = "send" /\ left'["tr"] > 0
        BY <1>3, <1>6, <2>2, <3>1, <3>2, <3>4 DEF MB!LoopHead
      <4>2. <<pc'["tr"], pc'["rcv"]>> = <<"send", "recv">>
        BY <3>1, <3>2, <3>4, <4>1
      <4> QED  BY <1>1, <1>10, <1>11, <2>2, <3>1, <3>2, <3>4, <4>1, <4>2 DEF Looping, MB!Peer
    <3> QED  BY <3>3, <3>4
  <2> QED  BY <2>1, <2>2
<1> QED  BY <1>7, <1>8, <1>12 DEF MailInv

LEMMA MailFreeBuff ==
    ASSUME MailInv, MB!FreeBuff
    PROVE  MailInv'
<1> USE DEF MB!Proc
<1>0. CASE MB!Together("free", "undefined") /\ ~MB!FreeEach
  <2>1. /\ pc["tr"] = "free" /\ pc["rcv"] = "free" /\ pc' = [p \in MB!Proc |-> "undefined"]
        /\ UNCHANGED <<lib, req, arg, k, left, calls, flag, slot, offset, last, net, got, taken>>
    BY <1>0 DEF MB!FreeBuff, MB!Together, MB!All
  <2>2. Looping /\ NoData("tr") /\ NoData("rcv") /\ calls["rcv"] = calls["tr"]
    BY <2>1 DEF MailInv, Asking, Preparing, Looping, Undefined
  <2>3. MailTypes'
    BY <2>1 DEF MailInv, MailTypes, MB!Labels
  <2>4. Scripted'
    BY <2>1 DEF MailInv, Scripted
  <2>5. Undefined'
    BY <2>1, <2>2 DEF Undefined, NoData, Watching, Unannounced, MB!ipe
  <2> QED  BY <2>3, <2>4, <2>5 DEF MailInv
<1> SUFFICES ASSUME MB!FreeEach  PROVE MailInv'
  BY <1>0 DEF MB!FreeBuff
<1>1. PICK P \in {{"tr"}, {"rcv"}, {"tr", "rcv"}} :
           /\ \A p \in P : pc[p] = "free"
           /\ pc' = [p \in MB!Proc |-> IF p \notin P THEN pc[p] ELSE IF p = "tr" THEN "idle" ELSE "wait"]
           /\ calls' = [p \in MB!Proc |-> IF p \in P THEN calls[p] + 1 ELSE calls[p]]
           /\ k' = [p \in MB!Proc |-> IF p \in P THEN 1 ELSE k[p]]
           /\ got' = [p \in MB!Proc |-> IF p \in P THEN 0 ELSE got[p]]
           /\ taken' = [p \in MB!Proc |-> IF p \in P THEN 0 ELSE taken[p]]
  <2>1. CASE lib = "shmem"
    BY <2>1 DEF MB!FreeEach
  <2>2. CASE lib # "shmem"
    BY <2>2 DEF MB!FreeEach
  <2> QED  BY <2>1, <2>2
<1>2. UNCHANGED <<lib, req, arg, left, flag, slot, offset, last, net>> /\ MB!Counts' = MB!Counts
  BY DEF MB!FreeEach, MB!Counts
<1>3. MailTypes'
  <2>1. pc' \in [MB!Proc -> MB!Labels]
    <3>1. pc \in [MB!Proc -> MB!Labels]
      BY DEF MailInv, MailTypes
    <3> QED  BY <1>1, <3>1 DEF MB!Labels
  <2>2. calls' \in [MB!Proc -> Nat]
    <3>1. calls \in [MB!Proc -> Nat]
      BY DEF MailInv, MailTypes
    <3> QED  BY <1>1, <3>1
  <2>3. k' \in [MB!Proc -> 1..3]
    <3>1. k \in [MB!Proc -> 1..3]
      BY DEF MailInv, MailTypes
    <3> QED  BY <1>1, <3>1
  <2>4. got' \in [MB!Proc -> Nat] /\ taken' \in [MB!Proc -> Nat]
    <3>1. got \in [MB!Proc -> Nat] /\ taken \in [MB!Proc -> Nat]
      BY DEF MailInv, MailTypes
    <3> QED  BY <1>1, <3>1
  <2> QED  BY <1>2, <2>1, <2>2, <2>3, <2>4 DEF MailInv, MailTypes
<1>4. CASE "tr" \in P
  <2>1. /\ pc["tr"] = "free" /\ Looping /\ pc["rcv"] \in {"free", "wait"}
        /\ NoData("tr") /\ NoData("rcv") /\ arg["rcv"] = arg["tr"]
    BY <1>1, <1>4 DEF MailInv, Asking, Preparing, Looping, Undefined
  <2>2. /\ pc'["tr"] = "idle" /\ k'["tr"] = 1 /\ calls'["tr"] = calls["tr"] + 1
        /\ got'["tr"] = 0 /\ taken'["tr"] = 0 /\ calls["tr"] \in Nat /\ calls["rcv"] \in Nat
    BY <1>1, <1>4 DEF MailInv, MailTypes
  <2>3. /\ pc'["rcv"] = "free" => k'["rcv"] = 3 /\ calls'["rcv"] = calls["rcv"] /\ calls["rcv"] = calls["tr"]
        /\ pc'["rcv"] = "wait" => k'["rcv"] = 1 /\ calls'["rcv"] = calls["tr"] + 1
        /\ pc'["rcv"] \in {"free", "wait"} /\ got'["rcv"] = taken'["rcv"]
    BY <1>1, <2>1 DEF Looping, NoData
  <2>4. Scripted'
    <3>1. calls["tr"] < MaxCalls /\ MaxCalls \in Nat
      BY <2>1, BoundsAssumption DEF MailInv, Scripted
    <3> QED  BY <2>2, <3>1 DEF Scripted
  <2>5. Quiet("tr")'
    BY <1>2, <2>1 DEF Quiet, Unannounced, NoData, Watching
  <2>6. net'["rcv"] = <<>> /\ ~offset'["rcv"] /\ flag'["rcv"] = 0
    BY <1>2, <2>1 DEF NoData, Watching, Unannounced, MB!ipe, MB!Peer
  <2>7. Len(net'["rcv"]) = 0
    BY <2>6
  <2>8. PutsMade' = 0
    BY <2>2 DEF PutsMade
  <2>9. Arrived' = 0 /\ LastValue' = 0
    BY <2>7, <2>8 DEF Arrived, LastValue
  <2>10. Hearing'
    BY <2>3, <2>6, <2>7, <2>9 DEF Hearing
  <2>11. Asking'
    BY <2>2, <2>3, <2>5, <2>6, <2>10 DEF Asking
  <2> QED  BY <1>3, <2>4, <2>11 DEF MailInv
<1>5. CASE "tr" \notin P
  <2>1. P = {"rcv"} /\ pc["rcv"] = "free"
    BY <1>1, <1>5
  <2>2. /\ pc'["tr"] = pc["tr"] /\ pc'["rcv"] = "wait" /\ k'["tr"] = k["tr"] /\ k'["rcv"] = 1
        /\ calls'["tr"] = calls["tr"] /\ calls'["rcv"] = calls["rcv"] + 1
        /\ got'["tr"] = got["tr"] /\ taken'["tr"] = taken["tr"] /\ got'["rcv"] = 0 /\ taken'["rcv"] = 0
        /\ calls["tr"] \in Nat /\ calls["rcv"] \in Nat /\ left["rcv"] \in Nat
    BY <1>1, <2>1 DEF MailInv, MailTypes
  <2>3. Scripted'
    BY <1>2, <2>2 DEF MailInv, Scripted
  <2>4. CASE Asking
    <3>1. PutsMade' = PutsMade /\ Arrived' = Arrived /\ LastValue' = LastValue
      BY <1>2, <2>2 DEF PutsMade, Arrived, LastValue
    <3>2. \A x \in 1..Len(net["rcv"]) : PutAt(Arrived + x)' = PutAt(Arrived + x)
      BY <1>2, <3>1 DEF PutAt, SlotPut, FlagPut
    <3>3. Arrived \in Int
      <4>1. Len(net["rcv"]) \in Nat /\ k["tr"] \in 1..3
        BY EmptyIsEmpty DEF MailInv, MailTypes, Puts
      <4> QED  BY <4>1 DEF Arrived, PutsMade
    <3>4. Hearing'
      BY <1>2, <2>1, <2>2, <2>4, <3>1, <3>2, <3>3 DEF Asking, Hearing
    <3>5. Quiet("tr")'
      BY <1>2, <2>4 DEF Asking, Quiet, Unannounced
    <3>6. Asking'
      BY <1>2, <2>1, <2>2, <2>4, <3>4, <3>5 DEF Asking
    <3> QED  BY <1>3, <2>3, <3>6 DEF MailInv
  <2>5. CASE Looping
    <3>1. NoData("rcv") /\ (pc["tr"] = "recv" => OneData("tr")) /\ (pc["tr"] = "free" => NoData("tr"))
      BY <2>1, <2>5 DEF Looping
    <3>2. NoData("rcv")' /\ (pc'["tr"] = "recv" => OneData("tr")') /\ (pc'["tr"] = "free" => NoData("tr")')
      BY <1>2, <2>2, <3>1 DEF NoData, OneData, Watching, Unannounced, DataPut
    <3>3. Looping'
      BY <1>2, <2>1, <2>2, <2>5, <3>2 DEF Looping
    <3> QED  BY <1>3, <2>3, <3>3 DEF MailInv
  <2> QED  BY <2>1, <2>4, <2>5 DEF MailInv, Preparing, Undefined
<1> QED  BY <1>4, <1>5

\* A put arrives.
LEMMA MailDeliver ==
    ASSUME MailInv, NEW p \in MB!Proc, MB!Deliver(p)
    PROVE  MailInv'
<1> USE DEF MB!Proc
<1> DEFINE m == Head(net[p])
           q == MB!Peer(p)
<1>1. /\ net[p] # <<>>
      /\ net' = [net EXCEPT ![p] = Tail(@)]
      /\ slot' = [slot EXCEPT ![p] = IF m.to = "slot" THEN m.v ELSE @]
      /\ flag' = [flag EXCEPT ![p] = IF MB!Counts THEN @ + 1 ELSE IF m.to = "flag" THEN m.v ELSE @]
      /\ last' = [last EXCEPT ![p] = IF m.to = "data" THEN Pattern[arg[q][1]].s ELSE @]
      /\ got' = [got EXCEPT ![p] = IF m.to = "data" THEN @ + 1 ELSE @]
      /\ UNCHANGED <<lib, pc, req, arg, k, left, calls, offset, taken>>
  BY DEF MB!Deliver
<1>2. q \in MB!Proc /\ q # p /\ MB!Proc = {p, q} /\ MB!Peer(q) = p /\ MB!Counts' = MB!Counts
  BY <1>1 DEF MB!Peer, MB!Counts
<1>3. /\ net \in [MB!Proc -> Seq(Puts)] /\ slot \in [MB!Proc -> Nat] /\ flag \in [MB!Proc -> Nat]
      /\ offset \in [MB!Proc -> BOOLEAN] /\ last \in [MB!Proc -> LastOctet] /\ got \in [MB!Proc -> Nat]
      /\ taken \in [MB!Proc -> Nat] /\ arg \in [MB!Proc -> [1..2 -> Nat]]
  BY DEF MailInv, MailTypes, Puts
<1>4. m \in Puts /\ m = net[p][1] /\ Tail(net[p]) \in Seq(Puts)
  BY <1>1, <1>3, TakeOne
<1>5. m.v \in Nat /\ m.to \in {"slot", "flag", "offset", "data"}
  BY <1>4 DEF Puts
<1>6. MailTypes'
  <2>1. net' \in [MB!Proc -> Seq(Puts)]
    BY <1>1, <1>3, <1>4
  <2>2. slot' \in [MB!Proc -> Nat]
    BY <1>1, <1>3, <1>5
  <2>3. flag' \in [MB!Proc -> Nat]
    <3>1. (IF MB!Counts THEN flag[p] + 1 ELSE IF m.to = "flag" THEN m.v ELSE flag[p]) \in Nat
      BY <1>3, <1>5, SMTT(30)
    <3> QED  BY <1>1, <1>3, <3>1
  <2>4. offset' \in [MB!Proc -> BOOLEAN]
    BY <1>1, <1>3
  <2>5. last' \in [MB!Proc -> LastOctet]
    <3>1. Pattern[arg[q][1]].s \in LastOctet
      BY <1>2, <1>3, SMTT(30) DEF LastOctet
    <3> QED  BY <1>1, <1>3, <3>1
  <2>6. got' \in [MB!Proc -> Nat]
    <3>1. (IF m.to = "data" THEN got[p] + 1 ELSE got[p]) \in Nat
      BY <1>3, SMTT(30)
    <3> QED  BY <1>1, <1>3, <3>1
  <2> QED  BY <1>1, <2>1, <2>2, <2>3, <2>4, <2>5, <2>6 DEF MailInv, MailTypes, Puts
<1>7. Scripted'
  BY <1>1 DEF MailInv, Scripted
<1>8. /\ net'[q] = net[q] /\ slot'[q] = slot[q] /\ flag'[q] = flag[q] /\ offset'[q] = offset[q]
      /\ last'[q] = last[q] /\ got'[q] = got[q]
  BY <1>1, <1>2, <1>3
<1>9. /\ net'[p] = Tail(net[p]) /\ slot'[p] = IF m.to = "slot" THEN m.v ELSE slot[p]
      /\ flag'[p] = IF MB!Counts THEN flag[p] + 1 ELSE IF m.to = "flag" THEN m.v ELSE flag[p]
      /\ got'[p] = IF m.to = "data" THEN got[p] + 1 ELSE got[p]
  BY <1>1, <1>3
<1>10. last'[p] = IF m.to = "data" THEN Pattern[arg[q][1]].s ELSE last[p]
  BY <1>1, <1>3
<1>11. offset'[p] = offset[p]
  BY <1>1
<1>12. CASE Asking
  <2> DEFINE c == net["rcv"]
  <2>1. p = "rcv" /\ q = "tr" /\ k["tr"] \in 1..3 /\ c \in Seq(Puts) /\ c # <<>>
    BY <1>1, <1>2, <1>3, <1>12 DEF Asking, Quiet, MailInv, MailTypes, MB!Peer
  <2>2. /\ Len(c) \in Nat \ {0} /\ Len(c') = Len(c) - 1
        /\ \A x \in 1..(Len(c) - 1) : c'[x] = c[x + 1]
    BY <1>9, <2>1, TakeOne
  <2>3. m = PutAt(Arrived + 1)
    BY <1>4, <1>12, <2>1, <2>2 DEF Asking, Hearing
  <2>4. PutsMade' = PutsMade /\ PutsMade \in Int
    BY <1>1, <1>2, <2>1 DEF PutsMade
  <2>5. Arrived' = Arrived + 1 /\ Arrived \in Nat /\ Arrived + Len(c) = PutsMade
    BY <1>12, <2>2, <2>4 DEF Arrived, Asking, Hearing
  <2>6. \A x \in 1..Len(c') : c'[x] = PutAt(Arrived + x)'
    <3> SUFFICES ASSUME NEW x \in 1..Len(c')  PROVE c'[x] = PutAt(Arrived + x)'
      OBVIOUS
    <3>1. c'[x] = c[x + 1] /\ x + 1 \in 1..Len(c)
      BY <2>2
    <3>2. c[x + 1] = PutAt(Arrived + (x + 1))
      BY <1>12, <3>1 DEF Asking, Hearing
    <3>3. Arrived + (x + 1) = Arrived' + x
      BY <2>2, <2>5
    <3> QED  BY <1>1, <1>2, <3>1, <3>2, <3>3 DEF PutAt, SlotPut, FlagPut
  <2>7. CASE MB!Counts
    <3>1. m = [to |-> "slot", v |-> arg["tr"][Arrived + 1]]
      BY <2>3, <2>7 DEF PutAt, SlotPut
    <3>2. slot'["rcv"] = arg["tr"][Arrived + 1] /\ flag'["rcv"] = flag["rcv"] + 1
      BY <1>9, <2>1, <2>7, <3>1
    <3>3. LastValue' = Arrived + 1
      BY <1>2, <2>5, <2>7 DEF LastValue
    <3>4. flag["rcv"] \in Nat /\ k["rcv"] \in 1..3
      BY <1>3 DEF MailInv, MailTypes
    <3>5. Hearing'
      <4>1. MB!Counts'
        BY <1>2, <2>7
      <4>2. UNCHANGED <<pc, k, arg, req>>
        BY <1>1
      <4>3. /\ pc["rcv"] = "free" => flag["rcv"] = Arrived
            /\ pc["rcv"] # "free" => flag["rcv"] = Arrived - (k["rcv"] - 1)
            /\ pc["rcv"] \in {"read", "clear"} => flag["rcv"] >= 1
            /\ pc["rcv"] = "clear" /\ k["rcv"] = 2 => arg["rcv"][2] = req[2]
            /\ pc["rcv"] = "malloc" => arg["rcv"][2] = req[2]
        BY <1>12, <2>7 DEF Asking, Hearing
      <4>4. /\ Arrived' >= 0
            /\ LastValue' > 0 => slot'["rcv"] = arg'["tr"][LastValue']
        BY <2>5, <3>2, <3>3, <4>2
      <4>5. /\ pc'["rcv"] = "free" => flag'["rcv"] = Arrived'
            /\ pc'["rcv"] # "free" => flag'["rcv"] = Arrived' - (k'["rcv"] - 1)
            /\ pc'["rcv"] \in {"read", "clear"} => flag'["rcv"] >= 1
        BY <2>5, <3>2, <3>4, <4>2, <4>3
      <4> QED  BY <2>6, <4>1, <4>2, <4>3, <4>4, <4>5 DEF Hearing
    <3>6. Quiet("tr")' /\ ~offset'["rcv"] /\ got'["rcv"] = got["rcv"]
      BY <1>2, <1>8, <1>9, <1>11, <1>12, <2>1, <2>7, <3>1 DEF Asking, Quiet, Unannounced
    <3>7. Asking'
      BY <1>1, <1>8, <1>12, <2>1, <3>5, <3>6 DEF Asking
    <3> QED  BY <1>6, <1>7, <3>7 DEF MailInv
  <2>8. CASE ~MB!Counts
    <3>1. Arrived \in 0..3
      <4>1. PutsMade <= 4
        BY <2>1, <2>8 DEF PutsMade
      <4> QED  BY <2>2, <2>4, <2>5, <4>1
    <3>2. \/ /\ Arrived \in {0, 2} /\ slot'["rcv"] = arg["tr"][IF Arrived = 0 THEN 1 ELSE 2] /\ flag'["rcv"] = flag["rcv"]
          \/ /\ Arrived \in {1, 3} /\ slot'["rcv"] = slot["rcv"] /\ flag'["rcv"] = 1
      <4>1. CASE Arrived = 0
        <5>1. m = [to |-> "slot", v |-> arg["tr"][1]]
          BY <2>3, <2>8, <4>1 DEF PutAt, SlotPut
        <5> QED  BY <1>9, <2>1, <2>8, <4>1, <5>1
      <4>2. CASE Arrived = 2
        <5>1. m = [to |-> "slot", v |-> arg["tr"][2]]
          BY <2>3, <2>8, <4>2 DEF PutAt, SlotPut
        <5> QED  BY <1>9, <2>1, <2>8, <4>2, <5>1
      <4>3. CASE Arrived \in {1, 3}
        <5>1. m = [to |-> "flag", v |-> 1]
          BY <2>3, <2>8, <4>3 DEF PutAt, FlagPut
        <5> QED  BY <1>9, <2>1, <2>8, <4>3, <5>1
      <4> QED  BY <3>1, <4>1, <4>2, <4>3
    <3>3. LastValue' = (IF Arrived <= 1 THEN 1 ELSE 2) /\ LastValue = (IF Arrived = 0 THEN 0 ELSE IF Arrived <= 2 THEN 1 ELSE 2)
      BY <1>2, <2>5, <2>8, <3>1 DEF LastValue
    <3>4. flag["rcv"] \in Nat /\ k["rcv"] \in 1..3
      BY <1>3 DEF MailInv, MailTypes
    <3>5. LastValue' > 0 => slot'["rcv"] = arg'["tr"][LastValue']
      BY <1>1, <1>12, <3>1, <3>2, <3>3 DEF Asking, Hearing
    <3>6. Hearing'
      <4>1. ~MB!Counts'
        BY <1>2, <2>8
      <4> QED  BY <1>1, <1>12, <2>5, <2>6, <2>8, <3>1, <3>2, <3>4, <3>5, <4>1, SMTT(30) DEF Asking, Hearing
    <3>7. m.to \in {"slot", "flag"}
      BY <2>3, <2>8 DEF PutAt, SlotPut, FlagPut
    <3>8. Quiet("tr")' /\ ~offset'["rcv"] /\ got'["rcv"] = got["rcv"]
      BY <1>2, <1>8, <1>9, <1>11, <1>12, <2>1, <2>8, <3>7 DEF Asking, Quiet, Unannounced
    <3>9. Asking'
      BY <1>1, <1>8, <1>12, <2>1, <3>6, <3>8 DEF Asking
    <3> QED  BY <1>6, <1>7, <3>9 DEF MailInv
  <2> QED  BY <2>7, <2>8
<1>13. CASE Preparing
  <2>1. Offset(p) /\ MB!Counts /\ net[p] = <<OffsetPut>> /\ NotHere(p) /\ OffsetPut \in Puts
    BY <1>1, <1>13 DEF Preparing, Offset, OffsetPut, Puts
  <2>2. m = OffsetPut /\ net'[p] = <<>>
    BY <1>9, <2>1, OnlyOne
  <2>3. flag'[p] = flag[p] + 1 /\ ~offset'[p]
    BY <1>9, <1>11, <1>13, <2>1, <2>2 DEF OffsetPut, Preparing
  <2>4. got'[p] = got[p] /\ last'[p] = last[p]
    BY <1>9, <1>10, <2>2 DEF OffsetPut
  <2>5. Here(p)'
    BY <1>2, <2>1, <2>3 DEF Here, NotHere
  <2>6. Offset(p)'
    BY <1>1, <1>2, <2>1, <2>2, <2>5 DEF Offset, OffsetPut
  <2>7. Offset(q)'
    <3>1. Offset(q)
      BY <1>2, <1>13 DEF Preparing
    <3>2. Here(q)' = Here(q) /\ NotHere(q)' = NotHere(q)
      BY <1>2, <1>8 DEF Here, NotHere
    <3> QED  BY <1>1, <1>2, <1>8, <3>1, <3>2 DEF Offset, OffsetPut
  <2>8. \A x \in MB!Proc : IF MB!Counts' THEN ~offset'[x] ELSE Unannounced(x)'
    <3>1. \A x \in MB!Proc : IF MB!Counts THEN ~offset[x] ELSE Unannounced(x)
      BY <1>13 DEF Preparing
    <3> QED  BY <1>2, <1>8, <2>1, <2>3, <3>1
  <2>9. \A x \in MB!Proc : got'[x] = taken'[x] /\ last'[x] = last[x] /\ Offset(x)'
    BY <1>1, <1>2, <1>8, <1>13, <2>4, <2>6, <2>7 DEF Preparing
  <2>10. Preparing'
    BY <1>1, <1>13, <2>8, <2>9 DEF Preparing
  <2> QED  BY <1>6, <1>7, <2>10 DEF MailInv
<1>14. CASE Looping
  <2>1. OneData(p) /\ NoData(q) /\ net[p] = <<DataPut>> /\ DataPut \in Puts /\ arg[q] = arg["tr"]
    <3>1. ~NoData(p)
      BY <1>1 DEF NoData
    <3>2. OneData(p) /\ NoData(q)
      BY <1>14, <3>1 DEF Looping, MB!Peer
    <3>3. arg[q] = arg["tr"]
      BY <1>2, <1>14 DEF Looping
    <3> QED  BY <1>1, <3>2, <3>3 DEF OneData, DataPut, Puts
  <2>2. m = DataPut /\ net'[p] = <<>>
    BY <1>9, <2>1, OnlyOne
  <2>3. got[p] = taken[p] /\ Unannounced(p) /\ ~offset[p]
    BY <2>1, OnlyOne DEF OneData, Watching
  <2>4. /\ got'[p] = got[p] + 1 /\ last'[p] = Pattern[arg["tr"][1]].s
        /\ MB!Counts => flag'[p] = flag[p] + 1
        /\ ~MB!Counts => flag'[p] = flag[p]
    BY <1>9, <1>10, <2>1, <2>2 DEF DataPut
  <2>5. ~offset'[p]
    BY <1>11, <2>2, <2>3 DEF DataPut
  <2>6. OneData(p)'
    BY <1>1, <1>2, <2>2, <2>3, <2>4, <2>5 DEF OneData, Unannounced
  <2>7. NoData(q)'
    BY <1>1, <1>2, <1>8, <2>1 DEF NoData, Watching, Unannounced
  <2>8. ~NoData(p)
    BY <1>1 DEF NoData
  <2>9. Looping'
    <3>1. CASE p = "tr"
      BY <1>1, <1>14, <2>6, <2>7, <2>8, <3>1 DEF Looping, MB!Peer
    <3>2. CASE p = "rcv"
      BY <1>1, <1>14, <2>6, <2>7, <2>8, <3>2 DEF Looping, MB!Peer
    <3> QED  BY <3>1, <3>2
  <2> QED  BY <1>6, <1>7, <2>9 DEF MailInv
<1> QED  BY <1>1, <1>12, <1>13, <1>14 DEF MailInv, Undefined

LEMMA MailStep ==
    ASSUME PatternsTellApart, MailInv, MB!Next
    PROVE  MailInv'
<1>1. CASE MB!Shared
  BY <1>1, MailMyMalloc, MailSync, MailFreeBuff DEF MB!Shared
<1>2. ASSUME NEW p \in MB!Proc, MB!Step(p) \/ MB!Deliver(p)  PROVE MailInv'
  BY <1>2, MailCall, MailSendRepeat, MailRecvRepeat, MailInit, MailAlign, MailSendData,
     MailRecvData, MailDeliver DEF MB!Step
<1> QED  BY <1>1, <1>2 DEF MB!Next

LEMMA MailStutters ==
    ASSUME MailInv, UNCHANGED vars
    PROVE  MailInv'
<1>1. /\ UNCHANGED <<lib, pc, req, arg, k, left, calls, flag, slot, offset, last, net, got, taken>>
      /\ MB!Counts' = MB!Counts
  BY DEF vars, mailboxOnly, MB!Counts
<1>2. MailTypes' /\ Scripted'
  BY <1>1 DEF MailInv, MailTypes, Scripted
<1>3. \A p \in MB!Proc :
        /\ Quiet(p)' = Quiet(p) /\ Unannounced(p)' = Unannounced(p)
        /\ NoData(p)' = NoData(p) /\ OneData(p)' = OneData(p)
        /\ Offset(p)' = Offset(p)
  BY <1>1 DEF Quiet, Unannounced, NoData, OneData, Watching, Offset, Here, NotHere, OffsetPut, DataPut
<1>4. Arrived' = Arrived /\ LastValue' = LastValue
  BY <1>1 DEF Arrived, LastValue, PutsMade
<1>5. \A x \in 1..Len(net["rcv"]) : PutAt(Arrived + x)' = PutAt(Arrived + x)
  BY <1>1, <1>4 DEF PutAt, SlotPut, FlagPut
<1>6. CASE Asking
  <2>1. Hearing'
    BY <1>1, <1>4, <1>5, <1>6 DEF Asking, Hearing
  <2> QED  BY <1>1, <1>2, <1>3, <1>6, <2>1 DEF MailInv, Asking, MB!Proc
<1>7. CASE Preparing
  BY <1>1, <1>2, <1>3, <1>7 DEF MailInv, Preparing
<1>8. CASE Looping
  BY <1>1, <1>2, <1>3, <1>8 DEF MailInv, Looping, MB!Proc
<1>9. CASE Undefined
  BY <1>1, <1>2, <1>9 DEF MailInv, Undefined
<1> QED  BY <1>6, <1>7, <1>8, <1>9 DEF MailInv

MailboxInv == built = "mailbox" => MailInv

LEMMA MailboxInvariance == PatternsTellApart /\ Spec => []MailboxInv
<1> SUFFICES ASSUME PatternsTellApart  PROVE Spec => []MailboxInv
  OBVIOUS
<1>1. Init => MailboxInv
  BY MailStarts DEF Init, MailboxInv
<1>2. MailboxInv /\ [Next]_vars => MailboxInv'
  <2> SUFFICES ASSUME MailboxInv, [Next]_vars, built' = "mailbox"  PROVE MailInv'
    BY DEF MailboxInv
  <2>1. built = "mailbox" /\ MailInv
    BY SameBuild DEF MailboxInv
  <2>2. MailboxStep \/ UNCHANGED vars
    BY <2>1 DEF Next, MpiStep, AtoaStep, GmStep, PvmStep, HeapStep, CopyStep, PatternStep
  <2> QED  BY <2>1, <2>2, MailStep, MailStutters DEF MailboxStep
<1> QED  BY <1>1, <1>2, PTL DEF Spec

\* What the invariant means for the calls of run_iters.
LEMMA MailPromises ==
    ASSUME MailInv
    PROVE  /\ MB!TypeOK /\ MB!NrepeatIsRight /\ MB!ReceivedMeansArrived
           /\ MB!MessageKept /\ MB!PutFindsBuffer
<1> USE DEF MB!Proc
<1>1. /\ lib \in {"shmem", "armci", "lapi"} /\ pc \in [MB!Proc -> MB!Labels] /\ k \in [MB!Proc -> 1..3]
      /\ calls \in [MB!Proc -> Nat] /\ flag \in [MB!Proc -> Nat] /\ left \in [MB!Proc -> Nat]
      /\ got \in [MB!Proc -> Nat] /\ taken \in [MB!Proc -> Nat] /\ net \in [MB!Proc -> Seq(Puts)]
  BY DEF MailInv, MailTypes, Puts
<1>2. MB!TypeOK
  <2>1. calls \in [MB!Proc -> 0..MaxCalls]
    <3>1. calls["tr"] \in 0..MaxCalls
      BY DEF MailInv, Scripted
    <3>2. MaxCalls \in Nat /\ (pc["tr"] # "idle" => calls["tr"] < MaxCalls)
      BY BoundsAssumption DEF MailInv, Scripted
    <3>3. calls["rcv"] = calls["tr"] \/ calls["rcv"] = calls["tr"] - 1 \/ (calls["rcv"] = calls["tr"] + 1 /\ pc["tr"] # "idle")
      BY DEF MailInv, Asking, Preparing, Looping, Undefined
    <3>4. calls["rcv"] \in 0..MaxCalls
      BY <1>1, <3>1, <3>2, <3>3, SMTT(30)
    <3> QED  BY <1>1, <3>1, <3>4
  <2>2. ASSUME NEW p \in MB!Proc  PROVE flag[p] \in IF MB!Counts THEN 0..2 ELSE {0, 1}
    <3>1. CASE Asking
      <4>1. flag["tr"] \in {0, 1} /\ (MB!Counts => flag["tr"] = 0)
        BY <3>1 DEF Asking, Quiet, Unannounced, MB!ipe, MB!Peer
      <4>2. CASE MB!Counts
        <5>1. Len(net["rcv"]) \in Nat /\ k["tr"] \in 1..3 /\ k["rcv"] \in 1..3
          BY <1>1, EmptyIsEmpty
        <5>2. Arrived \in Int /\ Arrived <= 2
          BY <4>2, <5>1 DEF Arrived, PutsMade
        <5>3. flag["rcv"] <= Arrived
          BY <3>1, <4>2, <5>1, <5>2 DEF Asking, Hearing
        <5> QED  BY <1>1, <4>1, <4>2, <5>2, <5>3
      <4>3. CASE ~MB!Counts
        BY <3>1, <4>1, <4>3 DEF Asking, Hearing
      <4> QED  BY <4>2, <4>3
    <3>2. CASE Preparing
      <4>1. CASE MB!Counts
        BY <1>1, <3>2, <4>1 DEF Preparing, Offset, Here, NotHere
      <4>2. CASE ~MB!Counts
        BY <3>2, <4>2 DEF Preparing, Unannounced, MB!ipe
      <4> QED  BY <4>1, <4>2
    <3>3. CASE Looping
      <4>1. NoData(p) \/ OneData(p)
        BY <3>3 DEF Looping
      <4> QED  BY <4>1 DEF NoData, OneData, Watching, Unannounced, MB!ipe
    <3>4. CASE Undefined
      BY <3>4 DEF Undefined
    <3> QED  BY <3>1, <3>2, <3>3, <3>4 DEF MailInv
  <2>3. flag \in [MB!Proc -> IF MB!Counts THEN 0..2 ELSE {0, 1}]
    BY <1>1, <2>2
  <2> QED  BY <1>1, <2>1, <2>3 DEF MB!TypeOK
<1>3. MB!NrepeatIsRight
  BY DEF MB!NrepeatIsRight, MailInv, Asking, Hearing, Preparing, Looping, Undefined
<1>4. ASSUME NEW p \in MB!Proc
      PROVE  /\ taken[p] <= got[p]
             /\ got[p] > taken[p] /\ ~MB!Counts => last[p] = Pattern[arg[MB!Peer(p)][1]].s
  <2>1. \/ got[p] = taken[p]
        \/ got[p] = taken[p] + 1 /\ (~MB!Counts => last[p] = Pattern[arg["tr"][1]].s) /\ arg["rcv"] = arg["tr"]
    <3>1. CASE Looping
      BY <3>1 DEF Looping, NoData, OneData
    <3> QED  BY <3>1 DEF MailInv, Asking, Preparing, Undefined
  <2> QED  BY <1>1, <2>1 DEF MB!Peer
<1>5. MB!ReceivedMeansArrived /\ MB!MessageKept
  BY <1>4 DEF MB!ReceivedMeansArrived, MB!MessageKept
<1>6. MB!PutFindsBuffer
  <2> SUFFICES ASSUME NEW p \in MB!Proc, NEW x \in DOMAIN net[p], net[p][x].to = "data"
               PROVE  pc[p] \in {"init", "alignSend", "alignRecv", "sync", "send", "recv"}
    BY DEF MB!PutFindsBuffer
  <2>1. x \in 1..Len(net[p]) /\ net[p] # <<>>
    BY <1>1
  <2>2. CASE Asking
    <3>1. p = "rcv"
      BY <2>1, <2>2 DEF Asking, Quiet
    <3>2. net[p][x] = PutAt(Arrived + x)
      BY <2>1, <2>2, <3>1 DEF Asking, Hearing
    <3> QED  BY <3>2 DEF PutAt, SlotPut, FlagPut
  <2>3. CASE Preparing
    BY <2>3 DEF Preparing
  <2>4. CASE Looping
    BY <2>1, <2>4 DEF Looping, NoData
  <2>5. CASE Undefined
    BY <2>1, <2>5 DEF Undefined
  <2> QED  BY <2>2, <2>3, <2>4, <2>5 DEF MailInv
<1> QED  BY <1>2, <1>3, <1>5, <1>6

-----------------------------------------------------------------------------
(* What the builds promise together *)

\* The second RecvRepeat of SHMEM, ARMCI, LAPI and GM returns nrepeat, for any number
\* of measurements and every script, although nothing says which of the two values it
\* finds (SendRepeat, RecvRepeat).
THEOREM NrepeatArrives == PatternsTellApart /\ MessagesHaveOctets /\ Spec => []NrepeatIsRight
<1>1. MailboxInv /\ GmBuildInv => NrepeatIsRight
  BY MailPromises, GmPromises, GmDeafPromises DEF GmAlways, MailboxInv, GmBuildInv, NrepeatIsRight
<1> QED  BY <1>1, MailboxInvariance, GmInvariance, PTL

\* A put never arrives before MyMalloc or after FreeBuff, and over GM and PVM every
\* message is received by the call it was meant for, for any number of measurements
\* and every script (SendData, FreeBuff, readFully, RecvRepeat).
THEOREM EachInItsBuffer == PatternsTellApart /\ MessagesHaveOctets /\ Spec => []LandsInItsBuffer
<1>1. MailboxInv /\ GmBuildInv /\ PvmInv => LandsInItsBuffer
  BY MailPromises, GmPromises, GmDeafPromises, PvPromises, PvDeafPromises DEF GmAlways, PvAlways, MailboxInv, GmBuildInv, PvmInv, LandsInItsBuffer
<1> QED  BY <1>1, MailboxInvariance, GmInvariance, PvmInvariance, PTL

\* RecvData of SHMEM, ARMCI, LAPI, MPI, MPI-2 and TCGMSG returns only for a message that
\* is there, for any number of measurements and every script: a watched octet or counter
\* has changed, a message was taken, or a fence has ended (RecvData).
THEOREM ReturnsWithMessage == PatternsTellApart /\ Spec => []ReceivedMeansArrived
<1>1. MailboxInv /\ MpiInv => ReceivedMeansArrived
  BY MailPromises, MpPromises DEF MailboxInv, MpiInv, ReceivedMeansArrived
<1> QED  BY <1>1, MailboxInvariance, MpiInvariance, PTL

\* The InitBufferData of a slower process erases no put, no message of MPI, MPI-2 or
\* TCGMSG is overwritten or left over, and "outstanding receive!" is never printed, for
\* any number of measurements (run_iters, SendData, PrepareToReceive).
THEOREM EveryMessageKept == PatternsTellApart /\ Spec => []NoMessageLost
<1>1. MailboxInv /\ MpiInv => NoMessageLost
  BY MailPromises, MpPromises DEF MailboxInv, MpiInv, NoMessageLost
<1> QED  BY <1>1, MailboxInvariance, MpiInvariance, PTL

-----------------------------------------------------------------------------
(* The test pattern.  A buffer that has been filled so far is read back word *)
(* by word: each octet comes from the register that the word before it leaves.*)

\* Buffers of len octets, each octet the set of its bits.
Buffers(len) == [0..(len - 1) -> SUBSET (0..7)]

\* The word at place q of a buffer, and the register before that word.
Word(bytes, q) == {x \in 0..31 : \E c \in 0..3 : x - 8 * c \in bytes[4 * q + c]}
Before(bytes, seed, q) == IF q = 0 THEN seed ELSE Word(bytes, q - 1)

\* A register of 23 bits that is not empty.
Alive(w) == w \subseteq 0..22 /\ w # {}

\* The words before the place upto are the pattern of seed.
Follows(len, bytes, seed, upto) ==
    /\ \A x \in 0..(len - 1) : x \div 4 < upto =>
          bytes[x] = BD!Octet(BD!LFSR(Before(bytes, seed, x \div 4)), x % 4)
    /\ \A q \in 0..upto : 4 * q <= len => Alive(Before(bytes, seed, q))

\* The whole words before the place upto are different ones.
Differ(len, r, s, upto) ==
    \A q \in 0..upto : 4 * q <= len => Before(r, BD!a, q) # Before(s, BD!b, q)

\* The octets that are not what the peer sent.
Wrong(len, r, s) == {x \in 0..(len - 1) : r[x] # s[x]}

\* The types of the variables while the buffers are filled and compared.
PatternTypes ==
    /\ pc \in BD!Labels /\ n \in Nat \ {0} /\ n \in Sizes
    /\ i \in Nat /\ 4 * i <= n
    /\ Alive(lfsr_data)
    /\ r_buff \in Buffers(n) /\ s_buff \in Buffers(n)
    /\ bad \subseteq 0..(n - 1)

\* What each loop has filled so far, the register it goes on with, and, when the two
\* buffers are compared, exactly the wrong octets up to the word reached.
PatternOk ==
    /\ PatternTypes
    /\ pc = "setR" => Follows(n, r_buff, BD!a, i) /\ lfsr_data = Before(r_buff, BD!a, i)
    /\ pc \in {"setS", "arrive"} => Follows(n, r_buff, BD!a, n)
    /\ pc = "setS" => /\ Follows(n, s_buff, BD!b, i) /\ lfsr_data = Before(s_buff, BD!b, i)
                      /\ Differ(n, r_buff, s_buff, i)
    /\ pc \in {"arrive", "check", "done"} => Follows(n, s_buff, BD!b, n)
    /\ pc = "arrive" => Differ(n, r_buff, s_buff, n)
    /\ pc \in {"setR", "setS", "arrive"} => bad = {}
    /\ pc \in {"arrive", "done"} => i = 0
    /\ pc = "arrive" => lfsr_data = BD!b
    /\ pc = "check" => /\ lfsr_data = Before(s_buff, BD!b, i)
                       /\ bad = {x \in Wrong(n, r_buff, s_buff) : x \div 4 < i}
    /\ pc = "done" => bad = Wrong(n, r_buff, s_buff)
    /\ pc \in {"check", "done"} /\ came \in 0..(4 * (n \div 4) - 4) => Wrong(n, r_buff, s_buff) # {}

\* The inductive invariant of a build that looks at the test pattern.
PatternInv == built = "pattern" => PatternOk

\* Quotient and remainder by the length of a word.
LEMMA WordPlaces ==
    /\ \A x \in Nat : x \div 4 \in Nat /\ x % 4 \in 0..3 /\ x = 4 * (x \div 4) + (x % 4)
    /\ \A q \in Nat, c \in 0..3 : (4 * q + c) \div 4 = q /\ (4 * q + c) % 4 = c
<1>1. ASSUME NEW x \in Nat
      PROVE  x \div 4 \in Nat /\ x % 4 \in 0..3 /\ x = 4 * (x \div 4) + (x % 4)
  OBVIOUS
<1>2. ASSUME NEW q \in Nat, NEW c \in 0..3
      PROVE  (4 * q + c) \div 4 = q /\ (4 * q + c) % 4 = c
  OBVIOUS
<1> QED  BY <1>1, <1>2

\* One step of the register, bit by bit.
LEMMA Register ==
    ASSUME NEW w, w \subseteq 0..22
    PROVE  /\ BD!LFSR(w) \subseteq 0..22
           /\ 22 \in BD!LFSR(w) <=> 0 \in w
           /\ 4 \in BD!LFSR(w) <=> ~(5 \in w <=> 0 \in w)
           /\ \A x \in 0..21 : x # 4 => (x \in BD!LFSR(w) <=> x + 1 \in w)
<1>1. \A x : x \in BD!ShiftRight(w) <=> x \in 0..21 /\ x + 1 \in w
  BY DEF BD!ShiftRight
<1>2. \A x : x \in BD!LFSR(w) <=>
          ~((x \in 0..21 /\ x + 1 \in w) <=> (x \in {22, 4} /\ 0 \in w))
  BY <1>1, Zenon DEF BD!LFSR, BD!lfsr23, BD!Galois, BD!Xor
<1>3. BD!LFSR(w) \subseteq 0..22
  BY <1>2
<1> QED  BY <1>2, <1>3

\* The register never runs empty, and different states have different successors.
LEMMA RegisterLives ==
    ASSUME NEW w, Alive(w)
    PROVE  Alive(BD!LFSR(w))
<1>1. w \subseteq 0..22 /\ w # {}
  BY DEF Alive
<1>2. PICK x \in w : TRUE
  BY <1>1
<1>3. CASE 0 \in w
  BY <1>1, <1>3, Register DEF Alive
<1>4. CASE 0 \notin w
  <2>1. x \in 1..22 /\ x - 1 \in 0..21
    BY <1>1, <1>4
  <2>2. x - 1 \in BD!LFSR(w)
    <3>1. x - 1 = 4 => x = 5
      BY <2>1
    <3>2. x - 1 + 1 = x
      BY <2>1
    <3>3. \A y \in 0..21 : y # 4 => (y \in BD!LFSR(w) <=> y + 1 \in w)
      BY <1>1, Register
    <3>4. CASE x = 5
      <4>1. 4 \in BD!LFSR(w)
        BY <1>1, <1>4, <3>4, Register
      <4> QED  BY <3>4, <4>1
    <3>5. CASE x # 5
      BY <2>1, <3>1, <3>2, <3>3, <3>5
    <3> QED  BY <3>4, <3>5
  <2> QED  BY <1>1, <2>2, Register DEF Alive
<1> QED  BY <1>3, <1>4

\* Two registers stay different ones.
LEMMA RegisterInjective ==
    ASSUME NEW w, NEW v, Alive(w), Alive(v), w # v
    PROVE  BD!LFSR(w) # BD!LFSR(v)
<1>1. w \subseteq 0..22 /\ v \subseteq 0..22
  BY DEF Alive
<1> SUFFICES ASSUME BD!LFSR(w) = BD!LFSR(v)  PROVE FALSE
  OBVIOUS
<1>2. 0 \in w <=> 0 \in v
  <2>1. 22 \in BD!LFSR(w) <=> 0 \in w
    BY <1>1, Register
  <2>2. 22 \in BD!LFSR(v) <=> 0 \in v
    BY <1>1, Register
  <2> QED  BY <2>1, <2>2
<1>3. \A x \in 1..22 : x \in w <=> x \in v
  <2> TAKE x \in 1..22
  <2>1. x - 1 \in 0..21 /\ x - 1 + 1 = x
    OBVIOUS
  <2>2. x # 5 => (x \in w <=> x - 1 \in BD!LFSR(w)) /\ (x \in v <=> x - 1 \in BD!LFSR(v))
    <3>1. /\ \A y \in 0..21 : y # 4 => (y \in BD!LFSR(w) <=> y + 1 \in w)
          /\ \A y \in 0..21 : y # 4 => (y \in BD!LFSR(v) <=> y + 1 \in v)
      BY <1>1, Register
    <3> QED  BY <2>1, <3>1
  <2>3. /\ 4 \in BD!LFSR(w) <=> ~(5 \in w <=> 0 \in w)
        /\ 4 \in BD!LFSR(v) <=> ~(5 \in v <=> 0 \in v)
    BY <1>1, Register
  <2> QED  BY <1>2, <2>2, <2>3
<1>4. ASSUME NEW x \in 0..22  PROVE x \in w <=> x \in v
  <2>1. x = 0 \/ x \in 1..22
    OBVIOUS
  <2> QED  BY <1>2, <1>3, <2>1
<1>5. \A x : x \in w <=> x \in v
  BY <1>1, <1>4
<1> QED  BY <1>5, Zenon

\* A register put into the octets of a word is read back from them.
LEMMA OctetFacts ==
    ASSUME NEW w, w \subseteq 0..22
    PROVE  \A c \in 0..3 : /\ BD!Octet(w, c) \subseteq 0..7
                           /\ \A x \in 0..7 : x \in BD!Octet(w, c) <=> x + 8 * c \in w
<1> TAKE c \in 0..3
<1>1. \A x : x \in BD!Octet(w, c) <=> \E y \in w \cap ((8 * c)..(8 * c + 7)) : x = y - 8 * c
  BY DEF BD!Octet
<1>2. \A y \in w : y \in Int
  OBVIOUS
<1>3. BD!Octet(w, c) \subseteq 0..7
  BY <1>1, <1>2
<1>4. ASSUME NEW x \in 0..7  PROVE x \in BD!Octet(w, c) <=> x + 8 * c \in w
  BY <1>1, <1>2
<1> QED  BY <1>3, <1>4

\* The word at a place holds the register that the word before it leaves.
LEMMA WordOf ==
    ASSUME NEW w, w \subseteq 0..22, NEW bytes, NEW q \in Nat,
           \A c \in 0..3 : bytes[4 * q + c] = BD!Octet(w, c)
    PROVE  Word(bytes, q) = w
<1>0. \A c \in 0..3 : /\ \A y \in BD!Octet(w, c) : y \in 0..7
                      /\ \A y \in 0..7 : y \in BD!Octet(w, c) <=> y + 8 * c \in w
  BY OctetFacts
<1>1. ASSUME NEW x \in 0..31  PROVE x \in Word(bytes, q) <=> x \in w
  <2>1. x \in Word(bytes, q) <=> \E c \in 0..3 : x - 8 * c \in BD!Octet(w, c)
    BY DEF Word
  <2>2. \A c \in 0..3 : x - 8 * c \in BD!Octet(w, c) => x \in w
    <3> TAKE c \in 0..3
    <3> HAVE x - 8 * c \in BD!Octet(w, c)
    <3>1. x - 8 * c \in 0..7
      BY <1>0
    <3>2. x - 8 * c + 8 * c = x
      OBVIOUS
    <3> QED  BY <3>1, <3>2, <1>0
  <2>3. x \in w => \E c \in 0..3 : x - 8 * c \in BD!Octet(w, c)
    <3> HAVE x \in w
    <3>1. PICK c \in 0..3 : x - 8 * c \in 0..7
      <4>1. x \in 0..7 \/ x - 8 \in 0..7 \/ x - 16 \in 0..7 \/ x - 24 \in 0..7
        OBVIOUS
      <4> QED  BY <4>1
    <3>2. x - 8 * c + 8 * c = x
      OBVIOUS
    <3> QED  BY <3>1, <3>2, <1>0
  <2> QED  BY <2>1, <2>2, <2>3
<1>2. Word(bytes, q) \subseteq 0..31
  BY DEF Word
<1>3. w \subseteq 0..31
  OBVIOUS
<1> QED  BY <1>1, <1>2, <1>3

\* In a buffer filled so far, the register before the next word follows from the one
\* before this one.
LEMMA NextWord ==
    ASSUME n \in Nat, NEW bytes, NEW seed, NEW upto \in Nat, Follows(n, bytes, seed, upto),
           NEW q \in Nat, q < upto, 4 * (q + 1) <= n
    PROVE  Before(bytes, seed, q + 1) = BD!LFSR(Before(bytes, seed, q))
<1> DEFINE w == Before(bytes, seed, q)
<1>1. Alive(w) /\ w \subseteq 0..22
  BY DEF Follows, Alive
<1>2. BD!LFSR(w) \subseteq 0..22
  BY <1>1, Register
<1>3. ASSUME NEW c \in 0..3  PROVE bytes[4 * q + c] = BD!Octet(BD!LFSR(w), c)
  <2>1. 4 * q + c \in 0..(n - 1)
    OBVIOUS
  <2>2. (4 * q + c) \div 4 = q /\ (4 * q + c) % 4 = c
    BY WordPlaces
  <2> QED  BY <2>1, <2>2 DEF Follows
<1> HIDE DEF w
<1>4. Word(bytes, q) = BD!LFSR(w)
  BY <1>2, <1>3, WordOf
<1> QED  BY <1>4 DEF Before, w

\* Two buffers agree on the octets before the word upto.
Agree(len, old, new, upto) == \A x \in 0..(len - 1) : x \div 4 < upto => new[x] = old[x]

\* The register before a word depends only on the words before it.
LEMMA BeforeStays ==
    ASSUME n \in Nat, NEW old, NEW new, NEW seed, NEW upto \in Nat, Agree(n, old, new, upto)
    PROVE  \A q \in 0..upto : 4 * q <= n => Before(new, seed, q) = Before(old, seed, q)
<1> TAKE q \in 0..upto
<1> HAVE 4 * q <= n
<1>1. CASE q = 0
  BY <1>1 DEF Before
<1>2. CASE q # 0
  <2>1. q - 1 \in Nat /\ q - 1 < upto /\ 4 * (q - 1) + 3 < n
    BY <1>2
  <2>2. ASSUME NEW c \in 0..3  PROVE new[4 * (q - 1) + c] = old[4 * (q - 1) + c]
    <3>1. 4 * (q - 1) + c \in 0..(n - 1)
      BY <2>1
    <3>2. (4 * (q - 1) + c) \div 4 = q - 1
      BY <2>1, WordPlaces
    <3> QED  BY <2>1, <3>1, <3>2 DEF Agree
  <2>3. Word(new, q - 1) = Word(old, q - 1)
    BY <2>2 DEF Word
  <2> QED  BY <1>2, <2>3 DEF Before
<1> QED  BY <1>1, <1>2

\* One turn of lfsrset: the words up to this one are the pattern of the seed, and
\* the register is the one that the whole word leaves behind (lfsrset).
LEMMA TurnFills ==
    ASSUME n \in Nat \ {0}, i \in Nat, 4 * i <= n,
           NEW bytes \in Buffers(n), NEW seed, Follows(n, bytes, seed, i),
           lfsr_data = Before(bytes, seed, i),
           NEW new, new = BD!lfsrset(bytes)
    PROVE  /\ new \in Buffers(n)
           /\ Follows(n, new, seed, i + 1)
           /\ Agree(n, bytes, new, i)
           /\ BD!Whole => Before(new, seed, i + 1) = BD!LFSR(lfsr_data)
<1>0. \A x \in 0..(n - 1) : x \in Nat /\ x \div 4 \in Nat /\ x % 4 \in 0..3
  BY WordPlaces
<1>1. Alive(lfsr_data)
  BY DEF Follows
<1>2. Alive(BD!LFSR(lfsr_data)) /\ BD!LFSR(lfsr_data) \subseteq 0..22
  BY <1>1, RegisterLives DEF Alive
<1>3. new = [x \in 0..(n - 1) |->
               IF x \div 4 = i THEN BD!Octet(BD!LFSR(lfsr_data), x % 4) ELSE bytes[x]]
  BY Zenon DEF BD!lfsrset
<1>4. new \in Buffers(n)
  <2>1. ASSUME NEW x \in 0..(n - 1)  PROVE new[x] \in SUBSET (0..7)
    <3>1. BD!Octet(BD!LFSR(lfsr_data), x % 4) \subseteq 0..7
      BY <1>0, <1>2, OctetFacts
    <3>2. bytes[x] \in SUBSET (0..7)
      BY DEF Buffers
    <3> QED  BY <1>3, <3>1, <3>2
  <2>2. DOMAIN new = 0..(n - 1) /\ new = [x \in 0..(n - 1) |-> new[x]]
    BY <1>3
  <2> QED  BY <2>1, <2>2 DEF Buffers
<1>5. Agree(n, bytes, new, i)
  BY <1>0, <1>3 DEF Agree
<1>6. \A x \in 0..(n - 1) : x \div 4 = i => new[x] = BD!Octet(BD!LFSR(lfsr_data), x % 4)
  BY <1>3
<1>7. \A q \in 0..i : 4 * q <= n => Before(new, seed, q) = Before(bytes, seed, q)
  <2>1. n \in Nat /\ i \in Nat
    OBVIOUS
  <2> QED  BY <1>5, <2>1, BeforeStays
<1>8. BD!Whole => Before(new, seed, i + 1) = BD!LFSR(lfsr_data)
  <2> HAVE BD!Whole
  <2>1. 4 * (i + 1) <= n
    BY DEF BD!Whole
  <2>2. ASSUME NEW c \in 0..3  PROVE new[4 * i + c] = BD!Octet(BD!LFSR(lfsr_data), c)
    <3>1. 4 * i + c \in 0..(n - 1)
      BY <2>1
    <3>2. (4 * i + c) \div 4 = i /\ (4 * i + c) % 4 = c
      BY WordPlaces
    <3> QED  BY <1>6, <3>1, <3>2
  <2>3. Word(new, i) = BD!LFSR(lfsr_data)
    BY <1>2, <2>2, WordOf
  <2>4. i + 1 # 0 /\ i + 1 - 1 = i
    OBVIOUS
  <2> QED  BY <2>3, <2>4 DEF Before
<1>9. Follows(n, new, seed, i + 1)
  <2>1. ASSUME NEW x \in 0..(n - 1), x \div 4 < i + 1
        PROVE  new[x] = BD!Octet(BD!LFSR(Before(new, seed, x \div 4)), x % 4)
    <3>1. x \div 4 \in 0..i /\ 4 * (x \div 4) <= n
      BY <2>1, <1>0, WordPlaces
    <3>2. Before(new, seed, x \div 4) = Before(bytes, seed, x \div 4)
      BY <1>7, <3>1
    <3>3. CASE x \div 4 = i
      BY <1>6, <3>2, <3>3
    <3>4. CASE x \div 4 < i
      BY <1>5, <3>2, <3>4 DEF Follows, Agree
    <3> QED  BY <3>1, <3>3, <3>4
  <2>2. ASSUME NEW q \in 0..(i + 1), 4 * q <= n  PROVE Alive(Before(new, seed, q))
    <3>1. CASE q \in 0..i
      BY <1>7, <2>2, <3>1 DEF Follows
    <3>2. CASE q = i + 1
      <4>1. BD!Whole
        BY <2>2, <3>2 DEF BD!Whole
      <4> QED  BY <1>2, <1>8, <3>2, <4>1
    <3> QED  BY <3>1, <3>2
  <2> QED  BY <2>1, <2>2 DEF Follows
<1> QED  BY <1>4, <1>5, <1>8, <1>9

\* Once the octets after the last whole word are there as well, all of it is.
LEMMA AllFilled ==
    ASSUME n \in Nat \ {0}, i \in Nat, ~BD!Whole, NEW bytes, NEW seed, Follows(n, bytes, seed, i + 1)
    PROVE  Follows(n, bytes, seed, n)
<1>1. n < 4 * (i + 1)
  BY DEF BD!Whole
<1>2. \A x \in 0..(n - 1) : x \div 4 < i + 1
  BY <1>1, WordPlaces
<1>3. \A q \in 0..n : 4 * q <= n => q \in 0..(i + 1)
  BY <1>1
<1> QED  BY <1>2, <1>3 DEF Follows

\* Words that differ in the register before them differ.
LEMMA DifferOn ==
    ASSUME n \in Nat \ {0}, i \in Nat, NEW r, NEW s, Follows(n, r, BD!a, n), Follows(n, s, BD!b, i + 1),
           Differ(n, r, s, i), BD!Whole
    PROVE  Differ(n, r, s, i + 1)
<1>1. 4 * (i + 1) <= n /\ i < n /\ i \in 0..n
  BY DEF BD!Whole
<1>2. Before(r, BD!a, i) # Before(s, BD!b, i)
  BY <1>1 DEF Differ
<1>3. Alive(Before(r, BD!a, i)) /\ Alive(Before(s, BD!b, i))
  BY <1>1 DEF Follows
<1>4. /\ Before(r, BD!a, i + 1) = BD!LFSR(Before(r, BD!a, i))
      /\ Before(s, BD!b, i + 1) = BD!LFSR(Before(s, BD!b, i))
  BY <1>1, NextWord
<1>5. Before(r, BD!a, i + 1) # Before(s, BD!b, i + 1)
  BY <1>2, <1>3, <1>4, RegisterInjective
<1>6. \A q \in 0..(i + 1) : q \in 0..i \/ q = i + 1
  OBVIOUS
<1> QED  BY <1>5, <1>6 DEF Differ

\* Whole words that differ do so in one of their octets.
LEMMA OctetDiffers ==
    ASSUME n \in Nat \ {0}, Differ(n, r_buff, s_buff, n), NEW q \in 0..(n \div 4 - 1)
    PROVE  \E x \in (4 * q)..(4 * q + 3) : r_buff[x] # s_buff[x]
<1>1. n \div 4 \in Nat /\ 4 * (n \div 4) <= n
  BY WordPlaces
<1>2. q \in Nat /\ q + 1 \in 0..n /\ 4 * (q + 1) <= n
  BY <1>1
<1>3. Before(r_buff, BD!a, q + 1) # Before(s_buff, BD!b, q + 1)
  BY <1>2 DEF Differ
<1>4. q + 1 # 0 /\ q + 1 - 1 = q
  BY <1>2
<1>5. Word(r_buff, q) # Word(s_buff, q)
  BY <1>3, <1>4 DEF Before
<1> SUFFICES ASSUME \A x \in (4 * q)..(4 * q + 3) : r_buff[x] = s_buff[x]
             PROVE  FALSE
  OBVIOUS
<1>6. \A c \in 0..3 : r_buff[4 * q + c] = s_buff[4 * q + c]
  BY <1>2
<1> QED  BY <1>5, <1>6 DEF Word

\* A message that lacks a whole word leaves a word of the old pattern.
LEMMA CutShows ==
    ASSUME n \in Nat \ {0}, Differ(n, r_buff, s_buff, n), NEW m \in 0..(4 * (n \div 4) - 4)
    PROVE  \E x \in m..(n - 1) : r_buff[x] # s_buff[x]
<1>1. n \div 4 \in Nat /\ 4 * (n \div 4) <= n
  BY WordPlaces
<1>2. n \div 4 - 1 \in 0..(n \div 4 - 1)
  BY <1>1
<1>3. PICK x \in (4 * (n \div 4 - 1))..(4 * (n \div 4 - 1) + 3) : r_buff[x] # s_buff[x]
  BY <1>2, OctetDiffers
<1> QED  BY <1>1, <1>3

-----------------------------------------------------------------------------

\* The two characters of the pattern start the register on different values.
LEMMA SeedsAlive == Alive(BD!a) /\ Alive(BD!b) /\ BD!a # BD!b
<1>1. 0 \in BD!a /\ 0 \notin BD!b /\ 1 \in BD!b
  BY DEF BD!a, BD!b
<1>2. BD!a \subseteq 0..22 /\ BD!b \subseteq 0..22
  BY DEF BD!a, BD!b
<1> QED  BY <1>1, <1>2, Zenon DEF Alive

\* A fresh buffer has no words yet.
LEMMA NothingFilled ==
    ASSUME n \in Nat \ {0}, NEW bytes, NEW seed, Alive(seed)
    PROVE  Follows(n, bytes, seed, 0) /\ Before(bytes, seed, 0) = seed
<1>1. \A x \in 0..(n - 1) : ~(x \div 4 < 0)
  BY WordPlaces
<1>2. \A q \in 0..0 : q = 0
  OBVIOUS
<1>3. Before(bytes, seed, 0) = seed
  BY DEF Before
<1>4. \A q \in 0..0 : Alive(Before(bytes, seed, q))
  BY <1>2, <1>3
<1> QED  BY <1>1, <1>3, <1>4 DEF Follows

\* The invariant holds before the first word.
LEMMA PatternStarts == Init => PatternInv
<1> SUFFICES ASSUME Init, built = "pattern"  PROVE PatternOk
  BY DEF PatternInv
<1>1. BD!Init
  BY DEF Init
<1>2. n \in Nat \ {0} /\ n \in Sizes /\ pc = "setR" /\ i = 0 /\ lfsr_data = BD!a /\ bad = {}
  BY <1>1, BoundsAssumption DEF BD!Init
<1>3. r_buff \in Buffers(n) /\ s_buff \in Buffers(n)
  BY <1>1 DEF BD!Init, Buffers
<1> QED  BY <1>2, <1>3, SeedsAlive, NothingFilled DEF PatternOk, PatternTypes, BD!Labels

\* InitBufferData fills the receive buffer (lfsrset from 'a').
LEMMA SetsR ==
    ASSUME PatternOk, pc = "setR", BD!Turn("setS", BD!b), r_buff' = BD!lfsrset(r_buff),
           UNCHANGED <<n, s_buff, came, bad>>
    PROVE  PatternOk'
<1>1. /\ n \in Nat \ {0} /\ n \in Sizes /\ i \in Nat /\ 4 * i <= n /\ Alive(lfsr_data)
      /\ r_buff \in Buffers(n) /\ s_buff \in Buffers(n) /\ bad = {}
      /\ Follows(n, r_buff, BD!a, i) /\ lfsr_data = Before(r_buff, BD!a, i)
  BY DEF PatternOk, PatternTypes
<1>2. /\ r_buff' \in Buffers(n)
      /\ Follows(n, r_buff', BD!a, i + 1)
      /\ BD!Whole => Before(r_buff', BD!a, i + 1) = BD!LFSR(lfsr_data)
  BY <1>1, TurnFills
<1>3. Alive(BD!LFSR(lfsr_data))
  BY <1>1, RegisterLives
<1>4. CASE BD!Whole
  <2>1. pc' = "setR" /\ i' = i + 1 /\ lfsr_data' = BD!LFSR(lfsr_data) /\ 4 * (i + 1) <= n
    BY <1>4 DEF BD!Turn, BD!Whole
  <2> QED  BY <1>1, <1>2, <1>3, <1>4, <2>1 DEF PatternOk, PatternTypes, BD!Labels
<1>5. CASE ~BD!Whole
  <2>1. pc' = "setS" /\ i' = 0 /\ lfsr_data' = BD!b
    BY <1>5 DEF BD!Turn
  <2>2. Follows(n, r_buff', BD!a, n)
    BY <1>1, <1>2, <1>5, AllFilled
  <2>3. Follows(n, s_buff, BD!b, 0) /\ Before(s_buff, BD!b, 0) = BD!b /\ Before(r_buff', BD!a, 0) = BD!a
    BY <1>1, SeedsAlive, NothingFilled
  <2>4. Differ(n, r_buff', s_buff, 0)
    <3>1. \A q \in 0..0 : q = 0
      OBVIOUS
    <3> QED  BY <2>3, <3>1, SeedsAlive DEF Differ
  <2> QED  BY <1>1, <1>2, <2>1, <2>2, <2>3, <2>4, SeedsAlive DEF PatternOk, PatternTypes, BD!Labels
<1> QED  BY <1>4, <1>5

\* InitBufferData fills the send buffer (lfsrset from 'b').
LEMMA SetsS ==
    ASSUME PatternOk, pc = "setS", BD!Turn("arrive", BD!b), s_buff' = BD!lfsrset(s_buff),
           UNCHANGED <<n, r_buff, came, bad>>
    PROVE  PatternOk'
<1>1. /\ n \in Nat \ {0} /\ n \in Sizes /\ i \in Nat /\ 4 * i <= n /\ Alive(lfsr_data)
      /\ r_buff \in Buffers(n) /\ s_buff \in Buffers(n) /\ bad = {}
      /\ Follows(n, r_buff, BD!a, n)
      /\ Follows(n, s_buff, BD!b, i) /\ lfsr_data = Before(s_buff, BD!b, i)
      /\ Differ(n, r_buff, s_buff, i)
  BY DEF PatternOk, PatternTypes
<1>2. /\ s_buff' \in Buffers(n)
      /\ Follows(n, s_buff', BD!b, i + 1)
      /\ Agree(n, s_buff, s_buff', i)
      /\ BD!Whole => Before(s_buff', BD!b, i + 1) = BD!LFSR(lfsr_data)
  BY <1>1, TurnFills
<1>3. Alive(BD!LFSR(lfsr_data))
  BY <1>1, RegisterLives
<1>4. Differ(n, r_buff, s_buff', i)
  <2>1. \A q \in 0..i : 4 * q <= n => Before(s_buff', BD!b, q) = Before(s_buff, BD!b, q)
    BY <1>1, <1>2, BeforeStays
  <2> QED  BY <1>1, <2>1 DEF Differ
<1>5. CASE BD!Whole
  <2>1. pc' = "setS" /\ i' = i + 1 /\ lfsr_data' = BD!LFSR(lfsr_data) /\ 4 * (i + 1) <= n
    BY <1>5 DEF BD!Turn, BD!Whole
  <2>2. Differ(n, r_buff, s_buff', i + 1)
    BY <1>1, <1>2, <1>4, <1>5, DifferOn
  <2> QED  BY <1>1, <1>2, <1>3, <1>5, <2>1, <2>2 DEF PatternOk, PatternTypes, BD!Labels
<1>6. CASE ~BD!Whole
  <2>1. pc' = "arrive" /\ i' = 0 /\ lfsr_data' = BD!b
    BY <1>6 DEF BD!Turn
  <2>2. Follows(n, s_buff', BD!b, n)
    BY <1>1, <1>2, <1>6, AllFilled
  <2>3. Differ(n, r_buff, s_buff', n)
    <3>1. n < 4 * (i + 1)
      BY <1>1, <1>6 DEF BD!Whole
    <3>2. \A q \in 0..n : 4 * q <= n => q \in 0..i
      BY <1>1, <3>1
    <3> QED  BY <1>4, <3>2 DEF Differ
  <2> QED  BY <1>1, <1>2, <2>1, <2>2, <2>3, SeedsAlive DEF PatternOk, PatternTypes, BD!Labels
<1> QED  BY <1>5, <1>6

\* The message arrives, or a part of it, or one bit of it is wrong (RecvData).
LEMMA Arrives ==
    ASSUME PatternOk, BD!RecvData
    PROVE  PatternOk'
<1>1. /\ pc = "arrive" /\ n \in Nat \ {0} /\ n \in Sizes /\ i = 0 /\ lfsr_data = BD!b
      /\ r_buff \in Buffers(n) /\ s_buff \in Buffers(n) /\ bad = {}
      /\ Follows(n, s_buff, BD!b, n) /\ Differ(n, r_buff, s_buff, n)
  BY DEF PatternOk, PatternTypes, BD!RecvData, BD!Arrive
<1>2. pc' = "check" /\ UNCHANGED <<n, i, lfsr_data, s_buff, bad>>
  BY DEF BD!RecvData, BD!Arrive
<1>3. n \div 4 \in Nat /\ 4 * (n \div 4) <= n
  BY <1>1, WordPlaces
<1>4. r_buff' \in Buffers(n) /\ (came' \in 0..(4 * (n \div 4) - 4) => Wrong(n, r_buff', s_buff) # {})
  <2>1. CASE BD!Arrive("intact", n, s_buff)
    <3>1. r_buff' = s_buff /\ came' = n
      BY <2>1 DEF BD!Arrive
    <3> QED  BY <1>1, <1>3, <3>1
  <2>2. ASSUME NEW m \in 0..(n - 1),
               BD!Arrive("cut", m, [x \in 0..(n - 1) |-> IF x < m THEN s_buff[x] ELSE r_buff[x]])
        PROVE  r_buff' \in Buffers(n) /\ (came' \in 0..(4 * (n \div 4) - 4) => Wrong(n, r_buff', s_buff) # {})
    <3>1. r_buff' = [x \in 0..(n - 1) |-> IF x < m THEN s_buff[x] ELSE r_buff[x]] /\ came' = m
      BY <2>2 DEF BD!Arrive
    <3>2. r_buff' \in Buffers(n)
      BY <1>1, <3>1 DEF Buffers
    <3>3. ASSUME m \in 0..(4 * (n \div 4) - 4)  PROVE Wrong(n, r_buff', s_buff) # {}
      <4>1. PICK x \in m..(n - 1) : r_buff[x] # s_buff[x]
        BY <1>1, <3>3, CutShows
      <4>2. x \in 0..(n - 1) /\ r_buff'[x] = r_buff[x]
        BY <3>1
      <4> QED  BY <4>1, <4>2 DEF Wrong
    <3> QED  BY <3>1, <3>2, <3>3
  <2>3. ASSUME NEW y \in 0..(n - 1), BD!Arrive("flip", -1, [s_buff EXCEPT ![y] = BD!Xor(@, {0})])
        PROVE  r_buff' \in Buffers(n) /\ (came' \in 0..(4 * (n \div 4) - 4) => Wrong(n, r_buff', s_buff) # {})
    <3>1. r_buff' = [s_buff EXCEPT ![y] = BD!Xor(@, {0})] /\ came' = -1
      BY <2>3 DEF BD!Arrive
    <3>2. BD!Xor(s_buff[y], {0}) \in SUBSET (0..7)
      BY <1>1 DEF BD!Xor, Buffers
    <3>3. r_buff' \in Buffers(n)
      BY <1>1, <3>1, <3>2 DEF Buffers
    <3> QED  BY <3>1, <3>3
  <2> QED  BY <2>1, <2>2, <2>3 DEF BD!RecvData
<1>5. Before(s_buff, BD!b, 0) = BD!b
  BY DEF Before
<1>6. {x \in Wrong(n, r_buff', s_buff) : x \div 4 < 0} = {}
  <2>1. \A x \in Wrong(n, r_buff', s_buff) : x \in Nat
    BY <1>1 DEF Wrong
  <2> QED  BY <2>1, WordPlaces
<1> QED
  BY <1>1, <1>2, <1>4, <1>5, <1>6, SeedsAlive DEF PatternOk, PatternTypes, BD!Labels

\* CheckBufferData has reported what is wrong in the words before this one.
LEMMA Checks ==
    ASSUME PatternOk, BD!CheckBufferData
    PROVE  PatternOk'
<1>1. /\ pc = "check" /\ n \in Nat \ {0} /\ n \in Sizes /\ i \in Nat /\ 4 * i <= n
      /\ r_buff \in Buffers(n) /\ s_buff \in Buffers(n) /\ Alive(lfsr_data)
      /\ Follows(n, s_buff, BD!b, n) /\ lfsr_data = Before(s_buff, BD!b, i)
      /\ bad = {x \in Wrong(n, r_buff, s_buff) : x \div 4 < i}
  BY DEF PatternOk, PatternTypes, BD!CheckBufferData
<1>2. came \in 0..(4 * (n \div 4) - 4) => Wrong(n, r_buff, s_buff) # {}
  BY <1>1 DEF PatternOk
<1>3. UNCHANGED <<n, r_buff, s_buff, came>> /\ bad' = bad \cup BD!lfsrcheck
  BY DEF BD!CheckBufferData
<1>4. BD!lfsrcheck = {x \in Wrong(n, r_buff, s_buff) : x \div 4 = i}
  <2>1. \A x \in 0..(n - 1) : x \div 4 = i => s_buff[x] = BD!Octet(BD!LFSR(lfsr_data), x % 4)
    <3>1. \A x \in 0..(n - 1) : x \div 4 < n
      BY <1>1, WordPlaces
    <3> QED  BY <1>1, <3>1 DEF Follows
  <2>2. BD!lfsrcheck = {x \in BD!Here : r_buff[x] # BD!Octet(BD!LFSR(lfsr_data), x % 4)}
    BY DEF BD!lfsrcheck
  <2>3. BD!Here = {x \in 0..(n - 1) : x \div 4 = i}
    BY DEF BD!Here
  <2> QED  BY <2>1, <2>2, <2>3 DEF Wrong
<1>5. bad' = {x \in Wrong(n, r_buff, s_buff) : x \div 4 < i + 1}
  <2>1. \A x \in Wrong(n, r_buff, s_buff) : x \div 4 \in Nat
    BY <1>1, WordPlaces DEF Wrong
  <2>2. \A x \in Wrong(n, r_buff, s_buff) : x \div 4 < i + 1 <=> (x \div 4 < i \/ x \div 4 = i)
    BY <1>1, <2>1
  <2> QED  BY <1>1, <1>3, <1>4, <2>2
<1>6. bad' \subseteq 0..(n - 1)
  BY <1>5 DEF Wrong
<1>7. CASE BD!Whole
  <2>1. /\ pc' = "check" /\ i' = i + 1 /\ lfsr_data' = BD!LFSR(lfsr_data)
        /\ 4 * (i + 1) <= n /\ i < n
    BY <1>1, <1>7 DEF BD!CheckBufferData, BD!Turn, BD!Whole
  <2>2. Before(s_buff, BD!b, i + 1) = BD!LFSR(lfsr_data)
    BY <1>1, <2>1, NextWord
  <2>3. Alive(BD!LFSR(lfsr_data))
    BY <1>1, RegisterLives
  <2> QED  BY <1>1, <1>2, <1>3, <1>5, <1>6, <2>1, <2>2, <2>3 DEF PatternOk, PatternTypes, BD!Labels
<1>8. CASE ~BD!Whole
  <2>1. pc' = "done" /\ i' = 0 /\ lfsr_data' = BD!b
    BY <1>8 DEF BD!CheckBufferData, BD!Turn
  <2>2. \A x \in Wrong(n, r_buff, s_buff) : x \div 4 < i + 1
    <3>1. n < 4 * (i + 1)
      BY <1>1, <1>8 DEF BD!Whole
    <3> QED  BY <1>1, <3>1, WordPlaces DEF Wrong
  <2>3. bad' = Wrong(n, r_buff, s_buff)
    BY <1>5, <2>2
  <2> QED  BY <1>1, <1>2, <1>3, <1>6, <2>1, <2>3, SeedsAlive DEF PatternOk, PatternTypes, BD!Labels
<1> QED  BY <1>7, <1>8

\* Every step of the loops, the arrival and the comparison keep it.
LEMMA PatternInductive == PatternInv /\ [Next]_vars => PatternInv'
<1> SUFFICES ASSUME PatternInv, [Next]_vars, built' = "pattern"  PROVE PatternOk'
  BY DEF PatternInv
<1>1. PatternOk /\ built = "pattern"
  BY SameBuild DEF PatternInv
<1>2. CASE PatternStep
  BY <1>1, <1>2, SetsR, SetsS, Arrives, Checks
     DEF PatternStep, BD!Next, BD!InitBufferData
<1>3. CASE UNCHANGED vars
  BY <1>1, <1>3 DEF vars, patternOnly, PatternOk, PatternTypes
<1> QED
  BY <1>1, <1>2, <1>3
     DEF Next, MailboxStep, MpiStep, AtoaStep, GmStep, PvmStep, HeapStep, CopyStep

\* For every length and whatever arrives: CheckBufferData reports exactly the octets
\* that are not what the peer sent, and never takes a message that lacks a whole word
\* for a complete one (InitBufferData, lfsrcheck).
THEOREM ChecksExactly == Spec => []ReportsExactly
<1>1. PatternInv => ReportsExactly
  BY DEF PatternInv, PatternOk, Wrong, ReportsExactly, BD!ReportsExactly, BD!MissingWordReported
<1> QED  BY <1>1, PatternStarts, PatternInductive, PTL DEF Spec

-----------------------------------------------------------------------------
(* The octets on which polling depends.  The lowest bits of the register, one   *)
(* for each word, satisfy a recurrence; applied to itself it gives another one  *)
(* that reaches further back, and with the three of them a few dozen bits lead  *)
(* from the seed to the words 26, 34 and 150.                                    *)

\* Z holds the places up to top at which the lowest bit is one.
Sequence(Z, seed, top) ==
    /\ \A q \in 0..4 : q <= top => (q \in Z <=> q \in seed)
    /\ \A q \in 5..22 : q <= top => (q \in Z <=> ~(q \in seed <=> q - 5 \in Z))
    /\ \A q \in 23..top : q \in Z <=> ~(q - 5 \in Z <=> q - 23 \in Z)

\* The recurrence applied to itself, once and twice.
LEMMA Doubled ==
    ASSUME NEW Z, NEW seed, NEW top \in Nat, Sequence(Z, seed, top)
    PROVE  /\ \A q \in 46..top : q \in Z <=> ~(q - 10 \in Z <=> q - 46 \in Z)
           /\ \A q \in 92..top : q \in Z <=> ~(q - 20 \in Z <=> q - 92 \in Z)
<1>1. \A q \in 23..top : q \in Z <=> ~(q - 5 \in Z <=> q - 23 \in Z)
  BY DEF Sequence
<1>2. ASSUME NEW q \in 46..top  PROVE q \in Z <=> ~(q - 10 \in Z <=> q - 46 \in Z)
  <2>1. /\ q \in 23..top /\ q - 5 \in 23..top /\ q - 23 \in 23..top
        /\ q - 5 - 5 = q - 10 /\ q - 5 - 23 = q - 28 /\ q - 23 - 5 = q - 28 /\ q - 23 - 23 = q - 46
    OBVIOUS
  <2>2. q - 5 \in Z <=> ~(q - 10 \in Z <=> q - 28 \in Z)
    BY <1>1, <2>1
  <2>3. q - 23 \in Z <=> ~(q - 28 \in Z <=> q - 46 \in Z)
    BY <1>1, <2>1
  <2>4. q \in Z <=> ~(q - 5 \in Z <=> q - 23 \in Z)
    BY <1>1, <2>1
  <2> QED  BY <2>2, <2>3, <2>4, Zenon
<1>3. ASSUME NEW q \in 92..top  PROVE q \in Z <=> ~(q - 20 \in Z <=> q - 92 \in Z)
  <2>1. /\ q \in 46..top /\ q - 10 \in 46..top /\ q - 46 \in 46..top
        /\ q - 10 - 10 = q - 20 /\ q - 10 - 46 = q - 56 /\ q - 46 - 10 = q - 56 /\ q - 46 - 46 = q - 92
    OBVIOUS
  <2>2. q - 10 \in Z <=> ~(q - 20 \in Z <=> q - 56 \in Z)
    BY <1>2, <2>1
  <2>3. q - 46 \in Z <=> ~(q - 56 \in Z <=> q - 92 \in Z)
    BY <1>2, <2>1
  <2>4. q \in Z <=> ~(q - 10 \in Z <=> q - 46 \in Z)
    BY <1>2, <2>1
  <2> QED  BY <2>2, <2>3, <2>4, Zenon
<1> QED  BY <1>2, <1>3

\* From 'a' to the words 26 and 34.
LEMMA LowBitsOfA ==
    ASSUME NEW Z, NEW top \in Nat, Sequence(Z, BD!a, top), top >= 25
    PROVE  21 \in Z
<1>1. /\ \A q \in 5..22 : q <= top => (q \in Z <=> ~(q \in BD!a <=> q - 5 \in Z))
      /\ \A q \in 23..top : q \in Z <=> ~(q - 5 \in Z <=> q - 23 \in Z)
  BY DEF Sequence
<1>2. 1 \notin Z
  BY DEF Sequence, BD!a
<1>3. 6 \in Z
  BY <1>1, <1>2 DEF BD!a
<1>4. 11 \in Z
  BY <1>1, <1>3 DEF BD!a
<1>5. 16 \in Z
  BY <1>1, <1>4 DEF BD!a
<1>6. 21 \in Z
  BY <1>1, <1>5 DEF BD!a
<1> QED  BY <1>6

\* From 'a' to word 150.
LEMMA FarBitsOfA ==
    ASSUME NEW Z, NEW top \in Nat, Sequence(Z, BD!a, top), top >= 149
    PROVE  /\ 143 \notin Z /\ 144 \in Z /\ 145 \notin Z /\ 146 \notin Z /\ 147 \notin Z
           /\ 148 \in Z /\ 149 \in Z
<1>1. /\ \A q \in 5..22 : q <= top => (q \in Z <=> ~(q \in BD!a <=> q - 5 \in Z))
      /\ \A q \in 23..top : q \in Z <=> ~(q - 5 \in Z <=> q - 23 \in Z)
  BY DEF Sequence
<1>2. /\ \A q \in 46..top : q \in Z <=> ~(q - 10 \in Z <=> q - 46 \in Z)
      /\ \A q \in 92..top : q \in Z <=> ~(q - 20 \in Z <=> q - 92 \in Z)
  BY Doubled
<1>3. 0 \in Z /\ 1 \notin Z /\ 2 \notin Z /\ 3 \notin Z /\ 4 \notin Z
  BY DEF Sequence, BD!a
<1>4. 5 \notin Z /\ 6 \in Z /\ 7 \notin Z /\ 8 \notin Z /\ 9 \notin Z
  BY <1>1, <1>3 DEF BD!a
<1>5. 10 \notin Z /\ 11 \in Z /\ 12 \notin Z /\ 13 \notin Z /\ 14 \notin Z
  BY <1>1, <1>4 DEF BD!a
<1>6. 15 \notin Z /\ 16 \in Z /\ 17 \notin Z /\ 18 \notin Z /\ 19 \notin Z
  BY <1>1, <1>5 DEF BD!a
<1>7. 20 \notin Z /\ 21 \in Z /\ 22 \notin Z /\ 23 \in Z /\ 24 \notin Z
  BY <1>1, <1>3, <1>6 DEF BD!a
<1>8. 25 \notin Z /\ 26 \in Z /\ 27 \notin Z /\ 28 \in Z /\ 29 \in Z
  BY <1>1, <1>3, <1>4, <1>7
<1>9. 30 \notin Z /\ 31 \in Z /\ 32 \notin Z /\ 33 \in Z /\ 34 \notin Z
  BY <1>1, <1>4, <1>5, <1>8
<1>10. 35 \notin Z /\ 36 \in Z /\ 37 \notin Z /\ 38 \in Z /\ 39 \in Z
  BY <1>1, <1>5, <1>6, <1>9
<1>11. /\ 40 \notin Z /\ 41 \in Z /\ 42 \notin Z /\ 43 \in Z /\ 44 \notin Z /\ 46 \notin Z
       /\ 47 \notin Z /\ 48 \in Z /\ 49 \in Z
  BY <1>1, <1>2, <1>3, <1>6, <1>7, <1>10
<1>12. /\ 45 \notin Z /\ 51 \in Z /\ 52 \in Z /\ 53 \in Z /\ 54 \notin Z /\ 56 \notin Z
       /\ 57 \in Z /\ 58 \in Z /\ 59 \in Z
  BY <1>1, <1>2, <1>4, <1>5, <1>7, <1>11
<1>13. /\ 55 \notin Z /\ 63 \in Z /\ 64 \notin Z /\ 66 \notin Z /\ 67 \notin Z /\ 68 \in Z
       /\ 69 \notin Z
  BY <1>2, <1>4, <1>6, <1>7, <1>12
<1>14. /\ 65 \notin Z /\ 73 \in Z /\ 74 \in Z /\ 76 \notin Z /\ 77 \in Z /\ 78 \in Z
       /\ 79 \in Z
  BY <1>2, <1>6, <1>8, <1>9, <1>13
<1>15. /\ 75 \in Z /\ 83 \in Z /\ 84 \notin Z /\ 86 \notin Z /\ 87 \notin Z /\ 88 \in Z
       /\ 89 \notin Z
  BY <1>2, <1>8, <1>10, <1>11, <1>14
<1>16. /\ 85 \notin Z /\ 103 \notin Z /\ 104 \notin Z /\ 106 \notin Z /\ 107 \notin Z
       /\ 108 \notin Z /\ 109 \notin Z
  BY <1>2, <1>5, <1>6, <1>10, <1>15
<1>17. /\ 105 \notin Z /\ 123 \in Z /\ 124 \notin Z /\ 126 \notin Z /\ 127 \notin Z
       /\ 128 \in Z /\ 129 \notin Z
  BY <1>2, <1>5, <1>9, <1>10, <1>16
<1>18. /\ 125 \in Z /\ 143 \notin Z /\ 144 \in Z /\ 146 \notin Z /\ 147 \notin Z /\ 148 \in Z
       /\ 149 \in Z
  BY <1>2, <1>9, <1>12, <1>13, <1>17
<1>19. 145 \notin Z
  BY <1>2, <1>12, <1>18
<1> QED  BY <1>18, <1>19

\* From 'b' to the words 26 and 34.
LEMMA LowBitsOfB ==
    ASSUME NEW Z, NEW top \in Nat, Sequence(Z, BD!b, top), top >= 25
    PROVE  /\ 19 \notin Z /\ 20 \in Z /\ 21 \notin Z /\ 22 \notin Z /\ 23 \notin Z
           /\ 24 \in Z /\ 25 \in Z
           /\ top >= 26 => 26 \notin Z
<1>1. /\ \A q \in 5..22 : q <= top => (q \in Z <=> ~(q \in BD!b <=> q - 5 \in Z))
      /\ \A q \in 23..top : q \in Z <=> ~(q - 5 \in Z <=> q - 23 \in Z)
  BY DEF Sequence
<1>2. 0 \notin Z /\ 1 \in Z /\ 2 \notin Z /\ 3 \notin Z /\ 4 \notin Z
  BY DEF Sequence, BD!b
<1>3. 5 \in Z /\ 6 \notin Z /\ 7 \notin Z /\ 8 \notin Z /\ 9 \notin Z
  BY <1>1, <1>2 DEF BD!b
<1>4. 10 \in Z /\ 11 \notin Z /\ 12 \notin Z /\ 13 \notin Z /\ 14 \notin Z
  BY <1>1, <1>3 DEF BD!b
<1>5. 15 \in Z /\ 16 \notin Z /\ 17 \notin Z /\ 18 \notin Z /\ 19 \notin Z
  BY <1>1, <1>4 DEF BD!b
<1>6. 20 \in Z /\ 21 \notin Z /\ 22 \notin Z /\ 23 \notin Z /\ 24 \in Z
  BY <1>1, <1>2, <1>5 DEF BD!b
<1>7. 25 \in Z /\ (top >= 26 => 26 \notin Z)
  BY <1>1, <1>2, <1>6
<1> QED  BY <1>5, <1>6, <1>7

\* From 'b' to word 150.
LEMMA FarBitOfB ==
    ASSUME NEW Z, NEW top \in Nat, Sequence(Z, BD!b, top), top >= 149
    PROVE  143 \in Z
<1>1. /\ \A q \in 5..22 : q <= top => (q \in Z <=> ~(q \in BD!b <=> q - 5 \in Z))
      /\ \A q \in 23..top : q \in Z <=> ~(q - 5 \in Z <=> q - 23 \in Z)
  BY DEF Sequence
<1>2. /\ \A q \in 46..top : q \in Z <=> ~(q - 10 \in Z <=> q - 46 \in Z)
      /\ \A q \in 92..top : q \in Z <=> ~(q - 20 \in Z <=> q - 92 \in Z)
  BY Doubled
<1>3. 0 \notin Z /\ 1 \in Z /\ 2 \notin Z /\ 3 \notin Z /\ 4 \notin Z
  BY DEF Sequence, BD!b
<1>4. 5 \in Z /\ 6 \notin Z /\ 7 \notin Z /\ 8 \notin Z /\ 9 \notin Z
  BY <1>1, <1>3 DEF BD!b
<1>5. 10 \in Z /\ 11 \notin Z /\ 12 \notin Z /\ 13 \notin Z /\ 14 \notin Z
  BY <1>1, <1>4 DEF BD!b
<1>6. 15 \in Z /\ 16 \notin Z /\ 17 \notin Z /\ 18 \notin Z
  BY <1>1, <1>5 DEF BD!b
<1>7. 20 \in Z /\ 21 \notin Z /\ 22 \notin Z /\ 23 \notin Z
  BY <1>1, <1>3, <1>6 DEF BD!b
<1>8. 26 \notin Z /\ 27 \notin Z /\ 28 \in Z
  BY <1>1, <1>3, <1>4, <1>7
<1>9. 31 \notin Z /\ 32 \notin Z /\ 33 \notin Z
  BY <1>1, <1>4, <1>5, <1>8
<1>10. 36 \notin Z /\ 37 \notin Z /\ 38 \in Z
  BY <1>1, <1>5, <1>6, <1>9
<1>11. 41 \notin Z /\ 43 \notin Z
  BY <1>1, <1>6, <1>7, <1>10
<1>12. 51 \in Z /\ 53 \notin Z
  BY <1>2, <1>4, <1>11
<1>13. 63 \notin Z
  BY <1>2, <1>6, <1>12
<1>14. 73 \notin Z
  BY <1>2, <1>8, <1>13
<1>15. 83 \notin Z
  BY <1>2, <1>10, <1>14
<1>16. 103 \notin Z
  BY <1>2, <1>5, <1>15
<1>17. 123 \notin Z
  BY <1>2, <1>9, <1>16
<1>18. 143 \in Z
  BY <1>2, <1>12, <1>17
<1> QED  BY <1>18

\* d words later a bit is d places lower, as long as it stays above the lower tap.
LEMMA Shifts ==
    ASSUME n \in Nat \ {0}, NEW bytes, NEW seed, Follows(n, bytes, seed, n)
    PROVE  \A d \in 0..17 : \A t \in Nat : 4 * (t + d) <= n =>
              \A x \in 5..(22 - d) : x \in Before(bytes, seed, t + d) <=> x + d \in Before(bytes, seed, t)
<1> DEFINE W(t) == Before(bytes, seed, t)
           SH(d) == \A t \in Nat : 4 * (t + d) <= n =>
                       \A x \in 5..(22 - d) : x \in W(t + d) <=> x + d \in W(t)
<1>1. SH(0)
  OBVIOUS
<1>2. ASSUME NEW d \in 0..16, SH(d)  PROVE SH(d + 1)
  <2> SUFFICES ASSUME NEW t \in Nat, 4 * (t + (d + 1)) <= n, NEW x \in 5..(22 - (d + 1))
               PROVE  x \in W(t + (d + 1)) <=> x + (d + 1) \in W(t)
    OBVIOUS
  <2>1. t + d \in Nat /\ t + d < n /\ 4 * (t + d + 1) <= n /\ 4 * (t + d) <= n /\ t + d \in 0..n
    OBVIOUS
  <2>2. W(t + d + 1) = BD!LFSR(W(t + d))
    BY <2>1, NextWord
  <2>3. W(t + d) \subseteq 0..22
    BY <2>1 DEF Follows, Alive
  <2>4. x \in 0..21 /\ x # 4 /\ x + 1 \in 5..(22 - d)
    OBVIOUS
  <2> HIDE DEF W
  <2>5. x \in W(t + d + 1) <=> x + 1 \in W(t + d)
    BY <2>2, <2>3, <2>4, Register
  <2>6. x + 1 \in W(t + d) <=> x + 1 + d \in W(t)
    BY <1>2, <2>1, <2>4
  <2>7. t + (d + 1) = t + d + 1 /\ x + (d + 1) = x + 1 + d
    OBVIOUS
  <2> QED  BY <2>5, <2>6, <2>7
<1> HIDE DEF SH
<1>3. SH(1) /\ SH(2) /\ SH(3) /\ SH(4) /\ SH(5) /\ SH(6)
  BY <1>1, <1>2
<1>4. SH(7) /\ SH(8) /\ SH(9) /\ SH(10) /\ SH(11) /\ SH(12)
  BY <1>2, <1>3
<1>5. SH(13) /\ SH(14) /\ SH(15) /\ SH(16) /\ SH(17)
  BY <1>2, <1>4
<1>6. \A d \in 0..17 : SH(d)
  BY <1>1, <1>3, <1>4, <1>5
<1> QED  BY <1>6 DEF SH

\* The lowest bits, one for each word, are such a sequence, and the upper bits of the
\* register are the last ones of it.
LEMMA LowestBits ==
    ASSUME n \in Nat \ {0}, NEW bytes, NEW seed, seed \subseteq 0..22, Follows(n, bytes, seed, n),
           NEW top \in Nat, 4 * top <= n,
           NEW Z, Z = {q \in 0..top : 0 \in Before(bytes, seed, q)}
    PROVE  /\ Sequence(Z, seed, top)
           /\ \A x \in 5..22 : top + x >= 22 =>
                 (x \in BD!LFSR(Before(bytes, seed, top)) <=> top + x - 22 \in Z)
<1> DEFINE W(t) == Before(bytes, seed, t)
<1>1. \A t \in 0..top : W(t) \subseteq 0..22
  BY DEF Follows, Alive
<1>2. \A t \in 0..(top - 1) : W(t + 1) = BD!LFSR(W(t))
  BY NextWord
<1>3. W(0) = seed
  BY DEF Before
<1>4. \A t \in 0..top, d \in 0..17 : t + d <= top =>
         \A x \in 5..(22 - d) : x \in W(t + d) <=> x + d \in W(t)
  BY Shifts
<1>5. \A t \in 0..top : t \in Z <=> 0 \in W(t)
  OBVIOUS
<1> HIDE DEF W
<1>6. ASSUME NEW t \in 0..(top - 1)
      PROVE  /\ 22 \in W(t + 1) <=> 0 \in W(t)
             /\ 4 \in W(t + 1) <=> ~(5 \in W(t) <=> 0 \in W(t))
             /\ 0 \in W(t + 1) <=> 1 \in W(t)
             /\ 1 \in W(t + 1) <=> 2 \in W(t)
             /\ 2 \in W(t + 1) <=> 3 \in W(t)
             /\ 3 \in W(t + 1) <=> 4 \in W(t)
  <2>1. W(t) \subseteq 0..22 /\ W(t + 1) = BD!LFSR(W(t))
    BY <1>1, <1>2
  <2> QED  BY <2>1, Register
\* A low bit comes down to the lowest place.
<1>7. ASSUME NEW t \in 0..top
      PROVE  /\ t + 1 <= top => (0 \in W(t + 1) <=> 1 \in W(t))
             /\ t + 2 <= top => (0 \in W(t + 2) <=> 2 \in W(t))
             /\ t + 3 <= top => (0 \in W(t + 3) <=> 3 \in W(t))
             /\ t + 4 <= top => (0 \in W(t + 4) <=> 4 \in W(t))
  <2>1. /\ t + 1 + 1 = t + 2 /\ t + 2 + 1 = t + 3 /\ t + 3 + 1 = t + 4
        /\ t + 1 <= top => t \in 0..(top - 1)
        /\ t + 2 <= top => t \in 0..(top - 1) /\ t + 1 \in 0..(top - 1)
        /\ t + 3 <= top => t \in 0..(top - 1) /\ t + 1 \in 0..(top - 1) /\ t + 2 \in 0..(top - 1)
        /\ t + 4 <= top => /\ t \in 0..(top - 1) /\ t + 1 \in 0..(top - 1)
                           /\ t + 2 \in 0..(top - 1) /\ t + 3 \in 0..(top - 1)
    OBVIOUS
  <2>2. t + 1 <= top => (0 \in W(t + 1) <=> 1 \in W(t))
    BY <1>6, <2>1
  <2>3. t + 2 <= top => (0 \in W(t + 2) <=> 2 \in W(t))
    BY <1>6, <2>1
  <2>4. t + 3 <= top => (0 \in W(t + 3) <=> 3 \in W(t))
    BY <1>6, <2>1
  <2>5. t + 4 <= top => (0 \in W(t + 4) <=> 4 \in W(t))
    BY <1>6, <2>1
  <2> QED  BY <2>2, <2>3, <2>4, <2>5
<1>8. ASSUME NEW t \in 0..top, t + 5 <= top
      PROVE  0 \in W(t + 5) <=> ~(5 \in W(t) <=> 0 \in W(t))
  <2>1. t \in 0..(top - 1) /\ t + 1 \in 0..top /\ t + 1 + 4 = t + 5
    BY <1>8
  <2>2. 0 \in W(t + 1 + 4) <=> 4 \in W(t + 1)
    BY <1>7, <1>8, <2>1
  <2> QED  BY <1>6, <2>1, <2>2
<1>9. \A q \in 0..4 : q <= top => (q \in Z <=> q \in seed)
  <2> SUFFICES ASSUME NEW q \in 0..4, q <= top  PROVE 0 \in W(q) <=> q \in W(0)
    BY <1>3, <1>5
  <2>1. q = 0 \/ q = 1 \/ q = 2 \/ q = 3 \/ q = 4
    OBVIOUS
  <2> QED  BY <1>7, <2>1
<1>10. \A q \in 5..22 : q <= top => (q \in Z <=> ~(q \in seed <=> q - 5 \in Z))
  <2> SUFFICES ASSUME NEW q \in 5..22, q <= top
               PROVE  0 \in W(q) <=> ~(q \in W(0) <=> 0 \in W(q - 5))
    BY <1>3, <1>5
  <2>1. q - 5 \in 0..top /\ q - 5 + 5 = q /\ q - 5 \in 0..17 /\ 0 + (q - 5) = q - 5 /\ 5 + (q - 5) = q
    OBVIOUS
  <2>2. 0 \in W(q) <=> ~(5 \in W(q - 5) <=> 0 \in W(q - 5))
    BY <1>8, <2>1
  <2>3. 5 \in W(0 + (q - 5)) <=> 5 + (q - 5) \in W(0)
    BY <1>4, <2>1
  <2> QED  BY <2>1, <2>2, <2>3
<1>11. \A q \in 23..top : q \in Z <=> ~(q - 5 \in Z <=> q - 23 \in Z)
  <2> SUFFICES ASSUME NEW q \in 23..top
               PROVE  0 \in W(q) <=> ~(0 \in W(q - 5) <=> 0 \in W(q - 23))
    BY <1>5
  <2>1. /\ q - 5 \in 0..top /\ q - 5 + 5 = q /\ q - 22 \in 0..top /\ q - 22 + 17 = q - 5
        /\ q - 23 \in 0..(top - 1) /\ q - 23 + 1 = q - 22
    OBVIOUS
  <2>2. 0 \in W(q) <=> ~(5 \in W(q - 5) <=> 0 \in W(q - 5))
    BY <1>8, <2>1
  <2>3. 5 \in W(q - 5) <=> 22 \in W(q - 22)
    BY <1>4, <2>1
  <2>4. 22 \in W(q - 22) <=> 0 \in W(q - 23)
    BY <1>6, <2>1
  <2> QED  BY <2>2, <2>3, <2>4, Zenon
<1>12. ASSUME NEW x \in 5..22, top + x >= 22
       PROVE  x \in BD!LFSR(W(top)) <=> top + x - 22 \in Z
  <2>1. W(top) \subseteq 0..22
    BY <1>1
  <2>2. CASE x = 22
    BY <1>5, <2>1, <2>2, Register
  <2>3. CASE x # 22
    <3>1. /\ x \in 0..21 /\ x # 4 /\ x + 1 \in 5..22
          /\ 21 - x \in 0..17 /\ top - (21 - x) \in 1..top /\ x + 1 \in 5..(22 - (21 - x))
          /\ top - (21 - x) + (21 - x) = top /\ x + 1 + (21 - x) = 22
          /\ top + x - 22 \in 0..(top - 1) /\ top + x - 22 + 1 = top - (21 - x)
      BY <1>12, <2>3
    <3>2. x \in BD!LFSR(W(top)) <=> x + 1 \in W(top)
      BY <2>1, <3>1, Register
    <3>3. x + 1 \in W(top - (21 - x) + (21 - x)) <=> x + 1 + (21 - x) \in W(top - (21 - x))
      BY <1>4, <3>1
    <3>4. 22 \in W(top - (21 - x)) <=> 0 \in W(top + x - 22)
      BY <1>6, <3>1
    <3> QED  BY <1>5, <3>1, <3>2, <3>3, <3>4
  <2> QED  BY <2>2, <2>3
<1>13. Sequence(Z, seed, top)
  BY <1>9, <1>10, <1>11 DEF Sequence
<1> QED  BY <1>12, <1>13 DEF W

\* The words up to top before which the lowest bit of the register is one.
Ones(bytes, seed, top) == {q \in 0..top : 0 \in Before(bytes, seed, q)}

\* The octet in place c of word top, bit by bit, from the sequence Z of lowest bits.
LastBits(octet, Z, top, c) ==
    /\ octet \subseteq 0..7
    /\ \A y \in 0..7 : y \in octet <=> y + 8 * c <= 22 /\ top + y + 8 * c - 22 \in Z

\* The last of len octets is octet c of word top.
LastIs(len, top, c) == len = 4 * top + c + 1 /\ top >= 22

\* The last octet of a filled buffer.
LEMMA LastOctetBits ==
    ASSUME n \in Nat \ {0}, NEW bytes \in Buffers(n), NEW seed, seed \subseteq 0..22,
           Follows(n, bytes, seed, n),
           NEW top \in Nat, NEW c \in 1..2, LastIs(n, top, c)
    PROVE  /\ Sequence(Ones(bytes, seed, top), seed, top)
           /\ LastBits(bytes[n - 1], Ones(bytes, seed, top), top, c)
<1>1. /\ n - 1 \in 0..(n - 1) /\ 4 * top <= n /\ top \in 0..n /\ top < n
      /\ n - 1 = 4 * top + c /\ c \in 0..3 /\ top >= 22
  BY DEF LastIs
<1>2. (n - 1) \div 4 = top /\ (n - 1) % 4 = c
  BY <1>1, WordPlaces
<1> DEFINE w == BD!LFSR(Before(bytes, seed, top))
<1>3. bytes[n - 1] = BD!Octet(w, c)
  BY <1>1, <1>2 DEF Follows
<1>4. Before(bytes, seed, top) \subseteq 0..22
  BY <1>1 DEF Follows, Alive
<1>5. w \subseteq 0..22
  BY <1>4, Register
<1>6. /\ Sequence(Ones(bytes, seed, top), seed, top)
      /\ \A x \in 5..22 : top + x >= 22 => (x \in w <=> top + x - 22 \in Ones(bytes, seed, top))
  BY <1>1, LowestBits DEF Ones
<1> HIDE DEF w
<1>7. ASSUME NEW y \in 0..7
      PROVE  y \in bytes[n - 1] <=> y + 8 * c <= 22 /\ top + y + 8 * c - 22 \in Ones(bytes, seed, top)
  <2>1. y \in bytes[n - 1] <=> y + 8 * c \in w
    <3>1. \A x \in 0..7 : x \in BD!Octet(w, c) <=> x + 8 * c \in w
      BY <1>1, <1>5, OctetFacts
    <3> QED  BY <1>3, <3>1
  <2>2. CASE y + 8 * c > 22
    BY <1>5, <2>1, <2>2
  <2>3. CASE y + 8 * c <= 22
    <3>1. y + 8 * c \in 5..22 /\ top + (y + 8 * c) >= 22 /\ top + (y + 8 * c) - 22 = top + y + 8 * c - 22
      BY <1>1, <2>3
    <3>2. y + 8 * c \in w <=> top + (y + 8 * c) - 22 \in Ones(bytes, seed, top)
      BY <1>6, <3>1
    <3> QED  BY <2>1, <2>3, <3>1, <3>2
  <2> QED  BY <2>2, <2>3
<1>8. bytes[n - 1] \subseteq 0..7
  BY <1>1, <1>3, <1>5, OctetFacts
<1> QED  BY <1>6, <1>7, <1>8 DEF LastBits

\* An octet is 'b' if it has its bits and no other.
LEMMA IsB ==
    ASSUME NEW octet, octet \subseteq 0..7,
           1 \in octet, 5 \in octet, 6 \in octet, 0 \notin octet, 2 \notin octet, 3 \notin octet,
           4 \notin octet, 7 \notin octet
    PROVE  octet = BD!b
<1>1. ASSUME NEW x \in octet  PROVE x \in {1, 5, 6}
  <2>1. x = 0 \/ x = 1 \/ x = 2 \/ x = 3 \/ x = 4 \/ x = 5 \/ x = 6 \/ x = 7
    OBVIOUS
  <2> QED  BY <2>1
<1> QED  BY <1>1, Zenon DEF BD!b

\* The last octets of the measured lengths: which of them are 'a' or 'b'.
LEMMA OctetsAre ==
    ASSUME PatternOk, pc = "arrive"
    PROVE  BD!LastOctets
<1>1. /\ n \in Nat \ {0} /\ r_buff \in Buffers(n) /\ s_buff \in Buffers(n)
      /\ Follows(n, r_buff, BD!a, n) /\ Follows(n, s_buff, BD!b, n)
      /\ BD!a \subseteq 0..22 /\ BD!b \subseteq 0..22
  BY SeedsAlive DEF PatternOk, PatternTypes, Alive
<1> DEFINE R(top) == Ones(r_buff, BD!a, top)
           S(top) == Ones(s_buff, BD!b, top)
<1>2. ASSUME n = 4  PROVE r_buff[3] = {} /\ s_buff[3] = {}
  <2>1. 3 \div 4 = 0 /\ 3 % 4 = 3 /\ 3 \in 0..3
    OBVIOUS
  <2>2. r_buff[3] = BD!Octet(BD!LFSR(BD!a), 3) /\ s_buff[3] = BD!Octet(BD!LFSR(BD!b), 3)
    BY <1>1, <1>2, <2>1 DEF Follows, Before
  <2>3. ASSUME NEW w, w \subseteq 0..22  PROVE BD!Octet(w, 3) = {}
    <3>1. /\ BD!Octet(w, 3) \subseteq 0..7
          /\ \A x \in 0..7 : x \in BD!Octet(w, 3) <=> x + 8 * 3 \in w
      BY <2>1, <2>3, OctetFacts
    <3>2. \A x \in 0..7 : x + 8 * 3 \notin w
      BY <2>3
    <3> QED  BY <3>1, <3>2
  <2> QED  BY <1>1, <2>2, <2>3, Register
<1>3. ASSUME n = 103  PROVE r_buff[n - 1] # BD!b /\ s_buff[n - 1] = BD!b
  <2>1. LastIs(n, 25, 2) /\ 25 \in Nat /\ 2 \in 1..2
    BY <1>3 DEF LastIs
  <2>2. Sequence(R(25), BD!a, 25) /\ LastBits(r_buff[n - 1], R(25), 25, 2)
    BY <1>1, <2>1, LastOctetBits
  <2>3. Sequence(S(25), BD!b, 25) /\ LastBits(s_buff[n - 1], S(25), 25, 2)
    BY <1>1, <2>1, LastOctetBits
  <2> HIDE DEF R, S
  <2>4. 2 \in r_buff[n - 1]
    BY <2>1, <2>2, LowBitsOfA DEF LastBits
  <2>5. 1 \in s_buff[n - 1] /\ 5 \in s_buff[n - 1] /\ 6 \in s_buff[n - 1] /\ 0 \notin s_buff[n - 1]
        /\ 2 \notin s_buff[n - 1] /\ 3 \notin s_buff[n - 1] /\ 4 \notin s_buff[n - 1] /\ 7 \notin s_buff[n - 1]
    BY <2>1, <2>3, LowBitsOfB DEF LastBits
  <2>6. 2 \notin BD!b
    BY DEF BD!b
  <2> QED  BY <2>3, <2>4, <2>5, <2>6, IsB DEF LastBits
<1>4. ASSUME n = 134  PROVE r_buff[n - 1] # BD!b /\ s_buff[n - 1] = BD!b
  <2>1. LastIs(n, 33, 1) /\ 33 \in Nat /\ 1 \in 1..2
    BY <1>4 DEF LastIs
  <2>2. Sequence(R(33), BD!a, 33) /\ LastBits(r_buff[n - 1], R(33), 33, 1)
    BY <1>1, <2>1, LastOctetBits
  <2>3. Sequence(S(33), BD!b, 33) /\ LastBits(s_buff[n - 1], S(33), 33, 1)
    BY <1>1, <2>1, LastOctetBits
  <2> HIDE DEF R, S
  <2>4. 2 \in r_buff[n - 1]
    BY <2>1, <2>2, LowBitsOfA DEF LastBits
  <2>5. 1 \in s_buff[n - 1] /\ 5 \in s_buff[n - 1] /\ 6 \in s_buff[n - 1] /\ 0 \notin s_buff[n - 1]
        /\ 2 \notin s_buff[n - 1] /\ 3 \notin s_buff[n - 1] /\ 4 \notin s_buff[n - 1] /\ 7 \notin s_buff[n - 1]
    BY <2>1, <2>3, LowBitsOfB DEF LastBits
  <2>6. 2 \notin BD!b
    BY DEF BD!b
  <2> QED  BY <2>3, <2>4, <2>5, <2>6, IsB DEF LastBits
<1>5. ASSUME n = 599  PROVE r_buff[n - 1] = BD!b /\ s_buff[n - 1] # BD!b
  <2>1. LastIs(n, 149, 2) /\ 149 \in Nat /\ 2 \in 1..2
    BY <1>5 DEF LastIs
  <2>2. Sequence(R(149), BD!a, 149) /\ LastBits(r_buff[n - 1], R(149), 149, 2)
    BY <1>1, <2>1, LastOctetBits
  <2>3. Sequence(S(149), BD!b, 149) /\ LastBits(s_buff[n - 1], S(149), 149, 2)
    BY <1>1, <2>1, LastOctetBits
  <2> HIDE DEF R, S
  <2>4. 1 \in r_buff[n - 1] /\ 5 \in r_buff[n - 1] /\ 6 \in r_buff[n - 1] /\ 0 \notin r_buff[n - 1]
        /\ 2 \notin r_buff[n - 1] /\ 3 \notin r_buff[n - 1] /\ 4 \notin r_buff[n - 1] /\ 7 \notin r_buff[n - 1]
    <3>1. /\ 143 \notin R(149) /\ 144 \in R(149) /\ 145 \notin R(149) /\ 146 \notin R(149)
          /\ 147 \notin R(149) /\ 148 \in R(149) /\ 149 \in R(149)
      BY <2>1, <2>2, FarBitsOfA
    <3> QED  BY <2>2, <3>1, SMTT(20) DEF LastBits
  <2>5. 0 \in s_buff[n - 1]
    <3>1. 143 \in S(149)
      BY <2>1, <2>3, FarBitOfB
    <3> QED  BY <2>3, <3>1 DEF LastBits
  <2>6. 0 \notin BD!b
    BY DEF BD!b
  <2> QED  BY <2>2, <2>4, <2>5, <2>6, IsB DEF LastBits
<1>6. n = 599 => n - 1 = 598
  OBVIOUS
<1> HIDE DEF R, S
<1> QED  BY <1>2, <1>3, <1>4, <1>5, <1>6 DEF BD!LastOctets

\* For every length: the register never runs empty and keeps to its 23 bits, the patterns
\* of 'a' and 'b' differ in every whole word, and the last octets of the measured lengths
\* are the ones on which polling for the last octet depends (lfsr23, InitBufferData).
THEOREM PatternsTold == Spec => []PatternsDiffer
<1>1. PatternInv => PatternsDiffer
  <2> SUFFICES ASSUME PatternOk, built = "pattern"
               PROVE  BD!TypeOK /\ BD!RegisterAlive /\ BD!WordsDiffer /\ BD!LastOctets
    BY DEF PatternInv, PatternsDiffer
  <2>1. BD!TypeOK
    BY DEF PatternOk, PatternTypes, Alive, BD!TypeOK
  <2>2. BD!RegisterAlive
    BY DEF PatternOk, PatternTypes, Alive, BD!RegisterAlive
  <2>3. BD!WordsDiffer
    BY OctetDiffers DEF PatternOk, PatternTypes, BD!WordsDiffer
  <2>4. BD!LastOctets
    BY OctetsAre DEF BD!LastOctets
  <2> QED  BY <2>1, <2>2, <2>3, <2>4
<1> QED  BY <1>1, PatternStarts, PatternInductive, PTL DEF Spec
=============================================================================
