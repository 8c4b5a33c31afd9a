-------------------------- MODULE InfinibandProofs --------------------------
(***************************************************************************)
(* Machine-checked proofs about Infiniband: how ibv.c and ib.c bring up a   *)
(* queue pair and take it down again, whichever side takes itself for the   *)
(* client; what both modules do is proved once.  Then the measurements over *)
(* ibv.c: no message is taken before it has arrived, and no write aims at a *)
(* buffer that is gone, whatever room the send queue has.                   *)
(***************************************************************************)
EXTENDS Infiniband, SequenceTheorems, FiniteSetTheorems, TLAPS

-----------------------------------------------------------------------------
(* The inductive invariant of the set-up *)

Octet == {"lid", "qpn", "sync", "quit", "rpt", "addr"}
Objects == {"ctx", "pd", "scq", "rcq", "qp", "rmr", "smr"}
States == {"none", "RESET", "INIT", "RTR", "RTS"}

\* Before a process has written its address.
Early == {"client", "server", "accept", "create", "tell"}
\* Before a process has read any of the peer's.
First == Early \cup {"readLid"}
\* After a process has read the peer's address.
Knowing == {"INIT", "RTR", "syncWrite", "syncRead", "RTS", "ready", "malloc",
            "addrWrite", "addrRead", "running"}
\* After the Sync inside initIB.
Synced == {"RTS", "ready", "malloc", "addrWrite", "addrRead", "running"}
Told == {"readLid", "readQpn"} \cup Knowing
Ending == {"quit", "answer", "close", "finalize", "exit"}

SetupTypes ==
    /\ pc \in [Proc -> VS!Labels]
    /\ up \in {"closed", "listening", "connected"}
    /\ open \in [Proc -> BOOLEAN]
    /\ chan \in [Proc -> Seq(Octet)]
    /\ held \in [Proc -> SUBSET Objects]
    /\ qp \in [Proc -> States]
    /\ dest \in [Proc -> Seq(Octet)]
    /\ failed \in [Proc -> VS!Labels \cup {"no"}]

\* q will write nothing more.
Silent(q) == pc[q] \in {"close", "finalize", "exit"} \/ (q = "tr" /\ pc[q] = "answer")

\* q's queue pair can receive, or q has given up.
Ready(q) == qp[q] \in {"RTR", "RTS"} \/ pc[q] \in {"finalize", "exit"}

\* What the variables of one process say of each other.
Local(p) ==
    /\ pc[p] \notin {"finalize", "exit"} => open[p]
    /\ pc[p] \in First \cup {"readQpn", "INIT"} => qp[p] \in {"none", "RESET"}
    /\ pc[p] \in {"syncWrite", "syncRead"} => qp[p] \in {"RTR", "RTS"}
    /\ pc[p] \in Synced \ {"RTS"} => qp[p] = "RTS"
    /\ pc[p] \in Knowing \/ qp[p] \in {"INIT", "RTR", "RTS"} => dest[p] = VS!Address
    /\ pc[p] \in {"client", "server", "accept", "create"} => "qp" \notin held[p]
    /\ failed[p] # "no" => pc[p] \in Ending
    /\ failed[p] # "no" /\ pc[p] = "exit" => held[p] = {}

HasAddress(c) ==
    /\ Len(c) >= 6 /\ c[1] = "lid" /\ c[2] = "lid"
    /\ c[3] = "qpn" /\ c[4] = "qpn" /\ c[5] = "qpn" /\ c[6] = "qpn"

HasNumber(c) ==
    Len(c) >= 4 /\ c[1] = "qpn" /\ c[2] = "qpn" /\ c[3] = "qpn" /\ c[4] = "qpn"

\* What is on its way to p, for each place p and its peer can be in.  A stream that
\* does not begin with the peer's address ends before two reads could be satisfied.
Stream(p) ==
    LET q == VS!Peer(p)
        c == chan[p]
    IN /\ (\E i \in 1..Len(c) : c[i] = "sync") => Ready(q)
       /\ pc[p] \in Synced \/ qp[p] = "RTS" => Ready(q)
       /\ pc[p] \in First =>
             /\ dest[p] = <<>>
             /\ \/ Len(c) = 0 /\ pc[q] \notin Told
                \/ HasAddress(c)
                \/ Silent(q) /\ Len(c) <= 5
       /\ pc[p] = "readQpn" =>
             \/ dest[p] = <<"lid", "lid">> /\ HasNumber(c)
             \/ Silent(q) /\ Len(c) <= 3

SetupInv ==
    phase = "setup" =>
        /\ stack \in {"ibv", "vapi"}
        /\ SetupTypes
        /\ \A p \in Proc : Local(p) /\ Stream(p)

-----------------------------------------------------------------------------
(* One kind of step for both modules *)

\* Setup and establish of both sides (Listen, Connect and Accept of IbvSetup).
Establish(p) ==
    /\ \/ pc[p] = "server" /\ pc' = [pc EXCEPT ![p] = "accept"]
       \/ pc[p] \in {"client", "accept"} /\ pc' = [pc EXCEPT ![p] = "create"]
    /\ up' \in {"closed", "listening", "connected"}
    /\ UNCHANGED <<open, chan, held, qp, dest, failed>>

\* A call of initIB fails.
Fails(p) ==
    /\ VS!GiveUp(p)
    /\ pc[p] \in {"create", "tell", "INIT", "RTR", "RTS"}
    /\ UNCHANGED <<up, open, chan, held, qp, dest>>

\* The buffers are registered, after which only ibv.c exchanges their addresses.
Register(p) ==
    /\ pc[p] = "malloc"
    /\ \E l \in {"addrWrite", "syncWrite"} : pc' = [pc EXCEPT ![p] = l]
    /\ held' = [held EXCEPT ![p] = @ \cup VS!Regions]
    /\ UNCHANGED <<up, open, chan, qp, dest, failed>>

\* The process ends in the first call of run_iters.
Ends(p) ==
    /\ pc[p] \in {"syncRead", "ready", "malloc", "addrRead"} /\ VS!Exit(p)
    /\ UNCHANGED <<up, held, qp, dest, failed>>

\* finalizeIB has found nothing in use.
Finalize(p) ==
    /\ VS!Goto(p, "finalize", "exit")
    /\ held' = [held EXCEPT ![p] = {}]
    /\ qp' = [qp EXCEPT ![p] = "none"]
    /\ UNCHANGED <<up, open, chan, dest, failed>>

Socket(p) ==
    \/ VS!Tell(p) \/ VS!ReadPeer(p) \/ VS!SyncWrite(p) \/ VS!SyncRead(p) \/ VS!FirstRepeats(p)
    \/ VS!AfterAlignmentInit(p)

AnyStep(p) ==
    \/ VS!SetupFails(p) \/ Establish(p) \/ VS!Create(p) \/ Fails(p) \/ VS!ModifyQP(p)
    \/ Register(p) \/ Ends(p) \/ Socket(p)
    \/ VS!QuitWrite(p) \/ VS!QuitRead(p) \/ VS!Close(p) \/ Finalize(p)

\* What destroying the objects in the order of finalizeIB leaves: nothing, because no
\* object is destroyed before those that are built on it.
Destroying(f, order, objects) ==
    f = [i \in 0..Len(order) |->
           IF i = 0 THEN objects
           ELSE IF \E r \in f[i - 1] : order[i] \in VS!BuiltOn(r) THEN f[i - 1]
                ELSE f[i - 1] \ {order[i]}]

LEMMA BuiltOnFacts ==
    ASSUME NEW r \in Objects
    PROVE  /\ r = "ctx" => VS!BuiltOn(r) = {}
           /\ r = "pd" => VS!BuiltOn(r) = {"ctx"}
           /\ r \in {"scq", "rcq"} => VS!BuiltOn(r) = {"ctx"}
           /\ r = "qp" => VS!BuiltOn(r) = {"pd", "scq", "rcq"}
           /\ r \in {"smr", "rmr"} => VS!BuiltOn(r) = {"pd"}
  BY DEF VS!BuiltOn, VS!Regions, Objects

\* An order that takes every object before what it is built on leaves what it does
\* not name.
Bottom(order, n, objects) ==
    \A i \in 1..n : \A r \in objects :
        order[i] \in VS!BuiltOn(r) => \E j \in 1..(i - 1) : r = order[j]

Emptying(f, order, n, objects) ==
    /\ f[0] = objects
    /\ \A i \in 1..n : (\A j \in 1..(i - 1) : order[j] \notin f[i - 1]) /\ f[i - 1] \subseteq objects
                          => f[i] = f[i - 1] \ {order[i]}

LEMMA InOrder ==
    ASSUME NEW order, NEW n \in Nat, Len(order) = n, NEW objects, Bottom(order, n, objects)
    PROVE  /\ \E f : Destroying(f, order, objects)
           /\ \A f : Destroying(f, order, objects) => Emptying(f, order, n, objects)
<1> DEFINE D(k) == {order[j] : j \in 1..k}
           g == [i \in 0..n |-> objects \ D(i)]
<1>1. Destroying(g, order, objects)
  <2>1. g[0] = objects
    OBVIOUS
  <2>2. ASSUME NEW i \in 0..n, i # 0
        PROVE  /\ ~ \E r \in g[i - 1] : order[i] \in VS!BuiltOn(r)
               /\ g[i] = g[i - 1] \ {order[i]}
    <3>1. i \in 1..n /\ i - 1 \in 0..n
      BY <2>2
    <3>2. D(i) = D(i - 1) \cup {order[i]}
      <4>1. 1..i = (1..(i - 1)) \cup {i}
        BY <3>1
      <4> QED  BY <4>1
    <3>3. g[i] = objects \ D(i) /\ g[i - 1] = objects \ D(i - 1)
      BY <3>1
    <3> HIDE DEF g
    <3>4. g[i] = g[i - 1] \ {order[i]}
      BY <3>2, <3>3
    <3>5. ASSUME NEW r \in g[i - 1], order[i] \in VS!BuiltOn(r) PROVE FALSE
      <4>1. r \in objects /\ r \notin D(i - 1)
        BY <3>3, <3>5
      <4> QED  BY <3>1, <3>5, <4>1 DEF Bottom
    <3> QED  BY <3>4, <3>5
  <2> HIDE DEF D
  <2>3. \A i \in 0..n : g[i] = IF i = 0 THEN objects
                               ELSE IF \E r \in g[i - 1] : order[i] \in VS!BuiltOn(r) THEN g[i - 1]
                               ELSE g[i - 1] \ {order[i]}
    BY <2>1, <2>2
  <2>4. g = [i \in 0..n |-> g[i]]
    OBVIOUS
  <2> HIDE DEF g
  <2> QED  BY <2>3, <2>4 DEF Destroying
<1>2. ASSUME NEW f, Destroying(f, order, objects)
      PROVE  f[0] = objects
  BY <1>2 DEF Destroying
<1>3. ASSUME NEW f, Destroying(f, order, objects), NEW i \in 1..n,
             \A j \in 1..(i - 1) : order[j] \notin f[i - 1], f[i - 1] \subseteq objects
      PROVE  f[i] = f[i - 1] \ {order[i]}
  <2>1. i \in 0..n /\ i # 0
    OBVIOUS
  <2>2. f[i] = IF \E r \in f[i - 1] : order[i] \in VS!BuiltOn(r) THEN f[i - 1] ELSE f[i - 1] \ {order[i]}
    BY <1>3, <2>1 DEF Destroying
  <2>3. ~ \E r \in f[i - 1] : order[i] \in VS!BuiltOn(r)
    BY <1>3 DEF Bottom
  <2> QED  BY <2>2, <2>3
<1> QED  BY <1>1, <1>2, <1>3 DEF Emptying

LEMMA DestroysAll ==
    ASSUME NEW objects \in SUBSET Objects
    PROVE  VS!Remaining(VS!Destroyed, objects) = {} /\ IS!V!Remaining(IS!V!Destroyed, objects) = {}
<1> DEFINE order == <<"qp", "rcq", "scq", "smr", "rmr", "pd", "ctx">>
<1>1. VS!Destroyed = order /\ IS!V!Destroyed = order /\ Len(order) = 7
  BY DEF VS!Destroyed, IS!V!Destroyed
<1>2. /\ VS!Remaining(order, objects) = (CHOOSE f : Destroying(f, order, objects))[Len(order)]
      /\ IS!V!Remaining(order, objects) = (CHOOSE f : Destroying(f, order, objects))[Len(order)]
  <2>1. \A r : IS!V!BuiltOn(r) = VS!BuiltOn(r)
    BY DEF IS!V!BuiltOn, VS!BuiltOn, IS!V!Regions, VS!Regions
  <2> HIDE DEF order
  <2> QED  BY <2>1 DEF VS!Remaining, IS!V!Remaining, Destroying
<1>3. /\ order[1] = "qp" /\ order[2] = "rcq" /\ order[3] = "scq" /\ order[4] = "smr"
      /\ order[5] = "rmr" /\ order[6] = "pd" /\ order[7] = "ctx"
  OBVIOUS
<1> HIDE DEF order
<1>4. ASSUME NEW i \in 1..7, NEW r \in objects, order[i] \in VS!BuiltOn(r)
      PROVE  \E j \in 1..(i - 1) : r = order[j]
  <2>1. r \in Objects
    OBVIOUS
  <2>2. CASE i \in {1, 4, 5}
    BY <1>3, <1>4, <2>1, <2>2, BuiltOnFacts DEF Objects
  <2>3. CASE i \in {2, 3}
    <3>1. r = "qp"
      BY <1>3, <1>4, <2>1, <2>3, BuiltOnFacts DEF Objects
    <3> QED  BY <1>3, <2>3, <3>1
  <2>4. CASE i = 6
    <3>1. r \in {"qp", "smr", "rmr"}
      BY <1>3, <1>4, <2>1, <2>4, BuiltOnFacts DEF Objects
    <3> QED  BY <1>3, <2>4, <3>1
  <2>5. CASE i = 7
    <3>1. r \in {"pd", "scq", "rcq"}
      BY <1>3, <1>4, <2>1, <2>5, BuiltOnFacts DEF Objects
    <3> QED  BY <1>3, <2>5, <3>1
  <2> QED  BY <2>2, <2>3, <2>4, <2>5
<1>5. Bottom(order, 7, objects)
  BY <1>4 DEF Bottom
<1>6. /\ \E f : Destroying(f, order, objects)
      /\ \A f : Destroying(f, order, objects) => Emptying(f, order, 7, objects)
  BY <1>1, <1>5, InOrder
<1>7. ASSUME NEW f, Destroying(f, order, objects) PROVE f[7] = {}
  <2>1. f[0] = objects
    BY <1>6, <1>7 DEF Emptying
  <2>2. \A i \in 1..7 : (\A j \in 1..(i - 1) : order[j] \notin f[i - 1]) /\ f[i - 1] \subseteq objects
                           => f[i] = f[i - 1] \ {order[i]}
    BY <1>6, <1>7 DEF Emptying
  <2>3. f[1] = objects \ {"qp"}
    BY <1>3, <2>1, <2>2
  <2>4. f[2] = objects \ {"qp", "rcq"}
    BY <1>3, <2>2, <2>3
  <2>5. f[3] = objects \ {"qp", "rcq", "scq"}
    BY <1>3, <2>2, <2>4
  <2>6. f[4] = objects \ {"qp", "rcq", "scq", "smr"}
    BY <1>3, <2>2, <2>5
  <2>7. f[5] = objects \ {"qp", "rcq", "scq", "smr", "rmr"}
    BY <1>3, <2>2, <2>6
  <2>8. f[6] = objects \ {"qp", "rcq", "scq", "smr", "rmr", "pd"}
    BY <1>3, <2>2, <2>7
  <2>9. f[7] = objects \ {"qp", "rcq", "scq", "smr", "rmr", "pd", "ctx"}
    BY <1>3, <2>2, <2>8
  <2> QED  BY <2>9 DEF Objects
<1> QED  BY <1>1, <1>2, <1>6, <1>7

\* Every step of Setup, run_iters or CleanUp is of one of these kinds.
LEMMA IbvKinds ==
    ASSUME SetupInv, phase = "setup", stack = "ibv", NEW p \in Proc, VS!Step(p)
    PROVE  AnyStep(p)
<1>1. VS!Listen(p) => Establish(p)
  BY DEF VS!Listen, VS!Goto, Establish, SetupInv, SetupTypes
<1>8. VS!Accept => Establish("rcv")
  BY DEF VS!Accept, VS!Goto, Establish, SetupInv, SetupTypes
<1>2. VS!Connect => Establish("tr")
  BY DEF VS!Connect, VS!Goto, Establish
<1>3. VS!InitIBFails(p) => Fails(p)
  BY DEF VS!InitIBFails, Fails
<1>4. VS!MyMalloc(p) => Register(p) \/ Ends(p)
  BY DEF VS!MyMalloc, Register, Ends
<1>5. VS!finalizeIB(p) => Finalize(p)
  <2>1. held[p] \in SUBSET Objects
    BY DEF SetupInv, SetupTypes
  <2> QED  BY <2>1, DestroysAll DEF VS!finalizeIB, Finalize
<1> QED
  BY <1>1, <1>2, <1>3, <1>4, <1>5, <1>8
     DEF VS!Step, VS!InitIB, VS!FirstCall, VS!CleanUp, AnyStep, Socket

LEMMA VapiKinds ==
    ASSUME SetupInv, phase = "setup", stack = "vapi", NEW p \in Proc, IS!Step(p)
    PROVE  AnyStep(p)
<1>1. SetupTypes
  BY DEF SetupInv
<1>2. IS!V!Listen(p) => Establish(p)
  BY <1>1 DEF IS!V!Listen, IS!V!Goto, Establish, SetupTypes
<1>16. IS!V!Accept => Establish("rcv")
  BY <1>1 DEF IS!V!Accept, IS!V!Goto, Establish, SetupTypes
<1>3. IS!V!Connect => Establish("tr")
  BY DEF IS!V!Connect, IS!V!Goto, Establish
<1>4. IS!V!InitIBFails(p) => Fails(p)
  BY DEF IS!V!InitIBFails, Fails, IS!V!GiveUp, VS!GiveUp
<1>6. IS!V!finalizeIB(p) => Finalize(p)
  <2>1. held[p] \in SUBSET Objects
    BY <1>1 DEF SetupTypes
  <2> QED  BY <2>1, DestroysAll DEF IS!V!finalizeIB, Finalize, IS!V!Goto, VS!Goto
<1>7. IS!V!SetupFails(p) => VS!SetupFails(p)
  BY DEF IS!V!SetupFails, VS!SetupFails, IS!V!Exit, VS!Exit, IS!V!CloseComm, VS!CloseComm, IS!V!Peer, VS!Peer
<1>8. IS!V!Create(p) => VS!Create(p)
  BY DEF IS!V!Create, VS!Create, IS!V!Created, VS!Created
<1>9. IS!V!Tell(p) => VS!Tell(p)
  BY DEF IS!V!Tell, VS!Tell, IS!V!Goto, VS!Goto, IS!V!Written, VS!Written, IS!V!Peer, VS!Peer,
         IS!V!Address, VS!Address, IS!V!Octets, VS!Octets
<1>10. IS!V!ReadPeer(p) => VS!ReadPeer(p)
  BY DEF IS!V!ReadPeer, VS!ReadPeer, IS!V!ReadExactly, VS!ReadExactly, IS!V!GiveUp, VS!GiveUp,
         IS!V!Left, VS!Left, IS!V!Peer, VS!Peer
<1>11. IS!V!ModifyQP(p) => VS!ModifyQP(p)
  BY DEF IS!V!ModifyQP, VS!ModifyQP
<1>12. IS!V!SyncWrite(p) => VS!SyncWrite(p)
  BY DEF IS!V!SyncWrite, VS!SyncWrite, IS!V!Goto, VS!Goto, IS!V!Written, VS!Written, IS!V!Peer, VS!Peer,
         IS!V!SyncStr, VS!SyncStr, IS!V!Octets, VS!Octets
<1>13. IS!V!SyncRead(p) => VS!SyncRead(p)
  BY DEF IS!V!SyncRead, VS!SyncRead, IS!V!AfterSync, VS!AfterSync, IS!V!Exit, VS!Exit,
         IS!V!CloseComm, VS!CloseComm, IS!V!Peer, VS!Peer, IS!V!SyncStr, VS!SyncStr, IS!V!Octets, VS!Octets,
         IS!V!Left, VS!Left
<1>14. IS!V!FirstRepeats(p) => VS!FirstRepeats(p)
  BY DEF IS!V!FirstRepeats, VS!FirstRepeats, IS!V!Exit, VS!Exit, IS!V!CloseComm, VS!CloseComm,
         IS!V!Written, VS!Written, IS!V!Peer, VS!Peer, IS!V!Repeats, VS!Repeats, IS!V!Octets, VS!Octets
<1>15. IS!V!MyMalloc(p) => Register(p) \/ Ends(p)
  BY DEF IS!V!MyMalloc, Register, Ends, IS!V!Exit, VS!Exit, IS!V!CloseComm, VS!CloseComm,
         IS!V!Peer, VS!Peer, IS!V!Regions, VS!Regions
<1>17. IS!V!QuitWrite(p) => VS!QuitWrite(p)
  BY DEF IS!V!QuitWrite, VS!QuitWrite, IS!V!Written, VS!Written, IS!V!Peer, VS!Peer,
         IS!V!Quit, VS!Quit, IS!V!Octets, VS!Octets
<1>18. IS!V!QuitRead(p) => VS!QuitRead(p)
  BY DEF IS!V!QuitRead, VS!QuitRead, IS!V!Left, VS!Left, IS!V!Peer, VS!Peer
<1>19. IS!V!Close(p) => VS!Close(p)
  BY DEF IS!V!Close, VS!Close, IS!V!Goto, VS!Goto, IS!V!CloseComm, VS!CloseComm, IS!V!Peer, VS!Peer
<1> QED
  BY <1>2, <1>3, <1>4, <1>6, <1>7, <1>8, <1>9, <1>10, <1>11, <1>12, <1>13, <1>14, <1>15, <1>16,
     <1>17, <1>18, <1>19
     DEF IS!Step, IS!SetupFails, IS!establish, IS!Create, IS!InitIBFails, IS!ExchangeAddress,
         IS!ModifyQP, IS!Sync, IS!FirstRepeats, IS!MyMalloc,
         IS!CleanUp, IS!finalizeIB, AnyStep, Socket

-----------------------------------------------------------------------------
(* Streams *)

LEMMA PeerFacts ==
    ASSUME NEW p \in Proc
    PROVE  /\ VS!Peer(p) \in Proc /\ VS!Peer(p) # p /\ VS!Peer(VS!Peer(p)) = p
           /\ \A x \in Proc : x = p \/ x = VS!Peer(p)
  BY DEF Proc, VS!Peer

LEMMA OctetsFacts ==
    ASSUME NEW w \in Octet, NEW n \in Nat
    PROVE  /\ VS!Octets(w, n) \in Seq(Octet) /\ Len(VS!Octets(w, n)) = n
           /\ \A i \in 1..n : VS!Octets(w, n)[i] = w
<1> HIDE DEF Octet
<1> QED  BY DEF VS!Octets

LEMMA AddressFacts ==
    /\ VS!Address \in Seq(Octet) /\ Len(VS!Address) = 6 /\ HasAddress(VS!Address)
    /\ \A i \in 1..6 : VS!Address[i] # "sync"
<1> DEFINE a == VS!Octets("lid", 2)
           b == VS!Octets("qpn", 4)
<1>1. "lid" \in Octet /\ "qpn" \in Octet
  BY DEF Octet
<1>2. a \in Seq(Octet) /\ Len(a) = 2 /\ \A i \in 1..2 : a[i] = "lid"
  BY <1>1, OctetsFacts
<1>3. b \in Seq(Octet) /\ Len(b) = 4 /\ \A i \in 1..4 : b[i] = "qpn"
  BY <1>1, OctetsFacts
<1> HIDE DEF a, b
<1>4. /\ a \o b \in Seq(Octet) /\ Len(a \o b) = 6
      /\ \A i \in 1..6 : (a \o b)[i] = IF i <= 2 THEN a[i] ELSE b[i - 2]
  <2>1. /\ a \o b \in Seq(Octet) /\ Len(a \o b) = Len(a) + Len(b)
        /\ \A i \in 1..(Len(a) + Len(b)) : (a \o b)[i] = IF i <= Len(a) THEN a[i] ELSE b[i - Len(a)]
    BY <1>2, <1>3, ConcatProperties, ZenonT(40)
  <2> QED  BY <1>2, <1>3, <2>1
<1>5. ASSUME NEW i \in 1..6 PROVE (a \o b)[i] = IF i <= 2 THEN "lid" ELSE "qpn"
  <2>1. (i <= 2 => i \in 1..2) /\ (~(i <= 2) => i - 2 \in 1..4)
    OBVIOUS
  <2> QED  BY <1>2, <1>3, <1>4, <2>1
<1>6. VS!Address = a \o b
  BY DEF VS!Address, a, b
<1>7. HasAddress(a \o b)
  BY <1>4, <1>5 DEF HasAddress
<1>8. \A i \in 1..6 : (a \o b)[i] # "sync"
  BY <1>5
<1> QED  BY <1>4, <1>6, <1>7, <1>8

LEMMA MessageFacts ==
    /\ VS!SyncStr \in Seq(Octet) /\ Len(VS!SyncStr) = 6 /\ \A i \in 1..6 : VS!SyncStr[i] = "sync"
    /\ VS!Quit \in Seq(Octet) /\ Len(VS!Quit) = 5 /\ \A i \in 1..5 : VS!Quit[i] = "quit"
    /\ VS!Repeats \in Seq(Octet) /\ Len(VS!Repeats) = 8 /\ \A i \in 1..8 : VS!Repeats[i] = "rpt"
    /\ VS!BufferAddress \in Seq(Octet) /\ Len(VS!BufferAddress) = 12
    /\ \A i \in 1..12 : VS!BufferAddress[i] = "addr"
<1>1. "sync" \in Octet /\ "quit" \in Octet /\ "rpt" \in Octet /\ "addr" \in Octet
  BY DEF Octet
<1>2. 6 \in Nat /\ 5 \in Nat /\ 8 \in Nat /\ 12 \in Nat
  OBVIOUS
<1> HIDE DEF Octet
<1>3. VS!SyncStr \in Seq(Octet) /\ Len(VS!SyncStr) = 6 /\ \A i \in 1..6 : VS!SyncStr[i] = "sync"
  BY <1>1, <1>2, OctetsFacts DEF VS!SyncStr
<1>4. VS!Quit \in Seq(Octet) /\ Len(VS!Quit) = 5 /\ \A i \in 1..5 : VS!Quit[i] = "quit"
  BY <1>1, <1>2, OctetsFacts DEF VS!Quit
<1>5. VS!Repeats \in Seq(Octet) /\ Len(VS!Repeats) = 8 /\ \A i \in 1..8 : VS!Repeats[i] = "rpt"
  BY <1>1, <1>2, OctetsFacts DEF VS!Repeats
<1>6. /\ VS!BufferAddress \in Seq(Octet) /\ Len(VS!BufferAddress) = 12
      /\ \A i \in 1..12 : VS!BufferAddress[i] = "addr"
  BY <1>1, <1>2, OctetsFacts DEF VS!BufferAddress
<1> QED  BY <1>3, <1>4, <1>5, <1>6

LEMMA Joined ==
    ASSUME NEW c \in Seq(Octet), NEW w \in Seq(Octet)
    PROVE  /\ c \o w \in Seq(Octet) /\ Len(c \o w) = Len(c) + Len(w)
           /\ \A i \in 1..Len(c) : (c \o w)[i] = c[i]
           /\ \A i \in 1..Len(w) : (c \o w)[Len(c) + i] = w[i]
           /\ Len(c) = 0 => c \o w = w
           /\ \A i \in 1..(Len(c) + Len(w)) : (c \o w)[i] = "sync" =>
                 (\E k \in 1..Len(c) : c[k] = "sync") \/ (\E k \in 1..Len(w) : w[k] = "sync")
<1> HIDE DEF Octet
<1>1. /\ c \o w \in Seq(Octet) /\ Len(c \o w) = Len(c) + Len(w)
      /\ \A i \in 1..(Len(c) + Len(w)) : (c \o w)[i] = IF i <= Len(c) THEN c[i] ELSE w[i - Len(c)]
  BY ConcatProperties
<1>2. Len(c) \in Nat /\ Len(w) \in Nat
  OBVIOUS
<1>3. Len(c) = 0 => c \o w = w
  <2>1. Len(c) = 0 => c = <<>>
    OBVIOUS
  <2> QED  BY <2>1, ConcatEmptySeq
<1> DEFINE u == c \o w
<1> HIDE DEF u
<1>4. \A i \in 1..Len(c) : u[i] = c[i]
  <2>1. \A i \in 1..Len(c) : i \in 1..(Len(c) + Len(w)) /\ i <= Len(c)
    BY <1>2
  <2> QED  BY <1>1, <2>1 DEF u
<1>5. \A i \in 1..Len(w) : u[Len(c) + i] = w[i]
  <2>1. \A i \in 1..Len(w) : Len(c) + i \in 1..(Len(c) + Len(w)) /\ ~(Len(c) + i <= Len(c)) /\ (Len(c) + i) - Len(c) = i
    BY <1>2
  <2> QED  BY <1>1, <2>1 DEF u
<1>6. ASSUME NEW i \in 1..(Len(c) + Len(w)), u[i] = "sync"
      PROVE  (\E k \in 1..Len(c) : c[k] = "sync") \/ (\E k \in 1..Len(w) : w[k] = "sync")
  <2>1. CASE i <= Len(c)
    <3>1. i \in 1..Len(c)
      BY <1>2, <2>1
    <3> QED  BY <1>4, <1>6, <3>1
  <2>2. CASE ~(i <= Len(c))
    <3>1. i - Len(c) \in 1..Len(w)
      BY <1>2, <2>2
    <3>2. u[i] = w[i - Len(c)]
      BY <1>1, <2>2 DEF u
    <3> QED  BY <1>6, <3>1, <3>2
  <2> QED  BY <2>1, <2>2
<1> QED  BY <1>1, <1>3, <1>4, <1>5, <1>6 DEF u

LEMMA Taken ==
    ASSUME NEW c \in Seq(Octet), NEW k \in 0..Len(c)
    PROVE  LET r == SubSeq(c, k + 1, Len(c))
               h == SubSeq(c, 1, k)
           IN /\ r \in Seq(Octet) /\ Len(r) = Len(c) - k /\ \A i \in 1..(Len(c) - k) : r[i] = c[i + k]
              /\ h \in Seq(Octet) /\ Len(h) = k /\ \A i \in 1..k : h[i] = c[i]
<1> HIDE DEF Octet
<1> QED  OBVIOUS

-----------------------------------------------------------------------------
(* What a step of p does to the two streams *)

\* p alone takes a step.
Others(p) ==
    LET q == VS!Peer(p)
    IN /\ stack' = stack /\ phase' = phase
       /\ pc'[q] = pc[q] /\ open'[q] = open[q] /\ held'[q] = held[q]
       /\ qp'[q] = qp[q] /\ dest'[q] = dest[q] /\ failed'[q] = failed[q]

LEMMA Together ==
    ASSUME SetupInv, phase = "setup", NEW p \in Proc, Others(p), SetupTypes',
           Local(p)', Stream(p)', Stream(VS!Peer(p))'
    PROVE  SetupInv'
<1>1. Local(VS!Peer(p))'
  BY PeerFacts DEF SetupInv, Local, Others
<1> QED  BY <1>1, PeerFacts DEF SetupInv, Others

\* Nothing is written.
LEMMA Unread ==
    ASSUME NEW p \in Proc, Others(p), NEW q, q = VS!Peer(p), Stream(q), chan'[q] = chan[q],
           pc'[p] \in Told /\ pc[q] \in First => pc[p] \in Told,
           Silent(p) => Silent(p)', Ready(p) => Ready(p)'
    PROVE  Stream(q)'
<1>1. VS!Peer(q) = p /\ pc'[q] = pc[q] /\ dest'[q] = dest[q] /\ qp'[q] = qp[q]
  BY PeerFacts DEF Others
<1> QED  BY <1>1 DEF Stream

\* p closes the connection.
LEMMA CutOff ==
    ASSUME NEW p \in Proc, Others(p), NEW q, q = VS!Peer(p), Stream(q), chan[q] \in Seq(Octet),
           NEW k \in 0..Len(chan[q]), chan'[q] = SubSeq(chan[q], 1, k), pc'[p] \in {"finalize", "exit"}
    PROVE  Stream(q)'
<1>1. VS!Peer(q) = p /\ pc'[q] = pc[q] /\ dest'[q] = dest[q] /\ qp'[q] = qp[q]
  BY PeerFacts DEF Others
<1>2. Ready(p)' /\ Silent(p)'
  BY DEF Ready, Silent
<1>3. /\ Len(chan[q]) \in Nat /\ k \in Nat /\ k <= Len(chan[q])
      /\ Len(chan'[q]) = k /\ \A i \in 1..k : chan'[q][i] = chan[q][i]
  BY Taken
<1>4. pc[q] \in First => (HasAddress(chan'[q]) \/ Len(chan'[q]) <= 5)
  <2>1. ASSUME HasAddress(chan[q]), k > 5 PROVE HasAddress(chan'[q])
    <3>1. 1 \in 1..k /\ 2 \in 1..k /\ 3 \in 1..k /\ 4 \in 1..k /\ 5 \in 1..k /\ 6 \in 1..k
      BY <1>3, <2>1
    <3> QED  BY <1>3, <2>1, <3>1 DEF HasAddress
  <2> QED  BY <1>3, <2>1 DEF Stream
<1>5. pc[q] = "readQpn" => \/ dest[q] = <<"lid", "lid">> /\ HasNumber(chan'[q])
                           \/ Len(chan'[q]) <= 3
  <2>1. ASSUME HasNumber(chan[q]), k > 3 PROVE HasNumber(chan'[q])
    <3>1. 1 \in 1..k /\ 2 \in 1..k /\ 3 \in 1..k /\ 4 \in 1..k
      BY <1>3, <2>1
    <3> QED  BY <1>3, <2>1, <3>1 DEF HasNumber
  <2> QED  BY <1>3, <2>1 DEF Stream
<1>6. pc[q] \in First => dest[q] = <<>>
  BY DEF Stream
<1> QED  BY <1>1, <1>2, <1>4, <1>5, <1>6 DEF Stream

\* p writes w.
LEMMA Sent ==
    ASSUME NEW p \in Proc, Others(p), NEW q, q = VS!Peer(p), Stream(q), chan[q] \in Seq(Octet),
           NEW w \in Seq(Octet), chan'[q] = chan[q] \o w, ~Silent(p),
           Ready(p) \/ (\E i \in 1..Len(w) : w[i] = "sync") => Ready(p)',
           pc[p] \in Told \/ HasAddress(w) \/ (Len(w) <= 5 /\ Silent(p)')
    PROVE  Stream(q)'
<1>1. VS!Peer(q) = p /\ pc'[q] = pc[q] /\ dest'[q] = dest[q] /\ qp'[q] = qp[q]
  BY PeerFacts DEF Others
<1>2. /\ Len(chan[q]) \in Nat /\ Len(w) \in Nat
      /\ Len(chan'[q]) = Len(chan[q]) + Len(w) /\ \A i \in 1..Len(chan[q]) : chan'[q][i] = chan[q][i]
      /\ Len(chan[q]) = 0 => chan'[q] = w
  BY Joined
<1>3. (\E i \in 1..Len(chan'[q]) : chan'[q][i] = "sync") => Ready(p)'
  <2>1. ASSUME NEW i \in 1..Len(chan'[q]), chan'[q][i] = "sync" PROVE Ready(p)'
    <3>1. (\E k \in 1..Len(chan[q]) : chan[q][k] = "sync") \/ (\E k \in 1..Len(w) : w[k] = "sync")
      BY <1>2, <2>1, Joined
    <3> QED  BY <1>1, <3>1 DEF Stream
  <2> QED  BY <2>1
<1>4. pc[q] \in Synced \/ qp[q] = "RTS" => Ready(p)'
  BY <1>1 DEF Stream
<1>5. ASSUME pc[q] \in First
      PROVE  HasAddress(chan'[q]) \/ (Silent(p)' /\ Len(chan'[q]) <= 5)
  <2>1. CASE HasAddress(chan[q])
    <3>1. /\ 1 \in 1..Len(chan[q]) /\ 2 \in 1..Len(chan[q]) /\ 3 \in 1..Len(chan[q])
          /\ 4 \in 1..Len(chan[q]) /\ 5 \in 1..Len(chan[q]) /\ 6 \in 1..Len(chan[q])
      BY <1>2, <2>1, SMTT(30) DEF HasAddress
    <3> QED  BY <1>2, <2>1, <3>1 DEF HasAddress
  <2>2. CASE Len(chan[q]) = 0 /\ pc[p] \notin Told
    BY <1>2, <2>2
  <2> QED  BY <1>1, <1>5, <2>1, <2>2 DEF Stream
<1>6. ASSUME pc[q] = "readQpn"
      PROVE  dest[q] = <<"lid", "lid">> /\ HasNumber(chan'[q])
  <2>1. dest[q] = <<"lid", "lid">> /\ HasNumber(chan[q])
    BY <1>1, <1>6 DEF Stream
  <2>2. /\ 1 \in 1..Len(chan[q]) /\ 2 \in 1..Len(chan[q]) /\ 3 \in 1..Len(chan[q])
        /\ 4 \in 1..Len(chan[q])
    BY <1>2, <2>1 DEF HasNumber
  <2> QED  BY <1>2, <2>1, <2>2 DEF HasNumber
<1>7. pc[q] \in First => dest[q] = <<>>
  BY DEF Stream
<1> QED  BY <1>1, <1>3, <1>4, <1>5, <1>6, <1>7 DEF Stream

\* p goes on without a read.
LEMMA Unchanged ==
    ASSUME NEW p \in Proc, Others(p), Stream(p), chan'[p] = chan[p], dest'[p] = dest[p],
           pc'[p] \in First => pc[p] \in First, pc'[p] # "readQpn",
           pc'[p] \in Synced \/ qp'[p] = "RTS" => pc[p] \in Synced \/ qp[p] = "RTS"
    PROVE  Stream(p)'
<1>1. VS!Peer(p) # p /\ Ready(VS!Peer(p))' = Ready(VS!Peer(p)) /\ Silent(VS!Peer(p))' = Silent(VS!Peer(p))
      /\ pc'[VS!Peer(p)] = pc[VS!Peer(p)]
  BY PeerFacts DEF Others, Ready, Silent
<1> QED  BY <1>1 DEF Stream

\* p has read, and is past the peer's address or gives up.
LEMMA Consumed ==
    ASSUME NEW p \in Proc, Others(p), Stream(p), chan[p] \in Seq(Octet), NEW k \in 0..Len(chan[p]),
           chan'[p] = SubSeq(chan[p], k + 1, Len(chan[p])), pc'[p] \notin First \cup {"readQpn"},
           pc'[p] \in Synced \/ qp'[p] = "RTS" => pc[p] \in Synced \/ qp[p] = "RTS" \/ Ready(VS!Peer(p))
    PROVE  Stream(p)'
<1>1. Ready(VS!Peer(p))' = Ready(VS!Peer(p))
  BY DEF Others, Ready
<1>2. /\ Len(chan[p]) \in Nat /\ k \in Nat /\ k <= Len(chan[p])
      /\ Len(chan'[p]) = Len(chan[p]) - k /\ \A i \in 1..(Len(chan[p]) - k) : chan'[p][i] = chan[p][i + k]
  BY Taken
<1>3. (\E i \in 1..Len(chan'[p]) : chan'[p][i] = "sync") => \E i \in 1..Len(chan[p]) : chan[p][i] = "sync"
  <2>1. \A i \in 1..(Len(chan[p]) - k) : i + k \in 1..Len(chan[p])
    BY <1>2
  <2> QED  BY <1>2, <2>1
<1> QED  BY <1>1, <1>3 DEF Stream

\* p has closed the connection.
LEMMA Deaf ==
    ASSUME NEW p \in Proc, Others(p), Stream(p), chan'[p] = <<>>, qp'[p] = qp[p],
           pc'[p] \in {"finalize", "exit"}
    PROVE  Stream(p)'
<1>1. Ready(VS!Peer(p))' = Ready(VS!Peer(p))
  BY DEF Others, Ready
<1>2. Len(chan'[p]) = 0
  OBVIOUS
<1>3. ~ \E i \in 1..Len(chan'[p]) : chan'[p][i] = "sync"
  BY <1>2
<1> QED  BY <1>1, <1>3 DEF Stream, First, Early, Synced

-----------------------------------------------------------------------------
(* The steps *)

LEMMA Parts ==
    ASSUME SetupInv, phase = "setup", NEW p \in Proc
    PROVE  /\ SetupTypes /\ Local(p) /\ Stream(p) /\ Stream(VS!Peer(p))
           /\ pc[p] \in VS!Labels /\ qp[p] \in States /\ held[p] \in SUBSET Objects
           /\ chan[p] \in Seq(Octet) /\ chan[VS!Peer(p)] \in Seq(Octet) /\ dest[p] \in Seq(Octet)
           /\ failed[p] \in VS!Labels \cup {"no"}
<1>1. SetupTypes /\ Local(p) /\ Stream(p) /\ Stream(VS!Peer(p))
  BY PeerFacts DEF SetupInv
<1> QED  BY <1>1, PeerFacts DEF SetupTypes

\* A step of p that leaves the socket alone.
LEMMA QuietStep ==
    ASSUME SetupInv, phase = "setup", NEW p \in Proc, stack' = stack, phase' = phase,
           NEW l \in VS!Labels, NEW s \in States, NEW h \in SUBSET Objects,
           NEW e \in VS!Labels \cup {"no"},
           open' = open, chan' = chan, dest' = dest,
           up' \in {"closed", "listening", "connected"},
           pc' = [pc EXCEPT ![p] = l], qp' = [qp EXCEPT ![p] = s], held' = [held EXCEPT ![p] = h],
           failed' = [failed EXCEPT ![p] = e],
           l \in First => pc[p] \in First, l # "readQpn",
           l \in Synced \/ s = "RTS" => pc[p] \in Synced \/ qp[p] = "RTS",
           l \in Told => pc[p] \in Told,
           Silent(p) => l \in {"close", "finalize", "exit"} \/ (p = "tr" /\ l = "answer"),
           Ready(p) => s \in {"RTR", "RTS"} \/ l \in {"finalize", "exit"},
           Local(p)'
    PROVE  SetupInv'
<1>1. SetupTypes /\ Stream(p) /\ Stream(VS!Peer(p))
  BY Parts
<1>2. VS!Peer(p) # p /\ VS!Peer(p) \in Proc
  BY PeerFacts
<1>3. /\ pc'[p] = l /\ qp'[p] = s
      /\ pc'[VS!Peer(p)] = pc[VS!Peer(p)] /\ qp'[VS!Peer(p)] = qp[VS!Peer(p)]
      /\ held'[VS!Peer(p)] = held[VS!Peer(p)] /\ failed'[VS!Peer(p)] = failed[VS!Peer(p)]
  BY <1>1, <1>2 DEF SetupTypes
<1>4. Others(p)
  BY <1>2, <1>3 DEF Others
<1>5. SetupTypes'
  BY <1>1 DEF SetupTypes
<1>6. Stream(p)'
  BY <1>1, <1>3, <1>4, Unchanged
<1>7. Stream(VS!Peer(p))'
  BY <1>1, <1>3, <1>4, Unread DEF Silent, Ready
<1> QED  BY <1>4, <1>5, <1>6, <1>7, Together

LEMMA EstablishStep ==
    ASSUME SetupInv, phase = "setup", NEW p \in Proc, stack' = stack, phase' = phase, Establish(p)
    PROVE  SetupInv'
<1>1. PICK l \in {"accept", "create"} : pc' = [pc EXCEPT ![p] = l]
  BY DEF Establish
<1>2. pc[p] \in {"client", "server", "accept"} /\ UNCHANGED <<open, chan, held, qp, dest, failed>>
      /\ up' \in {"closed", "listening", "connected"}
  BY DEF Establish
<1>3. SetupTypes /\ Local(p) /\ qp[p] \in States /\ held[p] \in SUBSET Objects
      /\ failed[p] \in VS!Labels \cup {"no"}
  BY Parts
<1>4. qp' = [qp EXCEPT ![p] = qp[p]] /\ held' = [held EXCEPT ![p] = held[p]]
      /\ failed' = [failed EXCEPT ![p] = failed[p]] /\ pc'[p] = l
  BY <1>1, <1>2, <1>3 DEF SetupTypes
<1>5. Local(p)'
  BY <1>2, <1>3, <1>4 DEF Local, First, Early, Knowing, Synced, Ending
<1>6. /\ l \in VS!Labels /\ l # "readQpn" /\ pc[p] \in First /\ l \notin Synced /\ l \notin Told
      /\ ~Silent(p)
      /\ Ready(p) => qp[p] \in {"RTR", "RTS"}
  BY <1>2 DEF VS!Labels, First, Early, Synced, Told, Knowing, Silent, Ready
<1>7. qp[p] # "RTS"
  BY <1>3, <1>6 DEF Local
<1> QED  BY <1>1, <1>2, <1>3, <1>4, <1>5, <1>6, <1>7, QuietStep

LEMMA CreateStep ==
    ASSUME SetupInv, phase = "setup", NEW p \in Proc, stack' = stack, phase' = phase, VS!Create(p)
    PROVE  SetupInv'
<1> DEFINE Fits(k) == /\ VS!Created[k] \notin held[p]
                      /\ \A h \in 1..(k - 1) : VS!Created[h] \in held[p]
           i == CHOOSE k \in DOMAIN VS!Created : Fits(k)
           l == IF i = Len(VS!Created) THEN "tell" ELSE pc[p]
           s == IF i = Len(VS!Created) THEN "RESET" ELSE qp[p]
<1>1. SetupTypes /\ Local(p) /\ qp[p] \in States /\ held[p] \in SUBSET Objects /\ pc[p] = "create"
      /\ failed[p] \in VS!Labels \cup {"no"}
  BY Parts DEF VS!Create
<1>2. /\ held' = [held EXCEPT ![p] = @ \cup {VS!Created[i]}]
      /\ pc' = [pc EXCEPT ![p] = IF i = Len(VS!Created) THEN "tell" ELSE @]
      /\ qp' = [qp EXCEPT ![p] = IF i = Len(VS!Created) THEN "RESET" ELSE @]
      /\ UNCHANGED <<up, open, chan, dest, failed>>
  BY DEF VS!Create
<1>3. /\ DOMAIN VS!Created = 1..5 /\ Len(VS!Created) = 5
      /\ VS!Created[1] = "ctx" /\ VS!Created[2] = "pd" /\ VS!Created[3] = "scq"
      /\ VS!Created[4] = "rcq" /\ VS!Created[5] = "qp"
  BY DEF VS!Created
<1>4. "qp" \notin held[p] /\ qp[p] \in {"none", "RESET"} /\ open[p] /\ failed[p] = "no"
  BY <1>1 DEF Local, First, Early, Ending
<1>5. \E k \in 1..5 : Fits(k)
  <2>1. CASE "ctx" \notin held[p]
    <3>1. Fits(1)
      BY <1>3, <2>1
    <3> QED  BY <3>1
  <2>2. CASE "ctx" \in held[p] /\ "pd" \notin held[p]
    <3>1. Fits(2)
      BY <1>3, <2>2
    <3> QED  BY <3>1
  <2>3. CASE {"ctx", "pd"} \subseteq held[p] /\ "scq" \notin held[p]
    <3>1. Fits(3)
      BY <1>3, <2>3
    <3> QED  BY <3>1
  <2>4. CASE {"ctx", "pd", "scq"} \subseteq held[p] /\ "rcq" \notin held[p]
    <3>1. Fits(4)
      BY <1>3, <2>4
    <3> QED  BY <3>1
  <2>5. CASE {"ctx", "pd", "scq", "rcq"} \subseteq held[p]
    <3>1. Fits(5)
      BY <1>3, <1>4, <2>5
    <3> QED  BY <3>1
  <2> QED  BY <2>1, <2>2, <2>3, <2>4, <2>5
<1>6. i \in 1..5
  BY <1>3, <1>5
<1> HIDE DEF i, Fits
<1>7. VS!Created[i] \in Objects /\ (VS!Created[i] = "qp" => i = 5)
  BY <1>3, <1>6 DEF Objects
<1>8. /\ held' = [held EXCEPT ![p] = held[p] \cup {VS!Created[i]}]
      /\ pc' = [pc EXCEPT ![p] = l] /\ qp' = [qp EXCEPT ![p] = s]
      /\ failed' = [failed EXCEPT ![p] = failed[p]]
      /\ pc'[p] = l /\ qp'[p] = s /\ held'[p] = held[p] \cup {VS!Created[i]}
      /\ held[p] \cup {VS!Created[i]} \in SUBSET Objects
  BY <1>1, <1>2, <1>7 DEF SetupTypes
<1>9. l \in {"create", "tell"} /\ s \in {"none", "RESET"} /\ (l = "create" => i # 5)
  BY <1>1, <1>3, <1>4
<1> HIDE DEF l, s
<1>10. Local(p)'
  BY <1>1, <1>2, <1>4, <1>7, <1>8, <1>9 DEF Local, First, Early, Knowing, Synced, Ending
<1>11. /\ l \in VS!Labels /\ l # "readQpn" /\ pc[p] \in First /\ l \notin Synced /\ l \notin Told
       /\ ~Silent(p) /\ ~Ready(p) /\ s \in States /\ s # "RTS"
  BY <1>1, <1>4, <1>9 DEF VS!Labels, First, Early, Synced, Told, Knowing, Silent, Ready, States
<1>12. up' \in {"closed", "listening", "connected"}
  BY <1>1, <1>2 DEF SetupTypes
<1>13. open' = open /\ chan' = chan /\ dest' = dest
  BY <1>2
<1> HIDE DEF Objects, States
<1> QED  BY <1>1, <1>8, <1>10, <1>11, <1>12, <1>13, QuietStep

\* p gives up.
LEMMA GiveUpStep ==
    ASSUME SetupInv, phase = "setup", NEW p \in Proc, stack' = stack, phase' = phase,
           VS!GiveUp(p), pc[p] \in {"create", "tell", "readLid", "readQpn", "INIT", "RTR", "RTS"},
           UNCHANGED <<up, open, chan, held, qp, dest>>
    PROVE  SetupInv'
<1> DEFINE l == IF p = "tr" THEN "quit" ELSE "answer"
<1>1. SetupTypes /\ Local(p) /\ qp[p] \in States /\ held[p] \in SUBSET Objects /\ pc[p] \in VS!Labels
  BY Parts
<1>2. pc' = [pc EXCEPT ![p] = l] /\ failed' = [failed EXCEPT ![p] = pc[p]]
      /\ qp' = [qp EXCEPT ![p] = qp[p]] /\ held' = [held EXCEPT ![p] = held[p]]
      /\ pc'[p] = l /\ failed'[p] = pc[p]
  BY <1>1 DEF VS!GiveUp, SetupTypes
<1>3. l \in {"quit", "answer"}
  OBVIOUS
<1> HIDE DEF l
<1>4. Local(p)'
  BY <1>1, <1>2, <1>3 DEF Local, First, Early, Knowing, Synced, Ending
<1>5. /\ l \in VS!Labels /\ l # "readQpn" /\ l \notin First /\ l \notin Synced /\ l \notin Told
      /\ ~Silent(p)
      /\ Ready(p) => qp[p] \in {"RTR", "RTS"}
  BY <1>3 DEF VS!Labels, First, Early, Synced, Told, Knowing, Silent, Ready
<1>6. up' \in {"closed", "listening", "connected"} /\ pc[p] \in VS!Labels \cup {"no"}
  BY <1>1 DEF SetupTypes
<1> QED  BY <1>1, <1>2, <1>4, <1>5, <1>6, QuietStep

LEMMA ModifyQPStep ==
    ASSUME SetupInv, phase = "setup", NEW p \in Proc, stack' = stack, phase' = phase, VS!ModifyQP(p)
    PROVE  SetupInv'
<1> DEFINE l == CASE pc[p] = "INIT" -> "RTR" [] pc[p] = "RTR" -> "syncWrite" [] pc[p] = "RTS" -> "ready"
<1>1. SetupTypes /\ Local(p) /\ held[p] \in SUBSET Objects /\ pc[p] \in {"INIT", "RTR", "RTS"}
      /\ failed[p] \in VS!Labels \cup {"no"}
  BY Parts DEF VS!ModifyQP
<1>2. /\ pc' = [pc EXCEPT ![p] = l] /\ qp' = [qp EXCEPT ![p] = pc[p]]
      /\ failed' = [failed EXCEPT ![p] = failed[p]] /\ held' = [held EXCEPT ![p] = held[p]]
      /\ pc'[p] = l /\ qp'[p] = pc[p]
      /\ UNCHANGED <<up, open, chan, held, dest, failed>>
  BY <1>1 DEF VS!ModifyQP, SetupTypes
<1>3. \/ pc[p] = "INIT" /\ l = "RTR"
      \/ pc[p] = "RTR" /\ l = "syncWrite"
      \/ pc[p] = "RTS" /\ l = "ready"
  BY <1>1
<1> HIDE DEF l
<1>4. Local(p)'
  BY <1>1, <1>2, <1>3 DEF Local, First, Early, Knowing, Synced, Ending
<1>5. /\ l \in VS!Labels /\ l # "readQpn" /\ l \notin First /\ pc[p] \in Told /\ pc[p] \in States
      /\ ~Silent(p)
      /\ l \in Synced \/ pc[p] = "RTS" => pc[p] \in Synced
  BY <1>1, <1>3 DEF VS!Labels, First, Early, Synced, Told, Knowing, Silent, States
<1>6. Ready(p) => pc[p] \in {"RTR", "RTS"}
  BY <1>1, <1>3 DEF Ready, Local
<1>7. up' \in {"closed", "listening", "connected"}
  BY <1>1, <1>2 DEF SetupTypes
<1> QED  BY <1>1, <1>2, <1>4, <1>5, <1>6, <1>7, QuietStep

\* MyMalloc registers the buffers.
LEMMA RegisterStep ==
    ASSUME SetupInv, phase = "setup", NEW p \in Proc, stack' = stack, phase' = phase,
           Register(p)
    PROVE  SetupInv'
<1>0. PICK l \in {"addrWrite", "syncWrite"} : pc' = [pc EXCEPT ![p] = l]
  BY DEF Register
<1>1. /\ pc[p] = "malloc" /\ UNCHANGED <<up, open, chan, qp, dest, failed>>
      /\ SetupTypes /\ Local(p) /\ qp[p] \in States /\ held[p] \in SUBSET Objects
      /\ failed[p] \in VS!Labels \cup {"no"}
  BY Parts DEF Register
<1>2. /\ qp' = [qp EXCEPT ![p] = qp[p]] /\ failed' = [failed EXCEPT ![p] = failed[p]]
      /\ held' = [held EXCEPT ![p] = held[p] \cup {"rmr", "smr"}]
      /\ pc'[p] = l /\ held'[p] = held[p] \cup {"rmr", "smr"}
      /\ held[p] \cup {"rmr", "smr"} \in SUBSET Objects
  BY <1>0, <1>1 DEF Register, SetupTypes, VS!Regions, Objects
<1>3. Local(p)'
  BY <1>0, <1>1, <1>2 DEF Local, First, Early, Knowing, Synced, Ending
<1>4. /\ l \in VS!Labels /\ l \notin First /\ l # "readQpn" /\ pc[p] \in Told /\ pc[p] \in Synced
      /\ ~Silent(p)
      /\ Ready(p) => qp[p] \in {"RTR", "RTS"}
  BY <1>1 DEF VS!Labels, First, Early, Synced, Told, Knowing, Silent, Ready
<1>5. up' \in {"closed", "listening", "connected"}
  BY <1>1 DEF SetupTypes
<1>6. open' = open /\ chan' = chan /\ dest' = dest
  BY <1>1
<1> DEFINE h == held[p] \cup {"rmr", "smr"}
<1>7. h \in SUBSET Objects /\ held' = [held EXCEPT ![p] = h]
  BY <1>2
<1>8. qp' = [qp EXCEPT ![p] = qp[p]] /\ failed' = [failed EXCEPT ![p] = failed[p]]
  BY <1>2
<1> HIDE DEF h, Objects, States
<1> QED  BY <1>0, <1>1, <1>3, <1>4, <1>5, <1>6, <1>7, <1>8, QuietStep

LEMMA FinalizeStep ==
    ASSUME SetupInv, phase = "setup", NEW p \in Proc, stack' = stack, phase' = phase, Finalize(p)
    PROVE  SetupInv'
<1>1. SetupTypes /\ Local(p) /\ pc[p] = "finalize" /\ failed[p] \in VS!Labels \cup {"no"}
  BY Parts DEF Finalize, VS!Goto
<1>2. /\ pc' = [pc EXCEPT ![p] = "exit"] /\ qp' = [qp EXCEPT ![p] = "none"]
      /\ held' = [held EXCEPT ![p] = {}] /\ failed' = [failed EXCEPT ![p] = failed[p]]
      /\ pc'[p] = "exit" /\ qp'[p] = "none" /\ held'[p] = {}
      /\ UNCHANGED <<up, open, chan, dest, failed>>
  BY <1>1 DEF Finalize, VS!Goto, SetupTypes
<1>3. Local(p)'
  BY <1>1, <1>2 DEF Local, First, Early, Knowing, Synced, Ending
<1>4. /\ "exit" \in VS!Labels /\ "exit" \notin First /\ "exit" \notin Told /\ "exit" \notin Synced
      /\ "none" \in States /\ {} \in SUBSET Objects
  BY DEF VS!Labels, First, Early, Synced, Told, Knowing, States
<1>5. up' \in {"closed", "listening", "connected"}
  BY <1>1, <1>2 DEF SetupTypes
<1> QED  BY <1>1, <1>2, <1>3, <1>4, <1>5, QuietStep

\* p closes the connection, in CleanUp or because the process ends.
LEMMA CloseStep ==
    ASSUME SetupInv, phase = "setup", NEW p \in Proc, stack' = stack, phase' = phase,
           NEW l \in {"finalize", "exit"}, pc' = [pc EXCEPT ![p] = l], VS!CloseComm(p),
           UNCHANGED <<up, held, qp, dest, failed>>,
           failed[p] # "no" => l # "exit"
    PROVE  SetupInv'
<1> DEFINE q == VS!Peer(p)
<1>1. /\ SetupTypes /\ Local(p) /\ Stream(p) /\ Stream(q) /\ chan[q] \in Seq(Octet)
  BY Parts
<1>2. q # p /\ q \in Proc
  BY PeerFacts
<1>3. PICK k \in 0..Len(chan[q]) : chan' = [chan EXCEPT ![p] = <<>>, ![q] = SubSeq(@, 1, k)]
  BY DEF VS!CloseComm
<1>4. open' = [open EXCEPT ![p] = FALSE]
  BY DEF VS!CloseComm
<1>5. /\ chan'[p] = <<>> /\ chan'[q] = SubSeq(chan[q], 1, k)
      /\ pc'[p] = l /\ pc'[q] = pc[q] /\ open'[q] = open[q]
  BY <1>1, <1>2, <1>3, <1>4 DEF SetupTypes
<1>6. Others(p)
  BY <1>5 DEF Others
<1> HIDE DEF q
<1>7. SetupTypes'
  <2>1. SubSeq(chan[q], 1, k) \in Seq(Octet)
    BY <1>1, Taken
  <2>2. <<>> \in Seq(Octet)
    OBVIOUS
  <2>3. chan' \in [Proc -> Seq(Octet)]
    BY <1>1, <1>2, <1>3, <2>1, <2>2 DEF SetupTypes
  <2>4. open' \in [Proc -> BOOLEAN]
    BY <1>1, <1>4 DEF SetupTypes
  <2>5. pc' \in [Proc -> VS!Labels]
    BY <1>1 DEF SetupTypes, VS!Labels
  <2> QED  BY <1>1, <2>3, <2>4, <2>5 DEF SetupTypes
<1>8. Local(p)'
  BY <1>1, <1>5 DEF Local, First, Early, Knowing, Synced, Ending
<1>9. Stream(p)'
  BY <1>1, <1>5, <1>6, Deaf
<1>10. Stream(q)'
  BY <1>1, <1>5, <1>6, CutOff DEF q
<1> QED  BY <1>6, <1>7, <1>8, <1>9, <1>10, Together DEF q

\* p writes w and goes to l.
LEMMA WriteStep ==
    ASSUME SetupInv, phase = "setup", NEW p \in Proc, stack' = stack, phase' = phase,
           NEW l \in VS!Labels, pc' = [pc EXCEPT ![p] = l],
           NEW w \in Seq(Octet), chan' = VS!Written(p, w),
           UNCHANGED <<up, open, held, qp, dest, failed>>,
           ~Silent(p), pc[p] \notin {"finalize", "exit"},
           (\E i \in 1..Len(w) : w[i] = "sync") => qp[p] \in {"RTR", "RTS"},
           pc[p] \in Told \/ HasAddress(w)
              \/ (Len(w) <= 5 /\ (l = "close" \/ (p = "tr" /\ l = "answer"))),
           l \in First => pc[p] \in First, l # "readQpn", l \in Synced => pc[p] \in Synced,
           l \in Told => pc[p] \in Told \cup {"tell"},
           Local(p)'
    PROVE  SetupInv'
<1> DEFINE q == VS!Peer(p)
<1>1. /\ SetupTypes /\ Stream(p) /\ Stream(q) /\ chan[q] \in Seq(Octet) /\ Local(q)
  BY Parts, PeerFacts DEF SetupInv
<1>2. q # p /\ q \in Proc
  BY PeerFacts
<1>3. chan' = IF open[q] THEN [chan EXCEPT ![q] = @ \o w] ELSE chan
  BY DEF VS!Written
<1>4. pc'[p] = l /\ pc'[q] = pc[q] /\ chan'[p] = chan[p]
  BY <1>1, <1>2, <1>3 DEF SetupTypes
<1>5. Others(p)
  BY <1>4 DEF Others
<1> HIDE DEF q
<1>6. SetupTypes'
  <2>1. chan[q] \o w \in Seq(Octet)
    BY <1>1, Joined
  <2>2. chan' \in [Proc -> Seq(Octet)]
    BY <1>1, <1>2, <1>3, <2>1 DEF SetupTypes
  <2> QED  BY <1>1, <2>2 DEF SetupTypes
<1>7. Stream(p)'
  BY <1>1, <1>4, <1>5, Unchanged
<1>8. Ready(p) => Ready(p)'
  BY DEF Ready
<1>9. Stream(q)'
  <2>1. CASE open[q]
    <3>1. chan'[q] = chan[q] \o w
      BY <1>1, <1>2, <1>3, <2>1 DEF SetupTypes
    <3>2. Ready(p) \/ (\E i \in 1..Len(w) : w[i] = "sync") => Ready(p)'
      BY <1>8 DEF Ready
    <3>3. pc[p] \in Told \/ HasAddress(w) \/ (Len(w) <= 5 /\ Silent(p)')
      BY <1>4 DEF Silent
    <3> QED  BY <1>1, <1>5, <3>1, <3>2, <3>3, Sent DEF q
  <2>2. CASE ~open[q]
    <3>1. chan'[q] = chan[q] /\ pc[q] \notin First
      BY <1>1, <1>3, <2>2 DEF Local, First, Early
    <3> QED  BY <1>1, <1>5, <1>8, <3>1, Unread DEF q
  <2> QED  BY <2>1, <2>2
<1> QED  BY <1>5, <1>6, <1>7, <1>9, Together DEF q

\* p takes k octets off the stream and goes to l, past the peer's address.
LEMMA ReadStep ==
    ASSUME SetupInv, phase = "setup", NEW p \in Proc, stack' = stack, phase' = phase,
           NEW l \in VS!Labels, pc' = [pc EXCEPT ![p] = l],
           NEW k \in 0..Len(chan[p]), chan' = [chan EXCEPT ![p] = SubSeq(@, k + 1, Len(@))],
           NEW d \in Seq(Octet), dest' = [dest EXCEPT ![p] = d],
           NEW e \in VS!Labels \cup {"no"}, failed' = [failed EXCEPT ![p] = e],
           UNCHANGED <<up, open, held, qp>>,
           ~Silent(p) \/ l = "close",
           pc[p] \notin {"finalize", "exit"},
           l \notin First \cup {"readQpn"},
           l \in Synced => pc[p] \in Synced \/ Ready(VS!Peer(p)),
           l \in Told => pc[p] \in Told,
           Local(p)'
    PROVE  SetupInv'
<1> DEFINE q == VS!Peer(p)
<1>1. /\ SetupTypes /\ Stream(p) /\ Stream(q) /\ chan[p] \in Seq(Octet)
  BY Parts
<1>2. q # p /\ q \in Proc
  BY PeerFacts
<1>3. /\ pc'[p] = l /\ pc'[q] = pc[q] /\ chan'[p] = SubSeq(chan[p], k + 1, Len(chan[p])) /\ chan'[q] = chan[q]
      /\ dest'[q] = dest[q] /\ failed'[q] = failed[q]
  BY <1>1, <1>2 DEF SetupTypes
<1>4. Others(p)
  BY <1>3 DEF Others
<1> HIDE DEF q
<1>5. SetupTypes'
  <2>1. SubSeq(chan[p], k + 1, Len(chan[p])) \in Seq(Octet)
    BY <1>1, Taken
  <2>2. chan' \in [Proc -> Seq(Octet)]
    BY <1>1, <2>1 DEF SetupTypes
  <2>3. dest' \in [Proc -> Seq(Octet)] /\ failed' \in [Proc -> VS!Labels \cup {"no"}]
        /\ pc' \in [Proc -> VS!Labels]
    BY <1>1 DEF SetupTypes
  <2> QED  BY <1>1, <2>2, <2>3 DEF SetupTypes
<1>6. Stream(p)'
  BY <1>1, <1>3, <1>4, Consumed DEF q
<1>7. Silent(p) => Silent(p)'
  BY <1>3 DEF Silent
<1>8. Ready(p) => Ready(p)'
  BY <1>3 DEF Ready
<1>9. Stream(q)'
  BY <1>1, <1>3, <1>4, <1>7, <1>8, Unread DEF q
<1> QED  BY <1>4, <1>5, <1>6, <1>9, Together DEF q

LEMMA WriteSteps ==
    ASSUME SetupInv, phase = "setup", NEW p \in Proc, stack' = stack, phase' = phase,
           \/ VS!Tell(p) \/ VS!SyncWrite(p) \/ VS!QuitWrite(p)
           \/ VS!FirstRepeats(p) /\ p = "tr"
           \/ VS!AfterAlignmentInit(p) /\ pc[p] = "addrWrite"
    PROVE  SetupInv'
<1>1. SetupTypes /\ Local(p)
  BY Parts
<1>2. CASE VS!Tell(p)
  <2>1. /\ pc[p] = "tell" /\ pc' = [pc EXCEPT ![p] = "readLid"] /\ pc'[p] = "readLid"
        /\ chan' = VS!Written(p, VS!Address) /\ UNCHANGED <<up, open, held, qp, dest, failed>>
    BY <1>1, <1>2 DEF VS!Tell, VS!Goto, SetupTypes
  <2>2. Local(p)'
    BY <1>1, <2>1 DEF Local, First, Early, Knowing, Synced, Ending
  <2>3. ~Silent(p) /\ "readLid" \in VS!Labels /\ pc[p] \in First /\ "readLid" \notin Synced
    BY <2>1 DEF Silent, VS!Labels, First, Early, Synced
  <2>4. VS!Address \in Seq(Octet) /\ HasAddress(VS!Address) /\ ~ \E i \in 1..Len(VS!Address) : VS!Address[i] = "sync"
    BY AddressFacts
  <2> QED  BY <2>1, <2>2, <2>3, <2>4, WriteStep
<1>3. CASE VS!SyncWrite(p)
  <2>1. /\ pc[p] = "syncWrite" /\ pc' = [pc EXCEPT ![p] = "syncRead"] /\ pc'[p] = "syncRead"
        /\ chan' = VS!Written(p, VS!SyncStr) /\ UNCHANGED <<up, open, held, qp, dest, failed>>
    BY <1>1, <1>3 DEF VS!SyncWrite, VS!Goto, SetupTypes
  <2>2. Local(p)' /\ qp[p] \in {"RTR", "RTS"}
    BY <1>1, <2>1 DEF Local, First, Early, Knowing, Synced, Ending
  <2>3. /\ ~Silent(p) /\ "syncRead" \in VS!Labels /\ pc[p] \in Told /\ "syncRead" \notin Synced
        /\ "syncRead" \notin First
    BY <2>1 DEF Silent, VS!Labels, First, Early, Synced, Told, Knowing
  <2>4. VS!SyncStr \in Seq(Octet)
    BY MessageFacts
  <2> QED  BY <2>1, <2>2, <2>3, <2>4, WriteStep
<1>4. CASE VS!QuitWrite(p)
  <2> DEFINE l == IF p = "tr" THEN "answer" ELSE "close"
  <2>1. /\ pc[p] = "quit" /\ pc' = [pc EXCEPT ![p] = l] /\ pc'[p] = l
        /\ chan' = VS!Written(p, VS!Quit) /\ UNCHANGED <<up, open, held, qp, dest, failed>>
    BY <1>1, <1>4 DEF VS!QuitWrite, SetupTypes
  <2>2. (l = "close" \/ (p = "tr" /\ l = "answer")) /\ l \in {"answer", "close"}
    OBVIOUS
  <2> HIDE DEF l
  <2>3. Local(p)'
    BY <1>1, <2>1, <2>2 DEF Local, First, Early, Knowing, Synced, Ending
  <2>4. ~Silent(p) /\ l \in VS!Labels /\ l \notin First /\ l # "readQpn" /\ l \notin Synced /\ l \notin Told
    BY <2>1, <2>2 DEF Silent, VS!Labels, First, Early, Synced, Told, Knowing
  <2>5. VS!Quit \in Seq(Octet) /\ Len(VS!Quit) <= 5 /\ ~ \E i \in 1..Len(VS!Quit) : VS!Quit[i] = "sync"
    BY MessageFacts
  <2> QED  BY <2>1, <2>2, <2>3, <2>4, <2>5, WriteStep
<1>5. CASE VS!FirstRepeats(p) /\ p = "tr"
  <2>1. /\ pc[p] = "ready" /\ pc' = [pc EXCEPT ![p] = "malloc"] /\ pc'[p] = "malloc"
        /\ chan' = VS!Written(p, VS!Repeats) /\ UNCHANGED <<up, open, held, qp, dest, failed>>
    BY <1>1, <1>5 DEF VS!FirstRepeats, SetupTypes
  <2>2. Local(p)'
    BY <1>1, <2>1 DEF Local, First, Early, Knowing, Synced, Ending
  <2>3. ~Silent(p) /\ "malloc" \in VS!Labels /\ pc[p] \in Told /\ pc[p] \in Synced /\ "malloc" \notin First
    BY <2>1 DEF Silent, VS!Labels, First, Early, Synced, Told, Knowing
  <2>4. VS!Repeats \in Seq(Octet) /\ ~ \E i \in 1..Len(VS!Repeats) : VS!Repeats[i] = "sync"
    BY MessageFacts
  <2> QED  BY <2>1, <2>2, <2>3, <2>4, WriteStep
<1>6. CASE VS!AfterAlignmentInit(p) /\ pc[p] = "addrWrite"
  <2>1. /\ pc' = [pc EXCEPT ![p] = "addrRead"] /\ pc'[p] = "addrRead"
        /\ chan' = VS!Written(p, VS!BufferAddress) /\ UNCHANGED <<up, open, held, qp, dest, failed>>
    BY <1>1, <1>6 DEF VS!AfterAlignmentInit, VS!Goto, SetupTypes
  <2>2. Local(p)'
    BY <1>1, <1>6, <2>1 DEF Local, First, Early, Knowing, Synced, Ending
  <2>3. ~Silent(p) /\ "addrRead" \in VS!Labels /\ pc[p] \in Told /\ pc[p] \in Synced /\ "addrRead" \notin First
    BY <1>6 DEF Silent, VS!Labels, First, Early, Synced, Told, Knowing
  <2>4. VS!BufferAddress \in Seq(Octet) /\ ~ \E i \in 1..Len(VS!BufferAddress) : VS!BufferAddress[i] = "sync"
    BY MessageFacts
  <2> QED  BY <1>6, <2>1, <2>2, <2>3, <2>4, WriteStep
<1> QED  BY <1>2, <1>3, <1>4, <1>5, <1>6

\* The process ends.
LEMMA EndSteps ==
    ASSUME SetupInv, phase = "setup", NEW p \in Proc, stack' = stack, phase' = phase,
           VS!SetupFails(p) \/ VS!Close(p) \/ Ends(p)
    PROVE  SetupInv'
<1>1. Local(p)
  BY Parts
<1>2. CASE VS!Close(p)
  <2>1. pc' = [pc EXCEPT ![p] = "finalize"] /\ VS!CloseComm(p) /\ UNCHANGED <<up, held, qp, dest, failed>>
    BY <1>2 DEF VS!Close, VS!Goto
  <2> QED  BY <2>1, CloseStep
<1>3. CASE VS!Exit(p) /\ pc[p] \in {"client", "server", "syncRead", "ready", "malloc", "addrRead"}
           /\ UNCHANGED <<up, held, qp, dest, failed>>
  <2>1. pc' = [pc EXCEPT ![p] = "exit"] /\ VS!CloseComm(p)
    BY <1>3 DEF VS!Exit
  <2>2. failed[p] = "no"
    BY <1>1, <1>3 DEF Local, Ending
  <2> QED  BY <1>3, <2>1, <2>2, CloseStep
<1> QED  BY <1>2, <1>3 DEF VS!SetupFails, Ends

LEMMA SyncReadStep ==
    ASSUME SetupInv, phase = "setup", NEW p \in Proc, stack' = stack, phase' = phase, VS!SyncRead(p)
    PROVE  SetupInv'
<1> DEFINE l == IF qp[p] = "RTR" THEN "RTS" ELSE "running"
<1>1. /\ SetupTypes /\ Local(p) /\ Stream(p) /\ chan[p] \in Seq(Octet) /\ dest[p] \in Seq(Octet)
      /\ failed[p] \in VS!Labels \cup {"no"}
  BY Parts
<1>2. pc[p] = "syncRead" /\ UNCHANGED <<up, held, qp, dest, failed>>
  BY DEF VS!SyncRead
<1>3. CASE VS!Exit(p)
  BY <1>2, <1>3, EndSteps DEF Ends
<1>4. CASE /\ Len(chan[p]) >= 6 /\ SubSeq(chan[p], 1, 6) = VS!SyncStr
           /\ pc' = [pc EXCEPT ![p] = l]
           /\ chan' = [chan EXCEPT ![p] = SubSeq(@, 7, Len(@))] /\ UNCHANGED open
  <2>1. 6 \in 0..Len(chan[p]) /\ Len(chan[p]) \in Nat
    BY <1>1, <1>4
  <2>2. chan[p][1] = "sync"
    <3>1. SubSeq(chan[p], 1, 6)[1] = chan[p][1]
      BY <1>1, <2>1, Taken
    <3>2. VS!SyncStr[1] = "sync"
      BY MessageFacts
    <3> QED  BY <1>4, <3>1, <3>2
  <2>3. Ready(VS!Peer(p))
    <3>1. \E i \in 1..Len(chan[p]) : chan[p][i] = "sync"
      BY <2>1, <2>2
    <3> QED  BY <1>1, <3>1 DEF Stream
  <2>4. l \in {"RTS", "running"} /\ pc'[p] = l /\ (l = "running" => qp[p] = "RTS")
    BY <1>1, <1>2, <1>4 DEF SetupTypes, Local
  <2> HIDE DEF l
  <2>5. Local(p)'
    BY <1>1, <1>2, <1>4, <2>4 DEF Local, First, Early, Knowing, Synced, Ending
  <2>6. ~Silent(p) /\ l \in VS!Labels /\ l \notin First \cup {"readQpn"} /\ pc[p] \in Told
    BY <1>2, <2>4 DEF Silent, VS!Labels, First, Early, Told, Knowing
  <2>7. dest' = [dest EXCEPT ![p] = dest[p]] /\ failed' = [failed EXCEPT ![p] = failed[p]]
    BY <1>1, <1>2 DEF SetupTypes
  <2>8. chan' = [chan EXCEPT ![p] = SubSeq(@, 6 + 1, Len(@))]
    BY <1>4
  <2> QED  BY <1>1, <1>2, <1>4, <2>1, <2>3, <2>5, <2>6, <2>7, <2>8, ReadStep
<1>5. CASE /\ qp[p] = "RTS" /\ pc' = [pc EXCEPT ![p] = "running"] /\ UNCHANGED <<open, chan>>
  <2>1. pc'[p] = "running" /\ 0 \in 0..Len(chan[p])
    BY <1>1, <1>5 DEF SetupTypes
  <2>2. Local(p)' /\ Ready(VS!Peer(p))
    BY <1>1, <1>2, <1>5, <2>1 DEF Local, Stream, First, Early, Knowing, Synced, Ending
  <2>3. ~Silent(p) /\ "running" \in VS!Labels /\ "running" \notin First \cup {"readQpn"} /\ pc[p] \in Told
    BY <1>2 DEF Silent, VS!Labels, First, Early, Told, Knowing
  <2>4. dest' = [dest EXCEPT ![p] = dest[p]] /\ failed' = [failed EXCEPT ![p] = failed[p]]
    BY <1>1, <1>2 DEF SetupTypes
  <2>5. chan' = [chan EXCEPT ![p] = SubSeq(@, 0 + 1, Len(@))]
    <3>1. SubSeq(chan[p], 0 + 1, Len(chan[p])) = chan[p]
      BY <1>1, SubSeqFull
    <3> QED  BY <1>1, <1>5, <3>1 DEF SetupTypes
  <2> QED  BY <1>1, <1>2, <1>5, <2>1, <2>2, <2>3, <2>4, <2>5, ReadStep
<1> QED  BY <1>3, <1>4, <1>5 DEF VS!SyncRead, VS!AfterSync

LEMMA RepeatsStep ==
    ASSUME SetupInv, phase = "setup", NEW p \in Proc, stack' = stack, phase' = phase,
           VS!FirstRepeats(p), p # "tr"
    PROVE  SetupInv'
<1>1. /\ SetupTypes /\ Local(p) /\ chan[p] \in Seq(Octet) /\ dest[p] \in Seq(Octet)
      /\ failed[p] \in VS!Labels \cup {"no"}
  BY Parts
<1>2. pc[p] = "ready" /\ UNCHANGED <<up, held, qp, dest, failed>>
  BY DEF VS!FirstRepeats
<1>3. CASE VS!Exit(p)
  BY <1>2, <1>3, EndSteps DEF Ends
<1>4. CASE /\ Len(chan[p]) >= 8 /\ chan' = [chan EXCEPT ![p] = SubSeq(@, 9, Len(@))]
           /\ pc' = [pc EXCEPT ![p] = "malloc"] /\ UNCHANGED open
  <2>1. 8 \in 0..Len(chan[p])
    BY <1>1, <1>4
  <2>2. pc'[p] = "malloc"
    BY <1>1, <1>4 DEF SetupTypes
  <2>3. Local(p)'
    BY <1>1, <1>2, <1>4, <2>2 DEF Local, First, Early, Knowing, Synced, Ending
  <2>4. /\ ~Silent(p) /\ "malloc" \in VS!Labels /\ "malloc" \notin First \cup {"readQpn"}
        /\ pc[p] \in Told /\ pc[p] \in Synced
    BY <1>2 DEF Silent, VS!Labels, First, Early, Told, Knowing, Synced
  <2>5. dest' = [dest EXCEPT ![p] = dest[p]] /\ failed' = [failed EXCEPT ![p] = failed[p]]
    BY <1>1, <1>2 DEF SetupTypes
  <2>6. chan' = [chan EXCEPT ![p] = SubSeq(@, 8 + 1, Len(@))]
    BY <1>4
  <2> QED  BY <1>1, <1>2, <1>4, <2>1, <2>3, <2>4, <2>5, <2>6, ReadStep
<1> QED  BY <1>3, <1>4 DEF VS!FirstRepeats

\* AfterAlignmentInit reads the peer's address, or finds the end of the stream.
LEMMA AddressStep ==
    ASSUME SetupInv, phase = "setup", NEW p \in Proc, stack' = stack, phase' = phase,
           VS!AfterAlignmentInit(p), pc[p] # "addrWrite"
    PROVE  SetupInv'
<1>1. /\ SetupTypes /\ Local(p) /\ chan[p] \in Seq(Octet) /\ dest[p] \in Seq(Octet)
      /\ failed[p] \in VS!Labels \cup {"no"}
  BY Parts
<1>2. pc[p] = "addrRead" /\ UNCHANGED <<up, held, qp, dest, failed>>
  BY DEF VS!AfterAlignmentInit, VS!Goto
<1>3. CASE VS!Exit(p)
  BY <1>2, <1>3, EndSteps DEF Ends
<1>4. CASE /\ Len(chan[p]) >= 12 /\ chan' = [chan EXCEPT ![p] = SubSeq(@, 13, Len(@))]
           /\ pc' = [pc EXCEPT ![p] = "syncWrite"] /\ UNCHANGED open
  <2>1. 12 \in 0..Len(chan[p])
    BY <1>1, <1>4
  <2>2. pc'[p] = "syncWrite"
    BY <1>1, <1>4 DEF SetupTypes
  <2>3. Local(p)'
    BY <1>1, <1>2, <1>4, <2>2 DEF Local, First, Early, Knowing, Synced, Ending
  <2>4. /\ ~Silent(p) /\ "syncWrite" \in VS!Labels /\ "syncWrite" \notin First \cup {"readQpn"}
        /\ pc[p] \in Told /\ pc[p] \in Synced
    BY <1>2 DEF Silent, VS!Labels, First, Early, Told, Knowing, Synced
  <2>5. dest' = [dest EXCEPT ![p] = dest[p]] /\ failed' = [failed EXCEPT ![p] = failed[p]]
    BY <1>1, <1>2 DEF SetupTypes
  <2>6. chan' = [chan EXCEPT ![p] = SubSeq(@, 12 + 1, Len(@))]
    BY <1>4
  <2> QED  BY <1>1, <1>2, <1>4, <2>1, <2>3, <2>4, <2>5, <2>6, ReadStep
<1> QED  BY <1>2, <1>3, <1>4 DEF VS!AfterAlignmentInit, VS!Goto

LEMMA QuitReadStep ==
    ASSUME SetupInv, phase = "setup", NEW p \in Proc, stack' = stack, phase' = phase, VS!QuitRead(p)
    PROVE  SetupInv'
<1> DEFINE l == IF p = "tr" THEN "close" ELSE "quit"
<1>1. /\ SetupTypes /\ Local(p) /\ chan[p] \in Seq(Octet) /\ dest[p] \in Seq(Octet)
      /\ failed[p] \in VS!Labels \cup {"no"}
  BY Parts
<1>2. /\ pc[p] = "answer" /\ pc' = [pc EXCEPT ![p] = l] /\ pc'[p] = l
      /\ UNCHANGED <<up, open, held, qp, dest, failed>>
  BY <1>1 DEF VS!QuitRead, SetupTypes
<1>3. PICK k \in 0..Len(chan[p]) : chan' = [chan EXCEPT ![p] = SubSeq(@, k + 1, Len(@))]
  <2>1. CASE UNCHANGED chan
    <3>1. SubSeq(chan[p], 0 + 1, Len(chan[p])) = chan[p] /\ 0 \in 0..Len(chan[p])
      BY <1>1, SubSeqFull
    <3>2. chan' = [chan EXCEPT ![p] = SubSeq(chan[p], 0 + 1, Len(chan[p]))]
      BY <1>1, <2>1, <3>1 DEF SetupTypes
    <3> QED  BY <3>1, <3>2
  <2>2. CASE \E k \in 0..5 : k <= Len(chan[p]) /\ chan' = [chan EXCEPT ![p] = SubSeq(@, k + 1, Len(@))]
    <3>1. Len(chan[p]) \in Nat
      BY <1>1
    <3>2. PICK k \in 0..5 : k <= Len(chan[p]) /\ chan' = [chan EXCEPT ![p] = SubSeq(@, k + 1, Len(@))]
      BY <2>2
    <3>3. k \in 0..Len(chan[p])
      BY <3>1, <3>2
    <3> QED  BY <3>2, <3>3
  <2> QED  BY <2>1, <2>2 DEF VS!QuitRead
<1>4. l \in {"close", "quit"} /\ (p = "tr" => l = "close")
  OBVIOUS
<1> HIDE DEF l
<1>5. Local(p)'
  BY <1>1, <1>2, <1>4 DEF Local, First, Early, Knowing, Synced, Ending
<1>6. /\ ~Silent(p) \/ l = "close"
      /\ l \in VS!Labels /\ l \notin First \cup {"readQpn"} /\ l \notin Told /\ l \notin Synced
  BY <1>2, <1>4 DEF Silent, VS!Labels, First, Early, Told, Knowing, Synced
<1>7. dest' = [dest EXCEPT ![p] = dest[p]] /\ failed' = [failed EXCEPT ![p] = failed[p]]
  BY <1>1, <1>2 DEF SetupTypes
<1> QED  BY <1>1, <1>2, <1>3, <1>5, <1>6, <1>7, ReadStep

\* A read() that returned what was asked for, or less.
LEMMA ReadPeerStep ==
    ASSUME SetupInv, phase = "setup", NEW p \in Proc, stack' = stack, phase' = phase, VS!ReadPeer(p)
    PROVE  SetupInv'
<1> DEFINE q == VS!Peer(p)
<1>1. /\ SetupTypes /\ Local(p) /\ Stream(p) /\ Stream(q) /\ chan[p] \in Seq(Octet) /\ dest[p] \in Seq(Octet)
      /\ failed[p] \in VS!Labels \cup {"no"} /\ pc[p] \in VS!Labels
  BY Parts
<1>2. pc[p] \in {"readLid", "readQpn"} /\ UNCHANGED <<up, open, held, qp>>
  BY DEF VS!ReadPeer, VS!ReadExactly
<1>3. CASE VS!Left(p) /\ VS!GiveUp(p) /\ UNCHANGED <<dest, chan>>
  BY <1>2, <1>3, GiveUpStep
<1>4. ASSUME NEW k \in 1..4, k <= Len(chan[p]),
             dest' = [dest EXCEPT ![p] = @ \o SubSeq(chan[p], 1, k)],
             chan' = [chan EXCEPT ![p] = SubSeq(@, k + 1, Len(@))],
             \/ VS!GiveUp(p)
             \/ pc[p] = "readLid" /\ k = 2 /\ pc' = [pc EXCEPT ![p] = "readQpn"] /\ UNCHANGED failed
             \/ pc[p] = "readQpn" /\ k = 4 /\ pc' = [pc EXCEPT ![p] = "INIT"] /\ UNCHANGED failed
      PROVE  SetupInv'
  <2> DEFINE h == SubSeq(chan[p], 1, k)
             r == SubSeq(chan[p], k + 1, Len(chan[p]))
             d == dest[p] \o h
  <2>1. k \in 0..Len(chan[p]) /\ k \in Nat /\ Len(chan[p]) \in Nat
    BY <1>1, <1>4
  <2>2. /\ h \in Seq(Octet) /\ Len(h) = k /\ \A i \in 1..k : h[i] = chan[p][i]
        /\ r \in Seq(Octet) /\ Len(r) = Len(chan[p]) - k /\ \A i \in 1..(Len(chan[p]) - k) : r[i] = chan[p][i + k]
    BY <1>1, <2>1, Taken
  <2>3. dest' = [dest EXCEPT ![p] = d] /\ dest'[p] = d /\ chan'[p] = r
    BY <1>1, <1>4 DEF SetupTypes
  <2> HIDE DEF h, r
  <2>4. /\ d \in Seq(Octet) /\ Len(d) = Len(dest[p]) + k
        /\ \A i \in 1..Len(dest[p]) : d[i] = dest[p][i]
        /\ \A i \in 1..k : d[Len(dest[p]) + i] = h[i]
        /\ Len(dest[p]) = 0 => d = h
    BY <1>1, <2>2, Joined
  <2> HIDE DEF d
  <2>5. ~Silent(p) /\ pc[p] \in Told /\ qp[p] \in {"none", "RESET"} /\ open[p] /\ failed[p] = "no"
    BY <1>1, <1>2 DEF Silent, Told, Local, First, Early, Ending
  <2>6. CASE VS!GiveUp(p)
    <3> DEFINE l == IF p = "tr" THEN "quit" ELSE "answer"
    <3>1. /\ pc' = [pc EXCEPT ![p] = l] /\ failed' = [failed EXCEPT ![p] = pc[p]]
          /\ pc'[p] = l /\ failed'[p] = pc[p]
      BY <1>1, <2>6 DEF VS!GiveUp, SetupTypes
    <3>2. l \in {"quit", "answer"}
      OBVIOUS
    <3> HIDE DEF l
    <3>3. Local(p)'
      BY <1>1, <1>2, <2>5, <3>1, <3>2 DEF Local, First, Early, Knowing, Synced, Ending
    <3>4. l \in VS!Labels /\ l \notin First \cup {"readQpn"} /\ l \notin Synced /\ l \notin Told
      BY <3>2 DEF VS!Labels, First, Early, Told, Knowing, Synced
    <3> QED  BY <1>1, <1>2, <1>4, <2>1, <2>3, <2>4, <2>5, <3>1, <3>3, <3>4, ReadStep
  <2>7. CASE pc[p] = "readQpn" /\ k = 4 /\ pc' = [pc EXCEPT ![p] = "INIT"] /\ UNCHANGED failed
    <3>1. dest[p] = <<"lid", "lid">> /\ HasNumber(chan[p])
      BY <1>1, <1>4, <2>1, <2>7 DEF Stream
    <3>2. Len(dest[p]) = 2 /\ dest[p][1] = "lid" /\ dest[p][2] = "lid"
      BY <3>1
    <3>3. h[1] = "qpn" /\ h[2] = "qpn" /\ h[3] = "qpn" /\ h[4] = "qpn"
      BY <2>2, <2>7, <3>1 DEF HasNumber
    <3>4. Len(d) = 6 /\ HasAddress(d)
      <4>1. d[1] = "lid" /\ d[2] = "lid"
        BY <2>4, <3>2
      <4>2. d[2 + 1] = "qpn" /\ d[2 + 2] = "qpn" /\ d[2 + 3] = "qpn" /\ d[2 + 4] = "qpn"
        BY <2>4, <2>7, <3>2, <3>3
      <4>3. Len(d) = 6
        BY <2>4, <2>7, <3>2
      <4> QED  BY <4>1, <4>2, <4>3 DEF HasAddress
    <3>5. d = VS!Address
      <4>1. VS!Address \in Seq(Octet) /\ Len(VS!Address) = 6 /\ HasAddress(VS!Address)
        BY AddressFacts
      <4>2. \A i \in 1..6 : d[i] = VS!Address[i]
        BY <3>4, <4>1 DEF HasAddress
      <4> QED  BY <2>4, <3>4, <4>1, <4>2, SeqEqual
    <3>6. pc'[p] = "INIT" /\ failed' = [failed EXCEPT ![p] = failed[p]]
      BY <1>1, <2>7 DEF SetupTypes
    <3>7. Local(p)'
      BY <1>1, <1>2, <2>3, <2>5, <2>7, <3>5, <3>6 DEF Local, First, Early, Knowing, Synced, Ending
    <3>8. "INIT" \in VS!Labels /\ "INIT" \notin First \cup {"readQpn"} /\ "INIT" \notin Synced
      BY DEF VS!Labels, First, Early, Synced
    <3> QED  BY <1>1, <1>2, <1>4, <2>1, <2>3, <2>4, <2>5, <2>7, <3>6, <3>7, <3>8, ReadStep
  <2>8. CASE pc[p] = "readLid" /\ k = 2 /\ pc' = [pc EXCEPT ![p] = "readQpn"] /\ UNCHANGED failed
    <3>1. q # p /\ q \in Proc
      BY PeerFacts
    <3>2. /\ pc'[p] = "readQpn" /\ pc'[q] = pc[q] /\ dest'[q] = dest[q] /\ chan'[q] = chan[q]
      BY <1>1, <1>4, <2>3, <2>8, <3>1 DEF SetupTypes
    <3>3. Others(p)
      BY <1>2, <2>8, <3>2 DEF Others
    <3>4. Len(dest[p]) = 0
      <4>1. dest[p] = <<>>
        BY <1>1, <2>8 DEF Stream, First
      <4> QED  BY <4>1
    <3>5. \/ Silent(q) /\ Len(r) <= 3
          \/ d = <<"lid", "lid">> /\ HasNumber(r)
      <4>1. CASE Silent(q) /\ Len(chan[p]) <= 5
        BY <2>1, <2>2, <2>8, <4>1
      <4>2. CASE HasAddress(chan[p])
        <5>1. h[1] = "lid" /\ h[2] = "lid" /\ Len(h) = 2
          BY <2>2, <2>8, <4>2 DEF HasAddress
        <5>2. h = <<"lid", "lid">>
          <6>1. <<"lid", "lid">> \in Seq(Octet) /\ Len(<<"lid", "lid">>) = 2
            BY DEF Octet
          <6>2. \A i \in 1..2 : h[i] = <<"lid", "lid">>[i]
            BY <5>1
          <6> QED  BY <2>2, <5>1, <6>1, <6>2, SeqEqual
        <5>3. Len(r) >= 4
          BY <2>1, <2>2, <2>8, <4>2 DEF HasAddress
        <5>4. r[1] = chan[p][1 + 2] /\ r[2] = chan[p][2 + 2] /\ r[3] = chan[p][3 + 2] /\ r[4] = chan[p][4 + 2]
          BY <2>1, <2>2, <2>8, <5>3
        <5>5. HasNumber(r)
          BY <4>2, <5>3, <5>4 DEF HasAddress, HasNumber
        <5> QED  BY <2>4, <3>4, <5>2, <5>5
      <4>3. Len(chan[p]) # 0
        BY <1>4, <2>1
      <4> QED  BY <1>1, <2>8, <4>1, <4>2, <4>3 DEF Stream, First
    <3>6. (\E i \in 1..Len(r) : r[i] = "sync") => \E i \in 1..Len(chan[p]) : chan[p][i] = "sync"
      <4>1. \A i \in 1..(Len(chan[p]) - k) : i + k \in 1..Len(chan[p])
        BY <2>1
      <4> QED  BY <2>2, <4>1
    <3>7. Ready(q)' = Ready(q) /\ Silent(q)' = Silent(q)
      BY <1>2, <3>2 DEF Ready, Silent
    <3>8. Stream(p)'
      <4>1. "readQpn" \notin First /\ "readQpn" \notin Synced /\ qp'[p] # "RTS"
        BY <1>2, <2>5 DEF First, Early, Synced
      <4> QED  BY <1>1, <2>3, <3>2, <3>5, <3>6, <3>7, <4>1 DEF Stream
    <3>9. Stream(q)'
      <4>1. Ready(p) => Ready(p)'
        BY <1>2, <2>8 DEF Ready
      <4> QED  BY <1>1, <2>5, <3>2, <3>3, <4>1, Unread
    <3>10. Local(p)'
      BY <1>1, <1>2, <2>3, <2>5, <2>8, <3>2 DEF Local, First, Early, Knowing, Synced, Ending
    <3>11. SetupTypes'
      <4>1. chan' \in [Proc -> Seq(Octet)]
        BY <1>1, <1>4, <2>2 DEF SetupTypes, r
      <4>2. dest' \in [Proc -> Seq(Octet)]
        BY <1>1, <2>3, <2>4 DEF SetupTypes
      <4>3. pc' \in [Proc -> VS!Labels]
        BY <1>1, <2>8 DEF SetupTypes, VS!Labels
      <4> QED  BY <1>1, <1>2, <2>8, <4>1, <4>2, <4>3 DEF SetupTypes
    <3> QED  BY <3>3, <3>8, <3>9, <3>10, <3>11, Together
  <2> QED  BY <1>4, <2>6, <2>7, <2>8
<1>5. CASE pc[p] = "readLid" /\ VS!ReadExactly(p, 2, "readQpn")
  <2>1. CASE VS!Left(p) /\ VS!GiveUp(p) /\ UNCHANGED <<dest, chan>>
    BY <1>3, <2>1
  <2>2. CASE \E k \in 1..2 :
                /\ k <= Len(chan[p])
                /\ dest' = [dest EXCEPT ![p] = @ \o SubSeq(chan[p], 1, k)]
                /\ chan' = [chan EXCEPT ![p] = SubSeq(@, k + 1, Len(@))]
                /\ IF k = 2 THEN pc' = [pc EXCEPT ![p] = "readQpn"] /\ UNCHANGED failed ELSE VS!GiveUp(p)
    <3>1. PICK k \in 1..2 :
                /\ k <= Len(chan[p])
                /\ dest' = [dest EXCEPT ![p] = @ \o SubSeq(chan[p], 1, k)]
                /\ chan' = [chan EXCEPT ![p] = SubSeq(@, k + 1, Len(@))]
                /\ IF k = 2 THEN pc' = [pc EXCEPT ![p] = "readQpn"] /\ UNCHANGED failed ELSE VS!GiveUp(p)
      BY <2>2
    <3>2. k \in 1..4
      OBVIOUS
    <3> QED  BY <1>4, <1>5, <3>1, <3>2
  <2> QED  BY <1>5, <2>1, <2>2 DEF VS!ReadExactly
<1>6. CASE pc[p] = "readQpn" /\ VS!ReadExactly(p, 4, "INIT")
  <2>1. CASE VS!Left(p) /\ VS!GiveUp(p) /\ UNCHANGED <<dest, chan>>
    BY <1>3, <2>1
  <2>2. CASE \E k \in 1..4 :
                /\ k <= Len(chan[p])
                /\ dest' = [dest EXCEPT ![p] = @ \o SubSeq(chan[p], 1, k)]
                /\ chan' = [chan EXCEPT ![p] = SubSeq(@, k + 1, Len(@))]
                /\ IF k = 4 THEN pc' = [pc EXCEPT ![p] = "INIT"] /\ UNCHANGED failed ELSE VS!GiveUp(p)
    BY <1>4, <1>6, <2>2
  <2> QED  BY <1>6, <2>1, <2>2 DEF VS!ReadExactly
<1> QED  BY <1>5, <1>6 DEF VS!ReadPeer

LEMMA SetupStarts == Init => SetupInv
<1> SUFFICES ASSUME Init, phase = "setup" PROVE SetupInv
  BY DEF SetupInv
<1>1. /\ stack \in {"ibv", "vapi"}
      /\ pc \in [Proc -> {"client", "server"}] /\ up = "closed" /\ open = [p \in Proc |-> TRUE]
      /\ chan = [p \in Proc |-> <<>>] /\ held = [p \in Proc |-> {}] /\ qp = [p \in Proc |-> "none"]
      /\ dest = [p \in Proc |-> <<>>] /\ failed = [p \in Proc |-> "no"]
  BY DEF Init, VS!Init, IS!Init, IS!V!Init, VS!Proc, IS!V!Proc, Proc
<1>2. <<>> \in Seq(Octet) /\ Len(<<>>) = 0
  OBVIOUS
<1>3. SetupTypes
  BY <1>1, <1>2 DEF SetupTypes, VS!Labels, States
<1>4. ASSUME NEW p \in Proc PROVE Local(p) /\ Stream(p)
  <2>1. /\ pc[p] \in {"client", "server"} /\ open[p] /\ chan[p] = <<>> /\ held[p] = {} /\ qp[p] = "none"
        /\ dest[p] = <<>> /\ failed[p] = "no" /\ pc[VS!Peer(p)] \in {"client", "server"}
    BY <1>1, PeerFacts
  <2>2. Local(p)
    BY <2>1 DEF Local, First, Early, Knowing, Synced
  <2>3. Len(chan[p]) = 0 /\ ~ \E i \in 1..Len(chan[p]) : chan[p][i] = "sync"
    BY <1>2, <2>1
  <2>4. Stream(p)
    BY <2>1, <2>3 DEF Stream, First, Early, Synced, Told, Knowing
  <2> QED  BY <2>2, <2>4
<1> QED  BY <1>1, <1>3, <1>4 DEF SetupInv

LEMMA SetupInductive == SetupInv /\ [Next]_vars => SetupInv'
<1> SUFFICES ASSUME SetupInv, [Next]_vars, phase' = "setup" PROVE SetupInv'
  BY DEF SetupInv
<1>1. phase = "setup" /\ stack' = stack /\ phase' = phase
  BY DEF Next, vars, SetupStep, MainStep, Adapter
<1>2. stack \in {"ibv", "vapi"}
  BY <1>1 DEF SetupInv
<1>3. CASE UNCHANGED vars
  <2>1. UNCHANGED <<stack, phase, pc, chan, up, open, held, qp, dest, failed>>
    BY <1>3 DEF vars, setupOnly
  <2>2. SetupTypes' = SetupTypes
    BY <2>1 DEF SetupTypes
  <2>3. ASSUME NEW p \in Proc PROVE Local(p)' = Local(p) /\ Stream(p)' = Stream(p)
    BY <2>1 DEF Local, Stream, Ready, Silent
  <2> QED  BY <1>1, <2>1, <2>2, <2>3 DEF SetupInv
<1>4. CASE Next
  <2>1. PICK p \in Proc : SetupStep(p)
    BY <1>1, <1>4 DEF Next, MainStep, Adapter, In
  <2>2. AnyStep(p)
    BY <1>1, <1>2, <2>1, IbvKinds, VapiKinds DEF SetupStep, In
  <2>4. CASE Fails(p)
    BY <1>1, <2>4, GiveUpStep DEF Fails
  <2> QED  BY <1>1, <2>2, <2>4, EstablishStep, CreateStep, ModifyQPStep, RegisterStep, AddressStep,
              FinalizeStep, WriteSteps, EndSteps, SyncReadStep, RepeatsStep, QuitReadStep, ReadPeerStep
           DEF AnyStep, Socket
<1> QED  BY <1>3, <1>4

LEMMA SetupInvariance == Spec => []SetupInv
  BY SetupStarts, SetupInductive, PTL DEF Spec

-----------------------------------------------------------------------------

\* A queue pair of ibv.c or ib.c is brought up towards the peer's address only, whatever
\* was read in pieces and whoever gave up, and it may send only when the peer's can
\* already receive or the peer has given up (initIB, Sync).
THEOREM Paired == Spec => []PairedWithPeer
<1>1. SetupInv => PairedWithPeer
  <2> SUFFICES ASSUME SetupInv PROVE PairedWithPeer
    OBVIOUS
  <2>1. ASSUME phase = "setup" PROVE VS!PairedWithPeer /\ VS!SendsToReadyPeer
    <3>1. \A p \in Proc : Local(p) /\ Stream(p)
      BY <2>1 DEF SetupInv
    <3>2. VS!PairedWithPeer
      BY <3>1 DEF VS!PairedWithPeer, VS!Proc, Proc, Local
    <3>3. VS!SendsToReadyPeer
      BY <3>1 DEF VS!SendsToReadyPeer, VS!Proc, Proc, Stream, Ready
    <3> QED  BY <3>2, <3>3
  <2>2. ASSUME In("ibv", "setup") PROVE VS!TypeOK
    <3>1. SetupTypes
      BY <2>2 DEF SetupInv, In
    <3>2. ASSUME NEW p \in Proc, NEW i \in DOMAIN chan[p] PROVE chan[p][i] \in Octet
      <4>1. chan[p] \in Seq(Octet)
        BY <3>1 DEF SetupTypes
      <4> QED  BY <3>2, <4>1
    <3>3. {VS!Created[i] : i \in DOMAIN VS!Created} = {"ctx", "pd", "scq", "rcq", "qp"}
      <4>1. /\ DOMAIN VS!Created = 1..5
            /\ VS!Created[1] = "ctx" /\ VS!Created[2] = "pd" /\ VS!Created[3] = "scq"
            /\ VS!Created[4] = "rcq" /\ VS!Created[5] = "qp"
        BY DEF VS!Created
      <4>2. 1..5 = {1, 2, 3, 4, 5}
        OBVIOUS
      <4> QED  BY <4>1, <4>2
    <3>4. ASSUME NEW p \in Proc
          PROVE  held[p] \subseteq {VS!Created[i] : i \in DOMAIN VS!Created} \cup VS!Regions
      <4>1. held[p] \subseteq Objects
        BY <3>1 DEF SetupTypes
      <4> QED  BY <3>3, <4>1 DEF VS!Regions, Objects
    <3> QED  BY <3>1, <3>2, <3>4 DEF VS!TypeOK, SetupTypes, VS!Proc, Proc, States, Octet
  <2> QED  BY <2>1, <2>2 DEF PairedWithPeer
<1> QED  BY <1>1, SetupInvariance, PTL

\* After CleanUp no verbs object of ibv.c or ib.c is left, wherever initIB gave up
\* (finalizeIB).
THEOREM AllDestroyed == Spec => []NothingLeaked
<1>1. SetupInv => NothingLeaked
  BY DEF SetupInv, NothingLeaked, VS!NothingLeaked, VS!Proc, Proc, Local
<1> QED  BY <1>1, SetupInvariance, PTL

-----------------------------------------------------------------------------
(* The inductive invariant of the measurements.  The two sides go through a   *)
(* call in step, so the places they are in determine what is under way over   *)
(* TCP, and counting does the rest: the adapters deliver no more than was     *)
(* sent, RecvData takes no more than was delivered, and a side that has taken *)
(* all of its messages leaves nothing under way to its buffer.                *)

\* Before a process knows its peer's buffer, and after it has told its own.
Opening == {"malloc", "addrWrite", "addrRead"}
AddrOut == {"addrRead", "syncWrite", "syncRead", "send", "recv", "free", "idle"}
AddrIn == AddrOut \ {"addrRead"}
\* After a process has written the synchronization string, and after it has read it.
SyncOut == AddrIn \ {"syncWrite"}
SyncIn == SyncOut \ {"syncRead"}

TcpMessage == [t : {"repeat"}, v : Nat \X Nat] \cup [t : {"addr", "sync"}, v : Nat]
Repeat == [t |-> "repeat", v |-> req["tr"]]
Addr(q) == [t |-> "addr", v |-> key[q]]
SyncMessage == [t |-> "sync", v |-> 0]

Posted == [key : Nat, rkey : Nat, octet : {Pattern[r[1]].s : r \in Requests}]

RunTypes ==
    /\ pc \in [Proc -> VR!Labels]
    /\ req \in [Proc -> Nat \X Nat] /\ left \in [Proc -> Nat] /\ calls \in [Proc -> 0..MaxCalls]
    /\ chan \in [Proc -> Seq(TcpMessage)]
    /\ key \in [Proc -> Nat] /\ reg \in [Proc -> BOOLEAN] /\ rkey \in [Proc -> Nat]
    /\ sq \in [Proc -> Seq(Posted)]
    /\ unreaped \in [Proc -> 0..MaxWq]
    /\ got \in [Proc -> Nat] /\ taken \in [Proc -> Nat]
    /\ DOMAIN last = Proc /\ DOMAIN err = Proc

\* What the variables of one process say of each other.
Course(p) ==
    /\ pc[p] \notin {"idle", "exit"} => calls[p] < MaxCalls
    /\ pc[p] # "idle" => req[p] \in Requests
    /\ reg[p] <=> pc[p] \notin {"idle", "malloc", "exit"}
    /\ Len(sq[p]) <= unreaped[p]
    /\ taken[p] <= got[p]
    /\ reg[p] /\ last[p] = "b" => taken[p] < got[p]

\* Between two calls, as the transmitter sees it: nothing is under way.
Apart ==
    /\ pc["tr"] \in Opening \cup {"idle"} /\ pc["rcv"] \in {"free", "idle"}
    /\ pc["tr"] # "idle" => taken["tr"] = 0 /\ got["tr"] = 0
    /\ pc["tr"] \in {"addrWrite", "addrRead"} => left["tr"] = req["tr"][2]
    /\ chan["tr"] = <<>>
    /\ pc["tr"] = "idle" => chan["rcv"] = <<>>
    /\ pc["tr"] \in {"malloc", "addrWrite"} => chan["rcv"] = <<Repeat>>
    /\ pc["tr"] = "addrRead" => chan["rcv"] = <<Repeat, Addr("tr")>>
    /\ sq["tr"] = <<>> /\ sq["rcv"] = <<>>

\* Messages that p has sent in this call, and turns that it has done.
SentBy(p) ==
    IF pc[p] \notin SyncIn THEN 0
    ELSE IF p = "tr" THEN IF pc[p] = "recv" THEN taken[p] + 1 ELSE taken[p]
                     ELSE IF pc[p] = "send" THEN taken[p] - 1 ELSE taken[p]
Turns(p) == IF p = "tr" THEN taken[p] ELSE SentBy(p)

\* What is under way to p over TCP from q.
Due(p, q) ==
    IF pc[p] \notin AddrIn /\ pc[q] \in AddrOut
    THEN IF pc[q] \in SyncOut THEN <<Addr(q), SyncMessage>> ELSE <<Addr(q)>>
    ELSE IF pc[p] \notin SyncIn /\ pc[q] \in SyncOut THEN <<SyncMessage>> ELSE <<>>

\* p in a call that its peer q is in as well.
Joint(p, q) ==
    /\ pc[p] # "exit" /\ (p = "tr" => pc[p] # "idle")
    /\ pc[p] \in AddrIn => pc[q] \in AddrOut
    /\ pc[p] \in SyncIn => pc[q] \in SyncOut
    /\ pc[p] \in AddrIn \ {"idle"} => rkey[p] = key[q]
    /\ req[p] = req["tr"]
    /\ pc[p] \notin SyncIn => taken[p] = 0
    /\ pc[p] # "malloc" => left[p] = req["tr"][2] - Turns(p)
    /\ pc[p] \in {"send", "recv"} => left[p] > 0
    /\ pc[p] \in {"free", "idle"} => left[p] = 0
    /\ got[q] + Len(sq[p]) <= SentBy(p)
    /\ \A i \in 1..Len(sq[p]) : sq[p][i].rkey = key[q]
    /\ chan[p] = Due(p, q)

Coupled == Joint("tr", "rcv") /\ Joint("rcv", "tr")

\* A process has found no memory.
Broken ==
    /\ sq["tr"] = <<>> /\ sq["rcv"] = <<>>
    /\ \/ /\ pc["tr"] = "exit" /\ pc["rcv"] \in {"free", "idle"} \cup Opening
          /\ chan["rcv"] = IF pc["rcv"] \in Opening THEN <<>> ELSE <<Repeat>>
       \/ pc["rcv"] = "exit" /\ pc["tr"] \in Opening /\ chan["tr"] = <<>>
       \/ pc["rcv"] = "exit" /\ pc["tr"] = "exit"

Courses == RunTypes /\ Course("tr") /\ Course("rcv")
Running == Courses /\ (Apart \/ Coupled \/ Broken)

RunInv == phase = "run" => stack = "ibv" /\ Running

-----------------------------------------------------------------------------
(* Lemmas about queues and about what the invariant says of the buffers. *)

LEMMA TwoSides ==
    /\ Proc = {"tr", "rcv"} /\ VR!Proc = Proc /\ VS!Proc = Proc
    /\ VR!Peer("tr") = "rcv" /\ VR!Peer("rcv") = "tr"
BY DEF Proc, VR!Proc, VS!Proc, VR!Peer

LEMMA ShortQueues ==
    ASSUME NEW a, NEW b
    PROVE  /\ <<a>> # <<>> /\ <<a, b>> # <<>>
           /\ Head(<<a>>) = a /\ Head(<<a, b>>) = a
           /\ Tail(<<a>>) = <<>> /\ Tail(<<a, b>>) = <<b>>
           /\ Append(<<>>, a) = <<a>> /\ Append(<<a>>, b) = <<a, b>>
<1>1. <<a>> # <<>> /\ <<a, b>> # <<>>
  OBVIOUS
<1>2. Head(<<a>>) = a /\ Head(<<a, b>>) = a
  OBVIOUS
<1>3. Tail(<<a>>) = <<>>
  OBVIOUS
<1>4. Tail(<<a, b>>) = <<b>>
  OBVIOUS
<1>5. Append(<<>>, a) = <<a>>
  OBVIOUS
<1>6. Append(<<a>>, b) = <<a, b>>
  <2>1. <<a>> \in Seq({a, b}) /\ <<a, b>> \in Seq({a, b}) /\ b \in {a, b} /\ Len(<<a>>) = 1 /\ Len(<<a, b>>) = 2
    OBVIOUS
  <2>2. /\ Append(<<a>>, b) \in Seq({a, b}) /\ Len(Append(<<a>>, b)) = 2
        /\ Append(<<a>>, b)[1] = a /\ Append(<<a>>, b)[2] = b
    BY <2>1, AppendProperties
  <2>3. <<a, b>>[1] = a /\ <<a, b>>[2] = b
    OBVIOUS
  <2> DEFINE s == Append(<<a>>, b)
             t == <<a, b>>
  <2> HIDE DEF s, t
  <2>4. s \in Seq({a, b}) /\ t \in Seq({a, b}) /\ Len(s) = 2 /\ Len(t) = 2
    BY <2>1, <2>2 DEF s, t
  <2>5. s[1] = t[1] /\ s[2] = t[2]
    BY <2>2, <2>3 DEF s, t
  <2>6. \A i \in 1..Len(s) : s[i] = t[i]
    BY <2>4, <2>5
  <2>7. s = t
    BY <2>4, <2>6, SeqEqual
  <2> QED  BY <2>7 DEF s, t
<1> QED  BY <1>1, <1>2, <1>3, <1>4, <1>5, <1>6

LEMMA QueueOps ==
    ASSUME NEW T, NEW s \in Seq(T)
    PROVE  /\ Len(s) \in Nat /\ (Len(s) = 0 <=> s = <<>>)
           /\ \A i \in 1..Len(s) : s[i] \in T
           /\ \A x \in T : Append(s, x) \in Seq(T) /\ Len(Append(s, x)) = Len(s) + 1
           /\ s # <<>> => /\ Head(s) = s[1] /\ Head(s) \in T
                          /\ Tail(s) \in Seq(T) /\ Len(Tail(s)) = Len(s) - 1
                          /\ \A i \in 1..Len(Tail(s)) : Tail(s)[i] = s[i + 1]
<1>1. Len(s) \in Nat /\ (Len(s) = 0 <=> s = <<>>) /\ \A i \in 1..Len(s) : s[i] \in T
  BY EmptySeq, LenProperties, ElementOfSeq
<1>2. \A x \in T : Append(s, x) \in Seq(T) /\ Len(Append(s, x)) = Len(s) + 1
  BY AppendProperties
<1>3. ASSUME s # <<>>
      PROVE  /\ Head(s) = s[1] /\ Head(s) \in T
             /\ Tail(s) \in Seq(T) /\ Len(Tail(s)) = Len(s) - 1
             /\ \A i \in 1..Len(Tail(s)) : Tail(s)[i] = s[i + 1]
  BY <1>1, <1>3, HeadTailProperties
<1> QED  BY <1>1, <1>2, <1>3

LEMMA NoneIsEmpty == Len(<<>>) = 0
OBVIOUS

\* A message of each kind is one.
LEMMA Messages ==
    ASSUME RunTypes
    PROVE  /\ Repeat \in TcpMessage /\ SyncMessage \in TcpMessage
           /\ \A p \in Proc : Addr(p) \in TcpMessage
BY DEF RunTypes, Repeat, Addr, SyncMessage, TcpMessage, Proc

\* A request is for one turn at least.
LEMMA Turned ==
    ASSUME NEW r \in Requests
    PROVE  r \in Nat \X Nat /\ r[2] \in Nat /\ r[2] > 0 /\ r[1] \in Nat
BY RequestsAssumption

-----------------------------------------------------------------------------
(* One lemma for each action. *)

\* What a process that does not move keeps.
LEMMA Kept ==
    ASSUME NEW q \in Proc, Course(q),
           pc'[q] = pc[q], req'[q] = req[q], reg'[q] = reg[q], calls'[q] = calls[q],
           sq'[q] = sq[q], unreaped'[q] = unreaped[q], taken'[q] = taken[q],
           got'[q] = got[q], last'[q] = last[q]
    PROVE  Course(q)'
BY DEF Course

LEMMA CallStep ==
    ASSUME Running, NEW p \in Proc, VR!Call(p)
    PROVE  Running'
<1> USE TwoSides
<1>1. RunTypes /\ Course("tr") /\ Course("rcv")
  BY DEF Running, Courses
<1>2. /\ pc[p] = "idle" /\ pc' = [pc EXCEPT ![p] = "malloc"] /\ calls[p] < MaxCalls
      /\ got' = [got EXCEPT ![p] = 0] /\ taken' = [taken EXCEPT ![p] = 0]
      /\ UNCHANGED <<left, calls, key, reg, rkey, last, sq, unreaped, err>>
  BY DEF VR!Call, VR!Goto, VR!mem, VR!hca
<1>3. ASSUME p = "tr"
      PROVE  /\ req' = [req EXCEPT !["tr"] = req'["tr"]] /\ req'["tr"] \in Requests
             /\ chan' = [chan EXCEPT !["rcv"] = Append(@, Repeat')]
  <2>1. PICK r \in Requests : /\ req' = [req EXCEPT !["tr"] = r]
                              /\ chan' = [chan EXCEPT !["rcv"] = Append(@, [t |-> "repeat", v |-> r])]
    BY <1>3 DEF VR!Call, VR!Tell
  <2>2. req'["tr"] = r
    BY <1>1, <2>1 DEF RunTypes
  <2> QED  BY <2>1, <2>2 DEF Repeat
<1>4. ASSUME p = "rcv"
      PROVE  /\ chan["rcv"] # <<>> /\ Head(chan["rcv"]).t = "repeat"
             /\ chan' = [chan EXCEPT !["rcv"] = Tail(@)]
             /\ req' = [req EXCEPT !["rcv"] = Head(chan["rcv"]).v]
  BY <1>4 DEF VR!Call, VR!Hear
<1>5. sq["tr"] \in Seq(Posted) /\ sq["rcv"] \in Seq(Posted)
      /\ chan["tr"] \in Seq(TcpMessage) /\ chan["rcv"] \in Seq(TcpMessage)
  BY <1>1 DEF RunTypes
<1>6. CASE p = "tr"
  <2>1. Apart /\ pc["tr"] = "idle" /\ chan["rcv"] = <<>>
    BY <1>2, <1>6 DEF Running, Apart, Coupled, Joint, Broken, Opening
  <2>2. /\ req'["tr"] \in Nat \X Nat /\ req'["rcv"] = req["rcv"] /\ Repeat' \in TcpMessage
        /\ chan'["rcv"] = Append(chan["rcv"], Repeat') /\ chan'["tr"] = chan["tr"]
        /\ pc'["tr"] = "malloc" /\ pc'["rcv"] = pc["rcv"]
        /\ got'["tr"] = 0 /\ taken'["tr"] = 0 /\ got'["rcv"] = got["rcv"] /\ taken'["rcv"] = taken["rcv"]
    <3>1. req'["tr"] \in Nat \X Nat /\ req'["rcv"] = req["rcv"]
      BY <1>1, <1>3, <1>6, Turned DEF RunTypes
    <3>2. Repeat' \in TcpMessage
      BY <3>1 DEF Repeat, TcpMessage
    <3>3. chan'["rcv"] = Append(chan["rcv"], Repeat') /\ chan'["tr"] = chan["tr"]
      BY <1>1, <1>3, <1>6 DEF RunTypes
    <3>4. /\ pc'["tr"] = "malloc" /\ pc'["rcv"] = pc["rcv"]
          /\ got'["tr"] = 0 /\ taken'["tr"] = 0 /\ got'["rcv"] = got["rcv"] /\ taken'["rcv"] = taken["rcv"]
      BY <1>1, <1>2, <1>6 DEF RunTypes
    <3> QED  BY <3>1, <3>2, <3>3, <3>4
  <2>3. Append(chan["rcv"], Repeat') \in Seq(TcpMessage)
    BY <1>5, <2>2, QueueOps
  <2>4. RunTypes'
    <3>1. pc' \in [Proc -> VR!Labels] /\ got' \in [Proc -> Nat] /\ taken' \in [Proc -> Nat]
      BY <1>1, <1>2 DEF RunTypes, VR!Labels
    <3>2. req' \in [Proc -> Nat \X Nat]
      BY <1>1, <1>3, <1>6, <2>2 DEF RunTypes
    <3>3. chan' \in [Proc -> Seq(TcpMessage)]
      BY <1>1, <1>3, <1>6, <2>2, <2>3 DEF RunTypes
    <3> QED  BY <1>1, <1>2, <3>1, <3>2, <3>3 DEF RunTypes
  <2>5. Course("tr")'
    BY <1>1, <1>2, <1>3, <1>6, <2>2 DEF Course
  <2>6. Course("rcv")'
    BY <1>1, <1>2, <2>2, Kept
  <2>7. chan'["rcv"] = <<Repeat'>>
    BY <2>1, <2>2, ShortQueues
  <2>8. Apart'
    BY <1>2, <2>1, <2>2, <2>7 DEF Apart, Opening
  <2> QED  BY <2>4, <2>5, <2>6, <2>8 DEF Running, Courses
<1>7. CASE p = "rcv"
  <2>1. /\ Head(chan["rcv"]) = Repeat /\ pc["tr"] \in Opening \cup {"exit"}
        /\ Apart \/ Broken
        /\ pc["tr"] \in {"malloc", "addrWrite", "exit"} => Tail(chan["rcv"]) = <<>>
        /\ pc["tr"] = "addrRead" => Tail(chan["rcv"]) = <<Addr("tr")>>
    <3>1. CASE Apart
      <4>1. pc["tr"] \in Opening
        BY <1>4, <1>7, <3>1 DEF Apart, Opening
      <4>2. chan["rcv"] = <<Repeat>> \/ chan["rcv"] = <<Repeat, Addr("tr")>>
        BY <3>1, <4>1 DEF Apart, Opening
      <4>3. Head(chan["rcv"]) = Repeat
        BY <4>2, ShortQueues
      <4>4. pc["tr"] \in {"malloc", "addrWrite"} => Tail(chan["rcv"]) = <<>>
        BY <3>1, ShortQueues DEF Apart
      <4>5. pc["tr"] = "addrRead" => Tail(chan["rcv"]) = <<Addr("tr")>>
        <5>1. pc["tr"] = "addrRead" => chan["rcv"] = <<Repeat, Addr("tr")>>
          BY <3>1 DEF Apart
        <5>2. Tail(<<Repeat, Addr("tr")>>) = <<Addr("tr")>>
          BY ShortQueues
        <5> QED  BY <5>1, <5>2
      <4> QED  BY <3>1, <4>1, <4>3, <4>4, <4>5 DEF Opening
    <3>2. CASE Coupled
      <4>1. chan["rcv"] = <<>>
        BY <1>2, <1>7, <3>2 DEF Coupled, Joint, Due, AddrIn, AddrOut, SyncIn, SyncOut
      <4> QED  BY <4>1, <1>4, <1>7
    <3>3. CASE Broken
      BY <1>2, <1>4, <1>7, <3>3, ShortQueues DEF Broken, Opening
    <3> QED  BY <3>1, <3>2, <3>3 DEF Running
  <2>2. /\ req'["rcv"] = req["tr"] /\ req'["tr"] = req["tr"]
        /\ chan'["rcv"] = Tail(chan["rcv"]) /\ chan'["tr"] = chan["tr"]
        /\ pc'["rcv"] = "malloc" /\ pc'["tr"] = pc["tr"]
        /\ got'["rcv"] = 0 /\ taken'["rcv"] = 0 /\ got'["tr"] = got["tr"] /\ taken'["tr"] = taken["tr"]
    <3>1. Repeat.v = req["tr"]
      BY DEF Repeat
    <3>2. req'["rcv"] = req["tr"] /\ req'["tr"] = req["tr"]
      BY <1>1, <1>4, <1>7, <2>1, <3>1 DEF RunTypes
    <3>3. chan'["rcv"] = Tail(chan["rcv"]) /\ chan'["tr"] = chan["tr"]
      BY <1>1, <1>4, <1>7 DEF RunTypes
    <3>4. /\ pc'["rcv"] = "malloc" /\ pc'["tr"] = pc["tr"]
          /\ got'["rcv"] = 0 /\ taken'["rcv"] = 0 /\ got'["tr"] = got["tr"] /\ taken'["tr"] = taken["tr"]
      BY <1>1, <1>2, <1>7 DEF RunTypes
    <3> QED  BY <3>2, <3>3, <3>4
  <2>3. Tail(chan["rcv"]) \in Seq(TcpMessage)
    BY <1>4, <1>5, <1>7, QueueOps
  <2>4. RunTypes'
    <3>1. pc' \in [Proc -> VR!Labels] /\ got' \in [Proc -> Nat] /\ taken' \in [Proc -> Nat]
      BY <1>1, <1>2 DEF RunTypes, VR!Labels
    <3>2. req' \in [Proc -> Nat \X Nat]
      <4>1. req["tr"] \in Nat \X Nat
        BY <1>1 DEF RunTypes
      <4> QED  BY <1>1, <1>4, <1>7, <2>2, <4>1 DEF RunTypes
    <3>3. chan' \in [Proc -> Seq(TcpMessage)]
      BY <1>1, <1>4, <1>7, <2>2, <2>3 DEF RunTypes
    <3> QED  BY <1>1, <1>2, <3>1, <3>2, <3>3 DEF RunTypes
  <2>5. req["tr"] \in Requests
    BY <1>1, <2>1 DEF Course, Opening
  <2>6. Course("rcv")'
    BY <1>1, <1>2, <1>7, <2>2, <2>5 DEF Course
  <2>7. Course("tr")'
    BY <1>1, <1>2, <2>2, Kept
  <2>8. CASE Apart
    <3>1. /\ sq'["tr"] = <<>> /\ sq'["rcv"] = <<>> /\ chan'["tr"] = <<>>
          /\ taken'["tr"] = 0 /\ got'["tr"] = 0 /\ pc["tr"] \in Opening
          /\ pc["tr"] # "malloc" => left'["tr"] = req["tr"][2]
      BY <1>2, <2>1, <2>2, <2>8 DEF Apart, Opening
    <3>2. Len(sq'["tr"]) = 0 /\ Len(sq'["rcv"]) = 0
      BY <3>1, NoneIsEmpty
    <3>3. Joint("tr", "rcv")'
      <4>1. Due("tr", "rcv")' = <<>>
        BY <2>2, <3>1 DEF Due, AddrIn, AddrOut, SyncIn, SyncOut, Opening
      <4>2. SentBy("tr")' = 0 /\ Turns("tr")' = 0
        BY <2>2, <3>1 DEF SentBy, Turns, Opening, SyncIn, SyncOut, AddrIn, AddrOut
      <4>3. left'["tr"] = left["tr"] /\ left["tr"] \in Nat /\ req["tr"][2] \in Nat
        BY <1>1, <1>2 DEF RunTypes
      <4> QED  BY <2>2, <3>1, <3>2, <4>1, <4>2, <4>3 DEF Joint, Opening, AddrIn, AddrOut, SyncIn, SyncOut
    <3>4. Joint("rcv", "tr")'
      <4>1. Due("rcv", "tr")' = Tail(chan["rcv"])
        <5>1. Addr("tr")' = Addr("tr")
          BY <1>2 DEF Addr
        <5> QED  BY <2>1, <2>2, <3>1, <5>1 DEF Due, AddrIn, AddrOut, SyncIn, SyncOut, Opening
      <4>2. SentBy("rcv")' = 0
        BY <2>2 DEF SentBy, Opening, SyncIn, SyncOut, AddrIn, AddrOut
      <4> QED  BY <2>2, <3>1, <3>2, <4>1, <4>2 DEF Joint, Opening, AddrIn, AddrOut, SyncIn, SyncOut
    <3> QED  BY <2>4, <2>6, <2>7, <3>3, <3>4 DEF Running, Courses, Coupled
  <2>9. CASE Broken
    <3>1. Broken'
      BY <1>2, <1>7, <2>1, <2>2, <2>9 DEF Broken, Opening
    <3> QED  BY <2>4, <2>6, <2>7, <3>1 DEF Running, Courses
  <2> QED  BY <2>1, <2>8, <2>9
<1> QED  BY <1>6, <1>7

LEMMA MallocStep ==
    ASSUME PatternsTellApart, Running, NEW p \in Proc, VR!MyMalloc(p)
    PROVE  Running'
<1> DEFINE q == VR!Peer(p)
<1> USE TwoSides
<1>1. RunTypes /\ Course("tr") /\ Course("rcv")
  BY DEF Running, Courses
<1>2. /\ pc[p] = "malloc"
      /\ UNCHANGED <<req, calls, chan, rkey, sq, unreaped, err, got, taken>>
  BY DEF VR!MyMalloc, VR!Goto, VR!hca, VR!seen
<1>3. q \in Proc /\ q # p /\ {p, q} = {"tr", "rcv"} /\ sq[q] \in Seq(Posted) /\ sq[p] \in Seq(Posted)
      /\ req["tr"][2] \in Nat /\ (p = "tr" \/ q = "tr")
  BY <1>1 DEF RunTypes
<1>4. CASE pc' = [pc EXCEPT ![p] = "exit"] /\ UNCHANGED <<key, reg, last, left>>
  <2>1. pc'[p] = "exit" /\ pc'[q] = pc[q]
    BY <1>1, <1>3, <1>4 DEF RunTypes
  <2>2. RunTypes'
    BY <1>1, <1>2, <1>4 DEF RunTypes, VR!Labels
  <2>3. Course(p)' /\ Course(q)'
    BY <1>1, <1>2, <1>3, <1>4, <2>1 DEF Course
  <2>4. ASSUME Apart PROVE Apart' \/ Coupled' \/ Broken'
    <3>1. p = "tr" /\ q = "rcv"
      BY <1>2, <1>3, <2>4 DEF Apart
    <3>2. /\ pc["rcv"] \in {"free", "idle"} /\ chan["rcv"] = <<Repeat>>
          /\ sq["tr"] = <<>> /\ sq["rcv"] = <<>>
      BY <1>2, <2>4, <3>1 DEF Apart
    <3>3. Repeat' = Repeat
      BY <1>2 DEF Repeat
    <3>4. Broken'
      BY <1>2, <2>1, <3>1, <3>2, <3>3 DEF Broken, Opening
    <3> QED  BY <3>4
  <2>5. ASSUME Coupled PROVE Apart' \/ Coupled' \/ Broken'
    <3>1. Joint(p, q) /\ Joint(q, p)
      BY <1>3, <2>5 DEF Coupled
    <3>2. SentBy(p) = 0 /\ pc[q] \notin AddrIn /\ chan[q] = <<>>
      BY <1>2, <3>1 DEF Joint, Due, SentBy, AddrIn, AddrOut, SyncIn, SyncOut
    <3>3. pc[q] \in VR!Labels /\ got[p] \in Nat /\ got[q] \in Nat /\ Len(sq[p]) \in Nat /\ Len(sq[q]) \in Nat
      BY <1>1, <1>3, QueueOps DEF RunTypes
    <3>4. SentBy(q) = 0
      BY <3>2 DEF SentBy, AddrIn, AddrOut, SyncIn, SyncOut
    <3>5. Len(sq[p]) = 0 /\ Len(sq[q]) = 0
      BY <3>1, <3>2, <3>3, <3>4 DEF Joint
    <3>6. sq[p] = <<>> /\ sq[q] = <<>>
      BY <1>3, <3>5, QueueOps
    <3>7. pc[q] \in Opening
      BY <1>3, <3>1, <3>2, <3>3 DEF Joint, Opening, AddrIn, AddrOut, VR!Labels
    <3>8. Broken'
      BY <1>2, <1>3, <2>1, <3>2, <3>6, <3>7 DEF Broken
    <3> QED  BY <3>8
  <2>6. ASSUME Broken PROVE Apart' \/ Coupled' \/ Broken'
    BY <1>2, <1>3, <2>1, <2>6 DEF Broken, Opening
  <2>7. Apart' \/ Coupled' \/ Broken'
    BY <2>4, <2>5, <2>6 DEF Running
  <2> QED  BY <1>3, <2>2, <2>3, <2>7 DEF Running, Courses
<1>5. CASE /\ pc' = [pc EXCEPT ![p] = "addrWrite"]
           /\ key' = [key EXCEPT ![p] = @ + 1]
           /\ reg' = [reg EXCEPT ![p] = TRUE]
           /\ last' = [last EXCEPT ![p] = Pattern[req[p][1]].r]
           /\ left' = [left EXCEPT ![p] = req[p][2]]
  <2>1. /\ pc'[p] = "addrWrite" /\ pc'[q] = pc[q] /\ key'[q] = key[q] /\ reg'[p] = TRUE /\ reg'[q] = reg[q]
        /\ last'[p] = Pattern[req[p][1]].r /\ last'[q] = last[q]
        /\ left'[p] = req[p][2] /\ left'[q] = left[q]
    BY <1>1, <1>3, <1>5 DEF RunTypes
  <2>2. RunTypes'
    <3>1. req[p][2] \in Nat
      BY <1>1 DEF RunTypes
    <3>2. pc' \in [Proc -> VR!Labels] /\ key' \in [Proc -> Nat] /\ reg' \in [Proc -> BOOLEAN]
      <4>1. pc' \in [Proc -> VR!Labels]
        BY <1>1, <1>5 DEF RunTypes, VR!Labels
      <4>2. key' \in [Proc -> Nat]
        <5>1. key \in [Proc -> Nat]
          BY <1>1 DEF RunTypes
        <5>2. key[p] \in Nat
          BY <5>1
        <5>3. key[p] + 1 \in Nat
          BY <5>2
        <5> QED  BY <1>5, <5>1, <5>3
      <4>3. reg' \in [Proc -> BOOLEAN]
        BY <1>1, <1>5 DEF RunTypes
      <4> QED  BY <4>1, <4>2, <4>3
    <3>3. left' \in [Proc -> Nat] /\ DOMAIN last' = Proc
      BY <1>1, <1>5, <3>1 DEF RunTypes
    <3> QED  BY <1>1, <1>2, <3>2, <3>3 DEF RunTypes
  <2>3. req[p] \in Requests
    BY <1>1, <1>2, <1>3 DEF Course
  <2>4. last'[p] # "b"
    BY <2>1, <2>3 DEF PatternsTellApart
  <2>5. Course(p)' /\ Course(q)'
    BY <1>1, <1>2, <1>3, <1>5, <2>1, <2>4 DEF Course
  <2>6. ASSUME Apart PROVE Apart' \/ Coupled' \/ Broken'
    <3>1. p = "tr"
      BY <1>2, <1>3, <2>6 DEF Apart
    <3>2. Repeat' = Repeat
      BY <1>2 DEF Repeat
    <3>3. Apart'
      BY <1>2, <1>3, <2>1, <2>6, <3>1, <3>2 DEF Apart, Opening
    <3> QED  BY <3>3
  <2>7. ASSUME Coupled PROVE Apart' \/ Coupled' \/ Broken'
    <3>1. Joint(p, q) /\ Joint(q, p)
      BY <1>3, <2>7 DEF Coupled
    <3>2. SentBy(p) = 0 /\ SentBy(p)' = 0 /\ pc[q] \notin AddrIn /\ chan[q] = <<>>
      BY <1>2, <2>1, <3>1 DEF Joint, Due, SentBy, AddrIn, AddrOut, SyncIn, SyncOut
    <3>3. pc[q] \in VR!Labels /\ got[p] \in Nat /\ got[q] \in Nat /\ Len(sq[p]) \in Nat /\ Len(sq[q]) \in Nat
      BY <1>1, <1>3, QueueOps DEF RunTypes
    <3>4. SentBy(q) = 0 /\ SentBy(q)' = 0
      BY <2>1, <3>2 DEF SentBy, AddrIn, AddrOut, SyncIn, SyncOut
    <3>5. Len(sq[p]) = 0 /\ Len(sq[q]) = 0
      BY <3>1, <3>2, <3>3, <3>4 DEF Joint
    <3>6. Turns(p)' = 0 /\ Turns(q)' = Turns(q)
      BY <1>2, <1>3, <2>1, <3>1, <3>2, <3>4 DEF Joint, Turns, SyncIn, SyncOut, AddrIn, AddrOut
    <3>7. Due(p, q)' = Due(p, q) /\ Due(q, p)' = Due(q, p)
      BY <1>2, <2>1, <3>1 DEF Joint, Due, Addr, SyncMessage, AddrIn, AddrOut, SyncIn, SyncOut
    <3>8. Joint(p, q)'
      BY <1>2, <1>3, <2>1, <3>1, <3>2, <3>3, <3>5, <3>6, <3>7 DEF Joint, AddrIn, AddrOut, SyncIn, SyncOut
    <3>9. Joint(q, p)'
      <4>1. pc[q] \notin SyncIn /\ pc[q] \notin {"send", "recv", "free", "idle"}
        BY <3>2 DEF AddrIn, AddrOut, SyncIn, SyncOut
      <4>2. /\ pc[q] # "exit" /\ (q = "tr" => pc[q] # "idle") /\ req[q] = req["tr"] /\ taken[q] = 0
            /\ pc[q] # "malloc" => left[q] = req["tr"][2] - Turns(q)
        BY <3>1, <4>1 DEF Joint
      <4>3. got'[p] + Len(sq'[q]) <= SentBy(q)'
        BY <1>2, <3>1, <3>4 DEF Joint
      <4>4. \A i \in 1..Len(sq'[q]) : sq'[q][i].rkey = key'[p]
        BY <1>2, <3>5
      <4>5. chan'[q] = Due(q, p)'
        BY <1>2, <3>1, <3>7 DEF Joint
      <4> QED  BY <1>2, <2>1, <3>2, <3>6, <4>1, <4>2, <4>3, <4>4, <4>5 DEF Joint
    <3> QED  BY <1>3, <3>8, <3>9 DEF Coupled
  <2>8. ASSUME Broken PROVE Apart' \/ Coupled' \/ Broken'
    BY <1>2, <1>3, <2>1, <2>8 DEF Broken, Opening, Repeat
  <2>9. Apart' \/ Coupled' \/ Broken'
    BY <2>6, <2>7, <2>8 DEF Running
  <2> QED  BY <1>3, <2>2, <2>5, <2>9 DEF Running, Courses
<1> QED  BY <1>4, <1>5 DEF VR!MyMalloc, VR!Goto

LEMMA AddressOutStep ==
    ASSUME Running, NEW p \in Proc, pc[p] = "addrWrite", VR!AfterAlignmentInit(p)
    PROVE  Running'
<1> DEFINE q == VR!Peer(p)
<1> USE TwoSides
<1>1. RunTypes /\ Course("tr") /\ Course("rcv")
  BY DEF Running, Courses
<1>2. /\ pc' = [pc EXCEPT ![p] = "addrRead"]
      /\ chan' = [chan EXCEPT ![q] = Append(@, Addr(p))]
      /\ UNCHANGED <<req, left, calls, key, reg, rkey, last, sq, unreaped, err, got, taken>>
  BY DEF VR!AfterAlignmentInit, VR!Goto, VR!Tell, VR!hca, VR!seen, Addr
<1>3. /\ q \in Proc /\ q # p /\ {p, q} = {"tr", "rcv"} /\ (p = "tr" \/ q = "tr")
      /\ chan[q] \in Seq(TcpMessage) /\ Addr(p) \in TcpMessage
      /\ pc'[p] = "addrRead" /\ pc'[q] = pc[q]
      /\ chan'[q] = Append(chan[q], Addr(p)) /\ chan'[p] = chan[p]
  <2>1. q \in Proc /\ q # p /\ {p, q} = {"tr", "rcv"} /\ (p = "tr" \/ q = "tr")
    OBVIOUS
  <2>2. chan[q] \in Seq(TcpMessage) /\ Addr(p) \in TcpMessage
    BY <1>1, <2>1, Messages DEF RunTypes
  <2> QED  BY <1>1, <1>2, <2>1, <2>2 DEF RunTypes
<1>4. RunTypes'
  <2>1. Append(chan[q], Addr(p)) \in Seq(TcpMessage)
    BY <1>3, QueueOps
  <2>2. chan' \in [Proc -> Seq(TcpMessage)]
    BY <1>1, <1>2, <1>3, <2>1 DEF RunTypes
  <2>3. pc' \in [Proc -> VR!Labels]
    BY <1>1, <1>2 DEF RunTypes, VR!Labels
  <2> QED  BY <1>1, <1>2, <2>2, <2>3 DEF RunTypes
<1>5. Course(p)' /\ Course(q)'
  BY <1>1, <1>2, <1>3 DEF Course
<1>6. Repeat' = Repeat /\ Addr(p)' = Addr(p) /\ Addr(q)' = Addr(q)
  BY <1>2 DEF Repeat, Addr
<1>7. ASSUME Apart PROVE Apart'
  <2>1. p = "tr" /\ q = "rcv"
    BY <1>3, <1>7 DEF Apart
  <2>2. chan["rcv"] = <<Repeat>>
    BY <1>7, <2>1 DEF Apart
  <2>3. Append(<<Repeat>>, Addr("tr")) = <<Repeat, Addr("tr")>>
    BY ShortQueues
  <2>4. chan'["rcv"] = <<Repeat, Addr("tr")>>'
    BY <1>3, <1>6, <2>1, <2>2, <2>3
  <2> QED  BY <1>2, <1>3, <1>7, <2>1, <2>4 DEF Apart, Opening
<1>8. ASSUME Coupled PROVE Coupled'
  <2>1. Joint(p, q) /\ Joint(q, p)
    BY <1>3, <1>8 DEF Coupled
  <2>2. pc[q] \notin AddrIn /\ chan[q] = <<>>
    BY <2>1 DEF Joint, Due, AddrIn, AddrOut, SyncIn, SyncOut
  <2>3. chan'[q] = <<Addr(p)>>
    BY <1>3, <2>2, ShortQueues
  <2>4. Due(q, p)' = <<Addr(p)>>
    BY <1>3, <1>6, <2>2 DEF Due, AddrIn, AddrOut, SyncIn, SyncOut
  <2>5. Due(p, q)' = Due(p, q)
    BY <1>3, <1>6 DEF Due, AddrIn, AddrOut, SyncIn, SyncOut, SyncMessage
  <2>6. /\ SentBy(p)' = SentBy(p) /\ Turns(p)' = Turns(p)
        /\ SentBy(q)' = SentBy(q) /\ Turns(q)' = Turns(q)
    BY <1>2, <1>3 DEF SentBy, Turns, AddrIn, AddrOut, SyncIn, SyncOut
  <2>7. Joint(p, q)'
    BY <1>2, <1>3, <2>1, <2>5, <2>6 DEF Joint, AddrIn, AddrOut, SyncIn, SyncOut
  <2>8. Joint(q, p)'
    BY <1>2, <1>3, <2>1, <2>2, <2>3, <2>4, <2>6 DEF Joint, AddrIn, AddrOut, SyncIn, SyncOut
  <2> QED  BY <1>3, <2>7, <2>8 DEF Coupled
<1>9. ASSUME Broken PROVE Broken'
  BY <1>2, <1>3, <1>6, <1>9 DEF Broken, Opening
<1> QED  BY <1>3, <1>4, <1>5, <1>7, <1>8, <1>9 DEF Running, Courses

LEMMA AddressInStep ==
    ASSUME Running, NEW p \in Proc, pc[p] = "addrRead", VR!AfterAlignmentInit(p)
    PROVE  Running'
<1> DEFINE q == VR!Peer(p)
<1> USE TwoSides
<1>1. RunTypes /\ Course("tr") /\ Course("rcv")
  BY DEF Running, Courses
<1>2. /\ pc' = [pc EXCEPT ![p] = "syncWrite"]
      /\ chan[p] # <<>> /\ chan' = [chan EXCEPT ![p] = Tail(@)]
      /\ rkey' = [rkey EXCEPT ![p] = Head(chan[p]).v]
      /\ UNCHANGED <<req, left, calls, key, reg, last, sq, unreaped, err, got, taken>>
  BY DEF VR!AfterAlignmentInit, VR!Goto, VR!Hear, VR!hca, VR!seen
<1>3. /\ q \in Proc /\ q # p /\ {p, q} = {"tr", "rcv"} /\ (p = "tr" \/ q = "tr")
      /\ chan[p] \in Seq(TcpMessage)
      /\ pc'[p] = "syncWrite" /\ pc'[q] = pc[q]
      /\ chan'[p] = Tail(chan[p]) /\ chan'[q] = chan[q]
      /\ rkey'[p] = Head(chan[p]).v /\ rkey'[q] = rkey[q]
  BY <1>1, <1>2 DEF RunTypes
<1>4. Coupled
  BY <1>2, <1>3 DEF Running, Apart, Broken, Opening
<1>5. Joint(p, q) /\ Joint(q, p)
  BY <1>3, <1>4 DEF Coupled
<1>6. Addr(p)' = Addr(p) /\ Addr(q)' = Addr(q) /\ Addr(q).v = key[q]
  BY <1>2 DEF Addr
<1>7. /\ pc[q] \in AddrOut /\ Head(chan[p]) = Addr(q)
      /\ Tail(chan[p]) = IF pc[q] \in SyncOut THEN <<SyncMessage>> ELSE <<>>
  <2>1. chan[p] = Due(p, q) /\ pc[q] \notin SyncIn
    BY <1>5 DEF Joint, AddrIn, AddrOut, SyncIn, SyncOut
  <2>2. pc[q] \in AddrOut
    BY <1>2, <2>1 DEF Due, AddrIn, AddrOut, SyncIn, SyncOut
  <2>3. CASE pc[q] \in SyncOut
    <3>1. chan[p] = <<Addr(q), SyncMessage>>
      BY <2>1, <2>2, <2>3 DEF Due, AddrIn, AddrOut
    <3>2. Head(<<Addr(q), SyncMessage>>) = Addr(q) /\ Tail(<<Addr(q), SyncMessage>>) = <<SyncMessage>>
      BY ShortQueues
    <3> QED  BY <2>2, <2>3, <3>1, <3>2
  <2>4. CASE pc[q] \notin SyncOut
    <3>1. chan[p] = <<Addr(q)>>
      BY <2>1, <2>2, <2>4 DEF Due, AddrIn, AddrOut
    <3> QED  BY <2>2, <2>4, <3>1, ShortQueues
  <2> QED  BY <2>3, <2>4
<1>8. rkey'[p] = key[q] /\ key[q] \in Nat
  BY <1>1, <1>3, <1>6, <1>7 DEF RunTypes
<1>9. RunTypes'
  <2>1. chan' \in [Proc -> Seq(TcpMessage)]
    BY <1>1, <1>2, <1>3, QueueOps DEF RunTypes
  <2>2. pc' \in [Proc -> VR!Labels]
    BY <1>1, <1>2 DEF RunTypes, VR!Labels
  <2>3. rkey' \in [Proc -> Nat]
    BY <1>1, <1>2, <1>3, <1>8 DEF RunTypes
  <2> QED  BY <1>1, <1>2, <2>1, <2>2, <2>3 DEF RunTypes
<1>10. Course(p)' /\ Course(q)'
  BY <1>1, <1>2, <1>3 DEF Course
<1>11. /\ SentBy(p)' = SentBy(p) /\ Turns(p)' = Turns(p)
       /\ SentBy(q)' = SentBy(q) /\ Turns(q)' = Turns(q)
  BY <1>2, <1>3 DEF SentBy, Turns, AddrIn, AddrOut, SyncIn, SyncOut
<1>12. Due(p, q)' = Tail(chan[p])
  BY <1>3, <1>7 DEF Due, AddrIn, AddrOut, SyncIn, SyncOut, SyncMessage
<1>13. Due(q, p)' = Due(q, p)
  BY <1>3, <1>6 DEF Due, AddrIn, AddrOut, SyncIn, SyncOut, SyncMessage
<1>14. Joint(p, q)'
  BY <1>2, <1>3, <1>5, <1>7, <1>8, <1>11, <1>12 DEF Joint, AddrIn, AddrOut, SyncIn, SyncOut
<1>15. Joint(q, p)'
  BY <1>2, <1>3, <1>5, <1>11, <1>13 DEF Joint, AddrIn, AddrOut, SyncIn, SyncOut
<1> QED  BY <1>3, <1>9, <1>10, <1>14, <1>15 DEF Running, Courses, Coupled

LEMMA SyncOutStep ==
    ASSUME Running, NEW p \in Proc, VR!SyncWrite(p)
    PROVE  Running'
<1> DEFINE q == VR!Peer(p)
<1> USE TwoSides
<1>1. RunTypes /\ Course("tr") /\ Course("rcv")
  BY DEF Running, Courses
<1>2. /\ pc[p] = "syncWrite" /\ pc' = [pc EXCEPT ![p] = "syncRead"]
      /\ chan' = [chan EXCEPT ![q] = Append(@, SyncMessage)]
      /\ UNCHANGED <<req, left, calls, key, reg, rkey, last, sq, unreaped, err, got, taken>>
  BY DEF VR!SyncWrite, VR!Goto, VR!Tell, VR!mem, VR!hca, VR!seen, SyncMessage
<1>3. /\ q \in Proc /\ q # p /\ {p, q} = {"tr", "rcv"} /\ (p = "tr" \/ q = "tr")
      /\ chan[q] \in Seq(TcpMessage) /\ SyncMessage \in TcpMessage
      /\ pc'[p] = "syncRead" /\ pc'[q] = pc[q]
      /\ chan'[q] = Append(chan[q], SyncMessage) /\ chan'[p] = chan[p]
  <2>1. q \in Proc /\ q # p /\ {p, q} = {"tr", "rcv"} /\ (p = "tr" \/ q = "tr")
    OBVIOUS
  <2>2. chan[q] \in Seq(TcpMessage) /\ SyncMessage \in TcpMessage
    BY <1>1, <2>1, Messages DEF RunTypes
  <2> QED  BY <1>1, <1>2, <2>1, <2>2 DEF RunTypes
<1>4. Coupled
  BY <1>2, <1>3 DEF Running, Apart, Broken, Opening
<1>5. Joint(p, q) /\ Joint(q, p)
  BY <1>3, <1>4 DEF Coupled
<1>6. Addr(p)' = Addr(p) /\ Addr(q)' = Addr(q)
  BY <1>2 DEF Addr
<1>7. RunTypes'
  <2>1. Append(chan[q], SyncMessage) \in Seq(TcpMessage)
    BY <1>3, QueueOps
  <2>2. chan' \in [Proc -> Seq(TcpMessage)]
    BY <1>1, <1>2, <1>3, <2>1 DEF RunTypes
  <2>3. pc' \in [Proc -> VR!Labels]
    BY <1>1, <1>2 DEF RunTypes, VR!Labels
  <2> QED  BY <1>1, <1>2, <2>2, <2>3 DEF RunTypes
<1>8. Course(p)' /\ Course(q)'
  BY <1>1, <1>2, <1>3 DEF Course
<1>9. /\ SentBy(p)' = SentBy(p) /\ Turns(p)' = Turns(p)
      /\ SentBy(q)' = SentBy(q) /\ Turns(q)' = Turns(q)
  BY <1>2, <1>3 DEF SentBy, Turns, AddrIn, AddrOut, SyncIn, SyncOut
<1>10. Due(p, q)' = Due(p, q)
  BY <1>2, <1>3, <1>6 DEF Due, AddrIn, AddrOut, SyncIn, SyncOut, SyncMessage
<1>11. chan'[q] = Due(q, p)'
  <2>1. chan[q] = Due(q, p) /\ pc[q] \notin SyncIn
    BY <1>2, <1>5 DEF Joint, AddrIn, AddrOut, SyncIn, SyncOut
  <2>2. CASE pc[q] \in AddrIn
    <3>1. chan[q] = <<>> /\ Due(q, p)' = <<SyncMessage>>
      BY <1>2, <1>3, <2>1, <2>2 DEF Due, AddrIn, AddrOut, SyncIn, SyncOut, SyncMessage
    <3> QED  BY <1>3, <3>1, ShortQueues
  <2>3. CASE pc[q] \notin AddrIn
    <3>1. chan[q] = <<Addr(p)>> /\ Due(q, p)' = <<Addr(p), SyncMessage>>
      BY <1>2, <1>3, <1>6, <2>1, <2>3 DEF Due, AddrIn, AddrOut, SyncIn, SyncOut, SyncMessage
    <3>2. Append(<<Addr(p)>>, SyncMessage) = <<Addr(p), SyncMessage>>
      BY ShortQueues
    <3> QED  BY <1>3, <3>1, <3>2
  <2> QED  BY <2>2, <2>3
<1>12. Joint(p, q)'
  BY <1>2, <1>3, <1>5, <1>9, <1>10 DEF Joint, AddrIn, AddrOut, SyncIn, SyncOut
<1>13. Joint(q, p)'
  BY <1>2, <1>3, <1>5, <1>9, <1>11 DEF Joint, AddrIn, AddrOut, SyncIn, SyncOut
<1> QED  BY <1>3, <1>7, <1>8, <1>12, <1>13 DEF Running, Courses, Coupled

LEMMA SyncInStep ==
    ASSUME Running, NEW p \in Proc, VR!SyncRead(p)
    PROVE  Running'
<1> DEFINE q == VR!Peer(p)
           next == VR!LoopHead(p, left[p])
<1> USE TwoSides
<1>1. RunTypes /\ Course("tr") /\ Course("rcv")
  BY DEF Running, Courses
<1>2. /\ pc[p] = "syncRead" /\ pc' = [pc EXCEPT ![p] = next]
      /\ chan[p] # <<>> /\ chan' = [chan EXCEPT ![p] = Tail(@)]
      /\ UNCHANGED <<req, left, calls, key, reg, rkey, last, sq, unreaped, err, got, taken>>
  BY DEF VR!SyncRead, VR!Goto, VR!Hear, VR!mem, VR!hca, VR!seen
<1>3. /\ q \in Proc /\ q # p /\ {p, q} = {"tr", "rcv"} /\ (p = "tr" \/ q = "tr")
      /\ chan[p] \in Seq(TcpMessage)
      /\ pc'[p] = next /\ pc'[q] = pc[q]
      /\ chan'[p] = Tail(chan[p]) /\ chan'[q] = chan[q]
  BY <1>1, <1>2 DEF RunTypes
<1>4. Coupled
  BY <1>2, <1>3 DEF Running, Apart, Broken, Opening
<1>5. Joint(p, q) /\ Joint(q, p)
  BY <1>3, <1>4 DEF Coupled
<1>6. next = IF p = "tr" THEN "send" ELSE "recv"
  <2>1. req["tr"][2] > 0 /\ req["tr"][2] \in Nat
    <3>1. pc["tr"] # "idle" /\ req["tr"] \in Requests
      BY <1>1, <1>3, <1>5 DEF Joint, Course
    <3> QED  BY <3>1, Turned
  <2>2. left[p] = req["tr"][2] - Turns(p) /\ Turns(p) = 0
    BY <1>2, <1>5 DEF Joint, Turns, SentBy, AddrIn, AddrOut, SyncIn, SyncOut
  <2> QED  BY <2>1, <2>2 DEF VR!LoopHead
<1>7. /\ pc[q] \in SyncOut /\ chan'[p] = <<>> /\ Due(p, q)' = <<>>
  <2>1. chan[p] = Due(p, q) /\ pc[q] \in AddrOut
    BY <1>2, <1>5 DEF Joint, AddrIn, AddrOut, SyncIn, SyncOut
  <2>2. pc[q] \in SyncOut /\ chan[p] = <<SyncMessage>>
    BY <1>2, <2>1 DEF Due, AddrIn, AddrOut, SyncIn, SyncOut
  <2>3. Tail(<<SyncMessage>>) = <<>>
    BY ShortQueues
  <2>4. Due(p, q)' = <<>>
    BY <1>3, <1>6 DEF Due, AddrIn, AddrOut, SyncIn, SyncOut
  <2> QED  BY <1>3, <2>2, <2>3, <2>4
<1>8. RunTypes'
  <2>1. chan' \in [Proc -> Seq(TcpMessage)]
    BY <1>1, <1>2, <1>3, QueueOps DEF RunTypes
  <2>2. pc' \in [Proc -> VR!Labels]
    BY <1>1, <1>2, <1>6 DEF RunTypes, VR!Labels
  <2> QED  BY <1>1, <1>2, <2>1, <2>2 DEF RunTypes
<1>9. Course(p)' /\ Course(q)'
  BY <1>1, <1>2, <1>3, <1>6 DEF Course
<1>10. /\ SentBy(p) = 0 /\ taken[p] = 0
       /\ SentBy(q)' = SentBy(q) /\ Turns(q)' = Turns(q)
  BY <1>2, <1>3, <1>5 DEF Joint, SentBy, Turns, AddrIn, AddrOut, SyncIn, SyncOut
<1>11. SentBy(p)' = 0 /\ Turns(p)' = 0 /\ Turns(p) = 0
  <2>1. taken'[p] = 0
    BY <1>2, <1>10
  <2>2. SentBy(p)' = 0
    <3>1. pc'[p] \in {"send", "recv"} /\ (p = "tr" <=> pc'[p] = "send")
      BY <1>3, <1>6
    <3>2. SentBy(p)' = taken'[p]
      BY <3>1 DEF SentBy, AddrIn, AddrOut, SyncIn, SyncOut
    <3> QED  BY <2>1, <3>2
  <2> QED  BY <1>10, <2>1, <2>2 DEF Turns
<1>12. Due(q, p)' = Due(q, p)
  BY <1>2, <1>3, <1>6 DEF Due, Addr, AddrIn, AddrOut, SyncIn, SyncOut, SyncMessage
<1>13. left[p] = req["tr"][2] /\ left[p] > 0
  <2>1. pc["tr"] # "idle" /\ req["tr"] \in Requests
    BY <1>1, <1>3, <1>5 DEF Joint, Course
  <2>2. left[p] = req["tr"][2] - Turns(p)
    BY <1>2, <1>5 DEF Joint
  <2> QED  BY <1>11, <2>1, <2>2, Turned
<1>14. Joint(p, q)'
  <2>1. req["tr"][2] - 0 = req["tr"][2]
    BY <1>1 DEF RunTypes
  <2>2. left'[p] = req'["tr"][2] - Turns(p)'
    BY <1>2, <1>11, <1>13, <2>1
  <2>3. got'[q] + Len(sq'[p]) <= SentBy(p)' /\ \A i \in 1..Len(sq'[p]) : sq'[p][i].rkey = key'[q]
    BY <1>2, <1>5, <1>10, <1>11 DEF Joint
  <2>4. req'[p] = req'["tr"] /\ rkey'[p] = key'[q]
    BY <1>2, <1>5 DEF Joint, AddrIn, AddrOut
  <2>5. left'[p] > 0
    BY <1>2, <1>13
  <2> QED  BY <1>3, <1>6, <1>7, <2>2, <2>3, <2>4, <2>5 DEF Joint, AddrIn, AddrOut, SyncIn, SyncOut
<1>15. Joint(q, p)'
  BY <1>2, <1>3, <1>5, <1>6, <1>10, <1>12 DEF Joint, AddrIn, AddrOut, SyncIn, SyncOut
<1> QED  BY <1>3, <1>8, <1>9, <1>14, <1>15 DEF Running, Courses, Coupled

LEMMA GoneStep ==
    ASSUME Running, NEW p \in Proc, VR!PeerGone(p)
    PROVE  Running'
<1> DEFINE q == VR!Peer(p)
<1> USE TwoSides
<1>1. RunTypes /\ Course("tr") /\ Course("rcv")
  BY DEF Running, Courses
<1>2. /\ pc[p] = "addrRead" /\ pc' = [pc EXCEPT ![p] = "exit"] /\ pc[q] = "exit"
      /\ reg' = [reg EXCEPT ![p] = FALSE]
      /\ UNCHANGED <<req, left, calls, chan, key, rkey, last, sq, unreaped, err, got, taken>>
  BY DEF VR!PeerGone, VR!hca, VR!seen
<1>3. /\ q \in Proc /\ q # p /\ {p, q} = {"tr", "rcv"}
      /\ pc'[p] = "exit" /\ pc'[q] = pc[q] /\ reg'[p] = FALSE /\ reg'[q] = reg[q]
  BY <1>1, <1>2 DEF RunTypes
<1>4. Broken
  BY <1>2, <1>3 DEF Running, Apart, Coupled, Joint, Opening
<1>5. RunTypes'
  <2>1. pc' \in [Proc -> VR!Labels]
    BY <1>1, <1>2 DEF RunTypes, VR!Labels
  <2>2. reg' \in [Proc -> BOOLEAN]
    BY <1>1, <1>2 DEF RunTypes
  <2> QED  BY <1>1, <1>2, <2>1, <2>2 DEF RunTypes
<1>6. Course(p)' /\ Course(q)'
  BY <1>1, <1>2, <1>3 DEF Course
<1>7. Broken'
  BY <1>2, <1>3, <1>4 DEF Broken
<1> QED  BY <1>3, <1>5, <1>6, <1>7 DEF Running, Courses

\* In a call, n turns bound what each side sends.
LEMMA Counts ==
    ASSUME Courses, Coupled
    PROVE  /\ req["tr"] \in Requests /\ req["tr"][2] \in Nat /\ req["tr"][2] > 0
           /\ \A p \in Proc : /\ left[p] \in Nat /\ taken[p] \in Nat /\ got[p] \in Nat
                              /\ sq[p] \in Seq(Posted) /\ Len(sq[p]) \in Nat
                              /\ taken[p] <= got[p]
<1> USE TwoSides
<1>1. pc["tr"] # "idle"
  BY DEF Coupled, Joint
<1>2. req["tr"] \in Requests
  BY <1>1 DEF Courses, Course
<1>3. req["tr"][2] \in Nat /\ req["tr"][2] > 0
  BY <1>2, Turned
<1>4. ASSUME NEW p \in Proc
      PROVE  /\ left[p] \in Nat /\ taken[p] \in Nat /\ got[p] \in Nat
             /\ sq[p] \in Seq(Posted) /\ Len(sq[p]) \in Nat /\ taken[p] <= got[p]
  <2>1. left[p] \in Nat /\ taken[p] \in Nat /\ got[p] \in Nat /\ sq[p] \in Seq(Posted)
    BY DEF Courses, RunTypes
  <2>2. taken[p] <= got[p]
    BY DEF Courses, Course
  <2> QED  BY <2>1, <2>2, QueueOps
<1> QED  BY <1>2, <1>3, <1>4

\* What p posts goes to the buffer that its peer q told it of.
LEMMA PostStep ==
    ASSUME Courses, NEW p \in Proc, NEW q \in Proc, Joint(p, q), pc[p] = "send",
           IF VR!Full(p) THEN UNCHANGED <<sq, unreaped>>
           ELSE /\ sq' = [sq EXCEPT ![p] = Append(@, VR!Request(p))]
                /\ unreaped' = [unreaped EXCEPT ![p] = @ + 1]
    PROVE  /\ sq' \in [Proc -> Seq(Posted)] /\ unreaped' \in [Proc -> 0..MaxWq]
           /\ \A x \in Proc : x # p => sq'[x] = sq[x] /\ unreaped'[x] = unreaped[x]
           /\ Len(sq'[p]) \in Nat /\ Len(sq'[p]) <= Len(sq[p]) + 1
           /\ Len(sq'[p]) <= unreaped'[p]
           /\ \A i \in 1..Len(sq'[p]) : sq'[p][i].rkey = key[q]
<1> USE TwoSides
<1> DEFINE w == VR!Request(p)
<1>1. RunTypes /\ Course(p)
  BY DEF Courses
<1>2. /\ sq \in [Proc -> Seq(Posted)] /\ sq[p] \in Seq(Posted)
      /\ unreaped \in [Proc -> 0..MaxWq] /\ unreaped[p] \in 0..MaxWq /\ MaxWq \in Nat
      /\ Len(sq[p]) <= unreaped[p]
  BY <1>1, RequestsAssumption DEF RunTypes, Course
<1>3. Len(sq[p]) \in Nat
  BY <1>2, QueueOps
<1>4. \A i \in 1..Len(sq[p]) : sq[p][i].rkey = key[q]
  BY DEF Joint
<1>5. CASE VR!Full(p)
  BY <1>2, <1>3, <1>4, <1>5
<1>6. CASE ~VR!Full(p)
  <2>1. w \in Posted /\ w.rkey = key[q]
    <3>1. rkey[p] = key[q] /\ req[p] \in Requests
      BY <1>1 DEF Joint, Course, AddrIn, AddrOut
    <3>2. key[p] \in Nat /\ rkey[p] \in Nat
      BY <1>1 DEF RunTypes
    <3>3. Pattern[req[p][1]].s \in {Pattern[r[1]].s : r \in Requests}
      BY <3>1
    <3> QED  BY <3>1, <3>2, <3>3 DEF VR!Request, Posted
  <2>2. /\ Append(sq[p], w) \in Seq(Posted) /\ Len(Append(sq[p], w)) = Len(sq[p]) + 1
        /\ \A i \in 1..Len(sq[p]) : Append(sq[p], w)[i] = sq[p][i]
        /\ Append(sq[p], w)[Len(sq[p]) + 1] = w
    BY <1>2, <2>1, AppendProperties
  <2>3. /\ sq' = [sq EXCEPT ![p] = Append(sq[p], w)]
        /\ unreaped' = [unreaped EXCEPT ![p] = unreaped[p] + 1]
    BY <1>6
  <2> HIDE DEF w
  <2>4. /\ sq' \in [Proc -> Seq(Posted)] /\ sq'[p] = Append(sq[p], w)
        /\ \A x \in Proc : x # p => sq'[x] = sq[x] /\ unreaped'[x] = unreaped[x]
    BY <1>2, <2>2, <2>3
  <2>5. unreaped[p] + 1 \in 0..MaxWq
    BY <1>2, <1>6 DEF VR!Full
  <2>6. unreaped' \in [Proc -> 0..MaxWq] /\ unreaped'[p] = unreaped[p] + 1
    BY <1>2, <2>3, <2>5
  <2>7. \A i \in 1..Len(sq'[p]) : sq'[p][i].rkey = key[q]
    <3> SUFFICES ASSUME NEW i \in 1..Len(sq'[p]) PROVE sq'[p][i].rkey = key[q]
      OBVIOUS
    <3>1. CASE i = Len(sq[p]) + 1
      BY <2>1, <2>2, <2>4, <3>1
    <3>2. CASE i # Len(sq[p]) + 1
      <4>1. i \in 1..Len(sq[p])
        BY <1>3, <2>2, <2>4, <3>2
      <4> QED  BY <1>4, <2>2, <2>4, <4>1
    <3> QED  BY <3>1, <3>2
  <2> QED  BY <1>2, <1>3, <2>2, <2>4, <2>6, <2>7
<1> QED  BY <1>5, <1>6

LEMMA SendStep ==
    ASSUME Running, NEW p \in Proc, VR!SendData(p)
    PROVE  Running'
<1> DEFINE q == VR!Peer(p)
           next == IF p = "tr" THEN "recv" ELSE VR!LoopHead(p, left[p] - 1)
<1> USE TwoSides
<1>1. RunTypes /\ Course("tr") /\ Course("rcv") /\ Courses
  BY DEF Running, Courses
<1>2. /\ pc[p] = "send" /\ pc' = [pc EXCEPT ![p] = next]
      /\ left' = [left EXCEPT ![p] = IF p = "tr" THEN @ ELSE @ - 1]
      /\ IF VR!Full(p) THEN UNCHANGED <<sq, unreaped>>
         ELSE /\ sq' = [sq EXCEPT ![p] = Append(@, VR!Request(p))]
              /\ unreaped' = [unreaped EXCEPT ![p] = @ + 1]
      /\ UNCHANGED <<req, calls, chan, key, reg, rkey, last, err, got, taken>>
  BY DEF VR!SendData, VR!mem, VR!seen
<1>3. /\ q \in Proc /\ q # p /\ {p, q} = {"tr", "rcv"} /\ (p = "tr" \/ q = "tr")
      /\ pc'[p] = next /\ pc'[q] = pc[q] /\ left'[q] = left[q]
      /\ left'[p] = IF p = "tr" THEN left[p] ELSE left[p] - 1
  BY <1>1, <1>2 DEF RunTypes
<1>4. Coupled
  BY <1>2, <1>3 DEF Running, Apart, Broken, Opening
<1>5. Joint(p, q) /\ Joint(q, p)
  BY <1>3, <1>4 DEF Coupled
<1>6. /\ sq' \in [Proc -> Seq(Posted)] /\ unreaped' \in [Proc -> 0..MaxWq]
      /\ sq'[q] = sq[q] /\ unreaped'[q] = unreaped[q]
      /\ Len(sq'[p]) \in Nat /\ Len(sq'[p]) <= Len(sq[p]) + 1 /\ Len(sq'[p]) <= unreaped'[p]
      /\ \A i \in 1..Len(sq'[p]) : sq'[p][i].rkey = key[q]
  BY <1>1, <1>2, <1>3, <1>5, PostStep
<1>7. left[p] > 0 /\ left[p] \in Nat /\ next \in VR!Labels \ {"idle", "malloc", "exit"}
      /\ next \in SyncIn /\ (next = "free" => left'[p] = 0) /\ (next \in {"send", "recv"} => left'[p] > 0)
      /\ next # "send" /\ (p = "rcv" => next # "send")
  <2>1. left[p] > 0 /\ left[p] \in Nat
    BY <1>1, <1>2, <1>5 DEF RunTypes, Joint
  <2>2. CASE p = "tr"
    BY <1>3, <2>1, <2>2 DEF VR!Labels, AddrIn, AddrOut, SyncIn, SyncOut
  <2>3. CASE p = "rcv"
    <3>1. next = IF left[p] - 1 = 0 THEN "free" ELSE "recv"
      BY <2>3 DEF VR!LoopHead
    <3>2. left'[p] = left[p] - 1
      BY <1>3, <2>3
    <3> QED  BY <2>1, <2>3, <3>1, <3>2 DEF VR!Labels, AddrIn, AddrOut, SyncIn, SyncOut
  <2> QED  BY <2>2, <2>3
<1>8. RunTypes'
  <2>1. pc' \in [Proc -> VR!Labels]
    BY <1>1, <1>2, <1>7 DEF RunTypes
  <2>2. left' \in [Proc -> Nat]
    <3>1. (IF p = "tr" THEN left[p] ELSE left[p] - 1) \in Nat
      BY <1>7
    <3> QED  BY <1>1, <1>2, <3>1 DEF RunTypes
  <2> QED  BY <1>1, <1>2, <1>6, <2>1, <2>2 DEF RunTypes
<1>9. Course(p)' /\ Course(q)'
  <2>1. Course(q)'
    BY <1>1, <1>2, <1>3, <1>6 DEF Course
  <2>2. Course(p)'
    BY <1>1, <1>2, <1>3, <1>6, <1>7 DEF Course
  <2> QED  BY <2>1, <2>2
<1>10. taken[p] \in Nat /\ req["tr"][2] \in Nat /\ got[q] \in Nat /\ Len(sq[p]) \in Nat
  BY <1>1, <1>3, <1>4, Counts
<1>11. SentBy(p)' = SentBy(p) + 1 /\ SentBy(p) \in Int
  BY <1>2, <1>3, <1>7, <1>10 DEF SentBy, VR!LoopHead, AddrIn, AddrOut, SyncIn, SyncOut
<1>12. Turns(p)' = IF p = "tr" THEN Turns(p) ELSE Turns(p) + 1
  BY <1>2, <1>11 DEF Turns
<1>13. SentBy(q)' = SentBy(q) /\ Turns(q)' = Turns(q)
  BY <1>2, <1>3 DEF SentBy, Turns
<1>14. Due(p, q)' = Due(p, q) /\ Due(q, p)' = Due(q, p)
  BY <1>2, <1>3, <1>7 DEF Due, Addr, SyncMessage, AddrIn, AddrOut, SyncIn, SyncOut
<1>15. Joint(p, q)'
  <2>1. left'[p] = req'["tr"][2] - Turns(p)'
    <3>1. left[p] = req["tr"][2] - Turns(p) /\ Turns(p) \in Int
      BY <1>2, <1>5, <1>10, <1>11 DEF Joint, Turns
    <3> QED  BY <1>2, <1>3, <1>7, <1>10, <1>12, <3>1
  <2>2. got'[q] + Len(sq'[p]) <= SentBy(p)'
    <3>1. got[q] + Len(sq[p]) <= SentBy(p)
      BY <1>5 DEF Joint
    <3> QED  BY <1>2, <1>6, <1>10, <1>11, <3>1
  <2>3. pc[q] \in SyncOut /\ req[p] = req["tr"] /\ rkey[p] = key[q] /\ chan[p] = Due(p, q)
    BY <1>2, <1>5 DEF Joint, AddrIn, AddrOut, SyncIn, SyncOut
  <2>4. pc'[p] \in SyncIn /\ pc'[p] \notin {"exit", "malloc", "idle"}
    BY <1>3, <1>7 DEF VR!Labels
  <2> QED  BY <1>2, <1>3, <1>6, <1>7, <1>14, <2>1, <2>2, <2>3, <2>4 DEF Joint, AddrIn, AddrOut, SyncIn, SyncOut
<1>16. Joint(q, p)'
  BY <1>2, <1>3, <1>5, <1>6, <1>7, <1>13, <1>14 DEF Joint, AddrIn, AddrOut, SyncIn, SyncOut
<1> QED  BY <1>3, <1>8, <1>9, <1>15, <1>16 DEF Running, Courses, Coupled

LEMMA RecvStep ==
    ASSUME Running, NEW p \in Proc, VR!RecvData(p)
    PROVE  Running'
<1> DEFINE q == VR!Peer(p)
           next == IF p = "tr" THEN VR!LoopHead(p, left[p] - 1) ELSE "send"
<1> USE TwoSides
<1>1. RunTypes /\ Course("tr") /\ Course("rcv") /\ Courses
  BY DEF Running, Courses
<1>2. /\ pc[p] = "recv" /\ pc' = [pc EXCEPT ![p] = next] /\ last[p] = "b"
      /\ last' = [last EXCEPT ![p] = "a"]
      /\ left' = [left EXCEPT ![p] = IF p = "tr" THEN @ - 1 ELSE @]
      /\ taken' = [taken EXCEPT ![p] = @ + 1]
      /\ UNCHANGED <<req, calls, chan, key, reg, rkey, sq, unreaped, err, got>>
  BY DEF VR!RecvData, VR!AfterRecvData, VR!hca
<1>3. /\ q \in Proc /\ q # p /\ {p, q} = {"tr", "rcv"} /\ (p = "tr" \/ q = "tr")
      /\ pc'[p] = next /\ pc'[q] = pc[q] /\ left'[q] = left[q]
      /\ left'[p] = IF p = "tr" THEN left[p] - 1 ELSE left[p]
      /\ taken'[p] = taken[p] + 1 /\ taken'[q] = taken[q]
      /\ last'[p] = "a" /\ last'[q] = last[q]
  BY <1>1, <1>2 DEF RunTypes
<1>4. Coupled
  BY <1>2, <1>3 DEF Running, Apart, Broken, Opening
<1>5. Joint(p, q) /\ Joint(q, p)
  BY <1>3, <1>4 DEF Coupled
<1>6. /\ taken[p] \in Nat /\ got[p] \in Nat /\ req["tr"][2] \in Nat /\ left[p] \in Nat /\ left[p] > 0
      /\ taken[p] < got[p]
  <2>1. taken[p] < got[p] /\ left[p] > 0
    BY <1>1, <1>2, <1>3, <1>5 DEF Course, Joint
  <2> QED  BY <1>1, <1>4, <2>1, Counts
<1>7. next \in VR!Labels \ {"idle", "malloc", "exit"}
      /\ next \in SyncIn /\ (next = "free" => left'[p] = 0) /\ (next \in {"send", "recv"} => left'[p] > 0)
      /\ next # "recv"
  BY <1>3, <1>6 DEF VR!LoopHead, VR!Labels, AddrIn, AddrOut, SyncIn, SyncOut
<1>8. RunTypes'
  <2>1. pc' \in [Proc -> VR!Labels]
    BY <1>1, <1>2, <1>7 DEF RunTypes
  <2>2. left' \in [Proc -> Nat]
    <3>1. (IF p = "tr" THEN left[p] - 1 ELSE left[p]) \in Nat
      BY <1>6
    <3> QED  BY <1>1, <1>2, <3>1 DEF RunTypes
  <2>3. taken' \in [Proc -> Nat]
    <3>1. taken[p] + 1 \in Nat
      BY <1>6
    <3> QED  BY <1>1, <1>2, <3>1 DEF RunTypes
  <2>4. DOMAIN last' = Proc
    BY <1>1, <1>2 DEF RunTypes
  <2> QED  BY <1>1, <1>2, <2>1, <2>2, <2>3, <2>4 DEF RunTypes
<1>9. Course(p)' /\ Course(q)'
  <2>1. Course(q)'
    BY <1>1, <1>2, <1>3 DEF Course
  <2>2. Course(p)'
    BY <1>1, <1>2, <1>3, <1>6, <1>7 DEF Course
  <2> QED  BY <2>1, <2>2
<1>10. SentBy(p)' = SentBy(p) /\ SentBy(p) \in Int
  BY <1>2, <1>3, <1>6, <1>7 DEF SentBy, VR!LoopHead, AddrIn, AddrOut, SyncIn, SyncOut
<1>11. Turns(p)' = IF p = "tr" THEN Turns(p) + 1 ELSE Turns(p)
  BY <1>3, <1>10 DEF Turns
<1>12. SentBy(q)' = SentBy(q) /\ Turns(q)' = Turns(q)
  BY <1>2, <1>3 DEF SentBy, Turns
<1>13. Due(p, q)' = Due(p, q) /\ Due(q, p)' = Due(q, p)
  BY <1>2, <1>3, <1>7 DEF Due, Addr, SyncMessage, AddrIn, AddrOut, SyncIn, SyncOut
<1>14. Joint(p, q)'
  <2>1. left'[p] = req'["tr"][2] - Turns(p)'
    <3>1. left[p] = req["tr"][2] - Turns(p) /\ Turns(p) \in Int
      BY <1>2, <1>5, <1>6, <1>10 DEF Joint, Turns
    <3> QED  BY <1>2, <1>3, <1>6, <1>11, <3>1
  <2>2. got'[q] + Len(sq'[p]) <= SentBy(p)'
    BY <1>2, <1>5, <1>10 DEF Joint
  <2>3. pc[q] \in SyncOut /\ req[p] = req["tr"] /\ rkey[p] = key[q] /\ chan[p] = Due(p, q)
    BY <1>2, <1>5 DEF Joint, AddrIn, AddrOut, SyncIn, SyncOut
  <2>4. pc'[p] \in SyncIn /\ pc'[p] \notin {"exit", "malloc", "idle"}
    BY <1>3, <1>7 DEF VR!Labels
  <2>5. \A i \in 1..Len(sq'[p]) : sq'[p][i].rkey = key'[q]
    BY <1>2, <1>5 DEF Joint
  <2> QED  BY <1>2, <1>3, <1>7, <1>13, <2>1, <2>2, <2>3, <2>4, <2>5 DEF Joint, AddrIn, AddrOut, SyncIn, SyncOut
<1>15. Joint(q, p)'
  BY <1>2, <1>3, <1>5, <1>7, <1>12, <1>13 DEF Joint, AddrIn, AddrOut, SyncIn, SyncOut
<1> QED  BY <1>3, <1>8, <1>9, <1>14, <1>15 DEF Running, Courses, Coupled

LEMMA FreeStep ==
    ASSUME Running, NEW p \in Proc, VR!FreeBuff(p)
    PROVE  Running'
<1> USE TwoSides
<1>1. RunTypes /\ Course("tr") /\ Course("rcv") /\ Courses
  BY DEF Running, Courses
<1>2. /\ pc[p] = "free" /\ pc' = [pc EXCEPT ![p] = "idle"]
      /\ reg' = [reg EXCEPT ![p] = FALSE]
      /\ calls' = [calls EXCEPT ![p] = @ + 1]
      /\ UNCHANGED <<req, left, chan, key, rkey, last, sq, unreaped, err, got, taken>>
  BY DEF VR!FreeBuff, VR!Goto, VR!hca, VR!seen
<1>3. calls[p] < MaxCalls /\ calls[p] \in Nat /\ MaxCalls \in Nat
  <2>1. calls \in [Proc -> 0..MaxCalls] /\ MaxCalls \in Nat
    BY <1>1, RequestsAssumption DEF RunTypes
  <2>2. calls[p] \in Nat
    BY <2>1
  <2>3. calls[p] < MaxCalls
    BY <1>1, <1>2 DEF Course
  <2> QED  BY <2>1, <2>2, <2>3
<1>4. RunTypes'
  <2>1. pc' \in [Proc -> VR!Labels] /\ reg' \in [Proc -> BOOLEAN]
    BY <1>1, <1>2 DEF RunTypes, VR!Labels
  <2>2. calls' \in [Proc -> 0..MaxCalls]
    <3>1. calls[p] + 1 \in 0..MaxCalls
      BY <1>3
    <3> QED  BY <1>1, <1>2, <3>1 DEF RunTypes
  <2> QED  BY <1>1, <1>2, <2>1, <2>2 DEF RunTypes
<1>5. \A x \in Proc : /\ pc'[x] = IF x = p THEN "idle" ELSE pc[x]
                      /\ reg'[x] = IF x = p THEN FALSE ELSE reg[x]
                      /\ x # p => calls'[x] = calls[x]
  BY <1>1, <1>2 DEF RunTypes
<1>6. Course("tr")' /\ Course("rcv")'
  BY <1>1, <1>2, <1>5 DEF Course
<1>7. Repeat' = Repeat /\ Addr("tr")' = Addr("tr") /\ Addr("rcv")' = Addr("rcv")
  BY <1>2 DEF Repeat, Addr
<1>8. ASSUME Apart PROVE Apart'
  <2>1. p = "rcv"
    BY <1>2, <1>8 DEF Apart, Opening
  <2> QED  BY <1>2, <1>5, <1>7, <1>8, <2>1 DEF Apart
<1>9. ASSUME Broken PROVE Broken'
  <2>1. p = "rcv"
    BY <1>2, <1>9 DEF Broken, Opening
  <2> QED  BY <1>2, <1>5, <1>7, <1>9, <2>1 DEF Broken, Opening
<1>10. ASSUME Coupled, p = "rcv" PROVE Coupled'
  <2>1. Joint("tr", "rcv") /\ Joint("rcv", "tr")
    BY <1>10 DEF Coupled
  <2>2. SentBy("tr")' = SentBy("tr") /\ Turns("tr")' = Turns("tr")
    BY <1>2, <1>5, <1>10 DEF SentBy, Turns
  <2>3. SentBy("rcv")' = SentBy("rcv") /\ Turns("rcv")' = Turns("rcv")
    BY <1>2, <1>5, <1>10 DEF SentBy, Turns, AddrIn, AddrOut, SyncIn, SyncOut
  <2>4. Due("tr", "rcv")' = Due("tr", "rcv") /\ Due("rcv", "tr")' = Due("rcv", "tr")
    BY <1>2, <1>5, <1>7, <1>10 DEF Due, SyncMessage, AddrIn, AddrOut, SyncIn, SyncOut
  <2>5. Joint("tr", "rcv")'
    BY <1>2, <1>5, <1>10, <2>1, <2>2, <2>4 DEF Joint, AddrIn, AddrOut, SyncIn, SyncOut
  <2>6. Joint("rcv", "tr")'
    BY <1>2, <1>5, <1>10, <2>1, <2>3, <2>4 DEF Joint, AddrIn, AddrOut, SyncIn, SyncOut
  <2> QED  BY <2>5, <2>6 DEF Coupled
<1>11. ASSUME Coupled, p = "tr" PROVE Apart'
  <2>1. Joint("tr", "rcv") /\ Joint("rcv", "tr")
    BY <1>11 DEF Coupled
  <2> DEFINE n == req["tr"][2]
  <2>2. /\ n \in Nat /\ n > 0
        /\ left["tr"] \in Nat /\ taken["tr"] \in Nat /\ got["tr"] \in Nat /\ Len(sq["tr"]) \in Nat
        /\ left["rcv"] \in Nat /\ taken["rcv"] \in Nat /\ got["rcv"] \in Nat /\ Len(sq["rcv"]) \in Nat
        /\ taken["tr"] <= got["tr"] /\ taken["rcv"] <= got["rcv"]
    BY <1>1, <1>11, Counts
  <2>3. taken["tr"] = n /\ SentBy("tr") = n
    <3>1. left["tr"] = n - taken["tr"] /\ left["tr"] = 0
      BY <1>2, <1>11, <2>1 DEF Joint, Turns
    <3>2. SentBy("tr") = taken["tr"]
      BY <1>2, <1>11 DEF SentBy, AddrIn, AddrOut, SyncIn, SyncOut
    <3> QED  BY <2>2, <3>1, <3>2
  <2>4. SentBy("rcv") = n /\ left["rcv"] = 0 /\ got["tr"] = n /\ Len(sq["rcv"]) = 0
    <3>1. pc["rcv"] # "malloc"
      BY <1>2, <1>11, <2>1 DEF Joint, AddrIn, AddrOut, SyncIn, SyncOut
    <3>2. left["rcv"] = n - SentBy("rcv") /\ got["tr"] + Len(sq["rcv"]) <= SentBy("rcv")
      BY <2>1, <3>1 DEF Joint, Turns
    <3>3. SentBy("rcv") \in Int
      BY <2>2 DEF SentBy
    <3> HIDE DEF n
    <3> QED  BY <2>2, <2>3, <3>2, <3>3
  <2>5. pc["rcv"] \in {"free", "idle"}
    <3>1. pc["rcv"] \in SyncIn
      BY <2>2, <2>4 DEF SentBy
    <3>2. pc["rcv"] \notin {"send", "recv"}
      BY <2>1, <2>4 DEF Joint
    <3> QED  BY <3>1, <3>2 DEF AddrIn, AddrOut, SyncIn, SyncOut
  <2>6. Len(sq["tr"]) = 0
    <3>1. SentBy("rcv") = taken["rcv"]
      BY <2>5 DEF SentBy, AddrIn, AddrOut, SyncIn, SyncOut
    <3>2. taken["rcv"] = n
      BY <2>2, <2>4, <3>1
    <3>3. got["rcv"] + Len(sq["tr"]) <= n
      BY <2>1, <2>3 DEF Joint
    <3> HIDE DEF n
    <3> QED  BY <2>2, <3>2, <3>3
  <2>7. sq["tr"] = <<>> /\ sq["rcv"] = <<>>
    BY <1>1, <2>4, <2>6, QueueOps DEF RunTypes
  <2>8. chan["tr"] = <<>> /\ chan["rcv"] = <<>>
    BY <1>2, <1>11, <2>1, <2>5 DEF Joint, Due, AddrIn, AddrOut, SyncIn, SyncOut
  <2> QED  BY <1>2, <1>5, <1>11, <2>5, <2>7, <2>8 DEF Apart
<1>12. p = "tr" \/ p = "rcv"
  OBVIOUS
<1> QED  BY <1>4, <1>6, <1>8, <1>9, <1>10, <1>11, <1>12 DEF Running, Courses

LEMMA TransmitStep ==
    ASSUME Running, NEW p \in Proc, VR!Transmit(p)
    PROVE  Running'
<1> DEFINE q == VR!Peer(p)
           w == Head(sq[p])
           done == /\ reg[q]
                   /\ sq' = [sq EXCEPT ![p] = Tail(@)]
                   /\ last' = [last EXCEPT ![q] = w.octet]
                   /\ got' = [got EXCEPT ![q] = @ + 1]
                   /\ UNCHANGED err
           lost == /\ err' = [err EXCEPT ![p] = TRUE]
                   /\ sq' = [sq EXCEPT ![p] = <<>>]
                   /\ UNCHANGED <<last, got>>
<1> USE TwoSides
<1>1. RunTypes /\ Course("tr") /\ Course("rcv") /\ Courses
  BY DEF Running, Courses
<1>2. /\ sq[p] # <<>>
      /\ done \/ lost
      /\ UNCHANGED <<pc, req, left, calls, chan, key, reg, rkey, unreaped, taken>>
  BY DEF VR!Transmit, VR!Writable, VR!drv
<1>3. /\ q \in Proc /\ q # p /\ {p, q} = {"tr", "rcv"} /\ (p = "tr" \/ q = "tr")
      /\ sq \in [Proc -> Seq(Posted)] /\ sq[p] \in Seq(Posted) /\ Len(sq[p]) \in Nat
      /\ got \in [Proc -> Nat] /\ got[q] \in Nat
  <2>1. q \in Proc /\ q # p /\ {p, q} = {"tr", "rcv"} /\ (p = "tr" \/ q = "tr")
    OBVIOUS
  <2>2. sq \in [Proc -> Seq(Posted)] /\ sq[p] \in Seq(Posted) /\ got \in [Proc -> Nat] /\ got[q] \in Nat
    BY <1>1, <2>1 DEF RunTypes
  <2> QED  BY <2>1, <2>2, QueueOps
<1>4. Coupled
  BY <1>2, <1>3 DEF Running, Apart, Broken
<1>5. Joint(p, q) /\ Joint(q, p)
  BY <1>3, <1>4 DEF Coupled
<1>6. /\ sq' \in [Proc -> Seq(Posted)] /\ sq'[q] = sq[q]
      /\ got' \in [Proc -> Nat] /\ got'[p] = got[p] /\ got'[q] >= got[q]
      /\ Len(sq'[p]) \in Nat /\ Len(sq'[p]) <= Len(sq[p])
      /\ got'[q] + Len(sq'[p]) <= got[q] + Len(sq[p])
      /\ \A i \in 1..Len(sq'[p]) : sq'[p][i].rkey = key[q]
      /\ DOMAIN last' = Proc /\ DOMAIN err' = Proc
      /\ last'[p] = last[p] /\ (last'[q] = last[q] \/ got'[q] = got[q] + 1)
  <2>1. \A i \in 1..Len(sq[p]) : sq[p][i].rkey = key[q]
    BY <1>5 DEF Joint
  <2>2. DOMAIN last = Proc /\ DOMAIN err = Proc
    BY <1>1 DEF RunTypes
  <2>3. CASE done
    <3>1. /\ Tail(sq[p]) \in Seq(Posted) /\ Len(Tail(sq[p])) = Len(sq[p]) - 1
          /\ \A i \in 1..Len(Tail(sq[p])) : Tail(sq[p])[i] = sq[p][i + 1]
      BY <1>2, <1>3, QueueOps
    <3>2. sq' \in [Proc -> Seq(Posted)] /\ sq'[p] = Tail(sq[p]) /\ sq'[q] = sq[q]
      BY <1>3, <2>3, <3>1
    <3>3. got' \in [Proc -> Nat] /\ got'[q] = got[q] + 1 /\ got'[p] = got[p]
      <4>1. got[q] + 1 \in Nat
        BY <1>3
      <4> QED  BY <1>3, <2>3, <4>1
    <3>4. DOMAIN last' = Proc /\ DOMAIN err' = Proc /\ last'[p] = last[p]
      BY <1>3, <2>2, <2>3
    <3>5. Len(sq[p]) >= 1
      BY <1>2, <1>3, QueueOps
    <3>6. \A i \in 1..Len(sq'[p]) : sq'[p][i].rkey = key[q]
      <4> SUFFICES ASSUME NEW i \in 1..Len(sq'[p]) PROVE sq'[p][i].rkey = key[q]
        OBVIOUS
      <4>1. i + 1 \in 1..Len(sq[p]) /\ sq'[p][i] = sq[p][i + 1]
        BY <1>3, <3>1, <3>2
      <4> QED  BY <2>1, <4>1
    <3> QED  BY <1>3, <3>1, <3>2, <3>3, <3>4, <3>5, <3>6
  <2>4. CASE lost
    <3>1. sq' \in [Proc -> Seq(Posted)] /\ sq'[p] = <<>> /\ sq'[q] = sq[q]
      <4>1. <<>> \in Seq(Posted)
        BY EmptySeq
      <4> QED  BY <1>3, <2>4, <4>1
    <3>2. Len(sq'[p]) = 0
      BY <3>1, NoneIsEmpty
    <3>3. DOMAIN err' = Proc
      BY <2>2, <2>4
    <3> QED  BY <1>3, <2>2, <2>4, <3>1, <3>2, <3>3
  <2> QED  BY <1>2, <2>3, <2>4
<1>7. RunTypes'
  BY <1>1, <1>2, <1>6 DEF RunTypes
<1>8. Course(p)' /\ Course(q)'
  <2>1. /\ Course(p) /\ Course(q) /\ taken[q] \in Nat /\ taken[p] \in Nat
        /\ unreaped[p] \in Nat
    <3>1. unreaped \in [Proc -> 0..MaxWq] /\ MaxWq \in Nat
      BY <1>1, RequestsAssumption DEF RunTypes
    <3>2. unreaped[p] \in Nat
      BY <3>1
    <3>3. Course(p) /\ Course(q)
      BY <1>1, <1>3
    <3> QED  BY <1>1, <1>3, <3>2, <3>3 DEF RunTypes
  <2>2. Course(p)'
    <3>1. Len(sq'[p]) <= unreaped'[p]
      BY <1>2, <1>3, <1>6, <2>1 DEF Course
    <3> QED  BY <1>2, <1>6, <2>1, <3>1 DEF Course
  <2>3. Course(q)'
    <3>1. taken'[q] <= got'[q] /\ (reg'[q] /\ last'[q] = "b" => taken'[q] < got'[q])
      <4>1. got'[q] \in Nat /\ taken[q] <= got[q] /\ (reg[q] /\ last[q] = "b" => taken[q] < got[q])
        BY <1>3, <1>6, <2>1 DEF Course
      <4>2. taken'[q] = taken[q] /\ reg'[q] = reg[q] /\ got'[q] >= got[q]
            /\ (last'[q] = last[q] \/ got'[q] = got[q] + 1)
        BY <1>2, <1>6
      <4> QED  BY <1>3, <2>1, <4>1, <4>2
    <3> QED  BY <1>2, <1>6, <2>1, <3>1 DEF Course
  <2> QED  BY <2>2, <2>3
<1>9. /\ SentBy(p)' = SentBy(p) /\ Turns(p)' = Turns(p) /\ Due(p, q)' = Due(p, q)
      /\ SentBy(q)' = SentBy(q) /\ Turns(q)' = Turns(q) /\ Due(q, p)' = Due(q, p)
  BY <1>2 DEF SentBy, Turns, Due, Addr
<1>10. Joint(p, q)'
  <2>1. got'[q] + Len(sq'[p]) <= SentBy(p)'
    <3>1. got[q] + Len(sq[p]) <= SentBy(p) /\ got'[q] \in Nat
      BY <1>3, <1>5, <1>6 DEF Joint
    <3>2. SentBy(p) \in Int
      <4>1. taken[p] \in Nat
        BY <1>1 DEF RunTypes
      <4> QED  BY <4>1 DEF SentBy
    <3> QED  BY <1>3, <1>6, <1>9, <3>1, <3>2
  <2> QED  BY <1>2, <1>5, <1>6, <1>9, <2>1 DEF Joint
<1>11. Joint(q, p)'
  BY <1>2, <1>5, <1>6, <1>9 DEF Joint
<1> QED  BY <1>3, <1>7, <1>8, <1>10, <1>11 DEF Running, Courses, Coupled

-----------------------------------------------------------------------------

LEMMA RunStarts == Init => RunInv
<1> SUFFICES ASSUME Init, phase = "run" PROVE stack = "ibv" /\ Running
  BY DEF RunInv
<1> USE TwoSides
<1>1. /\ stack = "ibv"
      /\ pc = [p \in Proc |-> "idle"] /\ req = [p \in Proc |-> <<0, 0>>]
      /\ left = [p \in Proc |-> 0] /\ calls = [p \in Proc |-> 0]
      /\ chan = [p \in Proc |-> <<>>] /\ key = [p \in Proc |-> 0] /\ reg = [p \in Proc |-> FALSE]
      /\ rkey = [p \in Proc |-> 0] /\ last = [p \in Proc |-> "a"] /\ sq = [p \in Proc |-> <<>>]
      /\ unreaped = [p \in Proc |-> 0] /\ err = [p \in Proc |-> FALSE]
      /\ got = [p \in Proc |-> 0] /\ taken = [p \in Proc |-> 0]
  BY DEF Init, VR!Init, VR!All
<1>2. <<>> \in Seq(TcpMessage) /\ <<>> \in Seq(Posted) /\ 0 \in 0..MaxWq /\ 0 \in 0..MaxCalls
      /\ <<0, 0>> \in Nat \X Nat
  <2>1. <<>> \in Seq(TcpMessage) /\ <<>> \in Seq(Posted)
    BY EmptySeq
  <2>2. 0 \in 0..MaxWq /\ 0 \in 0..MaxCalls
    BY RequestsAssumption
  <2>3. <<0, 0>> \in Nat \X Nat
    OBVIOUS
  <2> QED  BY <2>1, <2>2, <2>3
<1>3. RunTypes
  <2>1. /\ pc \in [Proc -> VR!Labels] /\ req \in [Proc -> Nat \X Nat] /\ left \in [Proc -> Nat]
        /\ calls \in [Proc -> 0..MaxCalls] /\ key \in [Proc -> Nat] /\ reg \in [Proc -> BOOLEAN]
        /\ rkey \in [Proc -> Nat] /\ unreaped \in [Proc -> 0..MaxWq]
        /\ got \in [Proc -> Nat] /\ taken \in [Proc -> Nat] /\ DOMAIN last = Proc /\ DOMAIN err = Proc
    BY <1>1, <1>2 DEF VR!Labels
  <2>2. chan \in [Proc -> Seq(TcpMessage)] /\ sq \in [Proc -> Seq(Posted)]
    BY <1>1, <1>2
  <2> QED  BY <2>1, <2>2 DEF RunTypes
<1>4. Course("tr") /\ Course("rcv")
  <2>1. Len(sq["tr"]) = 0 /\ Len(sq["rcv"]) = 0
    BY <1>1, NoneIsEmpty
  <2> QED  BY <1>1, <2>1 DEF Course
<1>5. Apart
  BY <1>1 DEF Apart, Opening
<1> QED  BY <1>1, <1>3, <1>4, <1>5 DEF Running, Courses

LEMMA RunInductive == PatternsTellApart /\ RunInv /\ [Next]_vars => RunInv'
<1> SUFFICES ASSUME PatternsTellApart, RunInv, [Next]_vars, phase' = "run"
             PROVE  stack' = "ibv" /\ Running'
  BY DEF RunInv
<1>1. phase = "run" /\ stack' = stack /\ stack = "ibv" /\ Running
  BY DEF RunInv, Next, vars, SetupStep, MainStep, Adapter
<1>2. CASE UNCHANGED vars
  <2>1. UNCHANGED <<pc, req, left, calls, chan, key, reg, rkey, last, sq, unreaped, err, got, taken>>
    BY <1>2 DEF vars, runOnly
  <2>2. RunTypes' = RunTypes /\ Course("tr")' = Course("tr") /\ Course("rcv")' = Course("rcv")
    BY <2>1 DEF RunTypes, Course
  <2>3. Apart' = Apart /\ Broken' = Broken
    BY <2>1 DEF Apart, Broken, Repeat, Addr
  <2>4. \A p, q \in Proc : Joint(p, q)' = Joint(p, q)
    BY <2>1 DEF Joint, SentBy, Turns, Due, Addr
  <2> QED  BY <1>1, <2>2, <2>3, <2>4, TwoSides DEF Running, Courses, Coupled
<1>3. CASE Next
  <2>1. PICK p \in Proc : VR!MainThread(p) \/ VR!Transmit(p)
    BY <1>1, <1>3 DEF Next, SetupStep, MainStep, Adapter, In
  <2>2. CASE VR!AfterAlignmentInit(p)
    <3>1. pc[p] = "addrWrite" \/ pc[p] = "addrRead"
      BY <2>2 DEF VR!AfterAlignmentInit, VR!Goto
    <3> QED  BY <1>1, <2>2, <3>1, AddressOutStep, AddressInStep
  <2> QED  BY <1>1, <2>1, <2>2, CallStep, MallocStep, SyncOutStep, SyncInStep, GoneStep,
              SendStep, RecvStep, FreeStep, TransmitStep DEF VR!MainThread
<1> QED  BY <1>2, <1>3

LEMMA RunInvariance == PatternsTellApart /\ Spec => []RunInv
<1> SUFFICES ASSUME PatternsTellApart PROVE Spec => []RunInv
  OBVIOUS
<1>1. Init => RunInv
  BY RunStarts
<1>2. RunInv /\ [Next]_vars => RunInv'
  BY RunInductive
<1> QED  BY <1>1, <1>2, PTL DEF Spec

-----------------------------------------------------------------------------

\* RecvData never returns on what an earlier message or InitBufferData left behind,
\* for every size whose pattern does not end in the octet it waits for, any numbers of
\* turns and any room in the send queue (RecvData, SendData).
THEOREM ArrivedFirst == PatternsTellApart /\ Spec => []ReceivedMeansArrived
<1>1. RunInv => ReceivedMeansArrived
  <2> SUFFICES ASSUME RunInv, phase = "run" PROVE VR!TypeOK /\ VR!ReceivedMeansArrived
    BY DEF ReceivedMeansArrived
  <2> USE TwoSides
  <2>1. RunTypes /\ Course("tr") /\ Course("rcv")
    BY DEF RunInv, Running, Courses
  <2>2. \A p \in Proc : Len(sq[p]) <= unreaped[p] /\ taken[p] <= got[p]
    BY <2>1 DEF Course
  <2> QED  BY <2>1, <2>2 DEF RunTypes, VR!TypeOK, VR!ReceivedMeansArrived
<1> QED  BY <1>1, RunInvariance, PTL

\* No RDMA write is ever under way to a buffer that its peer has given back or has not
\* told it of in this call, although no completion of a write is ever waited for
\* (AfterAlignmentInit, SendData, FreeBuff).
THEOREM WritesAimRight == PatternsTellApart /\ Spec => []AimsAtLiveBuffer
<1>1. RunInv => AimsAtLiveBuffer
  <2> SUFFICES ASSUME RunInv, phase = "run" PROVE VR!AimsAtLiveBuffer
    BY DEF AimsAtLiveBuffer
  <2> USE TwoSides
  <2>0. Running /\ Courses /\ RunTypes /\ Course("tr") /\ Course("rcv")
    BY DEF RunInv, Running, Courses
  <2> SUFFICES ASSUME NEW p \in Proc, NEW i \in DOMAIN sq[p]
               PROVE  VR!Writable(VR!Peer(p), sq[p][i])
    BY DEF VR!AimsAtLiveBuffer
  <2> DEFINE q == VR!Peer(p)
             n == req["tr"][2]
  <2>1. q \in Proc /\ {p, q} = {"tr", "rcv"} /\ sq[p] \in Seq(Posted)
    BY <2>0 DEF RunTypes
  <2>2. i \in 1..Len(sq[p]) /\ sq[p] # <<>>
    <3>1. i \in 1..Len(sq[p])
      BY <2>1, LenProperties
    <3> QED  BY <2>1, <3>1, NoneIsEmpty
  <2>3. Coupled
    BY <2>0, <2>1, <2>2 DEF Running, Apart, Broken
  <2>4. Joint(p, q) /\ Joint(q, p)
    BY <2>1, <2>3 DEF Coupled
  <2>5. sq[p][i].rkey = key[q]
    BY <2>2, <2>4 DEF Joint
  <2>6. /\ n \in Nat /\ left[p] \in Nat /\ taken[p] \in Nat
        /\ got[q] \in Nat /\ taken[q] \in Nat /\ Len(sq[p]) \in Nat /\ taken[q] <= got[q]
    BY <2>0, <2>1, <2>3, Counts
  <2>7. got[q] < SentBy(p) /\ SentBy(p) \in Int
    <3>1. got[q] + Len(sq[p]) <= SentBy(p) /\ Len(sq[p]) > 0
      BY <2>2, <2>4, <2>6 DEF Joint
    <3>2. SentBy(p) \in Int
      BY <2>6 DEF SentBy
    <3> QED  BY <2>6, <3>1, <3>2
  <2>8. pc[p] \in SyncIn /\ pc[q] \in SyncOut
    <3>1. pc[p] \in SyncIn
      BY <2>6, <2>7 DEF SentBy
    <3> QED  BY <2>4, <3>1 DEF Joint
  <2>9. pc[q] # "idle"
    <3> SUFFICES ASSUME pc[q] = "idle" PROVE FALSE
      OBVIOUS
    <3>1. p = "tr" /\ q = "rcv" /\ left[q] = 0 /\ left[q] = n - SentBy(q)
      BY <2>1, <2>4 DEF Joint, Turns
    <3>2. SentBy(q) = taken[q]
      BY <3>1 DEF SentBy, AddrIn, AddrOut, SyncIn, SyncOut
    <3>3. taken[q] = n
      <4> HIDE DEF n
      <4> QED  BY <2>6, <3>1, <3>2
    <3>4. left[p] = n - taken[p] /\ (pc[p] = "recv" => left[p] > 0)
      BY <2>4, <2>8, <3>1 DEF Joint, Turns, AddrIn, AddrOut, SyncIn, SyncOut
    <3>5. SentBy(p) = IF pc[p] = "recv" THEN taken[p] + 1 ELSE taken[p]
      BY <2>8, <3>1 DEF SentBy
    <3>6. SentBy(p) <= n
      <4> HIDE DEF n
      <4> QED  BY <2>6, <3>4, <3>5
    <3> HIDE DEF n
    <3> QED  BY <2>6, <2>7, <3>3, <3>6
  <2>10. reg[q]
    BY <2>0, <2>1, <2>8, <2>9 DEF Course, AddrIn, AddrOut, SyncIn, SyncOut
  <2> QED  BY <2>5, <2>10 DEF VR!Writable
<1> QED  BY <1>1, RunInvariance, PTL
=============================================================================
