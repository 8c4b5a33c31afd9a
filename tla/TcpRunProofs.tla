---------------------------- MODULE TcpRunProofs ----------------------------
(***************************************************************************)
(* Proofs about TcpRun.  The receiver's script calls run_iters without       *)
(* arguments, as NPtcp does; with arguments of its own the two sides may     *)
(* disagree, which is what the run tcp_test_args shows.                      *)
(*                                                                          *)
(* The argument.  The octets between two processes are octets of known      *)
(* messages at known places (RcvStream, TrStream), as many as the labels of  *)
(* the two processes say (Phase).  While both run, a write therefore adds to *)
(* its own message and disturbs no other, and a read finds the message that *)
(* it is after.  When one of them ends, Phase is lost; what is left of its   *)
(* stream is a beginning of what was there, and the survivor still reads    *)
(* the right octets from it.                                                *)
(*                                                                          *)
(* The refinement.  A message is on its way once its last octet is written  *)
(* and until that octet is read.  A write adds at most one end, a read that *)
(* is after the right message takes at most one, and so every step is one   *)
(* of PingPong or a stutter.                                                *)
(***************************************************************************)
EXTENDS TcpRun, SequenceTheorems, FiniteSetTheorems, TLAPS

USE DEF Proc

\* What the readers know of the messages.
Sz == [t |-> "size", v |-> size["tr"]]
Nr == [t |-> "nrepeat", v |-> nrepeat["tr"]]
Sy == [t |-> "sync", v |-> 0]
Data(p) == [t |-> "data", v |-> Bytes(size[p])]

Message == [t : {"size", "nrepeat", "sync", "data"}, v : Nat]
Piece == [of : Message, idx : Nat, oct : Nat]

\* Octets of the pending read, and of the pending write.
Roff(p) == IF pc[p] \in Reading THEN off[p] ELSE 0
Woff(p) == IF pc[p] \in Writing THEN off[p] ELSE 0

\* Of the stream c, whose reader has had ro octets of the message it is at, the octets
\* after the first from ones are those of m.
Holds(c, ro, m, from) ==
    \A x \in 1..Len(c) : x + ro - from \in 1..Len(Wire(m)) => c[x] = Wire(m)[x + ro - from]

\* Octets that are there from the beginning of the message that p is at.
Ahead(p) == Len(chan[p]) + Roff(p)
Carries(p, m, from) == Holds(chan[p], Roff(p), m, from)

\* Places of the two processes that the invariant treats alike.
Between == {"check", "idle", "recvSize"}     \* the receiver, from one call to the next
Meeting == {"exitSignal", "alloc", "syncWrite"}
InRun == {"syncWrite", "syncRead", "send", "recv", "check"}
Early == {"sendSize", "sendNrepeat", "recvSize", "recvNrepeat", "exitSignal",
          "alloc", "syncWrite", "syncRead"}

\* The exit statuses of tcp.c and netpipe.c, and how the interpreter ends.
Status == {-2, 0, 1, 3, 137, 139, 255, 304, 305, 306, 401}

\* The types of the variables.
Types ==
    /\ pc \in [Proc -> Labels]
    /\ size \in [Proc -> Nat] /\ nrepeat \in [Proc -> Nat]
    /\ j \in [Proc -> Nat] /\ whole \in [Proc -> Nat] /\ off \in [Proc -> Nat]
    /\ got \in [Proc -> Seq(Octet)] /\ chan \in [Proc -> Seq(Piece)]
    /\ DOMAIN rbuf = Proc /\ DOMAIN ret = Proc
    /\ rst \in [Proc -> BOOLEAN]
    /\ code \in [Proc -> Status]
    /\ pc["tr"] \notin {"recvSize", "recvNrepeat", "exitSignal"}
    /\ pc["rcv"] \notin {"sendSize", "sendNrepeat"}

\* size and nrepeat of the transmitter are uint32_t.
Fits == High(High(High(size["tr"]))) < 256 /\ High(High(High(nrepeat["tr"]))) < 256

\* The message that the pending read of p is after.
Incoming(p) ==
    CASE pc[p] = "recvSize" -> Sz
      [] pc[p] = "recvNrepeat" -> Nr
      [] pc[p] = "syncRead" -> Sy
      [] pc[p] = "recv" -> Data(p)

\* What one process alone says: its counters, its pending transfer, its end.
Local(p) ==
    /\ Up(p) <=> code[p] = -2
    /\ rst[p] => ~Up(Peer(p))
    /\ ~Up(p) => chan[p] = <<>>
    /\ Len(chan[p]) <= Cap
    /\ pc[p] \in Reading => off[p] < Asked(p)
    /\ pc[p] \in Writing => off[p] < Len(Wire(Outgoing(p)))
    /\ pc[p] \notin Reading \cup Writing => off[p] = 0
    /\ pc[p] \in Early => j[p] = 0 /\ whole[p] = 0
    /\ pc[p] \in {"send", "recv"} => j[p] < nrepeat[p] /\ size[p] > 0
    /\ p = "rcv" /\ pc[p] \in {"alloc", "syncWrite", "syncRead"} => size[p] > 0

\* readFully has the beginning of the message in its buffer.
Gathered(p) ==
    /\ pc[p] \in Reading \ {"recv"} =>
          Len(got[p]) = off[p] /\ \A i \in 1..off[p] : got[p][i] = Wire(Incoming(p))[i].oct
    /\ pc[p] \notin Reading \ {"recv"} => got[p] = <<>>

\* The buffer is filled up to the pending read, or altogether once a message was whole.
Buffered(p) ==
    pc[p] \in InRun =>
        /\ DOMAIN rbuf[p] = 1..Bytes(size[p])
        /\ pc[p] = "recv" => \A i \in 1..off[p] : rbuf[p][i] = i
        /\ whole[p] > 0 => \A i \in 1..Bytes(size[p]) : rbuf[p][i] = i

\* The messages that the octets on the way to the receiver spell.
RcvStream ==
    LET D == Data("rcv") IN
    /\ pc["rcv"] \in Between =>
          /\ Carries("rcv", Sz, 0) /\ Carries("rcv", Nr, 4) /\ Carries("rcv", Sy, 8)
          /\ Ahead("rcv") <= 14
    /\ pc["rcv"] = "recvNrepeat" =>
          Carries("rcv", Nr, 0) /\ Carries("rcv", Sy, 4) /\ Ahead("rcv") <= 10
    /\ pc["rcv"] \in Meeting \cup {"syncRead"} => Carries("rcv", Sy, 0)
    /\ pc["rcv"] \in Meeting => Ahead("rcv") <= 6
    /\ pc["rcv"] = "syncRead" /\ nrepeat["rcv"] > 0 =>
          Carries("rcv", D, 6) /\ Ahead("rcv") <= 6 + Bytes(size["rcv"])
    /\ pc["rcv"] = "syncRead" /\ nrepeat["rcv"] = 0 =>
          /\ Carries("rcv", Sz, 6) /\ Carries("rcv", Nr, 10) /\ Carries("rcv", Sy, 14)
          /\ Ahead("rcv") <= 20
    /\ pc["rcv"] = "recv" => Carries("rcv", D, 0) /\ Ahead("rcv") <= Bytes(size["rcv"])
    /\ pc["rcv"] = "send" => chan["rcv"] = <<>>

\* The messages that the octets on the way to the transmitter spell.
TrStream ==
    /\ pc["tr"] \in {"alloc", "syncWrite", "syncRead"} =>
          /\ Carries("tr", Sy, 0) /\ Ahead("tr") <= 6
          /\ Ahead("tr") > 0 => size["tr"] > 0
    /\ pc["tr"] = "recv" => Carries("tr", Data("tr"), 0) /\ Ahead("tr") <= Bytes(size["tr"])
    /\ pc["tr"] \notin {"alloc", "syncWrite", "syncRead", "recv"} => chan["tr"] = <<>>

\* Where the two processes can be together, with the octets between them.
Phase ==
    LET rp == pc["rcv"]
        tp == pc["tr"]
        B == Bytes(size["tr"])
        SameSize == size["rcv"] = size["tr"]
        Same == SameSize /\ nrepeat["rcv"] = nrepeat["tr"]
        Pipes(r, t) == Ahead("rcv") = r /\ Ahead("tr") = t
        Last == rp = "syncRead" /\ nrepeat["rcv"] = 0
    IN
    /\ tp \in {"idle", "sendSize"} =>
          \/ rp \in Between /\ Pipes(Woff("tr"), 0)
          \/ Last /\ Pipes(6 + Woff("tr"), 0)
    /\ tp = "sendNrepeat" =>
          \/ rp \in Between /\ Pipes(4 + Woff("tr"), 0)
          \/ rp = "recvNrepeat" /\ SameSize /\ Pipes(Woff("tr"), 0)
          \/ Last /\ Pipes(10 + Woff("tr"), 0)
    /\ tp \in {"alloc", "syncWrite"} =>
          \/ rp \in Between /\ Pipes(8 + Woff("tr"), 0)
          \/ rp = "recvNrepeat" /\ SameSize /\ Pipes(4 + Woff("tr"), 0)
          \/ rp \in Meeting /\ Same /\ Pipes(Woff("tr"), Woff("rcv"))
          \/ rp = "syncRead" /\ Same /\ Pipes(Woff("tr"), 6)
          \/ Last /\ Pipes(14 + Woff("tr"), 0)
    /\ tp = "syncRead" =>
          \/ rp \in Between /\ Pipes(14, 0)
          \/ rp = "recvNrepeat" /\ SameSize /\ Pipes(10, 0)
          \/ rp \in Meeting /\ Same /\ Pipes(6, Woff("rcv"))
          \/ rp = "syncRead" /\ Same /\ Pipes(6, 6)
          \/ rp = "recv" /\ j["rcv"] = 0 /\ Same /\ Pipes(0, 6)
          \/ rp \in Between /\ nrepeat["tr"] = 0 /\ Pipes(0, 6)
          \/ Last /\ Pipes(20, 0)
    /\ tp = "send" =>
          \/ rp = "syncRead" /\ j["tr"] = 0 /\ Same /\ Pipes(6 + Woff("tr"), 0)
          \/ rp = "recv" /\ j["rcv"] = j["tr"] /\ Same /\ Pipes(Woff("tr"), 0)
    /\ tp = "recv" =>
          \/ rp = "syncRead" /\ j["tr"] = 0 /\ Same /\ Pipes(6 + B, 0)
          \/ rp = "recv" /\ j["rcv"] = j["tr"] /\ Same /\ Pipes(B, 0)
          \/ rp = "send" /\ j["rcv"] = j["tr"] /\ Same /\ Pipes(0, Woff("rcv"))
          \/ rp = "recv" /\ j["rcv"] = j["tr"] + 1 /\ Same /\ Pipes(0, B)
          \/ rp \in Between /\ j["tr"] + 1 = nrepeat["tr"] /\ Pipes(0, B)
    /\ tp = "check" =>
          \/ rp \in Between /\ Pipes(0, 0)
          \/ Last /\ Pipes(6, 0)

\* The inductive invariant.
Inv ==
    /\ Types /\ Fits
    /\ \A p \in Proc : Local(p) /\ Gathered(p) /\ Buffered(p)
    /\ RcvStream /\ TrStream
    /\ BothUp => Phase

-----------------------------------------------------------------------------
(* Octets and messages *)

\* A message of n bits.
LEMMA BytesFacts ==
    ASSUME NEW n \in Nat
    PROVE  Bytes(n) \in Nat /\ (n > 0 => Bytes(n) > 0)
<1>1. n \div 8 \in Nat /\ n % 8 \in 0..7 /\ n = 8 * (n \div 8) + (n % 8)
  OBVIOUS
<1> QED  BY <1>1 DEF Bytes

\* The octets of a size or a repeat count, ...
LEMMA CountFacts ==
    ASSUME NEW v \in Nat, NEW t \in {"size", "nrepeat"}
    PROVE  LET m == [t |-> t, v |-> v] IN
           /\ Wire(m) \in Seq(Piece) /\ Len(Wire(m)) = 4
           /\ \A i \in 1..4 : Wire(m)[i] = [of |-> m, idx |-> i, oct |-> Htonl(v)[i]]
           /\ \A i \in 1..4 : Htonl(v)[i] \in Octet
<1> DEFINE m == [t |-> t, v |-> v]
<1>1. \A d \in Nat : High(d) \in Nat /\ d % 256 \in 0..255
  BY DEF High
<1>2. DOMAIN Htonl(v) = 1..4 /\ \A i \in 1..4 : Htonl(v)[i] \in Octet
  <2>1. /\ High(High(High(v))) % 256 \in Octet /\ High(High(v)) % 256 \in Octet
        /\ High(v) % 256 \in Octet /\ v % 256 \in Octet
    <3>1. High(v) \in Nat /\ High(High(v)) \in Nat /\ High(High(High(v))) \in Nat
      BY <1>1
    <3> QED  BY <1>1, <3>1 DEF Octet
  <2> HIDE DEF Octet
  <2> QED  BY <2>1 DEF Htonl
<1>3. Wire(m) = [i \in 1..4 |-> [of |-> m, idx |-> i, oct |-> Htonl(v)[i]]]
  BY <1>2 DEF Wire
<1>4. m \in Message
  BY DEF Message
<1>5. \A i \in 1..4 : [of |-> m, idx |-> i, oct |-> Htonl(v)[i]] \in Piece
  BY <1>2, <1>4 DEF Piece, Octet
<1> HIDE DEF m
<1>6. Wire(m) \in Seq(Piece) /\ Len(Wire(m)) = 4
  BY <1>3, <1>5
<1> QED  BY <1>2, <1>3, <1>6 DEF m

\* ... of the synchronization string, ...
LEMMA SyncFacts ==
    /\ Wire(Sy) \in Seq(Piece) /\ Len(Wire(Sy)) = 6
    /\ \A i \in 1..6 : Wire(Sy)[i] = [of |-> Sy, idx |-> i, oct |-> SyncStr[i]]
    /\ SyncStr \in Seq(Octet) /\ Len(SyncStr) = 6 /\ \A i \in 1..6 : SyncStr[i] \in Octet
<1>2. DOMAIN SyncStr = 1..6 /\ \A i \in 1..6 : SyncStr[i] \in Octet
  BY DEF SyncStr, Octet
<1>3. Wire(Sy) = [i \in 1..6 |-> [of |-> Sy, idx |-> i, oct |-> SyncStr[i]]]
  BY <1>2 DEF Wire, Sy
<1>4. Sy \in Message
  BY DEF Message, Sy
<1>5. \A i \in 1..6 : [of |-> Sy, idx |-> i, oct |-> SyncStr[i]] \in Piece
  BY <1>2, <1>4, SMTT(30) DEF Piece, Octet
<1>6. Wire(Sy) \in Seq(Piece) /\ Len(Wire(Sy)) = 6
  BY <1>3, <1>5
<1>7. SyncStr \in Seq(Octet) /\ Len(SyncStr) = 6
  BY DEF SyncStr, Octet
<1> QED  BY <1>2, <1>3, <1>6, <1>7

\* ... and of the data.
LEMMA DataFacts ==
    ASSUME NEW b \in Nat
    PROVE  LET m == [t |-> "data", v |-> b] IN
           /\ Wire(m) \in Seq(Piece) /\ Len(Wire(m)) = b
           /\ \A i \in 1..b : Wire(m)[i] = [of |-> m, idx |-> i, oct |-> i]
<1> DEFINE m == [t |-> "data", v |-> b]
<1>3. Wire(m) = [i \in 1..b |-> [of |-> m, idx |-> i, oct |-> i]]
  BY DEF Wire
<1>4. m \in Message
  BY DEF Message
<1>5. \A i \in 1..b : [of |-> m, idx |-> i, oct |-> i] \in Piece
  BY <1>4 DEF Piece
<1> HIDE DEF m
<1>6. Wire(m) \in Seq(Piece) /\ Len(Wire(m)) = b
  BY <1>3, <1>5
<1> QED  BY <1>3, <1>6 DEF m

\* ntohl undoes htonl on a uint32_t.
LEMMA NtohlHtonl ==
    ASSUME NEW v \in Nat, High(High(High(v))) < 256
    PROVE  Ntohl(Htonl(v)) = v
<1>1. \A d \in Nat : /\ High(d) \in Nat /\ d % 256 \in Nat /\ d = 256 * High(d) + (d % 256)
                     /\ d < 256 => d % 256 = d
  BY DEF High
<1> DEFINE c == High(v)  b == High(c)  a == High(b)
<1>2. Ntohl(Htonl(v)) = (((a % 256) * 256 + (b % 256)) * 256 + (c % 256)) * 256 + (v % 256)
  BY DEF Ntohl, Htonl
<1>3. a \in Nat /\ b \in Nat /\ c \in Nat /\ a < 256
  BY <1>1
<1>4. v = 256 * c + (v % 256) /\ v % 256 \in Nat
  BY <1>1, ZenonT(40)
<1>5. c = 256 * b + (c % 256) /\ c % 256 \in Nat
  BY <1>1, <1>3, ZenonT(40)
<1>6. b = 256 * a + (b % 256) /\ b % 256 \in Nat /\ a % 256 = a
  BY <1>1, <1>3, ZenonT(40)
<1> HIDE DEF a, b, c
<1> QED  BY <1>2, <1>3, <1>4, <1>5, <1>6

-----------------------------------------------------------------------------
(* Streams *)

\* An empty stream disagrees with no message, ...
LEMMA HoldsEmpty ==
    ASSUME NEW ro, NEW m, NEW from
    PROVE  Holds(<<>>, ro, m, from)
  BY DEF Holds

\* After d octets that the reader leaves behind, everything is d octets nearer.
LEMMA HoldsTaken ==
    ASSUME NEW c \in Seq(Piece), NEW ro \in Nat, NEW ro2 \in Nat, NEW d \in Int, NEW m, NEW from \in Int,
           NEW n \in 0..Len(c), Holds(c, ro, m, from), ro2 + d = ro + n
    PROVE  Holds(SubSeq(c, n + 1, Len(c)), ro2, m, from - d)
<1> DEFINE u == SubSeq(c, n + 1, Len(c))
<1>1. Len(u) = Len(c) - n /\ \A x \in 1..Len(u) : u[x] = c[x + n] /\ x + n \in 1..Len(c)
  OBVIOUS
<1> HIDE DEF u
<1>2. SUFFICES ASSUME NEW x \in 1..Len(u), x + ro2 - (from - d) \in 1..Len(Wire(m))
               PROVE  u[x] = Wire(m)[x + ro2 - (from - d)]
  BY DEF Holds, u
<1>3. x + ro2 - (from - d) = (x + n) + ro - from
  BY <1>1
<1> QED  BY <1>1, <1>2, <1>3 DEF Holds

\* ... and a beginning of a stream with none that the stream agrees with.
LEMMA HoldsPrefix ==
    ASSUME NEW c \in Seq(Piece), NEW ro, NEW m, NEW from, NEW n \in 0..Len(c), Holds(c, ro, m, from)
    PROVE  Holds(SubSeq(c, 1, n), ro, m, from)
  BY DEF Holds

\* Octets o + 1 .. o + n of w, which begins after D octets, are written behind what is there.
LEMMA HoldsWritten ==
    ASSUME NEW c \in Seq(Piece), NEW ro \in Nat, NEW m, NEW from \in Int, Holds(c, ro, m, from),
           NEW w, Wire(w) \in Seq(Piece), NEW D \in Nat, NEW o \in Nat, NEW n \in Nat, o + n <= Len(Wire(w)),
           Len(c) + ro = D + o, Len(Wire(m)) \in Nat,
           (m = w /\ from = D) \/ from + Len(Wire(m)) <= D \/ from >= D + Len(Wire(w))
    PROVE  Holds(c \o SubSeq(Wire(w), o + 1, o + n), ro, m, from)
<1> DEFINE e == SubSeq(Wire(w), o + 1, o + n)
<1>1. e \in Seq(Piece) /\ Len(e) = n /\ \A i \in 1..n : e[i] = Wire(w)[o + i]
  BY SubSeqProperties
<1> HIDE DEF e
<1> DEFINE u == c \o e
<1>2. /\ Len(u) = Len(c) + n /\ \A x \in 1..Len(c) : u[x] = c[x]
      /\ \A x \in (Len(c) + 1)..(Len(c) + n) : u[x] = e[x - Len(c)]
  <2>1. /\ Len(u) = Len(c) + Len(e)
        /\ \A x \in 1..(Len(c) + Len(e)) : u[x] = IF x <= Len(c) THEN c[x] ELSE e[x - Len(c)]
    BY <1>1, ConcatProperties
  <2>2. Len(c) \in Nat
    OBVIOUS
  <2> HIDE DEF u
  <2>3. \A x \in 1..Len(c) : u[x] = c[x]
    BY <1>1, <2>1, <2>2
  <2>4. \A x \in (Len(c) + 1)..(Len(c) + n) : u[x] = e[x - Len(c)]
    BY <1>1, <2>1, <2>2
  <2> QED  BY <1>1, <2>1, <2>3, <2>4
<1> HIDE DEF u
<1>3. SUFFICES ASSUME NEW x \in 1..Len(u), x + ro - from \in 1..Len(Wire(m))
               PROVE  u[x] = Wire(m)[x + ro - from]
  BY DEF Holds, u, e
<1>4. Len(c) \in Nat /\ Len(Wire(w)) \in Nat
  OBVIOUS
<1>5. CASE x \in 1..Len(c)
  BY <1>2, <1>3, <1>5 DEF Holds
<1>6. CASE x \in (Len(c) + 1)..(Len(c) + n)
  <2>1. x - Len(c) \in 1..n
    BY <1>4, <1>6
  <2>2. u[x] = Wire(w)[o + (x - Len(c))]
    BY <1>1, <1>2, <1>6, <2>1
  <2>3. o + (x - Len(c)) = x + ro - D
    BY <1>4
  <2>4. m = w /\ from = D
    BY <1>3, <1>4, <1>6, <2>1
  <2> QED  BY <2>2, <2>3, <2>4
<1> QED  BY <1>2, <1>4, <1>5, <1>6

-----------------------------------------------------------------------------
(* What a step leaves alone *)

\* A step of the peer changes nothing of q but its stream and the state of its connection.
Rests(q) ==
    /\ pc'[q] = pc[q] /\ size'[q] = size[q] /\ nrepeat'[q] = nrepeat[q] /\ j'[q] = j[q]
    /\ whole'[q] = whole[q] /\ off'[q] = off[q] /\ got'[q] = got[q] /\ rbuf'[q] = rbuf[q]
    /\ code'[q] = code[q]

\* What such a step leaves as it was, ...
LEMMA Resting ==
    ASSUME Inv, NEW q \in Proc, Rests(q)
    PROVE  /\ Roff(q)' = Roff(q) /\ Woff(q)' = Woff(q) /\ Asked(q)' = Asked(q)
           /\ Outgoing(q)' = Outgoing(q) /\ Data(q)' = Data(q) /\ Up(q)' = Up(q)
           /\ Buffered(q)'
<1>1. Buffered(q)
  BY DEF Inv
<1> QED
  BY <1>1 DEF Rests, Roff, Woff, Asked, Outgoing, Data, Up, Buffered

\* ... also of what one process alone says, ...
LEMMA RestingLocal ==
    ASSUME Inv, NEW q \in Proc, Rests(q), rst'[q] => ~Up(Peer(q))', Len(chan'[q]) <= Cap,
           ~Up(q) => chan'[q] = <<>>
    PROVE  Local(q)'
<1>1. Local(q)
  BY DEF Inv
<1>2. Asked(q)' = Asked(q) /\ Outgoing(q)' = Outgoing(q) /\ Up(q)' = Up(q)
  BY Resting
<1>3. Wire(Outgoing(q))' = Wire(Outgoing(q))
  BY <1>2
<1> QED  BY <1>1, <1>2, <1>3 DEF Rests, Local

\* ... and of what it has read.
LEMMA RestingGathered ==
    ASSUME Inv, NEW q \in Proc, Rests(q), off[q] > 0 => Sz' = Sz /\ Nr' = Nr
    PROVE  Gathered(q)'
<1>1. Gathered(q) /\ off[q] \in Nat
  BY DEF Inv, Types
<1>2. CASE off[q] > 0 /\ pc[q] \in Reading
  <2>1. Incoming(q)' = Incoming(q)
    BY <1>2 DEF Rests, Incoming, Data, Sy, Reading
  <2> QED  BY <1>1, <2>1 DEF Gathered, Rests
<1>3. CASE off[q] = 0 \/ pc[q] \notin Reading
  BY <1>1, <1>3 DEF Gathered, Rests
<1> QED  BY <1>1, <1>2, <1>3

\* The messages a reader can be at.
LEMMA MessageFacts ==
    ASSUME Types
    PROVE  /\ Wire(Sz) \in Seq(Piece) /\ Len(Wire(Sz)) = 4
           /\ Wire(Nr) \in Seq(Piece) /\ Len(Wire(Nr)) = 4
           /\ Wire(Sy) \in Seq(Piece) /\ Len(Wire(Sy)) = 6
           /\ \A p \in Proc : /\ Bytes(size[p]) \in Nat /\ (size[p] > 0 => Bytes(size[p]) > 0)
                              /\ Wire(Data(p)) \in Seq(Piece) /\ Len(Wire(Data(p))) = Bytes(size[p])
<1>1. size["tr"] \in Nat /\ nrepeat["tr"] \in Nat /\ \A p \in Proc : size[p] \in Nat
  BY DEF Types
<1>2. \A p \in Proc : Bytes(size[p]) \in Nat /\ (size[p] > 0 => Bytes(size[p]) > 0)
  BY <1>1, BytesFacts
<1>3. Wire(Sz) \in Seq(Piece) /\ Len(Wire(Sz)) = 4
  BY <1>1, CountFacts DEF Sz
<1>4. Wire(Nr) \in Seq(Piece) /\ Len(Wire(Nr)) = 4
  BY <1>1, CountFacts DEF Nr
<1>5. \A p \in Proc : Wire(Data(p)) \in Seq(Piece) /\ Len(Wire(Data(p))) = Bytes(size[p])
  BY <1>2, DataFacts DEF Data
<1> QED  BY <1>2, <1>3, <1>4, <1>5, SyncFacts

\* The pending write or read, by label.
LEMMA Pending ==
    ASSUME Types, NEW p \in Proc
    PROVE  /\ pc[p] = "sendSize" => Outgoing(p) = Sz
           /\ pc[p] = "sendNrepeat" => Outgoing(p) = Nr
           /\ pc[p] = "syncWrite" => Outgoing(p) = Sy
           /\ pc[p] = "send" => Outgoing(p) = Data(p)
           /\ pc[p] \in Reading => Len(Wire(Incoming(p))) = Asked(p) /\ Wire(Incoming(p)) \in Seq(Piece)
<1>1. pc["rcv"] \notin {"sendSize", "sendNrepeat"}
  BY DEF Types
<1>2. p = "tr" \/ p = "rcv"
  OBVIOUS
<1>3. Len(SyncStr) = 6
  BY SyncFacts
<1>4. pc[p] \in Reading => Len(Wire(Incoming(p))) = Asked(p) /\ Wire(Incoming(p)) \in Seq(Piece)
  BY <1>3, MessageFacts DEF Incoming, Asked, Reading, SizeofInt
<1> QED  BY <1>1, <1>2, <1>4 DEF Outgoing, Sz, Nr, Sy, Data

-----------------------------------------------------------------------------
(* The beginning, and the steps that touch no stream *)

\* The invariant holds at the start.
LEMMA Starts == Init => Inv
<1> SUFFICES ASSUME Init PROVE Inv
  OBVIOUS
<1>1. Types
  <2>1. <<>> \in Seq(Octet) /\ <<>> \in Seq(Piece)
    OBVIOUS
  <2>2. -2 \in Status
    BY DEF Status
  <2> HIDE DEF Octet, Piece
  <2> QED  BY <2>1, <2>2 DEF Init, Types, Labels
<1>2. Fits
  BY DEF Fits, Init, High
<1>3. ASSUME NEW p \in Proc PROVE Local(p) /\ Gathered(p) /\ Buffered(p)
  BY CapAssumption DEF Init, Local, Gathered, Buffered, Up, Peer, Reading, Writing, Early, InRun
<1>4. \A p \in Proc : chan[p] = <<>> /\ Roff(p) = 0 /\ Woff(p) = 0 /\ Ahead(p) = 0
  BY DEF Init, Roff, Woff, Ahead, Reading, Writing
<1>5. \A p \in Proc : pc[p] = "idle"
  BY DEF Init
<1>6. RcvStream /\ TrStream
  BY <1>4, <1>5, HoldsEmpty DEF RcvStream, TrStream, Carries, Between, Meeting
<1>7. Phase
  BY <1>4, <1>5 DEF Phase, Between
<1> QED  BY <1>1, <1>2, <1>3, <1>6, <1>7 DEF Inv

\* The transmitter calls run_iters with arguments.
LEMMA CallTr ==
    ASSUME Inv, Call("tr")
    PROVE  Inv'
<1>1. PICK r \in Requests :
         /\ pc["tr"] = "idle" /\ Len(ret["tr"]) < MaxCalls
         /\ size' = [size EXCEPT !["tr"] = r[1]] /\ nrepeat' = [nrepeat EXCEPT !["tr"] = r[2]]
         /\ pc' = [pc EXCEPT !["tr"] = "sendSize"]
         /\ j' = [j EXCEPT !["tr"] = 0] /\ whole' = [whole EXCEPT !["tr"] = 0]
         /\ UNCHANGED <<off, got, rbuf, chan, rst, code, ret>>
  BY DEF Call, Goto
<1>2. Types
  BY DEF Inv
<1>3. r[1] \in Nat /\ r[2] \in Nat /\ High(High(High(r[1]))) < 256 /\ High(High(High(r[2]))) < 256
  BY RequestsAssumption
<1>4. Types'
  BY <1>1, <1>2, <1>3 DEF Types, Labels
<1>5. Fits'
  BY <1>1, <1>2, <1>3 DEF Types, Fits
<1>6. /\ pc'["tr"] = "sendSize" /\ j'["tr"] = 0 /\ whole'["tr"] = 0 /\ off'["tr"] = off["tr"]
      /\ Rests("rcv")
  BY <1>1, <1>2 DEF Types, Rests
<1>7. /\ off["tr"] = 0 /\ Local("tr") /\ Gathered("tr") /\ Buffered("tr")
  BY <1>1 DEF Inv, Local, Reading, Writing
<1>8. /\ Roff("tr")' = 0 /\ Woff("tr")' = 0 /\ Roff("tr") = 0 /\ Woff("tr") = 0
      /\ Roff("rcv")' = Roff("rcv") /\ Woff("rcv")' = Woff("rcv") /\ Up("rcv")' = Up("rcv") /\ Buffered("rcv")'
      /\ Up("tr") /\ Up("tr")' /\ Data("rcv")' = Data("rcv")
  BY <1>1, <1>6, <1>7, Resting DEF Roff, Woff, Reading, Writing, Up
<1>9. Ahead("rcv")' = Ahead("rcv") /\ Ahead("tr")' = Ahead("tr")
  BY <1>1, <1>8 DEF Ahead
<1>10. /\ ~Up("rcv") => chan["rcv"] = <<>>
       /\ Up("rcv") => Phase
  BY <1>8 DEF Inv, Local, BothUp
<1>11. Len(chan["rcv"]) \in Nat /\ Roff("rcv") \in Nat
  BY <1>2 DEF Types, Roff
<1>12. Local("tr")'
  <2>1. Len(Wire(Outgoing("tr")))' = 4
    BY <1>4, <1>6, Pending, MessageFacts, CountFacts DEF Outgoing, Types
  <2>2. /\ Up("tr")' <=> code'["tr"] = -2
        /\ rst'["tr"] => ~Up(Peer("tr"))'
        /\ Len(chan'["tr"]) <= Cap
    BY <1>1, <1>7, <1>8 DEF Local, Peer
  <2>3. off'["tr"] < Len(Wire(Outgoing("tr")))'
    BY <1>6, <1>7, <2>1
  <2>4. pc'["tr"] \notin Reading /\ pc'["tr"] \in Writing /\ pc'["tr"] \notin {"send", "recv"}
    BY <1>6 DEF Reading, Writing
  <2> QED  BY <1>6, <1>8, <2>2, <2>3, <2>4 DEF Local
<1>13. Local("rcv")'
  <2>1. Local("rcv")
    BY DEF Inv
  <2>2. rst'["rcv"] => ~Up(Peer("rcv"))'
    BY <1>1, <1>8, <2>1 DEF Local, Peer
  <2> QED  BY <1>1, <1>6, <2>1, <2>2, RestingLocal DEF Local
<1>14. Gathered("tr")' /\ Buffered("tr")'
  BY <1>1, <1>6, <1>7 DEF Gathered, Buffered, Reading, InRun
<1>15. pc["rcv"] \in Reading /\ off["rcv"] > 0 => pc["rcv"] = "syncRead"
  <2> SUFFICES ASSUME pc["rcv"] \in Reading, off["rcv"] > 0  PROVE pc["rcv"] = "syncRead"
    OBVIOUS
  <2>1. Phase /\ Roff("rcv") = off["rcv"]
    BY <1>10 DEF Up, Reading, Roff
  <2>2. Ahead("rcv") > 0
    BY <1>11, <2>1 DEF Ahead
  <2> QED  BY <1>1, <1>8, <2>1, <2>2 DEF Phase
<1>16. Gathered("rcv")'
  <2>1. Gathered("rcv") /\ off["rcv"] \in Nat
    BY <1>2 DEF Inv, Types
  <2>2. CASE pc["rcv"] = "syncRead"
    <3>1. Incoming("rcv") = Sy /\ Incoming("rcv")' = Sy
      BY <1>6, <2>2 DEF Incoming, Rests, Sy
    <3> QED  BY <1>6, <2>1, <2>2, <3>1 DEF Gathered, Rests, Reading
  <2>3. CASE pc["rcv"] # "syncRead"
    BY <1>6, <1>15, <2>1, <2>3 DEF Gathered, Rests
  <2> QED  BY <2>2, <2>3
<1>17. RcvStream'
  <2>1. CASE ~Up("rcv")
    BY <1>6, <2>1 DEF RcvStream, Rests, Up, Between, Meeting
  <2>2. CASE Up("rcv") /\ pc["rcv"] \in Between
    <3>1. Ahead("rcv") = 0
      BY <1>1, <1>8, <1>10, <2>2 DEF Phase, Between
    <3>2. chan["rcv"] \in Seq(Piece) /\ Len(chan["rcv"]) = 0
      BY <1>2, <1>11, <3>1, SMTT(30) DEF Ahead, Types
    <3>3. chan["rcv"] = <<>>
      BY <3>2
    <3> QED  BY <1>1, <1>6, <1>9, <2>2, <3>1, <3>3, HoldsEmpty DEF RcvStream, Carries, Rests, Between, Meeting
  <2>3. CASE Up("rcv") /\ pc["rcv"] \notin Between
    <3>1. pc["rcv"] = "syncRead" /\ nrepeat["rcv"] = 0 /\ Ahead("rcv") = 6
      BY <1>1, <1>8, <1>10, <2>3 DEF Phase, Between
    <3>2. Carries("rcv", Sy, 0)
      BY <3>1 DEF Inv, RcvStream, Meeting
    <3>3. Carries("rcv", Sy, 0)'
      BY <1>1, <1>8, <3>2 DEF Carries, Sy
    <3>4. \A m, from : from >= 6 /\ from \in Int => Holds(chan["rcv"], Roff("rcv"), m, from)
      BY <1>11, <3>1 DEF Holds, Ahead
    <3>5. Carries("rcv", Sz, 6)' /\ Carries("rcv", Nr, 10)' /\ Carries("rcv", Sy, 14)'
      BY <1>1, <1>8, <3>4 DEF Carries
    <3> QED  BY <1>6, <1>9, <3>1, <3>3, <3>5 DEF RcvStream, Rests, Between, Meeting
  <2> QED  BY <2>1, <2>2, <2>3
<1>18. TrStream'
  BY <1>1, <1>6 DEF Inv, TrStream
<1>19. BothUp' => Phase'
  BY <1>1, <1>6, <1>8, <1>9, <1>10 DEF Phase, BothUp, Rests
<1>20. ASSUME NEW p \in Proc PROVE Local(p)' /\ Gathered(p)' /\ Buffered(p)'
  BY <1>8, <1>12, <1>13, <1>14, <1>16
<1> QED  BY <1>4, <1>5, <1>17, <1>18, <1>19, <1>20 DEF Inv

\* The steps from one library call to the next that neither read nor write.
LEMMA QuietStep ==
    ASSUME Inv, Types', NEW p \in Proc, Rests(Peer(p)),
           size' = size, nrepeat' = nrepeat, off' = off, got' = got, chan' = chan, rst' = rst, code' = code,
           \/ p = "rcv" /\ pc[p] = "idle" /\ pc'[p] = "recvSize"
           \/ pc[p] = "check" /\ pc'[p] = "idle"
           \/ pc[p] = "alloc" /\ pc'[p] = "syncWrite",
           pc'[p] \in Early => j'[p] = 0 /\ whole'[p] = 0, Buffered(p)'
    PROVE  Inv'
<1> DEFINE q == Peer(p)
<1>1. q \in Proc /\ Peer(q) = p /\ \A x \in Proc : x = p \/ x = q
  BY DEF Peer
<1> HIDE DEF q
<1>2. Rests(q)
  BY DEF q
<1>3. Local(p) /\ Gathered(p) /\ Local(q) /\ Types
  BY <1>1 DEF Inv
<1>4. off[p] = 0 /\ got[p] = <<>>
  BY <1>3 DEF Local, Gathered, Reading, Writing
<1>5. Up(p) /\ Up(p)' /\ Up(q)' = Up(q) /\ Roff(p)' = 0 /\ Roff(p) = 0 /\ Woff(p)' = 0 /\ Woff(p) = 0
      /\ Roff(q)' = Roff(q) /\ Woff(q)' = Woff(q) /\ Buffered(q)' /\ Data(q)' = Data(q)
  BY <1>1, <1>2, <1>4, Resting DEF Up, Roff, Woff
<1>6. Sz' = Sz /\ Nr' = Nr /\ Data(p)' = Data(p)
  BY DEF Sz, Nr, Data
<1>7. Local(q)' /\ Gathered(q)'
  <2>1. rst'[q] => ~Up(Peer(q))'
    BY <1>1, <1>3, <1>5 DEF Local
  <2> QED  BY <1>1, <1>2, <1>3, <1>6, <2>1, RestingLocal, RestingGathered DEF Local
<1>8. Local(p)'
  <2>1. /\ Up(p)' <=> code'[p] = -2
        /\ rst'[p] => ~Up(Peer(p))'
        /\ Len(chan'[p]) <= Cap
    BY <1>3, <1>5 DEF Local, q
  <2>2. pc'[p] = "recvSize" => Asked(p)' = 4
    BY DEF Asked, SizeofInt
  <2>3. pc'[p] = "syncWrite" => Len(Wire(Outgoing(p)))' = 6
    BY SyncFacts DEF Outgoing, Sy
  <2>4. pc'[p] \in {"recvSize", "idle", "syncWrite"} /\ off'[p] = 0
    BY <1>4
  <2>5. p = "rcv" /\ pc'[p] \in {"alloc", "syncWrite", "syncRead"} => size'[p] > 0
    BY <1>3 DEF Local
  <2>6. pc'[p] \in Reading => off'[p] < Asked(p)'
    BY <2>2, <2>4 DEF Reading
  <2>7. pc'[p] \in Writing => off'[p] < Len(Wire(Outgoing(p)))'
    <3>1. pc'[p] \in Writing => pc'[p] = "syncWrite"
      BY <2>4 DEF Writing
    <3>2. off'[p] < 6
      BY <2>4
    <3> QED  BY <2>3, <3>1, <3>2
  <2> QED  BY <1>5, <2>1, <2>4, <2>5, <2>6, <2>7 DEF Local
<1>9. Gathered(p)'
  BY <1>4 DEF Gathered, Reading
<1>10. Ahead("rcv")' = Ahead("rcv") /\ Ahead("tr")' = Ahead("tr")
  BY <1>1, <1>5 DEF Ahead
<1>11. \A x \in Proc : Roff(x)' = Roff(x) /\ Woff(x)' = Woff(x) /\ Data(x)' = Data(x)
  BY <1>1, <1>5, <1>6
<1>12. \A x \in Proc : x # p => pc'[x] = pc[x] /\ j'[x] = j[x]
  BY <1>1, <1>2 DEF Rests
<1>13. /\ pc'["rcv"] \in Between <=> pc["rcv"] \in Between
       /\ pc'["rcv"] \in Meeting <=> pc["rcv"] \in Meeting
       /\ pc'["rcv"] \notin Between \cup Meeting => pc'["rcv"] = pc["rcv"]
  <2>1. CASE p = "rcv"
    BY <2>1 DEF Between, Meeting
  <2>2. CASE p = "tr"
    BY <1>12, <2>2
  <2> QED  BY <2>1, <2>2
<1>14. RcvStream'
  <2>1. RcvStream
    BY DEF Inv
  <2>2. /\ Carries("rcv", Sz, 0)' = Carries("rcv", Sz, 0) /\ Carries("rcv", Nr, 4)' = Carries("rcv", Nr, 4)
        /\ Carries("rcv", Sy, 8)' = Carries("rcv", Sy, 8) /\ Carries("rcv", Nr, 0)' = Carries("rcv", Nr, 0)
        /\ Carries("rcv", Sy, 4)' = Carries("rcv", Sy, 4) /\ Carries("rcv", Sy, 0)' = Carries("rcv", Sy, 0)
        /\ Carries("rcv", Data("rcv"), 6)' = Carries("rcv", Data("rcv"), 6)
        /\ Carries("rcv", Data("rcv"), 0)' = Carries("rcv", Data("rcv"), 0)
        /\ Carries("rcv", Sz, 6)' = Carries("rcv", Sz, 6) /\ Carries("rcv", Nr, 10)' = Carries("rcv", Nr, 10)
        /\ Carries("rcv", Sy, 14)' = Carries("rcv", Sy, 14)
    BY <1>6, <1>11 DEF Carries, Sy
  <2>3. CASE pc'["rcv"] \in Between
    BY <1>10, <1>13, <2>1, <2>2, <2>3 DEF RcvStream, Between, Meeting
  <2>4. CASE pc'["rcv"] \in Meeting
    BY <1>10, <1>13, <2>1, <2>2, <2>4 DEF RcvStream, Between, Meeting
  <2>5. CASE pc'["rcv"] \notin Between \cup Meeting
    BY <1>10, <1>13, <2>1, <2>2, <2>5 DEF RcvStream, Between, Meeting
  <2> QED  BY <2>3, <2>4, <2>5
<1>15. TrStream'
  <2>1. TrStream
    BY DEF Inv
  <2>2. /\ Carries("tr", Sy, 0)' = Carries("tr", Sy, 0)
        /\ Carries("tr", Data("tr"), 0)' = Carries("tr", Data("tr"), 0)
    BY <1>11 DEF Carries, Sy
  <2>3. CASE p = "rcv"
    BY <1>10, <1>12, <2>1, <2>2, <2>3 DEF TrStream
  <2>4. CASE p = "tr"
    BY <1>10, <2>1, <2>2, <2>4 DEF TrStream
  <2> QED  BY <2>3, <2>4
<1>16. BothUp' => Phase'
  <2> SUFFICES ASSUME BothUp' PROVE Phase'
    OBVIOUS
  <2>1. Phase
    BY <1>1, <1>5 DEF Inv, BothUp
  <2>2. /\ Ahead("rcv")' = Ahead("rcv") /\ Ahead("tr")' = Ahead("tr")
        /\ Woff("rcv")' = Woff("rcv") /\ Woff("tr")' = Woff("tr")
    BY <1>10, <1>11
  <2>3. CASE p = "rcv"
    <3>1. pc'["tr"] = pc["tr"] /\ j'["tr"] = j["tr"]
      BY <1>12, <2>3
    <3>2. pc'["rcv"] \in Between \cup Meeting
      BY <2>3 DEF Between, Meeting
    <3> QED  BY <1>13, <2>1, <2>2, <3>1, <3>2 DEF Phase, Between, Meeting
  <2>4. CASE p = "tr"
    <3>1. pc'["rcv"] = pc["rcv"] /\ j'["rcv"] = j["rcv"]
      BY <1>12, <2>4
    <3> QED  BY <1>5, <2>1, <2>2, <2>4, <3>1 DEF Phase
  <2> QED  BY <2>3, <2>4
<1>17. Fits'
  BY DEF Inv, Fits
<1>18. ASSUME NEW x \in Proc PROVE Local(x)' /\ Gathered(x)' /\ Buffered(x)'
  BY <1>1, <1>5, <1>7, <1>8, <1>9
<1> QED  BY <1>14, <1>15, <1>16, <1>17, <1>18 DEF Inv

\* The receiver calls it without.
LEMMA CallRcv ==
    ASSUME Inv, ~RcvPassesArgs, Call("rcv")
    PROVE  Inv'
<1>1. /\ pc["rcv"] = "idle" /\ pc' = [pc EXCEPT !["rcv"] = "recvSize"] /\ size' = size /\ nrepeat' = nrepeat
      /\ j' = [j EXCEPT !["rcv"] = 0] /\ whole' = [whole EXCEPT !["rcv"] = 0]
      /\ UNCHANGED <<off, got, rbuf, chan, rst, code, ret>>
  BY DEF Call, Goto
<1>2. Types
  BY DEF Inv
<1>3. Types'
  BY <1>1, <1>2 DEF Types, Labels
<1>4. Rests("tr") /\ pc'["rcv"] = "recvSize" /\ j'["rcv"] = 0 /\ whole'["rcv"] = 0
  BY <1>1, <1>2 DEF Types, Rests
<1>5. Buffered("rcv")'
  BY <1>4 DEF Buffered, InRun
<1> QED  BY <1>1, <1>3, <1>4, <1>5, QuietStep DEF Peer

\* The buffers are allocated.
LEMMA AllocStep ==
    ASSUME Inv, NEW p \in Proc, Alloc(p)
    PROVE  Inv'
<1>1. /\ pc[p] = "alloc" /\ pc' = [pc EXCEPT ![p] = "syncWrite"]
      /\ rbuf' = [rbuf EXCEPT ![p] = [i \in 1..Bytes(size[p]) |-> 0]]
      /\ UNCHANGED <<size, nrepeat, j, whole, off, got, chan, rst, code, ret>>
  BY DEF Alloc, Goto
<1>2. Types /\ Local(p)
  BY DEF Inv
<1>3. Types'
  BY <1>1, <1>2 DEF Types, Labels
<1>4. Rests(Peer(p)) /\ pc'[p] = "syncWrite" /\ j'[p] = 0 /\ whole'[p] = 0
  BY <1>1, <1>2 DEF Types, Rests, Peer, Local, Early
<1>5. Buffered(p)'
  BY <1>1, <1>2, <1>4 DEF Buffered, InRun, Types
<1> QED  BY <1>1, <1>3, <1>4, <1>5, QuietStep

\* run_iters returns.
LEMMA ReturnStep ==
    ASSUME Inv, NEW p \in Proc, Return(p)
    PROVE  Inv'
<1>1. /\ pc[p] = "check" /\ pc' = [pc EXCEPT ![p] = "idle"] /\ DOMAIN ret' = DOMAIN ret
      /\ rbuf' = [rbuf EXCEPT ![p] = <<>>]
      /\ UNCHANGED <<size, nrepeat, j, whole, off, got, chan, rst, code>>
  BY DEF Return, Goto
<1>2. Types
  BY DEF Inv
<1>3. Types'
  BY <1>1, <1>2 DEF Types, Labels
<1>4. Rests(Peer(p)) /\ pc'[p] = "idle"
  BY <1>1, <1>2 DEF Types, Rests, Peer
<1>5. Buffered(p)' /\ pc'[p] \notin Early
  BY <1>4 DEF Buffered, InRun, Early
<1> QED  BY <1>1, <1>3, <1>4, <1>5, QuietStep

-----------------------------------------------------------------------------
(* A process ends *)

\* A process ends; its stream may lose its tail.
LEMMA CloseStep ==
    ASSUME Inv, NEW p \in Proc, Up(p), NEW c \in {0, 1, 3, 137, 139, 255, 304, 305, 306, 401}, NEW rest,
           Close(p, c, rest)
    PROVE  Inv'
<1> DEFINE q == Peer(p)
<1>1. q \in Proc /\ Peer(q) = p /\ q # p /\ \A x \in Proc : x = p \/ x = q
  BY DEF Peer
<1>2. PICK k \in 0..Len(chan[q]) :
         chan' = [x \in Proc |-> IF x = p THEN <<>> ELSE SubSeq(chan[x], 1, k)]
  BY DEF Close
<1> HIDE DEF q
<1>3. Types /\ chan[q] \in Seq(Piece) /\ Len(chan[q]) \in Nat
  BY <1>1, SMTT(30) DEF Inv, Types
<1>4. chan'[p] = <<>> /\ chan'[q] = SubSeq(chan[q], 1, k)
  BY <1>1, <1>2
<1>5. /\ SubSeq(chan[q], 1, k) \in Seq(Piece) /\ Len(SubSeq(chan[q], 1, k)) = k /\ k <= Len(chan[q])
      /\ chan[q] = <<>> => SubSeq(chan[q], 1, k) = <<>>
  BY <1>3
<1>6. /\ pc' = [pc EXCEPT ![p] = "stopped"] /\ code' = [code EXCEPT ![p] = c]
      /\ rst' = [rst EXCEPT ![q] = @ \/ rest # <<>>]
      /\ off' = [off EXCEPT ![p] = 0] /\ got' = [got EXCEPT ![p] = <<>>]
      /\ UNCHANGED <<size, nrepeat, j, whole, rbuf, ret>>
  BY DEF Close, Goto, locals, q
<1>7. Types'
  <2>1. chan' \in [Proc -> Seq(Piece)]
    <3>1. <<>> \in Seq(Piece)
      OBVIOUS
    <3>2. chan'[p] \in Seq(Piece) /\ chan'[q] \in Seq(Piece)
      BY <1>4, <1>5, <3>1
    <3>3. ASSUME NEW x \in Proc PROVE chan'[x] \in Seq(Piece)
      BY <1>1, <3>2
    <3> QED  BY <1>2, <3>3
  <2>2. got' \in [Proc -> Seq(Octet)]
    <3>1. <<>> \in Seq(Octet)
      OBVIOUS
    <3> QED  BY <1>3, <1>6, <3>1 DEF Types
  <2>3. pc' \in [Proc -> Labels] /\ pc'["tr"] \notin {"recvSize", "recvNrepeat", "exitSignal"}
        /\ pc'["rcv"] \notin {"sendSize", "sendNrepeat"}
    BY <1>3, <1>6 DEF Types, Labels
  <2>4. code' \in [Proc -> Status]
    <3>1. c \in Status
      BY DEF Status
    <3> QED  BY <1>3, <1>6, <3>1 DEF Types
  <2>6. off' \in [Proc -> Nat]
    BY <1>3, <1>6 DEF Types
  <2>5. rst' \in [Proc -> BOOLEAN]
    BY <1>1, <1>3, <1>6 DEF Types
  <2> QED  BY <1>3, <1>6, <2>1, <2>2, <2>3, <2>4, <2>5, <2>6 DEF Types
<1>8. Rests(q) /\ pc'[p] = "stopped" /\ code'[p] = c /\ off'[p] = 0 /\ got'[p] = <<>>
  BY <1>1, <1>3, <1>6 DEF Types, Rests
<1>9. /\ Up(q)' = Up(q) /\ ~Up(p)' /\ Roff(q)' = Roff(q) /\ Buffered(q)' /\ Data(q)' = Data(q)
  BY <1>1, <1>8, Resting DEF Up
<1>10. Sz' = Sz /\ Nr' = Nr
  BY <1>6 DEF Sz, Nr
<1>11. Local(q)' /\ Gathered(q)'
  <2>1. Local(q)
    BY <1>1 DEF Inv
  <2>2. rst'[q] => ~Up(Peer(q))'
    BY <1>1, <1>9
  <2>3. Len(chan'[q]) <= Cap
    BY <1>3, <1>4, <1>5, <2>1, CapAssumption DEF Local
  <2>4. ~Up(q) => chan'[q] = <<>>
    BY <1>4, <1>5, <2>1 DEF Local
  <2> QED  BY <1>1, <1>8, <1>10, <2>2, <2>3, <2>4, RestingLocal, RestingGathered
<1>12. Local(p)'
  <2>1. Local(p)
    BY DEF Inv
  <2>2. rst'[p] = rst[p]
    BY <1>1, <1>3, <1>6 DEF Types
  <2>3. rst'[p] => ~Up(Peer(p))'
    BY <1>9, <2>1, <2>2 DEF Local, q
  <2>4. Len(chan'[p]) <= Cap
    BY <1>4, CapAssumption
  <2>5. c # -2
    OBVIOUS
  <2> QED  BY <1>4, <1>8, <1>9, <2>3, <2>4, <2>5 DEF Local, Reading, Writing, Early
<1>13. Gathered(p)' /\ Buffered(p)'
  BY <1>8 DEF Gathered, Buffered, Reading, InRun
<1>14. \A m, from : Carries(q, m, from) => Holds(chan'[q], Roff(q)', m, from)
  BY <1>3, <1>4, <1>9, HoldsPrefix DEF Carries
<1>15. Ahead(q)' <= Ahead(q) /\ Ahead(q)' \in Nat /\ Ahead(q) \in Nat
  <2>1. Roff(q) \in Nat
    BY <1>1, <1>3, SMTT(30) DEF Types, Roff
  <2> QED  BY <1>3, <1>4, <1>5, <1>9, <2>1 DEF Ahead
<1>16. RcvStream'
  <2>1. CASE p = "rcv"
    BY <1>8, <2>1 DEF RcvStream, Between, Meeting
  <2>2. CASE p # "rcv"
    <3>1. q = "rcv" /\ pc'["rcv"] = pc["rcv"] /\ RcvStream /\ nrepeat' = nrepeat /\ size' = size
      BY <1>1, <1>6, <1>8, <2>2 DEF Inv, Rests
    <3>2. Bytes(size["rcv"]) \in Nat
      BY <1>3, MessageFacts
    <3>3. /\ Carries("rcv", Sz, 0) => Carries("rcv", Sz, 0)'
          /\ Carries("rcv", Nr, 4) => Carries("rcv", Nr, 4)'
          /\ Carries("rcv", Sy, 8) => Carries("rcv", Sy, 8)'
          /\ Carries("rcv", Nr, 0) => Carries("rcv", Nr, 0)'
          /\ Carries("rcv", Sy, 4) => Carries("rcv", Sy, 4)'
          /\ Carries("rcv", Sy, 0) => Carries("rcv", Sy, 0)'
          /\ Carries("rcv", Data("rcv"), 6) => Carries("rcv", Data("rcv"), 6)'
          /\ Carries("rcv", Data("rcv"), 0) => Carries("rcv", Data("rcv"), 0)'
          /\ Carries("rcv", Sz, 6) => Carries("rcv", Sz, 6)'
          /\ Carries("rcv", Nr, 10) => Carries("rcv", Nr, 10)'
          /\ Carries("rcv", Sy, 14) => Carries("rcv", Sy, 14)'
      BY <1>9, <1>10, <1>14, <3>1 DEF Carries, Sy
    <3>4. \A n \in Nat : Ahead("rcv") <= n => Ahead("rcv")' <= n
      BY <1>15, <3>1
    <3>5. 6 + Bytes(size["rcv"]) \in Nat
      BY <3>2
    <3>6. chan["rcv"] = <<>> => chan'["rcv"] = <<>>
      BY <1>4, <1>5, <3>1
    <3> QED  BY <3>1, <3>2, <3>3, <3>4, <3>5, <3>6 DEF RcvStream
  <2> QED  BY <2>1, <2>2
<1>17. TrStream'
  <2>1. CASE p = "tr"
    BY <1>4, <1>8, <2>1 DEF TrStream
  <2>2. CASE p # "tr"
    <3>1. q = "tr" /\ pc'["tr"] = pc["tr"] /\ TrStream /\ size' = size
      BY <1>1, <1>6, <1>8, <2>2 DEF Inv, Rests
    <3>2. Bytes(size["tr"]) \in Nat
      BY <1>3, MessageFacts
    <3>3. /\ Carries("tr", Sy, 0) => Carries("tr", Sy, 0)'
          /\ Carries("tr", Data("tr"), 0) => Carries("tr", Data("tr"), 0)'
      BY <1>9, <1>14, <3>1 DEF Carries, Sy
    <3>4. \A n \in Nat : Ahead("tr") <= n => Ahead("tr")' <= n
      BY <1>15, <3>1
    <3>5. Ahead("tr")' > 0 => Ahead("tr") > 0
      BY <1>15, <3>1
    <3>6. chan["tr"] = <<>> => chan'["tr"] = <<>>
      BY <1>4, <1>5, <3>1
    <3> QED  BY <3>1, <3>2, <3>3, <3>4, <3>5, <3>6 DEF TrStream
  <2> QED  BY <2>1, <2>2
<1>18. ~BothUp'
  BY <1>9 DEF BothUp
<1>19. Fits'
  BY <1>6 DEF Inv, Fits
<1>20. ASSUME NEW x \in Proc PROVE Local(x)' /\ Gathered(x)' /\ Buffered(x)'
  BY <1>1, <1>9, <1>11, <1>12, <1>13
<1> QED  BY <1>7, <1>16, <1>17, <1>18, <1>19, <1>20 DEF Inv

-----------------------------------------------------------------------------
(* Reads *)

\* The process that does not step, when its stream and its connection stay as they are.
LEMMA OtherRests ==
    ASSUME Inv, NEW q \in Proc, Rests(q), chan'[q] = chan[q], rst'[q] = rst[q],
           Up(Peer(q))' = Up(Peer(q)), Sz' = Sz, Nr' = Nr
    PROVE  /\ Local(q)' /\ Gathered(q)' /\ Buffered(q)'
           /\ q = "rcv" => RcvStream'
           /\ q = "tr" => TrStream'
           /\ Ahead(q)' = Ahead(q) /\ Woff(q)' = Woff(q)
<1>1. /\ Roff(q)' = Roff(q) /\ Woff(q)' = Woff(q) /\ Data(q)' = Data(q) /\ Buffered(q)'
  BY Resting
<1>2. Local(q)' /\ Gathered(q)'
  <2>1. Local(q)
    BY DEF Inv
  <2> QED  BY <2>1, RestingLocal, RestingGathered DEF Local
<1>3. Ahead(q)' = Ahead(q)
  BY <1>1 DEF Ahead
<1>4. ASSUME q = "rcv" PROVE RcvStream'
  <2>1. RcvStream /\ pc'["rcv"] = pc["rcv"] /\ nrepeat'["rcv"] = nrepeat["rcv"] /\ size'["rcv"] = size["rcv"]
    BY <1>4 DEF Inv, Rests
  <2>2. /\ Carries("rcv", Sz, 0)' = Carries("rcv", Sz, 0) /\ Carries("rcv", Nr, 4)' = Carries("rcv", Nr, 4)
        /\ Carries("rcv", Sy, 8)' = Carries("rcv", Sy, 8) /\ Carries("rcv", Nr, 0)' = Carries("rcv", Nr, 0)
        /\ Carries("rcv", Sy, 4)' = Carries("rcv", Sy, 4) /\ Carries("rcv", Sy, 0)' = Carries("rcv", Sy, 0)
        /\ Carries("rcv", Data("rcv"), 6)' = Carries("rcv", Data("rcv"), 6)
        /\ Carries("rcv", Data("rcv"), 0)' = Carries("rcv", Data("rcv"), 0)
        /\ Carries("rcv", Sz, 6)' = Carries("rcv", Sz, 6) /\ Carries("rcv", Nr, 10)' = Carries("rcv", Nr, 10)
        /\ Carries("rcv", Sy, 14)' = Carries("rcv", Sy, 14)
    BY <1>1, <1>4 DEF Carries, Sy
  <2> QED  BY <1>3, <1>4, <2>1, <2>2 DEF RcvStream
<1>5. ASSUME q = "tr" PROVE TrStream'
  <2>1. TrStream /\ pc'["tr"] = pc["tr"] /\ size'["tr"] = size["tr"]
    BY <1>5 DEF Inv, Rests
  <2>2. /\ Carries("tr", Sy, 0)' = Carries("tr", Sy, 0)
        /\ Carries("tr", Data("tr"), 0)' = Carries("tr", Data("tr"), 0)
    BY <1>1, <1>5 DEF Carries, Sy
  <2> QED  BY <1>3, <1>5, <2>1, <2>2 DEF TrStream
<1> QED  BY <1>1, <1>2, <1>3, <1>4, <1>5

\* What a read finds is the message that it is after, from the place that it is at.
LEMMA ReadFacts ==
    ASSUME Inv, NEW p \in Proc, pc[p] \in Reading, NEW n \in ReadSizes(p)
    PROVE  /\ n \in Nat /\ n > 0 /\ off[p] \in Nat /\ Asked(p) \in Nat /\ off[p] + n <= Asked(p)
           /\ chan[p] \in Seq(Piece) /\ Len(chan[p]) \in Nat /\ n <= Len(chan[p]) /\ Roff(p) = off[p]
           /\ \A i \in 1..n : chan[p][i] = Wire(Incoming(p))[off[p] + i]
           /\ Rest(p, n) \in Seq(Piece) /\ Len(Rest(p, n)) = Len(chan[p]) - n
<1>1. Types /\ chan[p] \in Seq(Piece) /\ off[p] \in Nat /\ Len(chan[p]) \in Nat
  BY DEF Inv, Types
<1>2. Asked(p) \in Nat /\ Len(Wire(Incoming(p))) = Asked(p) /\ Wire(Incoming(p)) \in Seq(Piece)
  BY <1>1, Pending
<1>3. n \in Nat /\ n > 0 /\ n <= Len(chan[p]) /\ off[p] + n <= Asked(p) /\ Roff(p) = off[p]
  BY <1>1, <1>2 DEF ReadSizes, MinOf, Roff
<1>4. Carries(p, Incoming(p), 0)
  BY <1>1 DEF Inv, RcvStream, TrStream, Reading, Between, Meeting, Incoming, Types
<1>5. ASSUME NEW i \in 1..n PROVE chan[p][i] = Wire(Incoming(p))[off[p] + i]
  <2>1. i \in 1..Len(chan[p]) /\ i + off[p] - 0 \in 1..Len(Wire(Incoming(p))) /\ i + off[p] - 0 = off[p] + i
    BY <1>1, <1>2, <1>3
  <2> QED  BY <1>3, <1>4, <2>1 DEF Carries, Holds
<1>6. Rest(p, n) \in Seq(Piece) /\ Len(Rest(p, n)) = Len(chan[p]) - n
  BY <1>1, <1>3 DEF Rest
<1> QED  BY <1>1, <1>2, <1>3, <1>5, <1>6

\* A message that begins from octets after the one that p is at is still there, and nearer.
LEMMA ReadOn ==
    ASSUME Inv, NEW p \in Proc, pc[p] \in Reading, NEW n \in ReadSizes(p), NEW m, NEW from \in Int,
           Carries(p, m, from)
    PROVE  /\ Holds(Rest(p, n), off[p] + n, m, from)
           /\ off[p] + n = Asked(p) => Holds(Rest(p, n), 0, m, from - Asked(p))
<1>1. /\ n \in 0..Len(chan[p]) /\ off[p] \in Nat /\ off[p] + n \in Nat /\ Asked(p) \in Nat
      /\ chan[p] \in Seq(Piece) /\ Roff(p) = off[p]
  BY ReadFacts
<1>2. Holds(chan[p], off[p], m, from)
  BY <1>1 DEF Carries
<1>3. (off[p] + n) + 0 = off[p] + n /\ from - 0 = from /\ 0 \in Int
  BY <1>1
<1>4. Holds(Rest(p, n), off[p] + n, m, from - 0)
  BY <1>1, <1>2, <1>3, HoldsTaken DEF Rest
<1>5. ASSUME off[p] + n = Asked(p) PROVE Holds(Rest(p, n), 0, m, from - Asked(p))
  <2>1. 0 + Asked(p) = off[p] + n /\ Asked(p) \in Int
    BY <1>1, <1>5
  <2> QED  BY <1>1, <1>2, <2>1, HoldsTaken DEF Rest
<1> QED  BY <1>3, <1>4, <1>5

\* A read that goes on.
LEMMA ReadPart ==
    ASSUME Inv, Types', NEW p \in Proc, pc[p] \in Reading, NEW n \in ReadSizes(p), off[p] + n < Asked(p),
           Rests(Peer(p)), chan' = [chan EXCEPT ![p] = Rest(p, n)], off' = [off EXCEPT ![p] = @ + n],
           pc' = pc, size' = size, nrepeat' = nrepeat, j' = j, whole' = whole, rst' = rst, code' = code,
           Gathered(p)', Buffered(p)'
    PROVE  Inv'
<1> DEFINE q == Peer(p)
<1>1. q \in Proc /\ Peer(q) = p /\ q # p /\ \A x \in Proc : x = p \/ x = q
  BY DEF Peer
<1>2. Rests(q)
  OBVIOUS
<1> HIDE DEF q
<1>3. Types /\ Local(p)
  BY DEF Inv
<1>4. /\ chan'[p] = Rest(p, n) /\ chan'[q] = chan[q] /\ off'[p] = off[p] + n
  BY <1>1, <1>3 DEF Types
<1>5. /\ n \in Nat /\ n > 0 /\ off[p] \in Nat /\ Asked(p) \in Nat
      /\ Len(chan[p]) \in Nat /\ n <= Len(chan[p]) /\ Roff(p) = off[p]
      /\ Rest(p, n) \in Seq(Piece) /\ Len(Rest(p, n)) = Len(chan[p]) - n
  BY ReadFacts
<1>6. Sz' = Sz /\ Nr' = Nr /\ Data(p)' = Data(p) /\ Sy' = Sy
  BY DEF Sz, Nr, Data, Sy
<1>7. \A x \in Proc : Up(x)' = Up(x)
  BY DEF Up
<1>8. /\ Local(q)' /\ Gathered(q)' /\ Buffered(q)'
      /\ q = "rcv" => RcvStream'
      /\ q = "tr" => TrStream'
      /\ Ahead(q)' = Ahead(q) /\ Woff(q)' = Woff(q)
  BY <1>1, <1>2, <1>4, <1>6, <1>7, OtherRests
<1>9. Roff(p)' = off[p] + n /\ Ahead(p)' = Ahead(p)
  <2>1. Roff(p)' = off[p] + n
    BY <1>4 DEF Roff
  <2> QED  BY <1>4, <1>5, <2>1 DEF Ahead
<1>10. Woff(p)' = Woff(p)
  BY DEF Woff, Reading, Writing
<1>11. Local(p)'
  <2>1. Asked(p)' = Asked(p)
    BY DEF Asked
  <2>2. Len(chan'[p]) <= Cap
    BY <1>3, <1>4, <1>5, CapAssumption DEF Local
  <2>3. Up(p) /\ Up(Peer(p))' = Up(Peer(p))
    BY <1>1, <1>7 DEF q, Up, Reading
  <2>4. pc[p] \notin Writing
    BY DEF Reading, Writing
  <2>5. off'[p] < Asked(p)'
    BY <1>4, <2>1
  <2> QED  BY <1>3, <1>7, <2>1, <2>2, <2>3, <2>4, <2>5 DEF Local
<1>12. \A m : \A from \in Int : Carries(p, m, from) => Holds(chan'[p], Roff(p)', m, from)
  BY <1>4, <1>9, ReadOn
<1>13. RcvStream'
  <2>1. CASE p = "tr"
    BY <1>1, <1>8, <2>1
  <2>2. CASE p = "rcv"
    <3>1. RcvStream
      BY DEF Inv
    <3>2. /\ Carries("rcv", Sz, 0) => Carries("rcv", Sz, 0)'
          /\ Carries("rcv", Nr, 4) => Carries("rcv", Nr, 4)'
          /\ Carries("rcv", Sy, 8) => Carries("rcv", Sy, 8)'
          /\ Carries("rcv", Nr, 0) => Carries("rcv", Nr, 0)'
          /\ Carries("rcv", Sy, 4) => Carries("rcv", Sy, 4)'
          /\ Carries("rcv", Sy, 0) => Carries("rcv", Sy, 0)'
          /\ Carries("rcv", Data("rcv"), 6) => Carries("rcv", Data("rcv"), 6)'
          /\ Carries("rcv", Data("rcv"), 0) => Carries("rcv", Data("rcv"), 0)'
          /\ Carries("rcv", Sz, 6) => Carries("rcv", Sz, 6)'
          /\ Carries("rcv", Nr, 10) => Carries("rcv", Nr, 10)'
          /\ Carries("rcv", Sy, 14) => Carries("rcv", Sy, 14)'
      BY <1>6, <1>12, <2>2 DEF Carries
    <3>3. pc["rcv"] # "send"
      BY <2>2 DEF Reading
    <3> QED  BY <1>9, <2>2, <3>1, <3>2, <3>3 DEF RcvStream
  <2> QED  BY <2>1, <2>2
<1>14. TrStream'
  <2>1. CASE p = "rcv"
    BY <1>1, <1>8, <2>1
  <2>2. CASE p = "tr"
    <3>1. TrStream
      BY DEF Inv
    <3>2. /\ Carries("tr", Sy, 0) => Carries("tr", Sy, 0)'
          /\ Carries("tr", Data("tr"), 0) => Carries("tr", Data("tr"), 0)'
      BY <1>6, <1>12, <2>2 DEF Carries
    <3>3. pc["tr"] \in {"syncRead", "recv"}
      BY <1>3, <2>2 DEF Reading, Types
    <3> QED  BY <1>9, <2>2, <3>1, <3>2, <3>3 DEF TrStream
  <2> QED  BY <2>1, <2>2
<1>15. BothUp' => Phase'
  <2>1. BothUp' = BothUp
    BY <1>7 DEF BothUp
  <2>2. \A x \in Proc : Ahead(x)' = Ahead(x) /\ Woff(x)' = Woff(x)
    BY <1>1, <1>8, <1>9, <1>10
  <2>3. Ahead("rcv")' = Ahead("rcv") /\ Ahead("tr")' = Ahead("tr") /\ Woff("rcv")' = Woff("rcv") /\ Woff("tr")' = Woff("tr")
    BY <2>2
  <2>4. Phase' = Phase
    BY <2>3 DEF Phase
  <2> QED  BY <2>1, <2>4 DEF Inv
<1>16. Fits'
  BY DEF Inv, Fits
<1>17. ASSUME NEW x \in Proc PROVE Local(x)' /\ Gathered(x)' /\ Buffered(x)'
  BY <1>1, <1>8, <1>11
<1> QED  BY <1>13, <1>14, <1>15, <1>16, <1>17 DEF Inv

\* The buffer of readFully holds octets of the message that it is after.
LEMMA FilledFacts ==
    ASSUME Inv, NEW p \in Proc, pc[p] \in Reading \ {"recv"}, NEW n \in ReadSizes(p)
    PROVE  /\ Filled(p, n) \in Seq(Octet) /\ Len(Filled(p, n)) = off[p] + n
           /\ \A i \in 1..(off[p] + n) : Filled(p, n)[i] = Wire(Incoming(p))[i].oct
<1> DEFINE e == [i \in 1..n |-> chan[p][i].oct]
           w == Wire(Incoming(p))
<1>1. Types /\ Gathered(p) /\ got[p] \in Seq(Octet)
  BY DEF Inv, Types
<1>2. /\ n \in Nat /\ n > 0 /\ off[p] \in Nat /\ Asked(p) \in Nat /\ off[p] + n <= Asked(p)
      /\ \A i \in 1..n : chan[p][i] = Wire(Incoming(p))[off[p] + i]
  BY ReadFacts
<1>3. \A i \in 1..Asked(p) : w[i].oct \in Octet
  <2>1. CASE pc[p] = "recvSize"
    <3>1. Incoming(p) = Sz /\ Asked(p) = 4 /\ size["tr"] \in Nat
      BY <1>1, <2>1 DEF Incoming, Asked, SizeofInt, Types
    <3>2. \A i \in 1..4 : Wire(Sz)[i] = [of |-> Sz, idx |-> i, oct |-> Htonl(size["tr"])[i]]
      BY <3>1, CountFacts DEF Sz
    <3>3. \A i \in 1..4 : Htonl(size["tr"])[i] \in Octet
      BY <3>1, CountFacts
    <3> QED  BY <3>1, <3>2, <3>3
  <2>2. CASE pc[p] = "recvNrepeat"
    <3>1. Incoming(p) = Nr /\ Asked(p) = 4 /\ nrepeat["tr"] \in Nat
      BY <1>1, <2>2 DEF Incoming, Asked, SizeofInt, Types
    <3>2. \A i \in 1..4 : Wire(Nr)[i] = [of |-> Nr, idx |-> i, oct |-> Htonl(nrepeat["tr"])[i]]
      BY <3>1, CountFacts DEF Nr
    <3>3. \A i \in 1..4 : Htonl(nrepeat["tr"])[i] \in Octet
      BY <3>1, CountFacts
    <3> QED  BY <3>1, <3>2, <3>3
  <2>3. CASE pc[p] = "syncRead"
    <3>1. Incoming(p) = Sy /\ Asked(p) = 6
      BY <2>3, SyncFacts DEF Incoming, Asked
    <3>2. \A i \in 1..6 : SyncStr[i] \in Octet
      BY SyncFacts
    <3> QED  BY <3>1, <3>2, SyncFacts
  <2> QED  BY <2>1, <2>2, <2>3 DEF Reading
<1>4. \A i \in 1..n : e[i] = w[off[p] + i].oct /\ e[i] \in Octet
  <2>1. \A i \in 1..n : off[p] + i \in 1..Asked(p)
    BY <1>2
  <2> QED  BY <1>2, <1>3, <2>1
<1>5. e \in Seq(Octet) /\ Len(e) = n
  BY <1>2, <1>4
<1>6. Len(got[p]) = off[p] /\ \A i \in 1..off[p] : got[p][i] = w[i].oct
  BY <1>1 DEF Gathered
<1> HIDE DEF e, w
<1>7. /\ got[p] \o e \in Seq(Octet) /\ Len(got[p] \o e) = off[p] + n
      /\ \A i \in 1..(off[p] + n) : (got[p] \o e)[i] = IF i <= off[p] THEN got[p][i] ELSE e[i - off[p]]
  <2>1. /\ Len(got[p] \o e) = Len(got[p]) + Len(e)
        /\ \A i \in 1..(Len(got[p]) + Len(e)) :
              (got[p] \o e)[i] = IF i <= Len(got[p]) THEN got[p][i] ELSE e[i - Len(got[p])]
    BY <1>1, <1>5, ConcatProperties
  <2>2. got[p] \o e \in Seq(Octet)
    BY <1>1, <1>5
  <2> QED  BY <1>5, <1>6, <2>1, <2>2
<1>8. Filled(p, n) = got[p] \o e
  BY DEF Filled, e
<1>9. ASSUME NEW i \in 1..(off[p] + n) PROVE (got[p] \o e)[i] = w[i].oct
  <2>1. CASE i <= off[p]
    <3>1. i \in 1..off[p]
      BY <1>2, <2>1
    <3> QED  BY <1>6, <1>7, <2>1, <3>1
  <2>2. CASE i > off[p]
    <3>1. i - off[p] \in 1..n /\ off[p] + (i - off[p]) = i /\ ~(i <= off[p])
      BY <1>2, <2>2
    <3>2. e[i - off[p]] = w[off[p] + (i - off[p])].oct
      BY <1>4, <3>1
    <3> QED  BY <1>7, <3>1, <3>2
  <2>3. i <= off[p] \/ i > off[p]
    BY <1>2
  <2> QED  BY <2>1, <2>2, <2>3
<1> QED  BY <1>7, <1>8, <1>9 DEF w

\* readFully asks for the rest.
LEMMA ReadMoreStep ==
    ASSUME Inv, NEW p \in Proc, pc[p] \in Reading \ {"recv"}, NEW n \in ReadSizes(p), ReadMore(p, n)
    PROVE  Inv'
<1>1. /\ off[p] + n < Asked(p) /\ chan' = [chan EXCEPT ![p] = Rest(p, n)]
      /\ off' = [off EXCEPT ![p] = @ + n] /\ got' = [got EXCEPT ![p] = Filled(p, n)]
      /\ UNCHANGED <<pc, rst, code, size, nrepeat, j, whole, rbuf, ret>>
  BY DEF ReadMore, Take, locals
<1>2. Types /\ Buffered(p)
  BY DEF Inv
<1>3. /\ n \in Nat /\ off[p] \in Nat /\ Rest(p, n) \in Seq(Piece) /\ Filled(p, n) \in Seq(Octet)
      /\ Len(Filled(p, n)) = off[p] + n
      /\ \A i \in 1..(off[p] + n) : Filled(p, n)[i] = Wire(Incoming(p))[i].oct
  BY ReadFacts, FilledFacts DEF Reading
<1>4. Types'
  <2>1. off' \in [Proc -> Nat]
    <3>1. off[p] + n \in Nat
      BY <1>3
    <3> QED  BY <1>1, <1>2, <3>1 DEF Types
  <2>2. chan' \in [Proc -> Seq(Piece)]
    BY <1>1, <1>2, <1>3 DEF Types
  <2>3. got' \in [Proc -> Seq(Octet)]
    BY <1>1, <1>2, <1>3 DEF Types
  <2> QED  BY <1>1, <1>2, <2>1, <2>2, <2>3 DEF Types
<1>5. Rests(Peer(p)) /\ off'[p] = off[p] + n /\ got'[p] = Filled(p, n)
  BY <1>1, <1>2 DEF Types, Rests, Peer
<1>6. Incoming(p)' = Incoming(p)
  BY <1>1 DEF Incoming, Sz, Nr, Sy, Data
<1>7. Gathered(p)'
  BY <1>1, <1>3, <1>5, <1>6 DEF Gathered
<1>8. Buffered(p)'
  BY <1>1, <1>2 DEF Buffered
<1> QED  BY <1>1, <1>4, <1>5, <1>7, <1>8, ReadPart DEF Reading

\* What every read that returns has in common.
LEMMA ReadWhole ==
    ASSUME Inv, NEW p \in Proc, pc[p] \in Reading, NEW n \in ReadSizes(p), off[p] + n = Asked(p),
           Rests(Peer(p)), chan' = [chan EXCEPT ![p] = Rest(p, n)], off' = [off EXCEPT ![p] = 0],
           size'["tr"] = size["tr"], nrepeat'["tr"] = nrepeat["tr"], rst' = rst, code' = code,
           got'[p] = <<>>, pc'[p] # "stopped"
    PROVE  /\ Local(Peer(p))' /\ Gathered(Peer(p))' /\ Buffered(Peer(p))' /\ Gathered(p)' /\ Fits'
           /\ p = "tr" => RcvStream'
           /\ p = "rcv" => TrStream'
           /\ BothUp' = BothUp /\ Sz' = Sz /\ Nr' = Nr
           /\ Ahead(Peer(p))' = Ahead(Peer(p)) /\ Woff(Peer(p))' = Woff(Peer(p))
           /\ Woff(p)' = 0 /\ Roff(p)' = 0 /\ off'[p] = 0 /\ Asked(p) \in Nat
           /\ Ahead(p) \in Nat /\ Ahead(p) >= Asked(p) /\ Ahead(p)' = Ahead(p) - Asked(p)
           /\ chan'[p] \in Seq(Piece) /\ Len(chan'[p]) = Ahead(p)' /\ Len(chan'[p]) <= Cap
           /\ \A m : \A from \in Int : Carries(p, m, from) => Holds(chan'[p], 0, m, from - Asked(p))
           /\ Up(p)' /\ code'[p] = -2 /\ (rst'[p] => ~Up(Peer(p))')
<1> DEFINE q == Peer(p)
<1>1. q \in Proc /\ Peer(q) = p /\ q # p /\ \A x \in Proc : x = p \/ x = q
  BY DEF Peer
<1>2. Rests(q)
  OBVIOUS
<1> HIDE DEF q
<1>3. Types /\ Local(p)
  BY DEF Inv
<1>4. /\ chan'[p] = Rest(p, n) /\ chan'[q] = chan[q] /\ off'[p] = 0
  BY <1>1, <1>3 DEF Types
<1>5. /\ n \in Nat /\ n > 0 /\ off[p] \in Nat /\ Asked(p) \in Nat
      /\ Len(chan[p]) \in Nat /\ n <= Len(chan[p]) /\ Roff(p) = off[p]
      /\ Rest(p, n) \in Seq(Piece) /\ Len(Rest(p, n)) = Len(chan[p]) - n
  BY ReadFacts
<1>6. Sz' = Sz /\ Nr' = Nr
  BY DEF Sz, Nr
<1>7. Up(p) /\ Up(p)' /\ Up(q)' = Up(q)
  BY <1>2 DEF Up, Reading, Rests
<1>8. /\ Local(q)' /\ Gathered(q)' /\ Buffered(q)'
      /\ q = "rcv" => RcvStream'
      /\ q = "tr" => TrStream'
      /\ Ahead(q)' = Ahead(q) /\ Woff(q)' = Woff(q)
  BY <1>1, <1>2, <1>4, <1>6, <1>7, OtherRests
<1>9. Roff(p)' = 0 /\ Woff(p)' = 0
  BY <1>4 DEF Roff, Woff
<1>10. /\ Ahead(p) \in Nat /\ Ahead(p) >= Asked(p) /\ Ahead(p)' = Ahead(p) - Asked(p)
       /\ chan'[p] \in Seq(Piece) /\ Len(chan'[p]) = Ahead(p)'
  BY <1>4, <1>5, <1>9, SMTT(30) DEF Ahead
<1>11. Len(chan'[p]) <= Cap
  BY <1>3, <1>4, <1>5, CapAssumption DEF Local
<1>12. \A m : \A from \in Int : Carries(p, m, from) => Holds(chan'[p], 0, m, from - Asked(p))
  BY <1>4, ReadOn
<1>13. code'[p] = -2 /\ (rst'[p] => ~Up(q)')
  BY <1>1, <1>3, <1>7 DEF Local, q
<1>14. Gathered(p)' /\ Fits'
  BY <1>4 DEF Gathered, Inv, Fits
<1>15. BothUp' = BothUp
  BY <1>1, <1>7 DEF BothUp
<1>16. (p = "tr" => q = "rcv") /\ (p = "rcv" => q = "tr")
  BY DEF q, Peer
<1> QED  BY <1>4, <1>5, <1>6, <1>7, <1>8, <1>9, <1>10, <1>11, <1>12, <1>13, <1>14, <1>15, <1>16 DEF q

\* The count that RecvRepeat returns is the transmitter's.
LEMMA CountRead ==
    ASSUME Inv, NEW n \in ReadSizes("rcv"), pc["rcv"] \in {"recvSize", "recvNrepeat"},
           off["rcv"] + n = Asked("rcv")
    PROVE  Ntohl(Filled("rcv", n)) = Incoming("rcv").v /\ Incoming("rcv").v \in Nat
<1> DEFINE v == Incoming("rcv").v
<1>1. Types /\ Fits
  BY DEF Inv
<1>2. pc["rcv"] \in Reading \ {"recv"} /\ Asked("rcv") = 4 /\ "rcv" \in Proc
  BY DEF Reading, Asked, SizeofInt
<1>3. v \in Nat /\ High(High(High(v))) < 256
      /\ \E t \in {"size", "nrepeat"} : Incoming("rcv") = [t |-> t, v |-> v]
  BY <1>1 DEF Incoming, Sz, Nr, Types, Fits
<1>4. \A x \in 1..4 : Wire(Incoming("rcv"))[x].oct = Htonl(v)[x]
  <2>1. PICK t \in {"size", "nrepeat"} : Incoming("rcv") = [t |-> t, v |-> v]
    BY <1>3
  <2> HIDE DEF v
  <2>2. \A x \in 1..4 : Wire([t |-> t, v |-> v])[x] = [of |-> [t |-> t, v |-> v], idx |-> x, oct |-> Htonl(v)[x]]
    BY <1>3, CountFacts
  <2> QED  BY <2>1, <2>2
<1> HIDE DEF v
<1>5. \A x \in 1..4 : Filled("rcv", n)[x] = Htonl(v)[x]
  <2>1. \A x \in 1..(off["rcv"] + n) : Filled("rcv", n)[x] = Wire(Incoming("rcv"))[x].oct
    BY <1>2, FilledFacts
  <2>2. off["rcv"] + n = 4
    BY <1>2
  <2> QED  BY <1>4, <2>1, <2>2
<1>6. Ntohl(Filled("rcv", n)) = Ntohl(Htonl(v))
  BY <1>5 DEF Ntohl
<1> QED  BY <1>3, <1>6, NtohlHtonl DEF v

\* RecvRepeat returns the size, ...
LEMMA RecvSizeDone ==
    ASSUME Inv, NEW n \in ReadSizes("rcv"), pc["rcv"] = "recvSize", ReadDone("rcv", n),
           size' = [size EXCEPT !["rcv"] = Ntohl(Filled("rcv", n))], Goto("rcv", "recvNrepeat"),
           UNCHANGED <<nrepeat, j, whole, rbuf, rst, code, ret>>
    PROVE  Inv'
<1>1. /\ off["rcv"] + n = Asked("rcv") /\ chan' = [chan EXCEPT !["rcv"] = Rest("rcv", n)]
      /\ off' = [off EXCEPT !["rcv"] = 0] /\ got' = [got EXCEPT !["rcv"] = <<>>]
      /\ pc' = [pc EXCEPT !["rcv"] = "recvNrepeat"]
  BY DEF ReadDone, Take, Goto
<1>2. Types /\ Fits /\ RcvStream /\ Local("rcv")
  BY DEF Inv
<1>3. pc["rcv"] \in Reading \ {"recv"} /\ Asked("rcv") = 4 /\ Incoming("rcv") = Sz /\ Peer("rcv") = "tr"
  BY DEF Reading, Asked, SizeofInt, Incoming, Peer
<1>5. Ntohl(Filled("rcv", n)) = size["tr"] /\ size["tr"] \in Nat
  BY <1>1, <1>3, CountRead DEF Sz
<1>6. Types'
  <2>1. Rest("rcv", n) \in Seq(Piece)
    BY <1>3, ReadFacts
  <2>2. chan' \in [Proc -> Seq(Piece)]
    BY <1>1, <1>2, <2>1 DEF Types
  <2>3. got' \in [Proc -> Seq(Octet)]
    <3>1. <<>> \in Seq(Octet)
      OBVIOUS
    <3> QED  BY <1>1, <1>2, <3>1 DEF Types
  <2>4. size' \in [Proc -> Nat] /\ off' \in [Proc -> Nat]
    BY <1>1, <1>2, <1>5 DEF Types
  <2>5. pc' \in [Proc -> Labels] /\ pc'["tr"] = pc["tr"] /\ pc'["rcv"] = "recvNrepeat"
    BY <1>1, <1>2 DEF Types, Labels
  <2> QED  BY <1>2, <2>2, <2>3, <2>4, <2>5 DEF Types
<1>7. Rests("tr") /\ size'["tr"] = size["tr"] /\ size'["rcv"] = size["tr"] /\ nrepeat'["tr"] = nrepeat["tr"]
      /\ pc'["rcv"] = "recvNrepeat" /\ got'["rcv"] = <<>>
  BY <1>1, <1>2, <1>5 DEF Types, Rests
<1>8. /\ Local("tr")' /\ Gathered("tr")' /\ Buffered("tr")' /\ Gathered("rcv")' /\ Fits' /\ TrStream'
      /\ BothUp' = BothUp /\ Sz' = Sz /\ Nr' = Nr
      /\ Ahead("tr")' = Ahead("tr") /\ Woff("tr")' = Woff("tr") /\ Woff("rcv")' = 0 /\ Roff("rcv")' = 0
      /\ Ahead("rcv") \in Nat /\ Ahead("rcv") >= 4 /\ Ahead("rcv")' = Ahead("rcv") - 4
      /\ Len(chan'["rcv"]) <= Cap /\ off'["rcv"] = 0
      /\ \A m : \A from \in Int : Carries("rcv", m, from) => Holds(chan'["rcv"], 0, m, from - 4)
      /\ Up("rcv")' /\ code'["rcv"] = -2 /\ (rst'["rcv"] => ~Up("tr")')
  BY <1>1, <1>3, <1>7, ReadWhole
<1>9. Local("rcv")'
  <2>1. Asked("rcv")' = 4
    BY <1>7 DEF Asked, SizeofInt
  <2>2. j["rcv"] = 0 /\ whole["rcv"] = 0
    BY <1>2 DEF Local, Early
  <2> QED  BY <1>3, <1>7, <1>8, <2>1, <2>2 DEF Local, Writing
<1>10. Buffered("rcv")'
  BY <1>7 DEF Buffered, InRun
<1>11. RcvStream'
  <2>1. Carries("rcv", Nr, 4) /\ Carries("rcv", Sy, 8) /\ Ahead("rcv") <= 14
    BY <1>2 DEF RcvStream, Between
  <2>2. 4 - 4 = 0 /\ 8 - 4 = 4
    OBVIOUS
  <2>3. Holds(chan'["rcv"], 0, Nr, 0) /\ Holds(chan'["rcv"], 0, Sy, 4)
    BY <1>8, <2>1, <2>2
  <2>4. Carries("rcv", Nr, 0)' /\ Carries("rcv", Sy, 4)'
    BY <1>8, <2>3 DEF Carries, Sy
  <2>5. Ahead("rcv")' <= 10
    BY <1>8, <2>1
  <2> QED  BY <1>7, <2>4, <2>5 DEF RcvStream, Between, Meeting
<1>12. BothUp' => Phase'
  <2> SUFFICES ASSUME Phase, BothUp PROVE Phase'
    BY <1>8 DEF Inv
  <2>1. pc'["tr"] = pc["tr"] /\ Woff("tr") \in Nat
    BY <1>2, <1>7 DEF Rests, Woff, Types
  <2>2. pc["tr"] = "sendSize" => Woff("tr") < 4
    <3>1. pc["tr"] = "sendSize" => Outgoing("tr") = Sz /\ pc["tr"] \in Writing
      BY <1>2, Pending DEF Writing
    <3>2. Local("tr")
      BY DEF Inv
    <3> QED  BY <1>2, <3>1, <3>2, MessageFacts DEF Local, Woff
  <2>3. pc["tr"] = "idle" => Woff("tr") = 0
    BY DEF Woff, Writing
  <2>4. pc["tr"] \in {"idle", "sendSize"} => Ahead("rcv") > 0 /\ Ahead("rcv") # Woff("tr")
    BY <1>8, <2>1, <2>2, <2>3
  <2>5. CASE pc["tr"] \in {"idle", "sendSize"}
    BY <1>8, <2>4, <2>5 DEF Phase
  <2>6. CASE pc["tr"] = "sendNrepeat"
    BY <1>7, <1>8, <2>1, <2>6 DEF Phase, Between
  <2>7. CASE pc["tr"] \in {"alloc", "syncWrite"}
    BY <1>7, <1>8, <2>1, <2>7 DEF Phase, Between, Meeting
  <2>8. CASE pc["tr"] = "syncRead"
    BY <1>7, <1>8, <2>1, <2>8 DEF Phase, Between, Meeting
  <2>9. CASE pc["tr"] \in {"send", "recv", "check"}
    BY <1>8, <2>9 DEF Phase
  <2> QED  BY <1>2, <2>5, <2>6, <2>7, <2>8, <2>9 DEF Types, Labels, BothUp, Up
<1>13. ASSUME NEW x \in Proc PROVE Local(x)' /\ Gathered(x)' /\ Buffered(x)'
  BY <1>8, <1>9, <1>10
<1> QED  BY <1>6, <1>8, <1>11, <1>12, <1>13 DEF Inv

\* A pending write is not over.
LEMMA WoffBound ==
    ASSUME Inv, NEW p \in Proc
    PROVE  /\ Woff(p) \in Nat /\ (pc[p] \in {"sendSize", "sendNrepeat"} => Woff(p) < 4)
           /\ pc[p] = "syncWrite" => Woff(p) < 6
           /\ pc[p] = "send" => Woff(p) < Bytes(size[p])
           /\ pc[p] \notin {"sendSize", "sendNrepeat", "syncWrite", "send"} => Woff(p) = 0
<1>1. Types /\ Local(p) /\ off[p] \in Nat
  BY DEF Inv, Types
<1>2. pc[p] \in Writing => Woff(p) = off[p] /\ off[p] < Len(Wire(Outgoing(p)))
  BY <1>1 DEF Local, Woff
<1>3. pc[p] \in {"sendSize", "sendNrepeat"} => Len(Wire(Outgoing(p))) = 4
  BY <1>1, Pending, MessageFacts
<1>4. pc[p] = "syncWrite" => Len(Wire(Outgoing(p))) = 6
  BY <1>1, Pending, MessageFacts
<1>5. pc[p] = "send" => Len(Wire(Outgoing(p))) = Bytes(size[p])
  BY <1>1, Pending, MessageFacts
<1> QED  BY <1>1, <1>2, <1>3, <1>4, <1>5 DEF Writing, Woff

\* ... and the number of repetitions.
LEMMA RecvNrepeatDone ==
    ASSUME Inv, NEW n \in ReadSizes("rcv"), pc["rcv"] = "recvNrepeat", ReadDone("rcv", n),
           nrepeat' = [nrepeat EXCEPT !["rcv"] = Ntohl(Filled("rcv", n))],
           Goto("rcv", IF size["rcv"] = 0 THEN "exitSignal" ELSE "alloc"),
           UNCHANGED <<size, j, whole, rbuf, rst, code, ret>>
    PROVE  Inv'
<1> DEFINE l == IF size["rcv"] = 0 THEN "exitSignal" ELSE "alloc"
<1>1. /\ off["rcv"] + n = Asked("rcv") /\ chan' = [chan EXCEPT !["rcv"] = Rest("rcv", n)]
      /\ off' = [off EXCEPT !["rcv"] = 0] /\ got' = [got EXCEPT !["rcv"] = <<>>]
      /\ pc' = [pc EXCEPT !["rcv"] = l]
  BY DEF ReadDone, Take, Goto
<1>2. Types /\ Fits /\ RcvStream /\ Local("rcv")
  BY DEF Inv
<1>3. pc["rcv"] \in Reading \ {"recv"} /\ Asked("rcv") = 4 /\ Incoming("rcv") = Nr /\ Peer("rcv") = "tr"
  BY DEF Reading, Asked, SizeofInt, Incoming, Peer
<1>5. Ntohl(Filled("rcv", n)) = nrepeat["tr"] /\ nrepeat["tr"] \in Nat
  BY <1>1, <1>3, CountRead DEF Nr
<1>6. Types'
  <2>1. Rest("rcv", n) \in Seq(Piece)
    BY <1>3, ReadFacts
  <2>2. chan' \in [Proc -> Seq(Piece)]
    BY <1>1, <1>2, <2>1 DEF Types
  <2>3. got' \in [Proc -> Seq(Octet)]
    <3>1. <<>> \in Seq(Octet)
      OBVIOUS
    <3> QED  BY <1>1, <1>2, <3>1 DEF Types
  <2>4. nrepeat' \in [Proc -> Nat] /\ off' \in [Proc -> Nat]
    BY <1>1, <1>2, <1>5 DEF Types
  <2>5. pc' \in [Proc -> Labels] /\ pc'["tr"] = pc["tr"] /\ pc'["rcv"] = l
    BY <1>1, <1>2 DEF Types, Labels
  <2> QED  BY <1>2, <2>2, <2>3, <2>4, <2>5 DEF Types
<1>7. Rests("tr") /\ nrepeat'["tr"] = nrepeat["tr"] /\ nrepeat'["rcv"] = nrepeat["tr"]
      /\ pc'["rcv"] = l /\ got'["rcv"] = <<>>
  BY <1>1, <1>2, <1>5 DEF Types, Rests
<1>8. /\ Local("tr")' /\ Gathered("tr")' /\ Buffered("tr")' /\ Gathered("rcv")' /\ Fits' /\ TrStream'
      /\ BothUp' = BothUp /\ Sz' = Sz /\ Nr' = Nr
      /\ Ahead("tr")' = Ahead("tr") /\ Woff("tr")' = Woff("tr") /\ Woff("rcv")' = 0 /\ Roff("rcv")' = 0
      /\ Ahead("rcv") \in Nat /\ Ahead("rcv") >= 4 /\ Ahead("rcv")' = Ahead("rcv") - 4
      /\ Len(chan'["rcv"]) <= Cap /\ off'["rcv"] = 0
      /\ \A m : \A from \in Int : Carries("rcv", m, from) => Holds(chan'["rcv"], 0, m, from - 4)
      /\ Up("rcv")' /\ code'["rcv"] = -2 /\ (rst'["rcv"] => ~Up("tr")')
  <2>1. pc'["rcv"] # "stopped" /\ size'["tr"] = size["tr"]
    BY <1>7
  <2> HIDE DEF l
  <2> QED  BY <1>1, <1>3, <1>7, <2>1, ReadWhole
<1>9. Local("rcv")'
  <2>1. size["rcv"] \in Nat
    BY <1>2 DEF Types
  <2>2. j["rcv"] = 0 /\ whole["rcv"] = 0
    BY <1>2 DEF Local, Early
  <2> QED  BY <1>3, <1>7, <1>8, <2>1, <2>2 DEF Local, Reading, Writing
<1>10. Buffered("rcv")'
  BY <1>7 DEF Buffered, InRun
<1>11. RcvStream'
  <2>1. Carries("rcv", Sy, 4) /\ Ahead("rcv") <= 10
    BY <1>2 DEF RcvStream, Between
  <2>2. Holds(chan'["rcv"], 0, Sy, 4 - 4) /\ 4 - 4 = 0
    BY <1>8, <2>1
  <2>4. Carries("rcv", Sy, 0)'
    BY <1>8, <2>2 DEF Carries, Sy
  <2>5. Ahead("rcv")' <= 6
    BY <1>8, <2>1
  <2> QED  BY <1>7, <2>4, <2>5 DEF RcvStream, Between, Meeting
<1>12. BothUp' => Phase'
  <2> SUFFICES ASSUME Phase, BothUp PROVE Phase'
    BY <1>8 DEF Inv
  <2>1. pc'["tr"] = pc["tr"] /\ Woff("tr") \in Nat /\ pc'["rcv"] \in Meeting
    BY <1>7, WoffBound DEF Rests, Meeting
  <2>4. pc["tr"] = "sendNrepeat" => Ahead("rcv") # Woff("tr")
    BY <1>8, WoffBound
  <2>5. CASE pc["tr"] \in {"idle", "sendSize"}
    BY <2>5 DEF Phase, Between
  <2>6. CASE pc["tr"] = "sendNrepeat"
    BY <2>4, <2>6 DEF Phase, Between
  <2>7. CASE pc["tr"] \in {"alloc", "syncWrite"}
    BY <1>7, <1>8, <2>1, <2>7 DEF Phase, Between, Meeting
  <2>8. CASE pc["tr"] = "syncRead"
    BY <1>7, <1>8, <2>1, <2>8 DEF Phase, Between, Meeting
  <2>9. CASE pc["tr"] \in {"send", "recv", "check"}
    BY <1>8, <2>9 DEF Phase, Between
  <2> QED  BY <1>2, <2>5, <2>6, <2>7, <2>8, <2>9 DEF Types, Labels, BothUp, Up
<1>13. ASSUME NEW x \in Proc PROVE Local(x)' /\ Gathered(x)' /\ Buffered(x)'
  BY <1>8, <1>9, <1>10
<1> QED  BY <1>6, <1>8, <1>11, <1>12, <1>13 DEF Inv

\* The response of the peer is complete: Sync is over.
LEMMA SyncReadDone ==
    ASSUME Inv, NEW p \in Proc, NEW n \in ReadSizes(p), pc[p] = "syncRead", ReadDone(p, n),
           Goto(p, LoopHead(p, 0)), UNCHANGED <<rst, code, locals>>
    PROVE  Inv'
<1> DEFINE q == Peer(p)
<1>0. q \in Proc /\ q # p /\ (p = "tr" => q = "rcv") /\ (p = "rcv" => q = "tr") /\ \A x \in Proc : x = p \/ x = q
  BY DEF Peer
<1>a. Peer(p) = q
  OBVIOUS
<1> HIDE DEF q
<1> DEFINE l == LoopHead(p, 0)
<1>1. /\ off[p] + n = Asked(p) /\ chan' = [chan EXCEPT ![p] = Rest(p, n)]
      /\ off' = [off EXCEPT ![p] = 0] /\ got' = [got EXCEPT ![p] = <<>>]
      /\ pc' = [pc EXCEPT ![p] = l] /\ UNCHANGED <<rst, code, size, nrepeat, j, whole, rbuf, ret>>
  BY DEF ReadDone, Take, Goto, locals
<1>2. Types /\ Local(p) /\ Buffered(p) /\ nrepeat[p] \in Nat
  BY DEF Inv, Types
<1>3. pc[p] \in Reading \ {"recv"} /\ Asked(p) = 6
  BY SyncFacts DEF Reading, Asked
<1>5. /\ l \in {"send", "recv", "check"} /\ (l = "check" <=> nrepeat[p] = 0)
      /\ (p = "tr" => l # "recv") /\ (p = "rcv" => l # "send")
  BY <1>2 DEF LoopHead
<1> HIDE DEF l
<1>6. Types'
  <2>1. Rest(p, n) \in Seq(Piece)
    BY <1>3, ReadFacts
  <2>2. chan' \in [Proc -> Seq(Piece)]
    BY <1>1, <1>2, <2>1 DEF Types
  <2>3. got' \in [Proc -> Seq(Octet)]
    <3>1. <<>> \in Seq(Octet)
      OBVIOUS
    <3> QED  BY <1>1, <1>2, <3>1 DEF Types
  <2>4. off' \in [Proc -> Nat]
    BY <1>1, <1>2 DEF Types
  <2>5. /\ pc' \in [Proc -> Labels] /\ pc'["tr"] \notin {"recvSize", "recvNrepeat", "exitSignal"}
        /\ pc'["rcv"] \notin {"sendSize", "sendNrepeat"}
    BY <1>1, <1>2, <1>5 DEF Types, Labels
  <2> QED  BY <1>1, <1>2, <2>2, <2>3, <2>4, <2>5 DEF Types
<1>7. Rests(q) /\ pc'[p] = l /\ got'[p] = <<>>
  BY <1>0, <1>1, <1>2 DEF Types, Rests
<1>8. /\ Local(q)' /\ Gathered(q)' /\ Buffered(q)' /\ Gathered(p)' /\ Fits'
      /\ (p = "tr" => RcvStream') /\ (p = "rcv" => TrStream')
      /\ BothUp' = BothUp /\ Sz' = Sz /\ Nr' = Nr
      /\ Ahead(q)' = Ahead(q) /\ Woff(q)' = Woff(q) /\ Woff(p)' = 0 /\ Roff(p)' = 0
      /\ Ahead(p) \in Nat /\ Ahead(p) >= 6 /\ Ahead(p)' = Ahead(p) - 6
      /\ chan'[p] \in Seq(Piece) /\ Len(chan'[p]) = Ahead(p)'
      /\ Len(chan'[p]) <= Cap /\ off'[p] = 0
      /\ \A m : \A from \in Int : Carries(p, m, from) => Holds(chan'[p], 0, m, from - 6)
      /\ Up(p)' /\ code'[p] = -2 /\ (rst'[p] => ~Up(q)')
  <2>1. pc'[p] # "stopped"
    BY <1>5, <1>7
  <2> QED  BY <1>a, <1>1, <1>3, <1>7, <2>1, ReadWhole
<1>9. j[p] = 0 /\ whole[p] = 0 /\ size[p] > 0
  <2>1. j[p] = 0 /\ whole[p] = 0 /\ (p = "rcv" => size[p] > 0)
    BY <1>2 DEF Local, Early
  <2>2. p = "tr" => size[p] > 0
    BY <1>8 DEF Inv, TrStream
  <2> QED  BY <1>0, <2>1, <2>2
<1>10. j[p] = 0 /\ whole[p] = 0 /\ (l # "check" => size[p] > 0)
  BY <1>2, <1>7, <1>9 DEF Local, Early
<1>11. Local(p)'
  <2>1. l \in Reading => Asked(p)' > 0
    <3>1. l \in Reading => l = "recv"
      BY <1>5 DEF Reading
    <3>2. l = "recv" => Asked(p)' = Bytes(size[p])
      BY <1>1, <1>7 DEF Asked
    <3> QED  BY <1>2, <1>10, <3>1, <3>2, MessageFacts
  <2>2. l \in Writing => Len(Wire(Outgoing(p)))' > 0
    <3>1. l \in Writing => l = "send"
      BY <1>5 DEF Writing
    <3>2. l = "send" => Outgoing(p)' = Data(p)
      BY <1>1, <1>7 DEF Outgoing, Data
    <3>3. l = "send" => Wire(Outgoing(p))' = Wire(Data(p))
      BY <3>2
    <3> QED  BY <1>2, <1>10, <3>1, <3>3, MessageFacts
  <2>3. l \in {"send", "recv"} => j'[p] < nrepeat'[p] /\ size'[p] > 0
    BY <1>1, <1>2, <1>5, <1>10
  <2>4. l \notin Early
    BY <1>5 DEF Early
  <2>5. p = "rcv" /\ l \in {"alloc", "syncWrite", "syncRead"} => size'[p] > 0
    BY <1>5
  <2> QED  BY <1>a, <1>7, <1>8, <2>1, <2>2, <2>3, <2>4, <2>5 DEF Local
<1>12. Buffered(p)'
  BY <1>1, <1>2, <1>7, <1>8, <1>10 DEF Buffered, InRun
<1>13. RcvStream'
  <2>1. CASE p = "tr"
    BY <1>8, <2>1
  <2>2. CASE p = "rcv"
    <3>1. RcvStream
      BY DEF Inv
    <3>2. CASE nrepeat["rcv"] > 0
      <4>1. l = "recv"
        BY <1>5, <2>2, <3>2
      <4>2. Carries("rcv", Data("rcv"), 6) /\ Ahead("rcv") <= 6 + Bytes(size["rcv"])
        BY <2>2, <3>1, <3>2 DEF RcvStream
      <4>3. Holds(chan'["rcv"], 0, Data("rcv"), 6 - 6) /\ 6 - 6 = 0
        BY <1>8, <2>2, <4>2
      <4>4. Carries("rcv", Data("rcv"), 0)'
        BY <1>1, <1>8, <2>2, <4>3 DEF Carries, Data
      <4>5. Ahead("rcv")' <= Bytes(size["rcv"]) /\ size' = size
        BY <1>1, <1>2, <1>8, <2>2, <4>2, MessageFacts
      <4> QED  BY <1>7, <2>2, <4>1, <4>4, <4>5 DEF RcvStream, Between, Meeting
    <3>3. CASE nrepeat["rcv"] = 0
      <4>1. l = "check"
        BY <1>5, <2>2, <3>3
      <4>2. Carries("rcv", Sz, 6) /\ Carries("rcv", Nr, 10) /\ Carries("rcv", Sy, 14) /\ Ahead("rcv") <= 20
        BY <2>2, <3>1, <3>3 DEF RcvStream
      <4>3. 6 - 6 = 0 /\ 10 - 6 = 4 /\ 14 - 6 = 8
        OBVIOUS
      <4>4. Holds(chan'["rcv"], 0, Sz, 0) /\ Holds(chan'["rcv"], 0, Nr, 4) /\ Holds(chan'["rcv"], 0, Sy, 8)
        BY <1>8, <2>2, <4>2, <4>3
      <4>5. Carries("rcv", Sz, 0)' /\ Carries("rcv", Nr, 4)' /\ Carries("rcv", Sy, 8)'
        BY <1>8, <2>2, <4>4 DEF Carries, Sy
      <4>6. Ahead("rcv")' <= 14
        BY <1>8, <2>2, <4>2
      <4> QED  BY <1>7, <2>2, <4>1, <4>5, <4>6 DEF RcvStream, Between, Meeting
    <3> QED  BY <1>2, <2>2, <3>2, <3>3
  <2> QED  BY <2>1, <2>2
<1>14. TrStream'
  <2>1. CASE p = "rcv"
    BY <1>8, <2>1
  <2>2. CASE p = "tr"
    <3>1. Ahead("tr") <= 6
      BY <2>2 DEF Inv, TrStream
    <3>2. chan'["tr"] \in Seq(Piece) /\ Len(chan'["tr"]) = 0
      BY <1>8, <2>2, <3>1
    <3>3. chan'["tr"] = <<>>
      BY <3>2
    <3>4. pc'["tr"] \in {"send", "check"}
      BY <1>5, <1>7, <2>2
    <3> QED  BY <3>3, <3>4 DEF TrStream
  <2> QED  BY <2>1, <2>2
<1>15. BothUp' => Phase'
  <2> SUFFICES ASSUME Phase, BothUp PROVE Phase'
    BY <1>8 DEF Inv
  <2>1. pc'[q] = pc[q] /\ j' = j /\ size' = size /\ nrepeat' = nrepeat
    BY <1>1, <1>7 DEF Rests
  <2>2. j[p] = 0
    BY <1>10
  <2>3. CASE p = "rcv"
    <3>0. q = "tr" /\ nrepeat["rcv"] \in Nat /\ nrepeat["tr"] \in Nat /\ Woff("tr") \in Nat /\ j["tr"] \in Nat
      BY <1>0, <1>2, <2>3, WoffBound DEF Types
    <3>1. pc["tr"] = "syncWrite" \/ pc["tr"] = "alloc" => Ahead("rcv") # Woff("tr")
      BY <1>8, <2>3, WoffBound
    <3>2. /\ (l = "recv" /\ nrepeat["rcv"] > 0) \/ (l = "check" /\ nrepeat["rcv"] = 0)
          /\ pc'["rcv"] = l /\ pc'["tr"] = pc["tr"]
      BY <1>5, <1>7, <2>1, <2>3, <3>0
    <3>3. /\ Ahead("rcv")' = Ahead("rcv") - 6 /\ Ahead("tr")' = Ahead("tr") /\ Woff("tr")' = Woff("tr")
          /\ Ahead("rcv") \in Nat /\ Ahead("rcv") >= 6
      BY <1>8, <2>3, <3>0
    <3>4. pc["tr"] = "send" => j["tr"] < nrepeat["tr"]
      BY DEF Inv, Local
    <3>5. CASE pc["tr"] \in {"idle", "sendSize"}
      <4>1. nrepeat["rcv"] = 0 /\ Ahead("rcv") = 6 + Woff("tr") /\ Ahead("tr") = 0
        BY <2>3, <3>5 DEF Phase, Between
      <4>2. pc'["rcv"] \in Between /\ Ahead("rcv")' = Woff("tr")' /\ Ahead("tr")' = 0
        BY <3>0, <3>2, <3>3, <4>1 DEF Between
      <4> QED  BY <3>2, <3>5, <4>2 DEF Phase
    <3>6. CASE pc["tr"] = "sendNrepeat"
      BY <2>1, <2>3, <3>0, <3>2, <3>3, <3>6 DEF Phase, Between
    <3>7. CASE pc["tr"] \in {"alloc", "syncWrite"}
      BY <2>1, <2>3, <3>0, <3>1, <3>2, <3>3, <3>7 DEF Phase, Between, Meeting
    <3>8. CASE pc["tr"] = "syncRead"
      BY <2>1, <2>2, <2>3, <3>0, <3>2, <3>3, <3>8 DEF Phase, Between, Meeting
    <3>9. CASE pc["tr"] \in {"send", "recv"}
      <4>1. pc["tr"] = "recv" => j["tr"] < nrepeat["tr"]
        BY DEF Inv, Local
      <4>2. /\ j["tr"] = 0 /\ size["rcv"] = size["tr"] /\ nrepeat["rcv"] = nrepeat["tr"] /\ Ahead("tr") = 0
            /\ pc["tr"] = "send" => Ahead("rcv") = 6 + Woff("tr")
            /\ pc["tr"] = "recv" => Ahead("rcv") = 6 + Bytes(size["tr"])
        BY <2>3, <3>9 DEF Phase, Between
      <4>3. pc'["rcv"] = "recv" /\ j["rcv"] = j["tr"] /\ Bytes(size["tr"]) \in Nat
        BY <1>2, <2>2, <2>3, <3>0, <3>2, <3>4, <3>9, <4>1, <4>2, MessageFacts
      <4>4. /\ Ahead("tr")' = 0
            /\ pc["tr"] = "send" => Ahead("rcv")' = Woff("tr")'
            /\ pc["tr"] = "recv" => Ahead("rcv")' = Bytes(size["tr"])
        BY <3>0, <3>3, <4>2, <4>3
      <4>5. CASE pc["tr"] = "send"
        BY <2>1, <3>2, <4>2, <4>3, <4>4, <4>5 DEF Phase
      <4>6. CASE pc["tr"] = "recv"
        BY <2>1, <3>2, <4>2, <4>3, <4>4, <4>6 DEF Phase
      <4> QED  BY <3>9, <4>5, <4>6
    <3>10. CASE pc["tr"] = "check"
      BY <2>1, <2>3, <3>0, <3>2, <3>3, <3>10 DEF Phase, Between
    <3> QED  BY <1>2, <3>5, <3>6, <3>7, <3>8, <3>9, <3>10 DEF Types, Labels, BothUp, Up
  <2>4. CASE p = "tr"
    <3>0. q = "rcv" /\ nrepeat["rcv"] \in Nat /\ nrepeat["tr"] \in Nat
      BY <1>0, <1>2, <2>4 DEF Types
    <3>1. pc["rcv"] \in Meeting => Woff("rcv") < 6
      BY WoffBound DEF Meeting
    <3>2. /\ (l = "send" /\ nrepeat["tr"] > 0) \/ (l = "check" /\ nrepeat["tr"] = 0)
          /\ pc'["tr"] = l /\ pc'["rcv"] = pc["rcv"]
      BY <1>5, <1>7, <2>1, <2>4, <3>0
    <3>3. /\ Ahead("tr")' = Ahead("tr") - 6 /\ Ahead("rcv")' = Ahead("rcv") /\ Woff("tr")' = 0
          /\ Ahead("tr") \in Nat /\ Ahead("tr") >= 6
      BY <1>8, <2>4, <3>0
    <3>4. pc["rcv"] = "recv" => nrepeat["rcv"] > 0
      <4>1. Local("rcv") /\ j["rcv"] \in Nat
        BY <1>2 DEF Inv, Types
      <4> QED  BY <3>0, <4>1 DEF Local
    <3> QED  BY <2>1, <2>2, <2>4, <3>0, <3>1, <3>2, <3>3, <3>4 DEF Phase, Between, Meeting
  <2> QED  BY <2>3, <2>4
<1>16. ASSUME NEW x \in Proc PROVE Local(x)' /\ Gathered(x)' /\ Buffered(x)'
  BY <1>0, <1>8, <1>11, <1>12
<1> QED  BY <1>6, <1>8, <1>13, <1>14, <1>15, <1>16 DEF Inv

\* What read() stores are the octets of the peer's pattern, each at its own place.
LEMMA StoredFacts ==
    ASSUME Inv, NEW p \in Proc, pc[p] = "recv", NEW n \in ReadSizes(p)
    PROVE  /\ DOMAIN Stored(p, n) = 1..Bytes(size[p]) /\ Asked(p) = Bytes(size[p])
           /\ \A i \in 1..(off[p] + n) : Stored(p, n)[i] = i
           /\ whole[p] > 0 => \A i \in 1..Bytes(size[p]) : Stored(p, n)[i] = i
<1>1. /\ Types /\ DOMAIN rbuf[p] = 1..Bytes(size[p]) /\ (\A i \in 1..off[p] : rbuf[p][i] = i)
      /\ whole[p] > 0 => \A i \in 1..Bytes(size[p]) : rbuf[p][i] = i
  BY DEF Inv, Buffered, InRun
<1>2. /\ n \in Nat /\ n > 0 /\ off[p] \in Nat /\ off[p] + n <= Asked(p)
      /\ \A i \in 1..n : chan[p][i] = Wire(Incoming(p))[off[p] + i]
  BY ReadFacts DEF Reading
<1>3. Asked(p) = Bytes(size[p]) /\ Incoming(p) = Data(p) /\ Bytes(size[p]) \in Nat
  BY <1>1, MessageFacts DEF Asked, Incoming
<1>4. \A i \in 1..Bytes(size[p]) : Wire(Data(p))[i].oct = i
  <2>1. \A i \in 1..Bytes(size[p]) : Wire(Data(p))[i] = [of |-> Data(p), idx |-> i, oct |-> i]
    BY <1>3, DataFacts DEF Data
  <2>2. ASSUME NEW i \in 1..Bytes(size[p]) PROVE Wire(Data(p))[i].oct = i
    <3>1. Wire(Data(p))[i] = [of |-> Data(p), idx |-> i, oct |-> i]
      BY <2>1
    <3> QED  BY <3>1
  <2> QED  BY <2>2
<1>5. ASSUME NEW i \in off[p] + 1 .. off[p] + n PROVE chan[p][i - off[p]].oct = i
  <2>1. i - off[p] \in 1..n /\ off[p] + (i - off[p]) = i /\ i \in 1..Bytes(size[p])
    BY <1>2, <1>3
  <2>2. chan[p][i - off[p]] = Wire(Data(p))[off[p] + (i - off[p])]
    BY <1>2, <1>3, <2>1
  <2> QED  BY <1>4, <2>1, <2>2
<1>6. /\ DOMAIN Stored(p, n) = 1..Bytes(size[p])
      /\ \A i \in 1..Bytes(size[p]) :
            Stored(p, n)[i] = IF i \in off[p] + 1 .. off[p] + n THEN i ELSE rbuf[p][i]
  BY <1>1, <1>5 DEF Stored
<1>7. ASSUME NEW i \in 1..(off[p] + n) PROVE Stored(p, n)[i] = i
  <2>1. i \in 1..Bytes(size[p]) /\ (i \in off[p] + 1 .. off[p] + n \/ i \in 1..off[p])
    BY <1>2, <1>3
  <2> QED  BY <1>1, <1>6, <2>1
<1> QED  BY <1>1, <1>3, <1>6, <1>7

\* RecvData has a part of its message, ...
LEMMA RecvDataPart ==
    ASSUME Inv, NEW p \in Proc, pc[p] = "recv", NEW n \in ReadSizes(p), Take(p, n),
           rbuf' = [rbuf EXCEPT ![p] = Stored(p, n)], off[p] + n < Asked(p),
           off' = [off EXCEPT ![p] = @ + n],
           UNCHANGED <<pc, j, whole, size, nrepeat, got, rst, code, ret>>
    PROVE  Inv'
<1>1. chan' = [chan EXCEPT ![p] = Rest(p, n)] /\ pc[p] \in Reading
  BY DEF Take, Reading
<1>2. Types /\ Buffered(p) /\ Gathered(p)
  BY DEF Inv
<1>3. n \in Nat /\ off[p] \in Nat /\ Rest(p, n) \in Seq(Piece) /\ off[p] + n \in Nat
  BY <1>1, ReadFacts
<1>4. Types'
  <2>1. off' \in [Proc -> Nat]
    BY <1>2, <1>3 DEF Types
  <2>2. chan' \in [Proc -> Seq(Piece)]
    BY <1>1, <1>2, <1>3 DEF Types
  <2> QED  BY <1>2, <2>1, <2>2 DEF Types
<1>5. Rests(Peer(p)) /\ off'[p] = off[p] + n /\ rbuf'[p] = Stored(p, n)
  BY <1>2 DEF Types, Rests, Peer
<1>6. Gathered(p)'
  BY <1>2 DEF Gathered
<1>7. Buffered(p)'
  BY <1>5, StoredFacts DEF Buffered
<1> QED  BY <1>1, <1>4, <1>5, <1>6, <1>7, ReadPart

\* ... or all of it.
LEMMA RecvDataDone ==
    ASSUME Inv, NEW p \in Proc, pc[p] = "recv", NEW n \in ReadSizes(p), Take(p, n),
           rbuf' = [rbuf EXCEPT ![p] = Stored(p, n)], off[p] + n = Asked(p),
           off' = [off EXCEPT ![p] = 0], whole' = [whole EXCEPT ![p] = @ + 1], AfterRecvData(p),
           UNCHANGED <<size, nrepeat, got, rst, code, ret>>
    PROVE  Inv'
<1> DEFINE q == Peer(p)
           B == Bytes(size[p])
<1>0. q \in Proc /\ q # p /\ (p = "tr" => q = "rcv") /\ (p = "rcv" => q = "tr") /\ \A x \in Proc : x = p \/ x = q
  BY DEF Peer
<1>a. Peer(p) = q
  OBVIOUS
<1> HIDE DEF q
<1>1. chan' = [chan EXCEPT ![p] = Rest(p, n)] /\ pc[p] \in Reading
  BY DEF Take, Reading
<1>2. Types /\ Local(p) /\ Buffered(p) /\ Gathered(p) /\ nrepeat[p] \in Nat /\ j[p] \in Nat /\ whole[p] \in Nat
  BY DEF Inv, Types
<1>3. Asked(p) = B /\ B \in Nat /\ B > 0 /\ j[p] < nrepeat[p] /\ size[p] > 0
  BY <1>2, MessageFacts DEF Asked, Local
<1>4. PICK l \in {"send", "check"}, jj \in Nat :
         /\ pc' = [pc EXCEPT ![p] = l] /\ j' = [j EXCEPT ![p] = jj]
         /\ p = "rcv" => l = "send" /\ jj = j[p]
         /\ p = "tr" => jj = j[p] + 1 /\ (l = "send" <=> jj < nrepeat[p])
  <2>1. CASE p = "rcv"
    <3>1. j' = [j EXCEPT ![p] = j[p]]
      BY <1>2, <2>1 DEF AfterRecvData, Types
    <3> QED  BY <1>2, <2>1, <3>1 DEF AfterRecvData, Goto
  <2>2. CASE p = "tr"
    <3>1. j[p] + 1 \in Nat
      BY <1>2
    <3>2. /\ LoopHead(p, j[p] + 1) \in {"send", "check"}
          /\ LoopHead(p, j[p] + 1) = "send" <=> j[p] + 1 < nrepeat[p]
      BY <2>2 DEF LoopHead
    <3> QED  BY <2>2, <3>1, <3>2 DEF AfterRecvData, Goto
  <2> QED  BY <2>1, <2>2
<1>6. Types'
  <2>1. Rest(p, n) \in Seq(Piece)
    BY <1>1, ReadFacts
  <2>2. chan' \in [Proc -> Seq(Piece)]
    BY <1>1, <1>2, <2>1 DEF Types
  <2>3. whole' \in [Proc -> Nat]
    <3>1. whole[p] + 1 \in Nat
      BY <1>2
    <3> QED  BY <1>2, <3>1 DEF Types
  <2>4. off' \in [Proc -> Nat] /\ j' \in [Proc -> Nat]
    BY <1>2, <1>4 DEF Types
  <2>5. /\ pc' \in [Proc -> Labels] /\ pc'["tr"] \notin {"recvSize", "recvNrepeat", "exitSignal"}
        /\ pc'["rcv"] \notin {"sendSize", "sendNrepeat"}
    BY <1>2, <1>4 DEF Types, Labels
  <2> QED  BY <1>2, <2>2, <2>3, <2>4, <2>5 DEF Types
<1>7. Rests(q) /\ pc'[p] = l /\ j'[p] = jj /\ rbuf'[p] = Stored(p, n) /\ whole'[p] = whole[p] + 1
  BY <1>0, <1>2, <1>4 DEF Types, Rests
<1>b. got'[p] = <<>>
  BY <1>2 DEF Gathered
<1>8. /\ Local(q)' /\ Gathered(q)' /\ Buffered(q)' /\ Gathered(p)' /\ Fits'
      /\ (p = "tr" => RcvStream') /\ (p = "rcv" => TrStream')
      /\ BothUp' = BothUp
      /\ Ahead(q)' = Ahead(q) /\ Woff(q)' = Woff(q) /\ Woff(p)' = 0 /\ Roff(p)' = 0
      /\ Ahead(p) \in Nat /\ Ahead(p) >= B /\ Ahead(p)' = Ahead(p) - B
      /\ chan'[p] \in Seq(Piece) /\ Len(chan'[p]) = Ahead(p)'
      /\ Len(chan'[p]) <= Cap /\ off'[p] = 0
      /\ Up(p)' /\ code'[p] = -2 /\ (rst'[p] => ~Up(q)')
  <2>1. pc'[p] # "stopped"
    BY <1>7
  <2> QED  BY <1>a, <1>b, <1>1, <1>3, <1>7, <2>1, ReadWhole
<1>9. Ahead(p) = B /\ Ahead(p)' = 0 /\ chan'[p] = <<>>
  <2>1. Ahead(p) <= B
    BY DEF Inv, RcvStream, TrStream
  <2>2. Len(chan'[p]) = 0 /\ chan'[p] \in Seq(Piece) /\ Ahead(p) = B /\ Ahead(p)' = 0
    BY <1>3, <1>8, <2>1
  <2> QED  BY <2>2
<1>11. Local(p)'
  <2>2. l = "send" => Len(Wire(Outgoing(p)))' > 0
    <3>2. l = "send" => Outgoing(p)' = Data(p)
      BY <1>7 DEF Outgoing, Data
    <3>3. l = "send" => Wire(Outgoing(p))' = Wire(Data(p))
      BY <3>2
    <3> QED  BY <1>2, <1>3, <3>3, MessageFacts
  <2>3. l = "send" => j'[p] < nrepeat'[p] /\ size'[p] > 0
    BY <1>3, <1>4, <1>7
  <2>4. l \notin Early /\ l \notin Reading /\ (l \in Writing => l = "send")
    BY DEF Early, Reading, Writing
  <2> QED  BY <1>a, <1>7, <1>8, <2>2, <2>3, <2>4 DEF Local
<1>12. Buffered(p)'
  <2>1. \A i \in 1..B : Stored(p, n)[i] = i /\ DOMAIN Stored(p, n) = 1..B
    BY <1>3, StoredFacts
  <2>2. DOMAIN Stored(p, n) = 1..B
    BY StoredFacts
  <2> QED  BY <1>7, <2>1, <2>2 DEF Buffered
<1>13. RcvStream'
  BY <1>4, <1>7, <1>8, <1>9 DEF RcvStream, Between, Meeting
<1>14. TrStream'
  BY <1>4, <1>7, <1>8, <1>9 DEF TrStream
<1>15. BothUp' => Phase'
  <2> SUFFICES ASSUME Phase, BothUp PROVE Phase'
    BY <1>8 DEF Inv
  <2>1. pc'[q] = pc[q] /\ j'[q] = j[q]
    BY <1>7 DEF Rests
  <2>3. CASE p = "rcv"
    <3>0. q = "tr" /\ Bytes(size["tr"]) \in Nat
      BY <1>0, <1>2, <2>3, MessageFacts
    <3>1. pc["tr"] \in {"send", "recv", "syncRead"}
      BY <1>2, <2>3 DEF Phase, Between, Meeting, Types, Labels, BothUp, Up
    <3>2. CASE pc["tr"] = "send"
      <4>1. Ahead("rcv") = Woff("tr") /\ size["rcv"] = size["tr"]
        BY <2>3, <3>2 DEF Phase
      <4> QED  BY <1>3, <1>9, <2>3, <3>2, <4>1, WoffBound
    <3>3. CASE pc["tr"] = "syncRead"
      BY <1>3, <1>9, <2>3, <3>3 DEF Phase, Between, Meeting
    <3>4. CASE pc["tr"] = "recv"
      <4>1. /\ j["rcv"] = j["tr"] /\ size["rcv"] = size["tr"] /\ nrepeat["rcv"] = nrepeat["tr"]
            /\ Ahead("tr") = 0
        BY <1>3, <1>9, <2>3, <3>4 DEF Phase, Between
      <4>2. /\ pc'["rcv"] = "send" /\ pc'["tr"] = "recv" /\ j'["rcv"] = j'["tr"]
            /\ Ahead("rcv")' = 0 /\ Ahead("tr")' = 0 /\ Woff("rcv")' = 0
        BY <1>4, <1>7, <1>8, <1>9, <2>1, <2>3, <3>0, <3>4, <4>1
      <4> QED  BY <4>1, <4>2 DEF Phase
    <3> QED  BY <3>1, <3>2, <3>3, <3>4
  <2>4. CASE p = "tr"
    <3>0. q = "rcv" /\ nrepeat["rcv"] \in Nat /\ j["rcv"] \in Nat
      BY <1>0, <1>2, <2>4 DEF Types
    <3>1. CASE pc["rcv"] = "send"
      <4>1. Ahead("tr") = Woff("rcv") /\ size["rcv"] = size["tr"]
        BY <2>4, <3>1 DEF Phase, Between
      <4> QED  BY <1>3, <1>9, <2>4, <3>1, <4>1, WoffBound
    <3>2. CASE pc["rcv"] = "recv"
      <4>1. /\ j["rcv"] = j["tr"] + 1 /\ size["rcv"] = size["tr"] /\ nrepeat["rcv"] = nrepeat["tr"]
            /\ Ahead("rcv") = 0
        BY <1>3, <1>9, <2>4, <3>2 DEF Phase, Between
      <4>2. j["rcv"] < nrepeat["rcv"]
        BY <3>2 DEF Inv, Local
      <4>3. /\ pc'["tr"] = "send" /\ pc'["rcv"] = "recv" /\ j'["rcv"] = j'["tr"]
            /\ Ahead("rcv")' = 0 /\ Ahead("tr")' = 0 /\ Woff("tr")' = 0
        BY <1>4, <1>7, <1>8, <1>9, <2>1, <2>4, <3>0, <3>2, <4>1, <4>2
      <4> QED  BY <4>1, <4>3 DEF Phase
    <3>3. CASE pc["rcv"] \notin {"send", "recv"}
      <4>1. pc["rcv"] \in Between /\ j["tr"] + 1 = nrepeat["tr"] /\ Ahead("rcv") = 0
        BY <1>3, <1>9, <2>4, <3>3 DEF Phase
      <4>2. /\ pc'["tr"] = "check" /\ pc'["rcv"] \in Between
            /\ Ahead("rcv")' = 0 /\ Ahead("tr")' = 0
        BY <1>2, <1>4, <1>7, <1>8, <1>9, <2>1, <2>4, <3>0, <4>1
      <4> QED  BY <4>2 DEF Phase
    <3> QED  BY <3>1, <3>2, <3>3
  <2> QED  BY <2>3, <2>4
<1>16. ASSUME NEW x \in Proc PROVE Local(x)' /\ Gathered(x)' /\ Buffered(x)'
  BY <1>0, <1>8, <1>11, <1>12
<1> QED  BY <1>6, <1>8, <1>13, <1>14, <1>15, <1>16 DEF Inv

\* The string that Sync compares is the one the peer has written.
LEMMA SyncMatches ==
    ASSUME Inv, NEW p \in Proc, pc[p] = "syncRead", NEW n \in ReadSizes(p), off[p] + n = Asked(p)
    PROVE  Filled(p, n) = SyncStr
<1>1. pc[p] \in Reading \ {"recv"} /\ Asked(p) = 6 /\ Incoming(p) = Sy
  BY SyncFacts DEF Reading, Asked, Incoming
<1>2. /\ Filled(p, n) \in Seq(Octet) /\ Len(Filled(p, n)) = off[p] + n
      /\ \A i \in 1..(off[p] + n) : Filled(p, n)[i] = Wire(Incoming(p))[i].oct
  BY <1>1, FilledFacts
<1>3. \A i \in 1..6 : Wire(Sy)[i].oct = SyncStr[i]
  BY SyncFacts
<1>4. Len(Filled(p, n)) = 6 /\ \A i \in 1..6 : Filled(p, n)[i] = SyncStr[i]
  BY <1>1, <1>2, <1>3
<1>5. SyncStr \in Seq(Octet) /\ Len(SyncStr) = 6
  BY SyncFacts
<1> HIDE DEF SyncStr, Octet
<1> QED  BY <1>2, <1>4, <1>5

\* All the reads.
LEMMA ReadSteps ==
    ASSUME Inv, NEW p \in Proc, RecvRepeat(p) \/ SyncRead(p) \/ RecvData(p)
    PROVE  Inv'
<1>1. Types
  BY DEF Inv
<1>2. CASE RecvRepeat(p)
  <2>1. p = "rcv" /\ pc[p] \in Reading \ {"recv"}
    BY <1>1, <1>2 DEF RecvRepeat, Types, Reading
  <2>2. PICK n \in ReadSizes(p) :
          \/ ReadMore(p, n)
          \/ /\ pc[p] = "recvSize"
             /\ ReadDone(p, n)
             /\ size' = [size EXCEPT ![p] = Ntohl(Filled(p, n))]
             /\ Goto(p, "recvNrepeat")
             /\ UNCHANGED <<nrepeat, j, whole, rbuf, rst, code, ret>>
          \/ /\ pc[p] = "recvNrepeat"
             /\ ReadDone(p, n)
             /\ nrepeat' = [nrepeat EXCEPT ![p] = Ntohl(Filled(p, n))]
             /\ Goto(p, IF size[p] = 0 THEN "exitSignal" ELSE "alloc")
             /\ UNCHANGED <<size, j, whole, rbuf, rst, code, ret>>
    BY <1>2 DEF RecvRepeat
  <2> QED  BY <2>1, <2>2, ReadMoreStep, RecvSizeDone, RecvNrepeatDone
<1>3. CASE SyncRead(p)
  <2>1. pc[p] = "syncRead" /\ pc[p] \in Reading \ {"recv"}
    BY <1>3 DEF SyncRead, Reading
  <2>2. PICK n \in ReadSizes(p) :
          \/ ReadMore(p, n)
          \/ /\ Filled(p, n) = SyncStr
             /\ ReadDone(p, n)
             /\ Goto(p, LoopHead(p, 0))
             /\ UNCHANGED <<rst, code, locals>>
          \/ off[p] + n = Asked(p) /\ Filled(p, n) # SyncStr
    BY <1>3 DEF SyncRead
  <2> QED  BY <2>1, <2>2, ReadMoreStep, SyncReadDone, SyncMatches
<1>4. CASE RecvData(p)
  <2>1. pc[p] = "recv"
    BY <1>4 DEF RecvData
  <2>2. PICK n \in ReadSizes(p) :
          /\ Take(p, n)
          /\ rbuf' = [rbuf EXCEPT ![p] = Stored(p, n)]
          /\ UNCHANGED <<size, nrepeat, got, rst, code, ret>>
          /\ \/ /\ off[p] + n < Asked(p)
                /\ off' = [off EXCEPT ![p] = @ + n]
                /\ UNCHANGED <<pc, j, whole>>
             \/ /\ off[p] + n = Asked(p)
                /\ off' = [off EXCEPT ![p] = 0]
                /\ whole' = [whole EXCEPT ![p] = @ + 1]
                /\ AfterRecvData(p)
    BY <1>4 DEF RecvData
  <2>3. CASE off[p] + n < Asked(p) /\ off' = [off EXCEPT ![p] = @ + n] /\ UNCHANGED <<pc, j, whole>>
    BY <2>1, <2>2, <2>3, RecvDataPart
  <2>4. CASE /\ off[p] + n = Asked(p) /\ off' = [off EXCEPT ![p] = 0]
             /\ whole' = [whole EXCEPT ![p] = @ + 1] /\ AfterRecvData(p)
    BY <2>1, <2>2, <2>4, RecvDataDone
  <2> QED  BY <2>2, <2>3, <2>4
<1> QED  BY <1>2, <1>3, <1>4

-----------------------------------------------------------------------------
(* Writes *)

\* The write of p has returned; its own stream is as it was.
LEMMA WriteReturned ==
    ASSUME Inv, NEW p \in Proc, pc[p] \in Writing, AfterWrite(p), off' = [off EXCEPT ![p] = 0],
           UNCHANGED <<size, nrepeat, whole, got, rbuf, code, ret>>, chan'[p] = chan[p],
           rst'[p] => ~Up(Peer(p))
    PROVE  /\ \E l \in Labels \ {"stopped"}, jj \in Nat :
                /\ pc' = [pc EXCEPT ![p] = l] /\ j' = [j EXCEPT ![p] = jj]
                /\ pc[p] = "sendSize" => l = "sendNrepeat" /\ jj = j[p]
                /\ pc[p] = "sendNrepeat" => l = "alloc" /\ jj = j[p]
                /\ pc[p] = "syncWrite" => l = "syncRead" /\ jj = j[p]
                /\ pc[p] = "send" /\ p = "tr" => l = "recv" /\ jj = j[p]
                /\ pc[p] = "send" /\ p = "rcv" =>
                      jj = j[p] + 1 /\ l = IF jj < nrepeat[p] THEN "recv" ELSE "check"
           /\ pc' \in [Proc -> Labels] /\ j' \in [Proc -> Nat] /\ off' \in [Proc -> Nat]
           /\ pc'["tr"] \notin {"recvSize", "recvNrepeat", "exitSignal"}
           /\ pc'["rcv"] \notin {"sendSize", "sendNrepeat"}
           /\ Rests(Peer(p)) /\ Local(p)' /\ Gathered(p)' /\ Buffered(p)' /\ Fits'
           /\ p = "rcv" => RcvStream'
           /\ p = "tr" => TrStream'
           /\ Up(p)' /\ Roff(p)' = 0 /\ Woff(p)' = 0 /\ Ahead(p)' = Ahead(p)
<1> DEFINE q == Peer(p)
<1>0. q \in Proc /\ q # p /\ (p = "tr" => q = "rcv") /\ (p = "rcv" => q = "tr") /\ \A x \in Proc : x = p \/ x = q
  BY DEF Peer
<1>a. Peer(p) = q
  OBVIOUS
<1> HIDE DEF q
<1>1. Types /\ Local(p) /\ Gathered(p) /\ Buffered(p)
  BY DEF Inv
<1>2. j[p] \in Nat /\ nrepeat[p] \in Nat /\ size[p] \in Nat /\ j[p] + 1 \in Nat /\ pc[p] \in Writing
  BY <1>1 DEF Types
<1>3. PICK l \in Labels \ {"stopped"}, jj \in Nat :
                /\ pc' = [pc EXCEPT ![p] = l] /\ j' = [j EXCEPT ![p] = jj]
                /\ pc[p] = "sendSize" => l = "sendNrepeat" /\ jj = j[p]
                /\ pc[p] = "sendNrepeat" => l = "alloc" /\ jj = j[p]
                /\ pc[p] = "syncWrite" => l = "syncRead" /\ jj = j[p]
                /\ pc[p] = "send" /\ p = "tr" => l = "recv" /\ jj = j[p]
                /\ pc[p] = "send" /\ p = "rcv" =>
                      jj = j[p] + 1 /\ l = IF jj < nrepeat[p] THEN "recv" ELSE "check"
  <2>1. CASE pc[p] # "send" \/ p = "tr"
    <3>1. j' = [j EXCEPT ![p] = j[p]]
      BY <1>1, <2>1 DEF AfterWrite, Types
    <3>2. CASE pc[p] = "sendSize"
      BY <1>2, <2>1, <3>1, <3>2 DEF AfterWrite, Goto, Labels
    <3>3. CASE pc[p] = "sendNrepeat"
      BY <1>2, <2>1, <3>1, <3>3 DEF AfterWrite, Goto, Labels
    <3>4. CASE pc[p] = "syncWrite"
      BY <1>2, <2>1, <3>1, <3>4 DEF AfterWrite, Goto, Labels
    <3>5. CASE pc[p] = "send"
      BY <1>2, <2>1, <3>1, <3>5 DEF AfterWrite, Goto, Labels
    <3> QED  BY <1>2, <3>2, <3>3, <3>4, <3>5 DEF Writing
  <2>2. CASE pc[p] = "send" /\ p = "rcv"
    <3>1. LoopHead(p, j[p] + 1) = IF j[p] + 1 < nrepeat[p] THEN "recv" ELSE "check"
      BY <2>2 DEF LoopHead
    <3>2. "recv" \in Labels \ {"stopped"} /\ "check" \in Labels \ {"stopped"}
      BY DEF Labels
    <3> QED  BY <1>2, <2>2, <3>1, <3>2 DEF AfterWrite, Goto
  <2> QED  BY <2>1, <2>2
<1>4. /\ pc' \in [Proc -> Labels] /\ j' \in [Proc -> Nat] /\ off' \in [Proc -> Nat]
      /\ pc'["tr"] \notin {"recvSize", "recvNrepeat", "exitSignal"}
      /\ pc'["rcv"] \notin {"sendSize", "sendNrepeat"}
  <2>1. pc' \in [Proc -> Labels] /\ j' \in [Proc -> Nat]
    BY <1>1, <1>3 DEF Types
  <2>2. off' \in [Proc -> Nat]
    BY <1>1 DEF Types
  <2>3. l \notin {"recvSize", "exitSignal"} /\ (p = "rcv" => l \notin {"sendSize", "sendNrepeat"})
        /\ (p = "tr" => l # "recvNrepeat")
    BY <1>1, <1>2, <1>3 DEF Writing, Types
  <2> QED  BY <1>1, <1>3, <2>1, <2>2, <2>3 DEF Types
<1>5. Rests(q) /\ pc'[p] = l /\ j'[p] = jj /\ off'[p] = 0 /\ got'[p] = <<>>
  BY <1>0, <1>1, <1>2, <1>3 DEF Types, Rests, Gathered, Writing, Reading
<1>6. Up(p)' /\ Up(p) /\ Roff(p)' = 0 /\ Woff(p)' = 0 /\ Roff(p) = 0 /\ Ahead(p)' = Ahead(p) /\ Up(q)' = Up(q)
  BY <1>2, <1>5 DEF Up, Roff, Woff, Ahead, Reading, Writing, Rests
<1>7. l \in {"sendNrepeat", "alloc", "syncRead", "recv", "check"}
  BY <1>2, <1>3 DEF Writing
<1>8. Local(p)'
  <2>1. l \in Reading => Asked(p)' > 0
    <3>1. l \in Reading => l = "recv" \/ l = "syncRead"
      BY <1>7 DEF Reading
    <3>2. l = "recv" => Asked(p)' = Bytes(size[p]) /\ size[p] > 0
      BY <1>1, <1>2, <1>3, <1>5 DEF Asked, Local, Writing
    <3>3. l = "syncRead" => Asked(p)' = 6
      BY <1>5, SyncFacts DEF Asked
    <3> QED  BY <1>1, <3>1, <3>2, <3>3, MessageFacts
  <2>2. l \in Writing => Len(Wire(Outgoing(p)))' > 0
    <3>1. l \in Writing => l = "sendNrepeat" /\ p = "tr"
      BY <1>1, <1>2, <1>3, <1>7 DEF Writing, Types
    <3>2. l = "sendNrepeat" /\ p = "tr" => Outgoing(p)' = Nr
      BY <1>5 DEF Outgoing, Nr
    <3>3. l = "sendNrepeat" /\ p = "tr" => Wire(Outgoing(p))' = Wire(Nr)
      BY <3>2
    <3>4. Len(Wire(Nr)) = 4
      BY <1>1, MessageFacts
    <3> QED  BY <3>1, <3>3, <3>4
  <2>3. l \in {"send", "recv"} => j'[p] < nrepeat'[p] /\ size'[p] > 0
    <3>1. l \in {"send", "recv"} => pc[p] = "send"
      BY <1>2, <1>3 DEF Writing
    <3> QED  BY <1>1, <1>3, <1>5, <3>1 DEF Local
  <2>4. l \in Early => j'[p] = 0 /\ whole'[p] = 0
    BY <1>1, <1>2, <1>3, <1>5 DEF Early, Local, Writing
  <2>5. p = "rcv" /\ l \in {"alloc", "syncWrite", "syncRead"} => size'[p] > 0
    BY <1>1, <1>2, <1>3 DEF Local, Writing, Types
  <2>6. Up(p)' <=> code'[p] = -2
    BY <1>1, <1>6 DEF Local
  <2>7. rst'[p] => ~Up(Peer(p))'
    BY <1>a, <1>6
  <2>8. Len(chan'[p]) <= Cap
    BY <1>1 DEF Local
  <2> QED  BY <1>5, <1>6, <2>1, <2>2, <2>3, <2>4, <2>5, <2>6, <2>7, <2>8 DEF Local
<1>9. Gathered(p)'
  BY <1>5 DEF Gathered
<1>10. Buffered(p)'
  <2>1. l \in InRun => pc[p] \in {"syncWrite", "send"}
    BY <1>2, <1>3 DEF InRun, Writing
  <2> QED  BY <1>1, <1>5, <2>1 DEF Buffered, InRun
<1>11. Fits'
  BY DEF Inv, Fits
<1>12. ASSUME p = "rcv" PROVE RcvStream'
  <2>1. RcvStream
    BY DEF Inv
  <2>2. CASE pc["rcv"] = "syncWrite"
    <3>1. Carries("rcv", Sy, 0) /\ Ahead("rcv") <= 6
      BY <2>1, <2>2 DEF RcvStream, Meeting
    <3>2. Len(chan["rcv"]) <= 6 /\ Len(chan["rcv"]) \in Nat
      BY <1>1, <1>6, <1>12, <3>1 DEF Ahead, Types
    <3>3. \A m : \A from \in Int : from >= 6 => Holds(chan["rcv"], 0, m, from)
      BY <3>2 DEF Holds
    <3>4. Carries("rcv", Sy, 0)'
      BY <1>6, <1>12, <3>1 DEF Carries, Sy
    <3>5. /\ Carries("rcv", Sz, 6)' /\ Carries("rcv", Nr, 10)' /\ Carries("rcv", Sy, 14)'
          /\ Carries("rcv", Data("rcv"), 6)'
      BY <1>6, <1>12, <3>3 DEF Carries
    <3>6. Ahead("rcv")' <= 20 /\ Ahead("rcv")' <= 6 + Bytes(size'["rcv"])
      <4>1. Bytes(size["rcv"]) \in Nat
        BY <1>1, MessageFacts
      <4> QED  BY <1>6, <1>12, <3>2, <4>1 DEF Ahead
    <3> QED  BY <1>3, <1>5, <1>12, <2>2, <3>4, <3>5, <3>6 DEF RcvStream, Between, Meeting
  <2>3. CASE pc["rcv"] = "send"
    <3>1. chan'["rcv"] = <<>> /\ Ahead("rcv")' = 0
      BY <1>6, <1>12, <2>1, <2>3 DEF RcvStream, Ahead
    <3>2. pc'["rcv"] \in {"recv", "check"} /\ Bytes(size'["rcv"]) \in Nat
      BY <1>1, <1>3, <1>5, <1>12, <2>3, MessageFacts
    <3> QED  BY <3>1, <3>2, HoldsEmpty DEF RcvStream, Carries, Between, Meeting
  <2> QED  BY <1>1, <1>2, <1>12, <2>2, <2>3 DEF Writing, Types
<1>13. ASSUME p = "tr" PROVE TrStream'
  <2>1. TrStream
    BY DEF Inv
  <2>2. CASE pc["tr"] = "syncWrite"
    <3>1. Carries("tr", Sy, 0)'
      BY <1>6, <1>13, <2>1, <2>2 DEF Carries, Sy, TrStream
    <3> QED  BY <1>3, <1>5, <1>6, <1>13, <2>1, <2>2, <3>1 DEF TrStream
  <2>3. CASE pc["tr"] # "syncWrite"
    <3>1. chan["tr"] = <<>>
      BY <1>2, <1>13, <2>1, <2>3 DEF TrStream, Writing
    <3>2. chan'["tr"] = <<>> /\ Ahead("tr")' = 0
      BY <1>6, <1>13, <3>1 DEF Ahead
    <3>3. pc'["tr"] \in {"sendNrepeat", "alloc", "recv"} /\ Bytes(size'["tr"]) \in Nat
      BY <1>1, <1>2, <1>3, <1>5, <1>13, <2>3, MessageFacts DEF Writing
    <3> QED  BY <3>2, <3>3, HoldsEmpty DEF TrStream, Carries
  <2> QED  BY <2>2, <2>3
<1> QED  BY <1>a, <1>3, <1>4, <1>5, <1>6, <1>8, <1>9, <1>10, <1>11, <1>12, <1>13

\* A write to a peer that has ended is accepted and lost.
LEMMA WriteLostStep ==
    ASSUME Inv, NEW p \in Proc, WriteLost(p)
    PROVE  Inv'
<1> DEFINE q == Peer(p)
<1>0. q \in Proc /\ q # p /\ Peer(q) = p /\ (p = "tr" => q = "rcv") /\ (p = "rcv" => q = "tr") /\ \A x \in Proc : x = p \/ x = q
  BY DEF Peer
<1>a. Peer(p) = q
  OBVIOUS
<1> HIDE DEF q
<1>1. /\ pc[p] \in Writing /\ ~Up(q) /\ AfterWrite(p) /\ off' = [off EXCEPT ![p] = 0]
      /\ rst' = [rst EXCEPT ![p] = TRUE] /\ UNCHANGED <<size, nrepeat, whole, got, rbuf, chan, code, ret>>
  BY <1>a DEF WriteLost
<1>2. Types
  BY DEF Inv
<1>3. /\ pc' \in [Proc -> Labels] /\ j' \in [Proc -> Nat] /\ off' \in [Proc -> Nat]
      /\ pc'["tr"] \notin {"recvSize", "recvNrepeat", "exitSignal"}
      /\ pc'["rcv"] \notin {"sendSize", "sendNrepeat"}
      /\ Rests(q) /\ Local(p)' /\ Gathered(p)' /\ Buffered(p)' /\ Fits' /\ Up(p)'
      /\ (p = "rcv" => RcvStream') /\ (p = "tr" => TrStream')
  BY <1>a, <1>1, WriteReturned
<1>4. Types'
  <2>1. rst' \in [Proc -> BOOLEAN]
    BY <1>1, <1>2 DEF Types
  <2> QED  BY <1>1, <1>2, <1>3, <2>1 DEF Types
<1>5. rst'[q] = rst[q] /\ Sz' = Sz /\ Nr' = Nr /\ Up(p) /\ ~Up(q)'
  BY <1>0, <1>1, <1>2, <1>3 DEF Types, Sz, Nr, Up, Writing, Rests
<1>6. /\ Local(q)' /\ Gathered(q)' /\ Buffered(q)'
      /\ (q = "rcv" => RcvStream') /\ (q = "tr" => TrStream')
  BY <1>0, <1>1, <1>3, <1>5, OtherRests
<1>7. ~BothUp'
  BY <1>0, <1>5 DEF BothUp
<1>8. RcvStream' /\ TrStream'
  BY <1>0, <1>3, <1>6
<1>9. ASSUME NEW x \in Proc PROVE Local(x)' /\ Gathered(x)' /\ Buffered(x)'
  BY <1>0, <1>3, <1>6
<1> QED  BY <1>3, <1>4, <1>7, <1>8, <1>9 DEF Inv

\* p has written n more octets of its message to q.
Adds(p, q, n) == chan'[q] = chan[q] \o SubSeq(Wire(Outgoing(p)), off[p] + 1, off[p] + n)

\* n more octets of the message that p writes, which begins D octets after the one that
\* the peer reads, disturb no message at another place of the stream.
LEMMA WrittenOn ==
    ASSUME Inv, NEW p \in Proc, NEW q \in Proc, pc[p] \in Writing, NEW n \in Nat,
           off[p] + n <= Len(Wire(Outgoing(p))),
           Adds(p, q, n), Roff(q)' = Roff(q), NEW L \in Nat, Len(Wire(Outgoing(p))) = L, NEW m, NEW from \in Int, NEW D \in Nat, Carries(q, m, from), Len(Wire(m)) \in Nat,
           Ahead(q) = D + off[p],
           \/ m = Outgoing(p) /\ from = D
           \/ from + Len(Wire(m)) <= D
           \/ from >= D + L
    PROVE  Holds(chan'[q], Roff(q)', m, from)
<1>1. Types /\ chan[q] \in Seq(Piece) /\ Roff(q) \in Nat /\ off[p] \in Nat
  BY DEF Inv, Types, Roff
<1>2. Wire(Outgoing(p)) \in Seq(Piece)
  <2>1. Outgoing(p) \in {Sz, Nr, Sy, Data(p)}
    BY <1>1, Pending DEF Writing
  <2> QED  BY <1>1, <2>1, MessageFacts
<1>3. Len(chan[q]) + Roff(q) = D + off[p] /\ Holds(chan[q], Roff(q), m, from)
  BY DEF Ahead, Carries
<1> DEFINE w == Outgoing(p)
<1>4. /\ (m = w /\ from = D) \/ from + Len(Wire(m)) <= D \/ from >= D + Len(Wire(w))
      /\ Wire(w) \in Seq(Piece) /\ off[p] + n <= Len(Wire(w))
  BY <1>2
<1>5. chan'[q] = chan[q] \o SubSeq(Wire(w), off[p] + 1, off[p] + n)
  BY DEF Adds
<1> HIDE DEF w
<1>6. Holds(chan[q] \o SubSeq(Wire(w), off[p] + 1, off[p] + n), Roff(q), m, from)
  BY <1>1, <1>3, <1>4, HoldsWritten
<1> QED  BY <1>5, <1>6

\* The stream to the receiver, when the transmitter has written n more octets.
LEMMA TrWrites ==
    ASSUME Inv, BothUp, pc["tr"] \in Writing, NEW n \in Nat, n > 0,
           off["tr"] + n <= Len(Wire(Outgoing("tr"))), Adds("tr", "rcv", n),
           Rests("rcv"), size' = size, nrepeat' = nrepeat, Ahead("rcv")' = Ahead("rcv") + n
    PROVE  RcvStream'
<1> DEFINE rp == pc["rcv"]
           o == off["tr"]
           w == Outgoing("tr")
           B == Bytes(size["rcv"])
<1>1. Types /\ RcvStream /\ Phase /\ o \in Nat /\ nrepeat["rcv"] \in Nat /\ nrepeat["tr"] \in Nat
  BY DEF Inv, Types
<1>2. Woff("tr") = o /\ Roff("rcv")' = Roff("rcv") /\ pc'["rcv"] = rp /\ Data("rcv")' = Data("rcv")
  BY Resting DEF Woff, Rests
<1>3. Sz' = Sz /\ Nr' = Nr /\ Sy' = Sy
  BY DEF Sz, Nr, Sy
<1>4. /\ Len(Wire(Sz)) = 4 /\ Len(Wire(Nr)) = 4 /\ Len(Wire(Sy)) = 6 /\ Len(Wire(Data("rcv"))) = B /\ B \in Nat
      /\ Len(Wire(Data("tr"))) = Bytes(size["tr"])
  BY <1>1, MessageFacts
<1>5. /\ pc["tr"] = "sendSize" => w = Sz
      /\ pc["tr"] = "sendNrepeat" => w = Nr
      /\ pc["tr"] = "syncWrite" => w = Sy
      /\ pc["tr"] = "send" => w = Data("tr")
      /\ pc["tr"] \in {"sendSize", "sendNrepeat", "syncWrite", "send"}
  BY <1>1, Pending DEF Writing
<1>6. pc["tr"] = "send" => j["tr"] < nrepeat["tr"] /\ j["tr"] \in Nat
  BY <1>1 DEF Inv, Local, Types
<1> DEFINE At(m, from) == Carries("rcv", m, from) => Holds(chan'["rcv"], Roff("rcv")', m, from)
           L == Len(Wire(w))
           D == Ahead("rcv") - o
<1>7. /\ pc["tr"] = "sendSize" => w = Sz /\ L = 4
      /\ pc["tr"] = "sendNrepeat" => w = Nr /\ L = 4
      /\ pc["tr"] = "syncWrite" => w = Sy /\ L = 6
      /\ pc["tr"] = "send" => w = Data("tr") /\ L = Bytes(size["tr"])
      /\ o + n <= L /\ Ahead("rcv")' = Ahead("rcv") + n /\ Ahead("rcv") \in Nat
  <2>1. Len(chan["rcv"]) \in Nat /\ Roff("rcv") \in Nat
    BY <1>1 DEF Types, Roff
  <2> QED  BY <1>4, <1>5, <2>1 DEF Ahead
<1>a. ASSUME D \in Nat, L \in Nat, NEW m, NEW k \in Nat, Len(Wire(m)) = k, NEW from \in Nat,
             (m = w /\ from = D) \/ from + k <= D \/ from >= D + L
      PROVE  At(m, from)
  <2>1. Ahead("rcv") = D + o
    BY <1>1, <1>7
  <2>2. ASSUME Carries("rcv", m, from) PROVE Holds(chan'["rcv"], Roff("rcv")', m, from)
    <3> HIDE DEF D
    <3> QED  BY <1>2, <1>a, <2>1, <2>2, WrittenOn
  <2> QED  BY <2>2
<1> HIDE DEF w, At, L, o, rp, B
<1>b. ASSUME D \in Nat, L \in Nat
      PROVE  /\ Len(Wire(w)) \in Nat => At(w, D)
             /\ \A from \in Nat : from + 4 <= D \/ from >= D + L => At(Sz, from) /\ At(Nr, from)
             /\ \A from \in Nat : from + 6 <= D \/ from >= D + L => At(Sy, from)
             /\ \A from \in Nat : from + B <= D \/ from >= D + L => At(Data("rcv"), from)
  <2> HIDE DEF D
  <2> QED  BY <1>4, <1>a, <1>b
<1>c. ASSUME D \in Nat, L \in Nat
      PROVE  At(w, D)
  BY <1>b, <1>c DEF L
<1>8. CASE rp \in Between
  <2>1. \/ w = Sz /\ D = 0 /\ L = 4
        \/ w = Nr /\ D = 4 /\ L = 4
        \/ w = Sy /\ D = 8 /\ L = 6
    <3>1. CASE pc["tr"] = "sendSize"
      BY <1>1, <1>2, <1>7, <1>8, <3>1 DEF Phase, Between, rp
    <3>2. CASE pc["tr"] = "sendNrepeat"
      BY <1>1, <1>2, <1>7, <1>8, <3>2 DEF Phase, Between, rp
    <3>3. CASE pc["tr"] = "syncWrite"
      BY <1>1, <1>2, <1>7, <1>8, <3>3, SMTT(30) DEF Phase, Between, Meeting, rp
    <3>4. pc["tr"] # "send"
      BY <1>1, <1>8 DEF Phase, Between, rp
    <3> QED  BY <1>5, <3>1, <3>2, <3>3, <3>4
  <2>2. At(Sz, 0) /\ At(Nr, 4) /\ At(Sy, 8)
    <3> HIDE DEF D
    <3> QED  BY <1>b, <1>c, <2>1
  <2>3. Ahead("rcv")' <= 14
    BY <1>1, <1>7, <2>1
  <2>4. Carries("rcv", Sz, 0)' /\ Carries("rcv", Nr, 4)' /\ Carries("rcv", Sy, 8)'
    BY <1>1, <1>3, <1>8, <2>2 DEF At, Carries, RcvStream, rp
  <2> QED  BY <1>2, <1>8, <2>3, <2>4 DEF RcvStream, Between, Meeting, rp
<1>9. CASE rp = "recvNrepeat"
  <2>1. \/ w = Nr /\ D = 0 /\ L = 4
        \/ w = Sy /\ D = 4 /\ L = 6
    BY <1>1, <1>2, <1>5, <1>7, <1>9 DEF Phase, Between, Meeting, rp
  <2>2. At(Nr, 0) /\ At(Sy, 4)
    <3> HIDE DEF D
    <3> QED  BY <1>b, <1>c, <2>1
  <2>3. Ahead("rcv")' <= 10
    BY <1>1, <1>7, <2>1
  <2>4. Carries("rcv", Nr, 0)' /\ Carries("rcv", Sy, 4)'
    BY <1>1, <1>3, <1>9, <2>2 DEF At, Carries, RcvStream, rp
  <2> QED  BY <1>2, <1>9, <2>3, <2>4 DEF RcvStream, Between, Meeting, rp
<1>10. CASE rp \in Meeting
  <2>1. w = Sy /\ D = 0 /\ L = 6
    BY <1>1, <1>2, <1>5, <1>7, <1>10, SMTT(30) DEF Phase, Between, Meeting, rp
  <2>2. At(Sy, 0)
    <3> HIDE DEF D
    <3> QED  BY <1>c, <2>1
  <2>3. Ahead("rcv")' <= 6
    BY <1>1, <1>7, <2>1
  <2>4. Carries("rcv", Sy, 0)'
    BY <1>1, <1>3, <1>10, <2>2 DEF At, Carries, RcvStream, rp
  <2> QED  BY <1>2, <1>10, <2>3, <2>4 DEF RcvStream, Between, Meeting, rp
<1>11. CASE rp = "syncRead" /\ nrepeat["rcv"] > 0
  <2>1. \/ w = Sy /\ D = 0 /\ L = 6
        \/ w = Data("rcv") /\ D = 6 /\ L = B
    BY <1>1, <1>2, <1>5, <1>7, <1>11 DEF Phase, Between, Meeting, Data, rp, B
  <2>2. At(Sy, 0) /\ At(Data("rcv"), 6)
    <3> HIDE DEF D
    <3> QED  BY <1>4, <1>b, <1>c, <2>1 DEF B
  <2>3. Ahead("rcv")' <= 6 + B
    BY <1>1, <1>4, <1>7, <2>1 DEF B
  <2>4. Carries("rcv", Sy, 0)' /\ Carries("rcv", Data("rcv"), 6)'
    BY <1>1, <1>2, <1>3, <1>11, <2>2 DEF At, Carries, RcvStream, rp
  <2> QED  BY <1>2, <1>11, <2>3, <2>4 DEF RcvStream, Between, Meeting, rp, B
<1>12. CASE rp = "syncRead" /\ nrepeat["rcv"] = 0
  <2>1. \/ w = Sy /\ D = 0 /\ L = 6
        \/ w = Sz /\ D = 6 /\ L = 4
        \/ w = Nr /\ D = 10 /\ L = 4
        \/ w = Sy /\ D = 14 /\ L = 6
    BY <1>1, <1>2, <1>5, <1>6, <1>7, <1>12 DEF Phase, Between, Meeting, rp
  <2>2. At(Sy, 0) /\ At(Sz, 6) /\ At(Nr, 10) /\ At(Sy, 14)
    <3> HIDE DEF D
    <3> QED  BY <1>b, <1>c, <2>1
  <2>3. Ahead("rcv")' <= 20
    BY <1>1, <1>7, <2>1
  <2>4. Carries("rcv", Sy, 0)' /\ Carries("rcv", Sz, 6)' /\ Carries("rcv", Nr, 10)' /\ Carries("rcv", Sy, 14)'
    BY <1>1, <1>3, <1>12, <2>2 DEF At, Carries, RcvStream, rp
  <2> QED  BY <1>2, <1>12, <2>3, <2>4 DEF RcvStream, Between, Meeting, rp
<1>13. CASE rp = "recv"
  <2>1. w = Data("rcv") /\ D = 0 /\ L = B
    BY <1>1, <1>2, <1>5, <1>7, <1>13 DEF Phase, Between, Meeting, Data, rp, B
  <2>2. At(Data("rcv"), 0)
    <3> HIDE DEF D
    <3> QED  BY <1>4, <1>c, <2>1 DEF B
  <2>3. Ahead("rcv")' <= B
    BY <1>1, <1>4, <1>7, <2>1 DEF B
  <2>4. Carries("rcv", Data("rcv"), 0)'
    BY <1>1, <1>2, <1>13, <2>2 DEF At, Carries, RcvStream, rp
  <2> QED  BY <1>2, <1>13, <2>3, <2>4 DEF RcvStream, Between, Meeting, rp, B
<1>14. rp # "send"
  BY <1>1, <1>5 DEF Phase, Between, Meeting, rp
<1>15. rp \in Between \cup Meeting \cup {"recvNrepeat", "syncRead", "recv", "send"}
  BY <1>1 DEF Types, Labels, Between, Meeting, BothUp, Up, rp
<1> QED  BY <1>1, <1>8, <1>9, <1>10, <1>11, <1>12, <1>13, <1>14, <1>15

\* The stream to the transmitter, when the receiver has written n more octets.
LEMMA RcvWrites ==
    ASSUME Inv, BothUp, pc["rcv"] \in Writing, NEW n \in Nat, n > 0,
           off["rcv"] + n <= Len(Wire(Outgoing("rcv"))), Adds("rcv", "tr", n),
           Rests("tr"), size' = size, nrepeat' = nrepeat, Ahead("tr")' = Ahead("tr") + n
    PROVE  TrStream'
<1> DEFINE tp == pc["tr"]
           o == off["rcv"]
           w == Outgoing("rcv")
<1>1. Types /\ TrStream /\ Phase /\ Local("rcv") /\ o \in Nat /\ size["rcv"] \in Nat
  BY DEF Inv, Types
<1>2. Woff("rcv") = o /\ Roff("tr")' = Roff("tr") /\ pc'["tr"] = tp /\ Data("tr")' = Data("tr") /\ Sy' = Sy
  BY Resting DEF Woff, Rests, Sy
<1>3. /\ Len(Wire(Sy)) = 6
      /\ \A p \in Proc : Len(Wire(Data(p))) = Bytes(size[p]) /\ Bytes(size[p]) \in Nat
  BY <1>1, MessageFacts
<1>4. /\ pc["rcv"] = "syncWrite" => w = Sy
      /\ pc["rcv"] = "send" => w = Data("rcv")
      /\ pc["rcv"] \in {"syncWrite", "send"}
  BY <1>1, Pending DEF Writing, Types
<1>5. CASE pc["rcv"] = "syncWrite"
  <2>1. tp \in {"alloc", "syncWrite", "syncRead"} /\ size["tr"] = size["rcv"] /\ Ahead("tr") = 0 + o
    BY <1>1, <1>2, <1>5, SMTT(30) DEF Phase, Between, Meeting, Types, Labels, BothUp, Up
  <2>2. Carries("tr", Sy, 0)
    BY <1>1, <2>1 DEF TrStream
  <2>3. w = Sy /\ Len(Wire(w)) = 6 /\ o + n <= 6 /\ size["rcv"] > 0
    BY <1>1, <1>3, <1>4, <1>5 DEF Local
  <2>4. Holds(chan'["tr"], Roff("tr")', Sy, 0)
    <3> HIDE DEF w, o
    <3> QED  BY <1>2, <1>3, <2>1, <2>2, <2>3, WrittenOn DEF w, o
  <2>5. Carries("tr", Sy, 0)' /\ Ahead("tr")' <= 6
    BY <1>1, <1>2, <2>1, <2>3, <2>4 DEF Carries
  <2> QED  BY <1>2, <2>1, <2>3, <2>5 DEF TrStream
<1>6. CASE pc["rcv"] = "send"
  <2>1. tp = "recv" /\ size["tr"] = size["rcv"] /\ Ahead("tr") = 0 + o
    BY <1>1, <1>2, <1>6 DEF Phase, Between, Meeting, Types, Labels, BothUp, Up
  <2>2. Carries("tr", Data("tr"), 0) /\ Data("tr") = Data("rcv")
    BY <1>1, <2>1 DEF TrStream, Data
  <2>3. w = Data("tr") /\ Len(Wire(w)) = Bytes(size["tr"]) /\ o + n <= Bytes(size["tr"]) /\ Bytes(size["tr"]) \in Nat
    BY <1>3, <1>4, <1>6, <2>2
  <2>4. Holds(chan'["tr"], Roff("tr")', Data("tr"), 0)
    <3> HIDE DEF w, o
    <3> QED  BY <1>2, <1>3, <2>1, <2>2, <2>3, WrittenOn DEF w, o
  <2>5. Carries("tr", Data("tr"), 0)' /\ Ahead("tr")' <= Bytes(size["tr"])
    BY <1>1, <1>2, <2>1, <2>3, <2>4 DEF Carries
  <2> QED  BY <1>2, <2>1, <2>5 DEF TrStream
<1> QED  BY <1>4, <1>5, <1>6

\* n more octets are written, and nothing else happens on the streams.
Puts(p, n) == chan' = [chan EXCEPT ![Peer(p)] = @ \o SubSeq(Wire(Outgoing(p)), off[p] + 1, off[p] + n)]

\* What every write to a peer that is there has in common.
LEMMA Wrote ==
    ASSUME Inv, NEW p \in Proc, pc[p] \in Writing, Up(Peer(p)), NEW n \in Nat, n > 0,
           n <= Cap - Len(chan[Peer(p)]), off[p] + n <= Len(Wire(Outgoing(p))),
           Puts(p, n), Rests(Peer(p)), size' = size, nrepeat' = nrepeat, rst' = rst, code' = code
    PROVE  /\ BothUp /\ Phase /\ chan' \in [Proc -> Seq(Piece)] /\ chan'[p] = chan[p]
           /\ Local(Peer(p))' /\ Gathered(Peer(p))' /\ Buffered(Peer(p))'
           /\ p = "tr" => RcvStream'
           /\ p = "rcv" => TrStream'
           /\ Ahead(Peer(p))' = Ahead(Peer(p)) + n /\ Ahead(Peer(p)) \in Nat
           /\ Woff(Peer(p))' = Woff(Peer(p))
<1> DEFINE q == Peer(p)
<1>0. q \in Proc /\ q # p /\ Peer(q) = p /\ (p = "tr" => q = "rcv") /\ (p = "rcv" => q = "tr") /\ \A x \in Proc : x = p \/ x = q
  BY DEF Peer
<1>a. Peer(p) = q
  OBVIOUS
<1> HIDE DEF q
<1>1. Types /\ chan[q] \in Seq(Piece) /\ Len(chan[q]) \in Nat /\ Roff(q) \in Nat /\ off[p] \in Nat
  BY <1>0, SMTT(30) DEF Inv, Types, Roff
<1>2. Up(p) /\ BothUp /\ Phase
  <2>1. Up(p)
    BY DEF Up, Writing
  <2>2. BothUp
    BY <1>a, <1>0, <2>1 DEF BothUp
  <2> QED  BY <2>1, <2>2 DEF Inv
<1> DEFINE e == SubSeq(Wire(Outgoing(p)), off[p] + 1, off[p] + n)
<1>3. e \in Seq(Piece) /\ Len(e) = n
  <2>1. Outgoing(p) \in {Sz, Nr, Sy, Data(p)}
    BY <1>1, Pending DEF Writing
  <2>2. Wire(Outgoing(p)) \in Seq(Piece)
    BY <1>1, <2>1, MessageFacts
  <2> QED  BY <1>1, <2>2, SubSeqProperties
<1>4. chan'[q] = chan[q] \o e /\ chan'[p] = chan[p] /\ Adds(p, q, n)
  BY <1>0, <1>a, <1>1 DEF Types, Adds, Puts
<1>b. chan' = [chan EXCEPT ![q] = chan[q] \o e]
  BY <1>a DEF Puts
<1> HIDE DEF e
<1>5. chan[q] \o e \in Seq(Piece) /\ Len(chan'[q]) = Len(chan[q]) + n
  <2>1. chan[q] \in Seq(Piece) /\ e \in Seq(Piece)
    BY <1>1, <1>3
  <2>2. chan[q] \o e \in Seq(Piece) /\ Len(chan[q] \o e) = Len(chan[q]) + Len(e)
    BY <2>1, ConcatProperties
  <2> QED  BY <1>3, <1>4, <2>2
<1>6. chan' \in [Proc -> Seq(Piece)]
  <2>1. chan \in [Proc -> Seq(Piece)]
    BY <1>1 DEF Types
  <2> HIDE DEF Piece
  <2> QED  BY <1>b, <1>5, <2>1
<1>7. Rests(q) /\ Roff(q)' = Roff(q) /\ Woff(q)' = Woff(q) /\ Up(q) /\ Up(q)' /\ Buffered(q)'
  BY <1>0, <1>a, Resting DEF Up, Rests
<1>8. Ahead(q)' = Ahead(q) + n /\ Ahead(q) \in Nat
  <2>1. Len(chan[q]) \in Nat /\ Roff(q) \in Nat /\ Len(chan'[q]) = Len(chan[q]) + n /\ Roff(q)' = Roff(q)
    BY <1>1, <1>5, <1>7
  <2> QED  BY <2>1 DEF Ahead
<1>9. Local(q)' /\ Gathered(q)'
  <2>1. rst'[q] => ~Up(Peer(q))'
    <3>1. Local(q)
      BY <1>0 DEF Inv
    <3> QED  BY <1>0, <1>2, <3>1 DEF Local
  <2>2. Len(chan'[q]) <= Cap
    <3>1. Len(chan[q]) \in Nat /\ Len(chan'[q]) = Len(chan[q]) + n /\ n <= Cap - Len(chan[q])
      BY <1>a, <1>1, <1>5
    <3> QED  BY <3>1, CapAssumption
  <2>3. Sz' = Sz /\ Nr' = Nr
    BY DEF Sz, Nr
  <2> QED  BY <1>0, <1>7, <2>1, <2>2, <2>3, RestingLocal, RestingGathered
<1>10. (p = "tr" => RcvStream') /\ (p = "rcv" => TrStream')
  BY <1>0, <1>2, <1>4, <1>7, <1>8, TrWrites, RcvWrites
<1> QED  BY <1>a, <1>2, <1>4, <1>6, <1>7, <1>8, <1>9, <1>10

\* A write that goes on.
LEMMA WritePart ==
    ASSUME Inv, NEW p \in Proc, pc[p] \in Writing, Up(Peer(p)), NEW n \in Nat, n > 0,
           n <= Cap - Len(chan[Peer(p)]), off[p] + n < Len(Wire(Outgoing(p))),
           Puts(p, n), off' = [off EXCEPT ![p] = @ + n],
           UNCHANGED <<pc, j, size, nrepeat, whole, got, rbuf, rst, code, ret>>
    PROVE  Inv'
<1> DEFINE q == Peer(p)
<1>0. q \in Proc /\ q # p /\ (p = "tr" => q = "rcv") /\ (p = "rcv" => q = "tr") /\ \A x \in Proc : x = p \/ x = q
  BY DEF Peer
<1>a. Peer(p) = q
  OBVIOUS
<1> HIDE DEF q
<1>1. Types /\ off[p] \in Nat /\ Local(p) /\ Gathered(p) /\ Buffered(p)
  BY DEF Inv, Types
<1>2. Rests(q) /\ off'[p] = off[p] + n /\ off[p] + n \in Nat
  <2>1. off[p] + n \in Nat
    BY <1>1
  <2>2. off'[p] = off[p] + n /\ off'[q] = off[q]
    BY <1>0, <1>1 DEF Types
  <2> QED  BY <2>1, <2>2 DEF Rests
<1>3. Len(Wire(Outgoing(p))) \in Nat /\ off[p] + n <= Len(Wire(Outgoing(p)))
  <2>1. Outgoing(p) \in {Sz, Nr, Sy, Data(p)}
    BY <1>1, Pending DEF Writing
  <2>2. Len(Wire(Outgoing(p))) \in Nat
    BY <1>1, <2>1, MessageFacts
  <2> QED  BY <1>2, <2>2
<1>4. /\ BothUp /\ Phase /\ chan' \in [Proc -> Seq(Piece)] /\ chan'[p] = chan[p]
      /\ Local(q)' /\ Gathered(q)' /\ Buffered(q)'
      /\ (p = "tr" => RcvStream') /\ (p = "rcv" => TrStream')
      /\ Ahead(q)' = Ahead(q) + n /\ Ahead(q) \in Nat /\ Woff(q)' = Woff(q)
  <2>1. Rests(Peer(p)) /\ size' = size /\ nrepeat' = nrepeat /\ rst' = rst /\ code' = code
    BY <1>a, <1>2
  <2> QED  BY <1>a, <1>3, <2>1, Wrote
<1>5. Types'
  <2>1. off' \in [Proc -> Nat]
    BY <1>1, <1>2 DEF Types
  <2> QED  BY <1>1, <1>4, <2>1 DEF Types
<1>6. Woff(p)' = Woff(p) + n /\ Woff(p) = off[p] /\ Roff(p)' = 0 /\ Roff(p) = 0 /\ Ahead(p)' = Ahead(p)
  BY <1>2, <1>4 DEF Woff, Roff, Ahead, Reading, Writing
<1>7. Local(p)'
  <2>1. Outgoing(p)' = Outgoing(p) /\ Up(p)' = Up(p) /\ Up(Peer(p))' = Up(Peer(p)) /\ Asked(p)' = Asked(p)
    BY DEF Outgoing, Up, Asked
  <2>2. Wire(Outgoing(p))' = Wire(Outgoing(p))
    BY <2>1
  <2>3. pc[p] \notin Reading
    BY DEF Reading, Writing
  <2> QED  BY <1>1, <1>2, <1>4, <2>1, <2>2, <2>3 DEF Local
<1>8. Gathered(p)' /\ Buffered(p)'
  BY <1>1 DEF Gathered, Buffered, Writing, Reading
<1>9. (p = "rcv" => RcvStream') /\ (p = "tr" => TrStream')
  <2>1. Sz' = Sz /\ Nr' = Nr /\ Sy' = Sy /\ Data(p)' = Data(p)
    BY DEF Sz, Nr, Sy, Data
  <2>2. ASSUME p = "rcv" PROVE RcvStream'
    <3>1. pc["rcv"] \in {"syncWrite", "send"} /\ RcvStream
      BY <1>1, <2>2 DEF Inv, Writing, Types
    <3>2. Carries("rcv", Sy, 0)' = Carries("rcv", Sy, 0)
      BY <1>4, <1>6, <2>1, <2>2 DEF Carries
    <3> QED  BY <1>4, <1>6, <2>2, <3>1, <3>2 DEF RcvStream, Between, Meeting
  <2>3. ASSUME p = "tr" PROVE TrStream'
    <3>1. pc["tr"] \in {"syncWrite", "send", "sendSize", "sendNrepeat"} /\ TrStream
      BY <2>3 DEF Inv, Writing
    <3>2. Carries("tr", Sy, 0)' = Carries("tr", Sy, 0)
      BY <1>4, <1>6, <2>1, <2>3 DEF Carries
    <3> QED  BY <1>4, <1>6, <2>3, <3>1, <3>2 DEF TrStream
  <2> QED  BY <2>2, <2>3
<1>10. Phase'
  <2>1. CASE p = "tr"
    <3>1. /\ Ahead("rcv")' = Ahead("rcv") + n /\ Ahead("tr")' = Ahead("tr") /\ Woff("tr")' = Woff("tr") + n
          /\ Woff("rcv")' = Woff("rcv") /\ Ahead("rcv") \in Nat /\ Woff("tr") \in Nat
      BY <1>0, <1>1, <1>4, <1>6, <2>1
    <3>2. CASE pc["tr"] = "sendSize"
      BY <1>4, <3>1, <3>2 DEF Phase, Between
    <3>3. CASE pc["tr"] = "sendNrepeat"
      BY <1>4, <3>1, <3>3 DEF Phase, Between
    <3>4. CASE pc["tr"] = "syncWrite"
      BY <1>4, <3>1, <3>4 DEF Phase, Between, Meeting
    <3>5. CASE pc["tr"] = "send"
      BY <1>4, <3>1, <3>5 DEF Phase
    <3> QED  BY <2>1, <3>2, <3>3, <3>4, <3>5 DEF Writing
  <2>2. CASE p = "rcv"
    <3>1. /\ Ahead("tr")' = Ahead("tr") + n /\ Ahead("rcv")' = Ahead("rcv") /\ Woff("rcv")' = Woff("rcv") + n
          /\ Woff("tr")' = Woff("tr") /\ Ahead("tr") \in Nat /\ Woff("rcv") \in Nat
      BY <1>0, <1>1, <1>4, <1>6, <2>2
    <3>2. CASE pc["rcv"] = "syncWrite"
      <4>1. /\ pc["tr"] \notin {"idle", "sendSize", "sendNrepeat", "send", "recv", "check"}
            /\ pc["tr"] \in {"alloc", "syncWrite", "syncRead"} => Ahead("tr") = Woff("rcv")
        BY <1>4, <3>2 DEF Phase, Between, Meeting
      <4> QED  BY <1>4, <3>1, <3>2, <4>1 DEF Phase, Between, Meeting
    <3>3. CASE pc["rcv"] = "send"
      <4>1. pc["tr"] \notin {"idle", "sendSize", "sendNrepeat", "send", "alloc", "syncWrite", "syncRead", "check"}
        BY <1>4, <3>3 DEF Phase, Between, Meeting
      <4> QED  BY <1>4, <3>1, <3>3, <4>1 DEF Phase, Between, Meeting
    <3> QED  BY <1>1, <2>2, <3>2, <3>3 DEF Writing, Types
  <2> QED  BY <2>1, <2>2
<1>11. Fits' /\ RcvStream' /\ TrStream'
  BY <1>4, <1>9 DEF Inv, Fits
<1>12. ASSUME NEW x \in Proc PROVE Local(x)' /\ Gathered(x)' /\ Buffered(x)'
  BY <1>0, <1>4, <1>7, <1>8
<1> QED  BY <1>5, <1>10, <1>11, <1>12 DEF Inv

\* A write that returns.
LEMMA WriteDone ==
    ASSUME Inv, NEW p \in Proc, pc[p] \in Writing, Up(Peer(p)), NEW n \in Nat, n > 0,
           n <= Cap - Len(chan[Peer(p)]), off[p] + n = Len(Wire(Outgoing(p))),
           Puts(p, n), off' = [off EXCEPT ![p] = 0], AfterWrite(p),
           UNCHANGED <<size, nrepeat, whole, got, rbuf, rst, code, ret>>
    PROVE  Inv'
<1> DEFINE q == Peer(p)
<1>0. q \in Proc /\ q # p /\ (p = "tr" => q = "rcv") /\ (p = "rcv" => q = "tr") /\ \A x \in Proc : x = p \/ x = q
  BY DEF Peer
<1>a. Peer(p) = q
  OBVIOUS
<1> HIDE DEF q
<1>1. Types /\ off[p] \in Nat /\ Local(p) /\ j["tr"] \in Nat /\ j["rcv"] \in Nat /\ nrepeat["tr"] \in Nat
  BY DEF Inv, Types
<1>2. chan'[p] = chan[p] /\ (rst'[p] => ~Up(Peer(p)))
  BY <1>0, <1>a, <1>1 DEF Puts, Types, Local
<1>3. /\ pc' \in [Proc -> Labels] /\ j' \in [Proc -> Nat] /\ off' \in [Proc -> Nat]
      /\ pc'["tr"] \notin {"recvSize", "recvNrepeat", "exitSignal"}
      /\ pc'["rcv"] \notin {"sendSize", "sendNrepeat"}
      /\ Rests(q) /\ Local(p)' /\ Gathered(p)' /\ Buffered(p)' /\ Fits'
      /\ (p = "rcv" => RcvStream') /\ (p = "tr" => TrStream')
      /\ Up(p)' /\ Roff(p)' = 0 /\ Woff(p)' = 0 /\ Ahead(p)' = Ahead(p)
  BY <1>a, <1>2, WriteReturned
<1>4. PICK l \in Labels \ {"stopped"}, jj \in Nat :
         /\ pc' = [pc EXCEPT ![p] = l] /\ j' = [j EXCEPT ![p] = jj]
         /\ pc[p] = "sendSize" => l = "sendNrepeat" /\ jj = j[p]
         /\ pc[p] = "sendNrepeat" => l = "alloc" /\ jj = j[p]
         /\ pc[p] = "syncWrite" => l = "syncRead" /\ jj = j[p]
         /\ pc[p] = "send" /\ p = "tr" => l = "recv" /\ jj = j[p]
         /\ pc[p] = "send" /\ p = "rcv" =>
               jj = j[p] + 1 /\ l = IF jj < nrepeat[p] THEN "recv" ELSE "check"
  BY <1>2, WriteReturned
<1>5. pc'[p] = l /\ j'[p] = jj /\ pc'[q] = pc[q] /\ j'[q] = j[q]
  BY <1>0, <1>1, <1>3, <1>4 DEF Types, Rests
<1>6. /\ BothUp /\ Phase /\ chan' \in [Proc -> Seq(Piece)]
      /\ Local(q)' /\ Gathered(q)' /\ Buffered(q)'
      /\ (p = "tr" => RcvStream') /\ (p = "rcv" => TrStream')
      /\ Ahead(q)' = Ahead(q) + n /\ Ahead(q) \in Nat /\ Woff(q)' = Woff(q)
  <2>1. Rests(Peer(p)) /\ size' = size /\ nrepeat' = nrepeat /\ rst' = rst /\ code' = code
    BY <1>a, <1>3
  <2>2. off[p] + n <= Len(Wire(Outgoing(p)))
    BY <1>1
  <2> QED  BY <1>a, <2>1, <2>2, Wrote
<1>7. Types'
  BY <1>1, <1>3, <1>6 DEF Types
<1>8. /\ Woff(p) = off[p]
      /\ pc[p] = "sendSize" => Woff(p) + n = 4
      /\ pc[p] = "sendNrepeat" => Woff(p) + n = 4
      /\ pc[p] = "syncWrite" => Woff(p) + n = 6
      /\ pc[p] = "send" => Woff(p) + n = Bytes(size[p])
  <2>1. Woff(p) = off[p]
    BY DEF Woff
  <2>2. pc[p] \in {"sendSize", "sendNrepeat"} => Len(Wire(Outgoing(p))) = 4
    BY <1>1, Pending, MessageFacts
  <2>3. pc[p] = "syncWrite" => Len(Wire(Outgoing(p))) = 6
    BY <1>1, Pending, MessageFacts
  <2>4. pc[p] = "send" => Len(Wire(Outgoing(p))) = Bytes(size[p])
    BY <1>1, Pending, MessageFacts
  <2> QED  BY <2>1, <2>2, <2>3, <2>4
<1>9. Phase'
  <2>1. CASE p = "tr"
    <3>1. /\ Ahead("rcv")' = Ahead("rcv") + n /\ Ahead("tr")' = Ahead("tr") /\ Woff("tr")' = 0
          /\ Woff("rcv")' = Woff("rcv") /\ Ahead("rcv") \in Nat /\ Woff("tr") \in Nat
          /\ pc'["rcv"] = pc["rcv"] /\ j'["rcv"] = j["rcv"] /\ pc'["tr"] = l /\ j'["tr"] = jj
      BY <1>0, <1>1, <1>3, <1>5, <1>6, <1>8, <2>1
    <3>2. CASE pc["tr"] = "sendSize"
      <4>1. Woff("tr") + n = 4 /\ l = "sendNrepeat"
        BY <1>4, <1>8, <2>1, <3>2
      <4> QED  BY <1>6, <3>1, <3>2, <4>1 DEF Phase, Between
    <3>3. CASE pc["tr"] = "sendNrepeat"
      <4>1. Woff("tr") + n = 4 /\ l = "alloc"
        BY <1>4, <1>8, <2>1, <3>3
      <4> QED  BY <1>6, <3>1, <3>3, <4>1, SMTT(30) DEF Phase, Between
    <3>4. CASE pc["tr"] = "syncWrite"
      <4>1. Woff("tr") + n = 6 /\ l = "syncRead"
        BY <1>4, <1>8, <2>1, <3>4
      <4> QED  BY <1>6, <3>1, <3>4, <4>1, SMTT(30) DEF Phase, Between, Meeting
    <3>5. CASE pc["tr"] = "send"
      <4>1. Woff("tr") + n = Bytes(size["tr"]) /\ l = "recv" /\ jj = j["tr"]
        BY <1>4, <1>8, <2>1, <3>5
      <4> QED  BY <1>6, <3>1, <3>5, <4>1 DEF Phase
    <3> QED  BY <2>1, <3>2, <3>3, <3>4, <3>5 DEF Writing
  <2>2. CASE p = "rcv"
    <3>1. /\ Ahead("tr")' = Ahead("tr") + n /\ Ahead("rcv")' = Ahead("rcv") /\ Woff("rcv")' = 0
          /\ Woff("tr")' = Woff("tr") /\ Ahead("tr") \in Nat /\ Woff("rcv") \in Nat
          /\ pc'["tr"] = pc["tr"] /\ j'["tr"] = j["tr"] /\ pc'["rcv"] = l /\ j'["rcv"] = jj
      BY <1>0, <1>1, <1>3, <1>5, <1>6, <1>8, <2>2
    <3>2. CASE pc["rcv"] = "syncWrite"
      <4>1. /\ pc["tr"] \notin {"idle", "sendSize", "sendNrepeat", "send", "recv", "check"}
            /\ pc["tr"] \in {"alloc", "syncWrite", "syncRead"} => Ahead("tr") = Woff("rcv")
        BY <1>6, <3>2 DEF Phase, Between, Meeting
      <4>2. Woff("rcv") + n = 6 /\ l = "syncRead"
        BY <1>4, <1>8, <2>2, <3>2
      <4> QED  BY <1>6, <3>1, <3>2, <4>1, <4>2 DEF Phase, Between, Meeting
    <3>3. CASE pc["rcv"] = "send"
      <4>1. pc["tr"] \notin {"idle", "sendSize", "sendNrepeat", "send", "alloc", "syncWrite", "syncRead", "check"}
        BY <1>6, <3>3 DEF Phase, Between, Meeting
      <4>2. pc["tr"] = "recv" => /\ j["rcv"] = j["tr"] /\ size["rcv"] = size["tr"] /\ nrepeat["rcv"] = nrepeat["tr"]
                                 /\ Ahead("rcv") = 0 /\ Ahead("tr") = Woff("rcv")
        BY <1>6, <3>3 DEF Phase, Between
      <4>3. /\ Woff("rcv") + n = Bytes(size["rcv"]) /\ jj = j["rcv"] + 1
            /\ l = IF jj < nrepeat["rcv"] THEN "recv" ELSE "check"
            /\ j["rcv"] < nrepeat["rcv"]
        BY <1>1, <1>4, <1>8, <2>2, <3>3 DEF Local
      <4>4. pc["tr"] = "recv" =>
               /\ Ahead("rcv")' = 0 /\ Ahead("tr")' = Bytes(size["tr"]) /\ jj = j["tr"] + 1
               /\ (l = "recv") \/ (l = "check" /\ j["tr"] + 1 = nrepeat["tr"])
        BY <1>1, <3>1, <4>2, <4>3
      <4> QED  BY <3>1, <3>3, <4>1, <4>2, <4>4 DEF Phase, Between
    <3> QED  BY <1>1, <2>2, <3>2, <3>3 DEF Writing, Types
  <2> QED  BY <2>1, <2>2
<1>10. RcvStream' /\ TrStream'
  BY <1>0, <1>3, <1>6
<1>11. ASSUME NEW x \in Proc PROVE Local(x)' /\ Gathered(x)' /\ Buffered(x)'
  BY <1>0, <1>3, <1>6
<1> QED  BY <1>3, <1>7, <1>9, <1>10, <1>11 DEF Inv

\* All the writes to a peer that is there.
LEMMA WriteSomeStep ==
    ASSUME Inv, NEW p \in Proc, WriteSome(p)
    PROVE  Inv'
<1>1. pc[p] \in Writing /\ Up(Peer(p))
  BY DEF WriteSome
<1> DEFINE L == Len(Wire(Outgoing(p)))
<1>2. PICK n \in 1..MinOf(Cap - Len(chan[Peer(p)]), L - off[p]) :
         /\ Puts(p, n)
         /\ IF off[p] + n = L
            THEN AfterWrite(p) /\ off' = [off EXCEPT ![p] = 0]
            ELSE off' = [off EXCEPT ![p] = @ + n] /\ UNCHANGED <<pc, j>>
  BY DEF WriteSome, WriteReturns, Puts
<1>3. UNCHANGED <<size, nrepeat, whole, got, rbuf, rst, code, ret>>
  BY DEF WriteSome
<1>4. Types /\ off[p] \in Nat /\ Len(chan[Peer(p)]) \in Nat
  BY SMTT(30) DEF Inv, Types, Peer
<1>5. L \in Nat
  <2>1. Outgoing(p) \in {Sz, Nr, Sy, Data(p)}
    BY <1>1, <1>4, Pending DEF Writing
  <2> QED  BY <1>4, <2>1, MessageFacts
<1> HIDE DEF L
<1>6. n \in Nat /\ n > 0 /\ n <= Cap - Len(chan[Peer(p)]) /\ off[p] + n <= L
  BY <1>4, <1>5, CapAssumption DEF MinOf
<1>7. CASE off[p] + n = L
  BY <1>1, <1>2, <1>3, <1>6, <1>7, WriteDone DEF L
<1>8. CASE off[p] + n # L
  <2>1. off[p] + n < L
    BY <1>4, <1>5, <1>6, <1>8
  <2>2. off' = [off EXCEPT ![p] = @ + n] /\ UNCHANGED <<pc, j>>
    BY <1>2, <1>8
  <2> QED  BY <1>1, <1>2, <1>3, <1>6, <2>1, <2>2, WritePart DEF L
<1> QED  BY <1>7, <1>8

-----------------------------------------------------------------------------
(* The end of the peer, and all steps together *)

\* read() returns 0 in RecvData, which goes on as if it had its message.
LEMMA EofInRecvData ==
    ASSUME Inv, NEW p \in Proc, NothingLeft(p), pc[p] = "recv", AfterRecvData(p), off' = [off EXCEPT ![p] = 0],
           UNCHANGED <<size, nrepeat, whole, got, rbuf, chan, rst, code, ret>>
    PROVE  Inv'
<1> DEFINE q == Peer(p)
           B == Bytes(size[p])
<1>0. /\ q \in Proc /\ q # p /\ Peer(q) = p /\ (p = "tr" => q = "rcv") /\ (p = "rcv" => q = "tr")
      /\ \A x \in Proc : x = p \/ x = q
  BY DEF Peer
<1>a. Peer(p) = q
  OBVIOUS
<1> HIDE DEF q
<1>1. ~Up(q) /\ chan[p] = <<>>
  BY <1>a DEF NothingLeft
<1>2. Types /\ Local(p) /\ Buffered(p) /\ Gathered(p) /\ nrepeat[p] \in Nat /\ j[p] \in Nat
  BY DEF Inv, Types
<1>3. B \in Nat /\ B > 0 /\ j[p] < nrepeat[p] /\ size[p] > 0
  BY <1>2, MessageFacts DEF Local
<1>4. PICK l \in {"send", "check"}, jj \in Nat :
         /\ pc' = [pc EXCEPT ![p] = l] /\ j' = [j EXCEPT ![p] = jj]
         /\ l = "send" => jj < nrepeat[p]
  <2>1. CASE p = "rcv"
    <3>1. j' = [j EXCEPT ![p] = j[p]]
      BY <1>2, <2>1 DEF AfterRecvData, Types
    <3> QED  BY <1>2, <1>3, <2>1, <3>1 DEF AfterRecvData, Goto
  <2>2. CASE p = "tr"
    <3>1. j[p] + 1 \in Nat
      BY <1>2
    <3>2. /\ LoopHead(p, j[p] + 1) \in {"send", "check"}
          /\ LoopHead(p, j[p] + 1) = "send" <=> j[p] + 1 < nrepeat[p]
      BY <2>2 DEF LoopHead
    <3> QED  BY <2>2, <3>1, <3>2 DEF AfterRecvData, Goto
  <2> QED  BY <2>1, <2>2
<1>5. Types'
  <2>1. off' \in [Proc -> Nat] /\ j' \in [Proc -> Nat]
    BY <1>2, <1>4 DEF Types
  <2>2. /\ pc' \in [Proc -> Labels] /\ pc'["tr"] \notin {"recvSize", "recvNrepeat", "exitSignal"}
        /\ pc'["rcv"] \notin {"sendSize", "sendNrepeat"}
    BY <1>2, <1>4 DEF Types, Labels
  <2> QED  BY <1>2, <2>1, <2>2 DEF Types
<1>6. Rests(q) /\ pc'[p] = l /\ j'[p] = jj /\ off'[p] = 0
  BY <1>0, <1>2, <1>4 DEF Types, Rests
<1>7. Sz' = Sz /\ Nr' = Nr /\ Up(p) /\ Up(p)' /\ Up(q)' = Up(q)
  BY <1>6 DEF Sz, Nr, Up, Rests
<1>8. /\ Local(q)' /\ Gathered(q)' /\ Buffered(q)'
      /\ (q = "rcv" => RcvStream') /\ (q = "tr" => TrStream')
  BY <1>0, <1>6, <1>7, OtherRests
<1>9. Local(p)'
  <2>2. l = "send" => Len(Wire(Outgoing(p)))' > 0
    <3>2. l = "send" => Outgoing(p)' = Data(p)
      BY <1>6 DEF Outgoing, Data
    <3>3. l = "send" => Wire(Outgoing(p))' = Wire(Data(p))
      BY <3>2
    <3> QED  BY <1>2, <1>3, <3>3, MessageFacts
  <2>3. l = "send" => j'[p] < nrepeat'[p] /\ size'[p] > 0
    BY <1>3, <1>4, <1>6
  <2>4. l \notin Early /\ l \notin Reading /\ (l \in Writing => l = "send")
    BY DEF Early, Reading, Writing
  <2>5. (Up(p)' <=> code'[p] = -2) /\ (rst'[p] => ~Up(Peer(p))') /\ Len(chan'[p]) <= Cap
    BY <1>a, <1>1, <1>2, <1>7 DEF Local
  <2> QED  BY <1>6, <1>7, <2>2, <2>3, <2>4, <2>5 DEF Local
<1>10. Gathered(p)' /\ Buffered(p)'
  BY <1>2, <1>6 DEF Gathered, Buffered, Reading, InRun
<1>11. (p = "rcv" => RcvStream') /\ (p = "tr" => TrStream')
  <2>1. Roff(p)' = 0
    BY <1>6 DEF Roff
  <2>2. Ahead(p)' = 0
    BY <1>1, <2>1 DEF Ahead
  <2> QED  BY <1>1, <1>6, <2>2, HoldsEmpty DEF RcvStream, TrStream, Carries, Between, Meeting
<1>12. ~BothUp' /\ Fits'
  BY <1>0, <1>1, <1>7 DEF BothUp, Inv, Fits
<1>13. RcvStream' /\ TrStream'
  BY <1>0, <1>8, <1>11
<1>14. ASSUME NEW x \in Proc PROVE Local(x)' /\ Gathered(x)' /\ Buffered(x)'
  BY <1>0, <1>8, <1>9, <1>10
<1> QED  BY <1>5, <1>12, <1>13, <1>14 DEF Inv

\* A step either ends p with some status, which is 3 only when the peer is gone, or leaves
\* every status alone.
LEMMA StepKinds ==
    ASSUME Inv, NEW p \in Proc, Step(p) \/ Killed(p) \/ AllocFails(p)
    PROVE  \/ /\ Up(p)
              /\ \E c \in {0, 1, 3, 137, 139, 255, 304, 305, 306, 401} :
                    Exit(p, c) /\ (c = 3 => ~Up(Peer(p)))
           \/ /\ \/ Call(p) \/ Alloc(p) \/ WriteSome(p) \/ WriteLost(p) \/ Return(p)
                 \/ RecvRepeat(p) \/ SyncRead(p) \/ RecvData(p)
                 \/ /\ NothingLeft(p) /\ pc[p] = "recv" /\ AfterRecvData(p) /\ off' = [off EXCEPT ![p] = 0]
                    /\ UNCHANGED <<size, nrepeat, whole, got, rbuf, chan, rst, code, ret>>
              /\ code' = code
<1>1. Local(p)
  BY DEF Inv
<1>2. CASE Call(p) \/ Alloc(p) \/ WriteSome(p) \/ WriteLost(p) \/ Return(p) \/ RecvRepeat(p) \/ RecvData(p)
  BY <1>2 DEF Call, Alloc, WriteSome, WriteLost, Return, RecvRepeat, RecvData, ReadMore
<1>3. CASE SyncRead(p)
  <2>1. pc[p] = "syncRead"
    BY <1>3 DEF SyncRead
  <2>2. PICK n \in ReadSizes(p) :
          \/ ReadMore(p, n)
          \/ UNCHANGED <<rst, code, locals>>
          \/ off[p] + n = Asked(p) /\ Filled(p, n) # SyncStr
    BY <1>3 DEF SyncRead
  <2>3. code' = code
    BY <2>1, <2>2, SyncMatches DEF ReadMore
  <2> QED  BY <1>3, <2>3
<1>4. CASE WriteFails(p)
  <2>1. Up(p) /\ ~Up(Peer(p)) /\ pc[p] \in {"sendSize", "sendNrepeat", "syncWrite", "send"}
    BY <1>1, <1>4 DEF WriteFails, Local, Up, Writing
  <2>2. Exit(p, 304) \/ Exit(p, 3) \/ Exit(p, 401)
    BY <1>4, <2>1 DEF WriteFails
  <2> QED  BY <2>1, <2>2
<1>5. CASE EndOfFile(p)
  <2>1. CASE pc[p] \in {"recvSize", "recvNrepeat"}
    <3>1. Exit(p, 306) /\ Up(p)
      BY <1>5, <2>1 DEF EndOfFile, Up
    <3> QED  BY <3>1
  <2>2. CASE pc[p] = "syncRead"
    <3>1. Exit(p, 3) /\ Up(p) /\ ~Up(Peer(p))
      BY <1>5, <2>2 DEF EndOfFile, Up, NothingLeft
    <3> QED  BY <3>1
  <2>3. CASE pc[p] = "recv"
    BY <1>5, <2>3 DEF EndOfFile
  <2> QED  BY <1>5, <2>1, <2>2, <2>3 DEF EndOfFile
<1>6. CASE ReadFails(p)
  <2>1. Up(p) /\ ~Up(Peer(p)) /\ pc[p] \in {"recvSize", "recvNrepeat", "syncRead", "recv"}
    BY <1>6 DEF ReadFails, NothingLeft, Up, Reading
  <2>2. Exit(p, 305) \/ Exit(p, 3) \/ Exit(p, 401)
    BY <1>6, <2>1 DEF ReadFails
  <2> QED  BY <2>1, <2>2
<1>7. CASE ExitSignal(p) \/ ScriptEnds(p) \/ Killed(p) \/ AllocFails(p)
  <2>1. Up(p)
    BY <1>7 DEF ExitSignal, ScriptEnds, Killed, AllocFails, Up
  <2>2. Exit(p, 1) \/ Exit(p, 139) \/ Exit(p, 0) \/ Exit(p, 137) \/ Exit(p, 255)
    BY <1>7 DEF ExitSignal, ScriptEnds, Killed, AllocFails
  <2> QED  BY <2>1, <2>2
<1> QED  BY <1>2, <1>3, <1>4, <1>5, <1>6, <1>7 DEF Step

\* The invariant is inductive.
LEMMA Preserved ==
    ASSUME ~RcvPassesArgs, Inv, [Next]_vars
    PROVE  Inv'
<1>1. ASSUME NEW p \in Proc, Step(p) \/ Killed(p) \/ AllocFails(p)
      PROVE  Inv'
  <2>1. CASE Up(p) /\ \E c \in {0, 1, 3, 137, 139, 255, 304, 305, 306, 401} : Exit(p, c)
    BY <2>1, CloseStep DEF Exit
  <2>2. CASE Call(p)
    BY <2>2, CallTr, CallRcv
  <2>3. CASE Alloc(p) \/ Return(p)
    BY <2>3, AllocStep, ReturnStep
  <2>4. CASE WriteSome(p) \/ WriteLost(p)
    BY <2>4, WriteSomeStep, WriteLostStep
  <2>5. CASE RecvRepeat(p) \/ SyncRead(p) \/ RecvData(p)
    BY <2>5, ReadSteps
  <2>6. CASE /\ NothingLeft(p) /\ pc[p] = "recv" /\ AfterRecvData(p) /\ off' = [off EXCEPT ![p] = 0]
             /\ UNCHANGED <<size, nrepeat, whole, got, rbuf, chan, rst, code, ret>>
    BY <2>6, EofInRecvData
  <2> QED  BY <1>1, <2>1, <2>2, <2>3, <2>4, <2>5, <2>6, StepKinds
<1>2. CASE UNCHANGED vars
  <2>1. UNCHANGED <<pc, size, nrepeat, j, whole, off, got, rbuf, chan, rst, code, ret>>
    BY <1>2 DEF vars
  <2>2. Types' = Types /\ Fits' = Fits
    BY <2>1 DEF Types, Fits
  <2>3. ASSUME NEW p \in Proc PROVE Rests(p) /\ Local(p)' = Local(p) /\ Gathered(p)' = Gathered(p) /\ Buffered(p)' = Buffered(p)
    BY <2>1 DEF Rests, Local, Gathered, Buffered, Up, Asked, Outgoing, Incoming, Sz, Nr, Sy, Data
  <2>4. \A p \in Proc : Roff(p)' = Roff(p) /\ Woff(p)' = Woff(p) /\ Ahead(p)' = Ahead(p) /\ Up(p)' = Up(p)
    BY <2>1 DEF Roff, Woff, Ahead, Up
  <2>5. Sz' = Sz /\ Nr' = Nr
    BY <2>1 DEF Sz, Nr
  <2>6. RcvStream' /\ TrStream'
    BY <2>1, <2>3, <2>4, <2>5, OtherRests DEF Peer
  <2>7. Phase' = Phase /\ BothUp' = BothUp
    BY <2>1, <2>4 DEF Phase, BothUp
  <2> QED  BY <2>2, <2>3, <2>6, <2>7 DEF Inv
<1> QED  BY <1>1, <1>2 DEF Next, Terminated

\* The invariant holds throughout.
LEMMA Invariant == ~RcvPassesArgs /\ Spec => []Inv
<1> SUFFICES ASSUME ~RcvPassesArgs PROVE Spec => []Inv
  OBVIOUS
<1>1. Inv /\ [Next]_vars => Inv'
  BY Preserved
<1> QED  BY <1>1, Starts, PTL DEF Spec

-----------------------------------------------------------------------------

\* Every variable of run_iters and of the two sockets keeps its type: no read or write
\* call has transferred more than it was asked for, readFully's four or six octets never
\* overflow, no more octets are on their way than the socket buffers hold, and a process
\* has a status once it has ended (src/src/tcp.c, src/src/netpipe.c).
THEOREM TypeCorrect == ~RcvPassesArgs /\ Spec => []TypeOK
<1> SUFFICES ASSUME ~RcvPassesArgs PROVE Spec => []TypeOK
  OBVIOUS
<1>1. Inv => TypeOK
  <2> SUFFICES ASSUME Inv PROVE TypeOK
    OBVIOUS
  <2>1. Types
    BY DEF Inv
  <2>2. ASSUME NEW p \in Proc
        PROVE  /\ pc[p] \in Reading => off[p] < Asked(p)
               /\ pc[p] \in Writing => off[p] < Len(Wire(Outgoing(p)))
               /\ Len(chan[p]) <= Cap
               /\ Up(p) <=> code[p] = -2
    BY DEF Inv, Local
  <2>3. ASSUME NEW p \in Proc PROVE got[p] \in Seq(Octet) /\ Len(got[p]) < Len(SyncStr)
    <3>1. Gathered(p) /\ got[p] \in Seq(Octet) /\ Len(SyncStr) = 6 /\ Local(p)
      BY SyncFacts DEF Inv, Types
    <3>2. CASE pc[p] \in Reading \ {"recv"}
      <4>1. Len(got[p]) = off[p] /\ off[p] < Asked(p) /\ off[p] \in Nat
        BY <2>1, <3>1, <3>2 DEF Gathered, Local, Types
      <4>2. Asked(p) = 4 \/ Asked(p) = 6
        BY <3>1, <3>2 DEF Asked, SizeofInt, Reading
      <4> QED  BY <3>1, <4>1, <4>2
    <3>3. CASE pc[p] \notin Reading \ {"recv"}
      BY <3>1, <3>3 DEF Gathered
    <3> QED  BY <3>2, <3>3
  <2> QED  BY <2>1, <2>2, <2>3 DEF TypeOK, Types, Status
<1> QED  BY <1>1, Invariant, PTL

\* The octet that the pending read of RecvRepeat, Sync or RecvData finds first is the next
\* one of the message that this call is after, and that message is as long as what the call
\* asks for: however read() and write() cut the stream up, and whatever a process that ends
\* leaves behind, the two sides never lose their place in it.
THEOREM StreamsAligned == ~RcvPassesArgs /\ Spec => []OctetsAligned
<1> SUFFICES ASSUME ~RcvPassesArgs PROVE Spec => []OctetsAligned
  OBVIOUS
<1>1. Inv => OctetsAligned
  <2> SUFFICES ASSUME Inv, NEW p \in Proc, pc[p] \in Reading, chan[p] # <<>>
               PROVE  LET b == Head(chan[p]) IN
                      /\ b.idx = off[p] + 1
                      /\ b.of.t = CASE pc[p] = "recvSize" -> "size"
                                    [] pc[p] = "recvNrepeat" -> "nrepeat"
                                    [] pc[p] = "syncRead" -> "sync"
                                    [] pc[p] = "recv" -> "data"
                      /\ Len(Wire(b.of)) = Asked(p)
    BY DEF OctetsAligned
  <2> DEFINE w == Wire(Incoming(p))
             b == Head(chan[p])
  <2>1. Types /\ Local(p) /\ chan[p] \in Seq(Piece) /\ off[p] \in Nat
    BY DEF Inv, Types
  <2>2. Asked(p) \in Nat /\ off[p] < Asked(p) /\ Len(w) = Asked(p)
    BY <2>1, Pending DEF Local
  <2>3. Len(chan[p]) \in Nat /\ Len(chan[p]) >= 1 /\ b = chan[p][1]
    BY <2>1
  <2>4. 1 \in ReadSizes(p)
    BY <2>1, <2>2, <2>3 DEF ReadSizes, MinOf
  <2>5. b = w[off[p] + 1] /\ off[p] + 1 \in 1..Asked(p)
    <3>1. \A i \in 1..1 : chan[p][i] = w[off[p] + i]
      BY <2>4, ReadFacts
    <3> QED  BY <2>1, <2>2, <2>3, <3>1
  <2>6. \A i \in 1..Asked(p) : w[i].idx = i /\ w[i].of = Incoming(p)
    <3>1. CASE pc[p] = "recvSize"
      <4>1. Incoming(p) = Sz /\ Asked(p) = 4 /\ size["tr"] \in Nat
        BY <2>1, <3>1 DEF Incoming, Asked, SizeofInt, Types
      <4>2. \A i \in 1..4 : Wire(Sz)[i] = [of |-> Sz, idx |-> i, oct |-> Htonl(size["tr"])[i]]
        BY <4>1, CountFacts DEF Sz
      <4> QED  BY <4>1, <4>2
    <3>2. CASE pc[p] = "recvNrepeat"
      <4>1. Incoming(p) = Nr /\ Asked(p) = 4 /\ nrepeat["tr"] \in Nat
        BY <2>1, <3>2 DEF Incoming, Asked, SizeofInt, Types
      <4>2. \A i \in 1..4 : Wire(Nr)[i] = [of |-> Nr, idx |-> i, oct |-> Htonl(nrepeat["tr"])[i]]
        BY <4>1, CountFacts DEF Nr
      <4> QED  BY <4>1, <4>2
    <3>3. CASE pc[p] = "syncRead"
      <4>1. Incoming(p) = Sy /\ Asked(p) = 6
        BY <3>3, SyncFacts DEF Incoming, Asked
      <4> QED  BY <4>1, SyncFacts
    <3>4. CASE pc[p] = "recv"
      <4>1. Incoming(p) = Data(p) /\ Asked(p) = Bytes(size[p]) /\ Bytes(size[p]) \in Nat
        BY <2>1, <3>4, MessageFacts DEF Incoming, Asked
      <4>2. \A i \in 1..Bytes(size[p]) : Wire(Data(p))[i] = [of |-> Data(p), idx |-> i, oct |-> i]
        BY <4>1, DataFacts DEF Data
      <4>3. ASSUME NEW i \in 1..Bytes(size[p]) PROVE Wire(Data(p))[i].idx = i /\ Wire(Data(p))[i].of = Data(p)
        <5>1. Wire(Data(p))[i] = [of |-> Data(p), idx |-> i, oct |-> i]
          BY <4>2
        <5> QED  BY <5>1
      <4> QED  BY <4>1, <4>3
    <3> QED  BY <3>1, <3>2, <3>3, <3>4 DEF Reading
  <2>7. b.idx = off[p] + 1 /\ b.of = Incoming(p)
    BY <2>5, <2>6
  <2>8. Len(Wire(b.of)) = Asked(p)
    BY <2>2, <2>7
  <2>9. Incoming(p).t = CASE pc[p] = "recvSize" -> "size"
                          [] pc[p] = "recvNrepeat" -> "nrepeat"
                          [] pc[p] = "syncRead" -> "sync"
                          [] pc[p] = "recv" -> "data"
    BY DEF Incoming, Sz, Nr, Sy, Data, Reading
  <2> QED  BY <2>7, <2>8, <2>9
<1> QED  BY <1>1, Invariant, PTL

\* When every call of RecvData in this run_iters got its whole message, r_buff holds the
\* peer's pattern octet by octet when CheckBufferData looks at it.
THEOREM BuffersFilled == ~RcvPassesArgs /\ Spec => []BufferIntact
<1> SUFFICES ASSUME ~RcvPassesArgs PROVE Spec => []BufferIntact
  OBVIOUS
<1>1. Inv => BufferIntact
  <2> SUFFICES ASSUME Inv, NEW p \in Proc, pc[p] = "check", whole[p] = nrepeat[p], nrepeat[p] > 0
               PROVE  \A i \in 1..Bytes(size[p]) : rbuf[p][i] = i
    BY DEF BufferIntact
  <2>1. Buffered(p)
    BY DEF Inv
  <2> QED  BY <2>1 DEF Buffered, InRun
<1> QED  BY <1>1, Invariant, PTL

\* Sync ends a process with status 3 only when its peer has ended: the comparison of the
\* answer with the string never fails between two processes that run.
THEOREM SyncFailsAlone == ~RcvPassesArgs /\ Spec => SyncFailsOnlyAlone
<1> SUFFICES ASSUME ~RcvPassesArgs PROVE Spec => SyncFailsOnlyAlone
  OBVIOUS
<1>1. Inv /\ [Next]_vars => [\A p \in Proc : code'[p] = 3 /\ code[p] # 3 => ~Up(Peer(p))]_vars
  <2> SUFFICES ASSUME Inv, Next, NEW x \in Proc, code'[x] = 3, code[x] # 3 PROVE ~Up(Peer(x))
    OBVIOUS
  <2>1. code' # code
    OBVIOUS
  <2>2. PICK p \in Proc : Step(p) \/ Killed(p) \/ AllocFails(p)
    BY <2>1 DEF Next, Terminated, vars
  <2>3. PICK c \in {0, 1, 3, 137, 139, 255, 304, 305, 306, 401} :
           Exit(p, c) /\ (c = 3 => ~Up(Peer(p)))
    BY <2>1, <2>2, StepKinds
  <2>4. code' = [code EXCEPT ![p] = c] /\ code \in [Proc -> Status]
    BY <2>3 DEF Exit, Close, Inv, Types
  <2>5. x = p /\ c = 3
    BY <2>4
  <2> QED  BY <2>3, <2>5
<1> QED  BY <1>1, Invariant, PTL DEF Spec, SyncFailsOnlyAlone

-----------------------------------------------------------------------------
(* The messages of a stream.  Octets behind a stream add at most a message at the *)
(* end, octets taken from its front take away at most the first one, and what a   *)
(* process that ends leaves of its stream is a beginning of the messages.         *)

\* The member of a set of one.
Some(S) == CHOOSE m \in S : TRUE

\* The messages that end at the ends of c up to which there are k.
Kth(c, k) == {c[x].of : x \in {y \in Ends(c) : Cardinality(EndsUpTo(c, y)) = k}}
Count(c) == Cardinality(Ends(c))

\* The member of {m} is m.
LEMMA SomeOf ==
    ASSUME NEW S, NEW m, S = {m}
    PROVE  Some(S) = m
  BY Zenon DEF Some

\* The messages of a stream, in these words.
LEMMA MessagesAre ==
    ASSUME NEW c
    PROVE  Messages(c) = [k \in 1..Count(c) |-> Some(Kth(c, k))]
  BY DEF Messages, KthMessage, Some, Kth, Count

\* The ends in a stream can be counted.
LEMMA EndsFacts ==
    ASSUME NEW c \in Seq(Piece)
    PROVE  /\ Ends(c) \subseteq 1..Len(c) /\ IsFiniteSet(Ends(c)) /\ Count(c) \in Nat
           /\ \A x : /\ EndsUpTo(c, x) \subseteq Ends(c) /\ IsFiniteSet(EndsUpTo(c, x))
                     /\ Cardinality(EndsUpTo(c, x)) \in Nat /\ Cardinality(EndsUpTo(c, x)) <= Count(c)
<1>1. Ends(c) \subseteq 1..Len(c) /\ Len(c) \in Nat
  BY DEF Ends
<1>2. IsFiniteSet(1..Len(c))
  BY <1>1, FS_Interval
<1>3. IsFiniteSet(Ends(c))
  BY <1>1, <1>2, FS_Subset
<1>4. ASSUME NEW x PROVE EndsUpTo(c, x) \subseteq Ends(c)
  BY DEF EndsUpTo
<1>5. ASSUME NEW x PROVE IsFiniteSet(EndsUpTo(c, x)) /\ Cardinality(EndsUpTo(c, x)) <= Count(c)
  BY <1>3, <1>4, FS_Subset DEF Count
<1>6. ASSUME NEW x PROVE Cardinality(EndsUpTo(c, x)) \in Nat
  BY <1>5, FS_CardinalityType
<1> QED  BY <1>1, <1>3, <1>4, <1>5, <1>6, FS_CardinalityType DEF Count

\* A stream has as many messages as ends.
LEMMA MessagesSeq ==
    ASSUME NEW c \in Seq(Piece)
    PROVE  /\ Len(Messages(c)) = Count(c) /\ Count(c) \in Nat
           /\ \A k \in 1..Count(c) : Messages(c)[k] = Some(Kth(c, k))
           /\ Messages(c) = [k \in 1..Count(c) |-> Messages(c)[k]]
<1>1. Count(c) \in Nat
  BY EndsFacts
<1> QED  BY <1>1, MessagesAre

\* c is the first K octets of d.
Begins(c, d, K) == Len(c) = K /\ \A x \in 1..K : c[x] = d[x]

\* A beginning of a stream holds a beginning of its messages.
LEMMA BeginningHolds ==
    ASSUME NEW d \in Seq(Piece), NEW K \in 0..Len(d), NEW c \in Seq(Piece), Begins(c, d, K)
    PROVE  /\ Ends(c) = EndsUpTo(d, K) /\ Count(c) <= Count(d)
           /\ \A k \in 1..Count(c) : Kth(c, k) = Kth(d, k)
           /\ Messages(c) = SubSeq(Messages(d), 1, Count(c))
<1>1. c \in Seq(Piece) /\ Len(c) = K /\ \A x \in 1..K : c[x] = d[x]
  BY DEF Begins
<1>2. Ends(c) = EndsUpTo(d, K)
  <2>1. DOMAIN c = 1..K /\ DOMAIN d = 1..Len(d) /\ K \in Nat /\ Len(d) \in Nat /\ K <= Len(d)
    BY <1>1
  <2>2. ASSUME NEW x PROVE x \in Ends(c) <=> x \in EndsUpTo(d, K)
    BY <1>1, <2>1 DEF Ends, EndsUpTo
  <2> QED  BY <2>2
<1>3. Count(c) <= Count(d) /\ Count(c) \in Nat /\ Count(d) \in Nat
  BY <1>1, <1>2, EndsFacts DEF Count
<1>4. ASSUME NEW x \in Ends(c) PROVE EndsUpTo(c, x) = EndsUpTo(d, x)
  <2>1. x \in 1..Len(d) /\ x <= K /\ Ends(d) \subseteq 1..Len(d)
    BY <1>1, <1>2, EndsFacts DEF EndsUpTo
  <2>2. ASSUME NEW y PROVE y \in EndsUpTo(c, x) <=> y \in EndsUpTo(d, x)
    BY <1>1, <1>2, <2>1 DEF EndsUpTo
  <2> QED  BY <2>2
<1>5. ASSUME NEW x \in Ends(d), x \notin Ends(c) PROVE Cardinality(EndsUpTo(d, x)) > Count(c)
  <2>1. x \in 1..Len(d) /\ x > K
    BY <1>2, <1>5, EndsFacts DEF EndsUpTo
  <2>2. Ends(c) \subseteq EndsUpTo(d, x) /\ x \in EndsUpTo(d, x) /\ IsFiniteSet(EndsUpTo(d, x))
    <3>1. Ends(d) \subseteq 1..Len(d) /\ IsFiniteSet(EndsUpTo(d, x))
      BY EndsFacts
    <3>2. Ends(c) \subseteq EndsUpTo(d, x) /\ x \in EndsUpTo(d, x)
      BY <1>2, <2>1, <3>1 DEF EndsUpTo
    <3> QED  BY <3>1, <3>2
  <2>3. Count(c) <= Cardinality(EndsUpTo(d, x)) /\ (Cardinality(EndsUpTo(d, x)) = Count(c) => EndsUpTo(d, x) = Ends(c))
    BY <2>2, FS_Subset DEF Count
  <2> QED  BY <1>3, <1>5, <2>2, <2>3, EndsFacts
<1>6. ASSUME NEW k \in 1..Count(c) PROVE Kth(c, k) = Kth(d, k)
  <2>1. \A x \in Ends(c) : x \in Ends(d) /\ x \in 1..K /\ c[x] = d[x]
    BY <1>1, <1>2, EndsFacts DEF EndsUpTo
  <2>2. {y \in Ends(c) : Cardinality(EndsUpTo(c, y)) = k} = {y \in Ends(d) : Cardinality(EndsUpTo(d, y)) = k}
    <3>1. ASSUME NEW y \in Ends(d), Cardinality(EndsUpTo(d, y)) = k PROVE y \in Ends(c)
      <4> SUFFICES ASSUME y \notin Ends(c) PROVE FALSE
        OBVIOUS
      <4>1. k > Count(c)
        BY <1>5, <3>1
      <4> QED  BY <1>3, <4>1
    <3>2. ASSUME NEW y PROVE y \in {z \in Ends(c) : Cardinality(EndsUpTo(c, z)) = k}
                              <=> y \in {z \in Ends(d) : Cardinality(EndsUpTo(d, z)) = k}
      BY <1>4, <2>1, <3>1
    <3> QED  BY <3>2
  <2> DEFINE S == {y \in Ends(c) : Cardinality(EndsUpTo(c, y)) = k}
  <2>3. \A x \in S : c[x].of = d[x].of
    BY <2>1
  <2>4. Kth(c, k) = {c[x].of : x \in S} /\ Kth(d, k) = {d[x].of : x \in S}
    BY <2>2 DEF Kth
  <2> HIDE DEF S
  <2> QED  BY <2>3, <2>4
<1>7. Messages(c) = SubSeq(Messages(d), 1, Count(c))
  <2>1. SubSeq(Messages(d), 1, Count(c)) = [k \in 1..Count(c) |-> Messages(d)[k]]
    BY <1>3, SMTT(20)
  <2>2. Messages(c) = [k \in 1..Count(c) |-> Messages(c)[k]]
    BY <1>1, MessagesSeq
  <2>3. \A k \in 1..Count(c) : Messages(c)[k] = Messages(d)[k]
    BY <1>1, <1>3, <1>6, MessagesSeq
  <2> QED  BY <2>1, <2>2, <2>3
<1> QED  BY <1>1, <1>2, <1>3, <1>6, <1>7

\* Octets without an end add no message.
LEMMA NoMessageAdded ==
    ASSUME NEW c \in Seq(Piece), NEW e \in Seq(Piece), \A x \in 1..Len(e) : e[x].idx # Len(Wire(e[x].of))
    PROVE  Messages(c \o e) = Messages(c)
<1> DEFINE d == c \o e
<1>1. /\ d \in Seq(Piece) /\ Len(d) = Len(c) + Len(e) /\ Begins(c, d, Len(c))
      /\ Len(c) \in Nat /\ Len(e) \in Nat /\ Len(c) \in 0..Len(d)
      /\ \A x \in 1..Len(e) : d[Len(c) + x] = e[x]
  <2>1. /\ d \in Seq(Piece) /\ Len(d) = Len(c) + Len(e)
        /\ \A x \in 1..Len(d) : d[x] = IF x <= Len(c) THEN c[x] ELSE e[x - Len(c)]
    BY ConcatProperties
  <2> HIDE DEF d
  <2>2. Len(c) \in Nat /\ Len(e) \in Nat /\ Len(c) \in 0..Len(d)
    BY <2>1
  <2>3. Begins(c, d, Len(c))
    BY <2>1, <2>2 DEF Begins
  <2>4. \A x \in 1..Len(e) : d[Len(c) + x] = e[x]
    BY <2>1, <2>2
  <2> QED  BY <2>1, <2>2, <2>3, <2>4
<1> HIDE DEF d
<1>2. Ends(d) = EndsUpTo(d, Len(c))
  <2>1. ASSUME NEW x \in Ends(d) PROVE x <= Len(c)
    <3> SUFFICES ASSUME x > Len(c) PROVE FALSE
      BY <1>1, EndsFacts
    <3>1. x \in 1..Len(d) /\ d[x].idx = Len(Wire(d[x].of))
      BY EndsFacts, <1>1 DEF Ends
    <3>2. x - Len(c) \in 1..Len(e) /\ Len(c) + (x - Len(c)) = x
      BY <1>1, <3>1
    <3>3. d[x] = e[x - Len(c)]
      BY <1>1, <3>2
    <3> QED  BY <3>1, <3>2, <3>3
  <2> QED  BY <2>1 DEF EndsUpTo
<1>3. Ends(c) = Ends(d) /\ Messages(c) = SubSeq(Messages(d), 1, Count(c))
  BY <1>1, <1>2, BeginningHolds
<1>4. Len(Messages(d)) = Count(c) /\ Count(c) \in Nat /\ Messages(d) = [k \in 1..Count(c) |-> Messages(d)[k]]
  BY <1>1, <1>3, MessagesSeq DEF Count
<1>5. SubSeq(Messages(d), 1, Count(c)) = [k \in 1..Count(c) |-> Messages(d)[k]]
  BY <1>4, SMTT(20)
<1> QED  BY <1>3, <1>4, <1>5 DEF d

\* Octets of which the last alone is an end add its message.
LEMMA MessageAdded ==
    ASSUME NEW c \in Seq(Piece), NEW e \in Seq(Piece), Len(e) > 0,
           \A x \in 1..Len(e) : e[x].idx = Len(Wire(e[x].of)) <=> x = Len(e)
    PROVE  Messages(c \o e) = Append(Messages(c), e[Len(e)].of)
<1> DEFINE d == c \o e
<1>1. /\ d \in Seq(Piece) /\ Len(d) = Len(c) + Len(e) /\ Begins(c, d, Len(c))
      /\ Len(c) \in Nat /\ Len(e) \in Nat /\ Len(c) \in 0..Len(d)
      /\ \A x \in 1..Len(e) : d[Len(c) + x] = e[x]
  <2>1. /\ d \in Seq(Piece) /\ Len(d) = Len(c) + Len(e)
        /\ \A x \in 1..Len(d) : d[x] = IF x <= Len(c) THEN c[x] ELSE e[x - Len(c)]
    BY ConcatProperties
  <2> HIDE DEF d
  <2>2. Len(c) \in Nat /\ Len(e) \in Nat /\ Len(c) \in 0..Len(d)
    BY <2>1
  <2>3. Begins(c, d, Len(c))
    BY <2>1, <2>2 DEF Begins
  <2>4. \A x \in 1..Len(e) : d[Len(c) + x] = e[x]
    BY <2>1, <2>2
  <2> QED  BY <2>1, <2>2, <2>3, <2>4
<1> HIDE DEF d
<1> DEFINE L == Len(d)
           m == e[Len(e)].of
<1>2. L \in 1..Len(d) /\ L > Len(c) /\ L \in Nat /\ d[L] = e[Len(e)] /\ d[L].of = m
  BY <1>1
<1>3. /\ Ends(c) = EndsUpTo(d, Len(c)) /\ Messages(c) = SubSeq(Messages(d), 1, Count(c))
      /\ Ends(c) \subseteq 1..Len(c) /\ IsFiniteSet(Ends(c)) /\ Count(c) \in Nat
  BY <1>1, BeginningHolds, EndsFacts
<1>4. ASSUME NEW x PROVE x \in Ends(d) <=> x \in Ends(c) \/ x = L
  <2>1. CASE x \in 1..Len(d)
    <3>1. CASE x <= Len(c)
      BY <1>2, <1>3, <3>1 DEF EndsUpTo
    <3>2. CASE x > Len(c)
      <4>1. x - Len(c) \in 1..Len(e) /\ Len(c) + (x - Len(c)) = x
        BY <1>1, <2>1, <3>2
      <4>2. d[x] = e[x - Len(c)]
        BY <1>1, <4>1
      <4>3. x \in Ends(d) <=> d[x].idx = Len(Wire(d[x].of))
        BY <1>1, <2>1 DEF Ends
      <4>4. x \in Ends(d) <=> x - Len(c) = Len(e)
        BY <4>1, <4>2, <4>3
      <4> QED  BY <1>1, <1>3, <2>1, <3>2, <4>4
    <3> QED  BY <1>1, <2>1, <3>1, <3>2
  <2>2. CASE x \notin 1..Len(d)
    BY <1>1, <1>2, <1>3, <2>2, EndsFacts
  <2> QED  BY <2>1, <2>2
<1>5. Ends(d) = Ends(c) \cup {L} /\ L \notin Ends(c)
  BY <1>2, <1>3, <1>4
<1>6. Count(d) = Count(c) + 1
  BY <1>3, <1>5, FS_AddElement DEF Count
<1>7. Messages(d)[Count(d)] = m
  <2>1. EndsUpTo(d, L) = Ends(d)
    <3>1. Ends(d) \subseteq 1..Len(d)
      BY <1>1, EndsFacts
    <3> QED  BY <1>1, <3>1 DEF EndsUpTo
  <2>2. ASSUME NEW y \in Ends(d), y # L PROVE Cardinality(EndsUpTo(d, y)) # Count(d)
    <3>1. y \in Ends(c) /\ y <= Len(c)
      BY <1>3, <1>5, <2>2
    <3>2. EndsUpTo(d, y) \subseteq Ends(c)
      BY <1>2, <1>3, <1>5, <3>1 DEF EndsUpTo
    <3>3. Cardinality(EndsUpTo(d, y)) <= Count(c) /\ Cardinality(EndsUpTo(d, y)) \in Nat
      BY <1>1, <1>3, <3>2, FS_Subset, EndsFacts DEF Count
    <3> QED  BY <1>3, <1>6, <3>3
  <2>3. {y \in Ends(d) : Cardinality(EndsUpTo(d, y)) = Count(d)} = {L}
    BY <1>5, <2>1, <2>2 DEF Count
  <2>4. Kth(d, Count(d)) = {m}
    BY <1>2, <2>3 DEF Kth
  <2>5. Some(Kth(d, Count(d))) = m
    BY <2>4, SomeOf
  <2>6. Messages(d)[Count(d)] = Some(Kth(d, Count(d)))
    <3>1. Count(d) \in 1..Count(d)
      BY <1>3, <1>6
    <3> QED  BY <1>1, <3>1, MessagesSeq
  <2> QED  BY <2>5, <2>6
<1> HIDE DEF m
<1>8. Messages(d) = Append(Messages(c), m)
  <2>1. Len(Messages(d)) = Count(c) + 1 /\ Messages(d) = [k \in 1..(Count(c) + 1) |-> Messages(d)[k]]
    BY <1>1, <1>6, MessagesSeq
  <2>2. Messages(c) = [k \in 1..Count(c) |-> Messages(d)[k]]
    BY <1>3, <2>1, SMTT(20)
  <2> DEFINE M == Messages(d)
             N == Count(c)
  <2>3. Messages(d)[N + 1] = m /\ N \in Nat
    BY <1>3, <1>6, <1>7
  <2> HIDE DEF M, N
  <2>4. Append([k \in 1..N |-> M[k]], m) = [k \in 1..(N + 1) |-> IF k = N + 1 THEN m ELSE M[k]]
    BY <2>3, SMTT(20)
  <2> QED  BY <2>1, <2>2, <2>3, <2>4 DEF M, N
<1> QED  BY <1>8 DEF d, m

\* n octets less at the front.
Drops(u, c, n) == Len(u) = Len(c) - n /\ \A x \in 1..Len(u) : u[x] = c[x + n]

\* The ends of what is left of a stream, counted from its beginning.
LEMMA EndsLeft ==
    ASSUME NEW c \in Seq(Piece), NEW n \in 0..Len(c), NEW u \in Seq(Piece), Drops(u, c, n)
    PROVE  /\ \A x : x \in Ends(u) <=> x \in 1..Len(u) /\ x + n \in Ends(c)
           /\ \A x \in Ends(u) :
                 Cardinality(EndsUpTo(c, x + n)) = Cardinality(EndsUpTo(c, n)) + Cardinality(EndsUpTo(u, x))
           /\ Count(c) = Cardinality(EndsUpTo(c, n)) + Count(u)
<1>1. Len(u) = Len(c) - n /\ (\A x \in 1..Len(u) : u[x] = c[x + n]) /\ Len(c) \in Nat /\ n \in Nat /\ Len(u) \in Nat
  BY DEF Drops
<1>2. Ends(u) \subseteq 1..Len(u) /\ Ends(c) \subseteq 1..Len(c)
  BY EndsFacts
<1>3. ASSUME NEW x PROVE x \in Ends(u) <=> x \in 1..Len(u) /\ x + n \in Ends(c)
  <2>1. CASE x \in 1..Len(u)
    <3>1. x + n \in 1..Len(c) /\ u[x] = c[x + n]
      BY <1>1, <2>1
    <3> QED  BY <2>1, <3>1 DEF Ends
  <2>2. CASE x \notin 1..Len(u)
    BY <1>2, <2>2
  <2> QED  BY <2>1, <2>2
<1>4. ASSUME NEW x \in Nat, x <= Len(u)
      PROVE  Cardinality(EndsUpTo(c, x + n)) = Cardinality(EndsUpTo(c, n)) + Cardinality(EndsUpTo(u, x))
  <2> DEFINE S == EndsUpTo(u, x)
             T == EndsUpTo(c, x + n) \ EndsUpTo(c, n)
             f == [y \in S |-> y + n]
  <2>1. \A y : y \in S <=> y \in Ends(u) /\ y <= x
    BY DEF EndsUpTo
  <2>2. \A y : y \in T <=> y \in Ends(c) /\ y <= x + n /\ y > n
    <3>1. \A y : y \in Ends(c) => y \in Nat
      BY <1>2
    <3> QED  BY <1>1, <3>1 DEF EndsUpTo
  <2> HIDE DEF S, T
  <2>3. ASSUME NEW y \in S PROVE y + n \in T
    BY <1>1, <1>2, <1>3, <2>1, <2>2, <2>3
  <2>4. ASSUME NEW z \in T PROVE \E y \in S : f[y] = z
    <3>1. z \in 1..Len(c) /\ z > n /\ z <= x + n /\ z \in Ends(c)
      BY <1>2, <2>2
    <3>2. z - n \in 1..Len(u) /\ z - n + n = z /\ z - n <= x
      BY <1>1, <3>1
    <3>3. z - n \in S
      BY <1>3, <2>1, <3>1, <3>2
    <3> QED  BY <3>2, <3>3
  <2>5. f \in Bijection(S, T)
    <3>1. f \in [S -> T]
      BY <2>3
    <3>2. \A y, z \in S : f[y] = f[z] => y = z
      <4>1. \A y \in S : y \in Nat
        BY <1>2, <2>1
      <4> QED  BY <1>1, <4>1
    <3>3. f \in Injection(S, T)
      BY <3>1, <3>2 DEF Injection, IsInjective
    <3>4. f \in Surjection(S, T)
      BY <3>1, <2>4 DEF Surjection
    <3> QED  BY <3>3, <3>4 DEF Bijection
  <2>6. IsFiniteSet(S) /\ Cardinality(T) = Cardinality(S) /\ IsFiniteSet(T) /\ Cardinality(S) \in Nat
    <3>1. IsFiniteSet(S) /\ Cardinality(S) \in Nat
      BY EndsFacts DEF S
    <3>2. ExistsBijection(S, T)
      BY <2>5 DEF ExistsBijection
    <3> QED  BY <3>1, <3>2, FS_Bijection
  <2>7. EndsUpTo(c, x + n) = EndsUpTo(c, n) \cup T /\ EndsUpTo(c, n) \cap T = {}
    <3>1. EndsUpTo(c, n) \subseteq EndsUpTo(c, x + n)
      <4>1. \A y \in Ends(c) : y \in Nat /\ (y <= n => y <= x + n)
        BY <1>1, <1>2
      <4> QED  BY <4>1 DEF EndsUpTo
    <3> QED  BY <3>1 DEF T
  <2>8. IsFiniteSet(EndsUpTo(c, n)) /\ Cardinality(EndsUpTo(c, n)) \in Nat
    BY EndsFacts
  <2>9. Cardinality(EndsUpTo(c, n) \cup T) = Cardinality(EndsUpTo(c, n)) + Cardinality(T) - 0
    <3>1. Cardinality({}) = 0
      BY FS_EmptySet
    <3>2. /\ IsFiniteSet(EndsUpTo(c, n)) /\ IsFiniteSet(T)
          /\ Cardinality(EndsUpTo(c, n) \cap T) = 0
      BY <2>6, <2>7, <2>8, <3>1
    <3>3. Cardinality(EndsUpTo(c, n) \cup T) =
             Cardinality(EndsUpTo(c, n)) + Cardinality(T) - Cardinality(EndsUpTo(c, n) \cap T)
      BY <3>2, FS_Union
    <3> QED  BY <3>2, <3>3
  <2>10. Cardinality(EndsUpTo(c, x + n)) = Cardinality(EndsUpTo(c, n)) + Cardinality(S)
    <3>1. Cardinality(EndsUpTo(c, x + n)) = Cardinality(EndsUpTo(c, n) \cup T)
      BY <2>7
    <3> QED  BY <2>6, <2>8, <2>9, <3>1
  <2> QED  BY <2>10 DEF S
<1>5. ASSUME NEW x \in Ends(u)
      PROVE  Cardinality(EndsUpTo(c, x + n)) = Cardinality(EndsUpTo(c, n)) + Cardinality(EndsUpTo(u, x))
  <2>1. x \in Nat /\ x <= Len(u)
    BY <1>1, <1>2
  <2> QED  BY <1>4, <2>1
<1>6. Count(c) = Cardinality(EndsUpTo(c, n)) + Count(u)
  <2>1. EndsUpTo(u, Len(u)) = Ends(u) /\ EndsUpTo(c, Len(u) + n) = Ends(c)
    BY <1>1, <1>2 DEF EndsUpTo
  <2>2. Cardinality(EndsUpTo(c, Len(u) + n)) = Cardinality(EndsUpTo(c, n)) + Cardinality(EndsUpTo(u, Len(u)))
    BY <1>1, <1>4
  <2> QED  BY <2>1, <2>2 DEF Count
<1> QED  BY <1>3, <1>5, <1>6

\* What is left holds the messages that are left.
LEMMA MessagesLeft ==
    ASSUME NEW c \in Seq(Piece), NEW n \in 0..Len(c), NEW u \in Seq(Piece), Drops(u, c, n),
           NEW h \in Nat, Cardinality(EndsUpTo(c, n)) = h
    PROVE  /\ Count(u) \in Nat /\ Count(c) = h + Count(u)
           /\ Messages(u) = [k \in 1..Count(u) |-> Messages(c)[k + h]]
<1>1. Count(u) \in Nat /\ Count(c) \in Nat /\ Count(c) = h + Count(u)
  BY EndsLeft, EndsFacts
<1>2. ASSUME NEW k \in 1..Count(u) PROVE Kth(u, k) = Kth(c, k + h)
  <2>1. \A x : x \in Ends(u) <=> x \in 1..Len(u) /\ x + n \in Ends(c)
    BY EndsLeft
  <2>2. \A x \in Ends(u) : Cardinality(EndsUpTo(c, x + n)) = h + Cardinality(EndsUpTo(u, x))
    BY EndsLeft
  <2>3. /\ Len(u) = Len(c) - n /\ (\A x \in 1..Len(u) : u[x] = c[x + n]) /\ n \in Nat /\ Len(c) \in Nat
        /\ Ends(c) \subseteq 1..Len(c) /\ \A x : Cardinality(EndsUpTo(u, x)) \in Nat
    BY EndsFacts DEF Drops
  <2>4. ASSUME NEW m \in Kth(u, k) PROVE m \in Kth(c, k + h)
    <3>1. PICK x \in Ends(u) : Cardinality(EndsUpTo(u, x)) = k /\ m = u[x].of
      BY <2>4 DEF Kth
    <3>2. x + n \in Ends(c) /\ u[x] = c[x + n] /\ Cardinality(EndsUpTo(c, x + n)) = k + h
      BY <2>1, <2>2, <2>3, <3>1, SMTT(30)
    <3> QED  BY <3>1, <3>2 DEF Kth
  <2>5. ASSUME NEW m \in Kth(c, k + h) PROVE m \in Kth(u, k)
    <3>1. PICK y \in Ends(c) : Cardinality(EndsUpTo(c, y)) = k + h /\ m = c[y].of
      BY <2>5 DEF Kth
    <3>2. y \in 1..Len(c)
      BY <2>3
    <3>3. y > n
      <4> SUFFICES ASSUME y <= n PROVE FALSE
        BY <2>3, <3>2
      <4>1. EndsUpTo(c, y) \subseteq EndsUpTo(c, n)
        <5>1. \A z \in Ends(c) : z \in Nat
          BY <2>3
        <5> QED  BY <2>3, <3>2, <5>1 DEF EndsUpTo
      <4>2. IsFiniteSet(EndsUpTo(c, n))
        BY EndsFacts
      <4>3. Cardinality(EndsUpTo(c, y)) <= h
        BY <4>1, <4>2, FS_Subset
      <4> QED  BY <3>1, <4>3
    <3>4. y - n \in 1..Len(u) /\ y - n + n = y
      BY <2>3, <3>2, <3>3
    <3>5. y - n \in Ends(u) /\ u[y - n] = c[y]
      BY <2>1, <2>3, <3>4
    <3>6. Cardinality(EndsUpTo(u, y - n)) = k
      <4>1. Cardinality(EndsUpTo(c, y)) = h + Cardinality(EndsUpTo(u, y - n))
        BY <2>2, <3>4, <3>5
      <4> QED  BY <2>3, <3>1, <4>1
    <3> QED  BY <3>1, <3>5, <3>6 DEF Kth
  <2> QED  BY <2>4, <2>5
<1>3. \A k \in 1..Count(u) : Messages(u)[k] = Messages(c)[k + h]
  <2> TAKE k \in 1..Count(u)
  <2>1. k + h \in 1..Count(c)
    BY <1>1
  <2>2. Messages(u)[k] = Some(Kth(u, k)) /\ Messages(c)[k + h] = Some(Kth(c, k + h))
    BY <2>1, MessagesSeq
  <2> QED  BY <1>2, <2>2
<1>4. Messages(u) = [k \in 1..Count(u) |-> Messages(u)[k]]
  BY MessagesSeq
<1> QED  BY <1>1, <1>3, <1>4

\* A sequence without its first member.
LEMMA TailOf ==
    ASSUME NEW T, NEW s \in Seq(T), NEW N \in Nat, Len(s) = N + 1
    PROVE  Tail(s) = [k \in 1..N |-> s[k + 1]] /\ s # <<>> /\ Head(s) = s[1]
<1>1. s # <<>>
  OBVIOUS
<1>2. Head(s) = s[1]
  BY <1>1
<1>3. Tail(s) \in Seq(T) /\ Len(Tail(s)) = N /\ \A k \in 1..N : Tail(s)[k] = s[k + 1]
  BY <1>1
<1>4. ASSUME NEW t \in Seq(T) PROVE t = [k \in 1..Len(t) |-> t[k]]
  OBVIOUS
<1>5. Tail(s) = [k \in 1..N |-> Tail(s)[k]]
  BY <1>3, <1>4
<1> QED  BY <1>1, <1>2, <1>3, <1>5

\* Octets without an end take no message away.
LEMMA NoMessageTaken ==
    ASSUME NEW c \in Seq(Piece), NEW n \in 0..Len(c), NEW u \in Seq(Piece), Drops(u, c, n),
           \A x \in 1..n : c[x].idx # Len(Wire(c[x].of))
    PROVE  Messages(u) = Messages(c)
<1>1. EndsUpTo(c, n) = {}
  <2>1. Ends(c) \subseteq 1..Len(c) /\ n \in Nat /\ Len(c) \in Nat
    BY EndsFacts
  <2>2. ASSUME NEW x \in Ends(c) PROVE x > n
    BY <2>1 DEF Ends
  <2> QED  BY <2>1, <2>2 DEF EndsUpTo
<1>2. Cardinality(EndsUpTo(c, n)) = 0
  BY <1>1, FS_EmptySet
<1>3. /\ Count(u) \in Nat /\ Count(c) = 0 + Count(u)
      /\ Messages(u) = [k \in 1..Count(u) |-> Messages(c)[k + 0]]
  BY <1>2, MessagesLeft
<1>4. Count(u) = Count(c) /\ \A k \in 1..Count(u) : k + 0 = k
  BY <1>3
<1>5. Messages(u) = [k \in 1..Count(c) |-> Messages(c)[k]]
  BY <1>3, <1>4
<1> QED  BY <1>5, MessagesSeq

\* The octets up to the first end take its message away.
LEMMA MessageTaken ==
    ASSUME NEW c \in Seq(Piece), NEW n \in 1..Len(c), NEW u \in Seq(Piece), Drops(u, c, n),
           \A x \in 1..n : c[x].idx = Len(Wire(c[x].of)) <=> x = n
    PROVE  /\ Messages(c) # <<>> /\ Messages(c) \in Seq({Messages(c)[k] : k \in 1..Len(Messages(c))})
           /\ Head(Messages(c)) = c[n].of
           /\ Messages(u) = Tail(Messages(c))
<1>0. Ends(c) \subseteq 1..Len(c) /\ n \in Nat /\ Len(c) \in Nat
  BY EndsFacts
<1>1. EndsUpTo(c, n) = {n}
  <2>1. ASSUME NEW x PROVE x \in EndsUpTo(c, n) <=> x = n
    <3>1. CASE x \in 1..n
      BY <1>0, <3>1 DEF Ends, EndsUpTo
    <3>2. CASE x \notin 1..n
      BY <1>0, <3>2 DEF EndsUpTo
    <3> QED  BY <3>1, <3>2
  <2> QED  BY <2>1
<1>2. Cardinality(EndsUpTo(c, n)) = 1
  BY <1>1, FS_Singleton
<1>3. /\ Count(u) \in Nat /\ Count(c) = 1 + Count(u)
      /\ Messages(u) = [k \in 1..Count(u) |-> Messages(c)[k + 1]]
  BY <1>2, MessagesLeft
<1>4. /\ Len(Messages(c)) = Count(c) /\ Messages(c) = [k \in 1..Count(c) |-> Messages(c)[k]]
      /\ \A k \in 1..Count(c) : Messages(c)[k] = Some(Kth(c, k))
  BY MessagesSeq
<1>5. Messages(c)[1] = c[n].of
  <2>1. ASSUME NEW y \in Ends(c), Cardinality(EndsUpTo(c, y)) = 1 PROVE y = n
    <3>1. n \in EndsUpTo(c, n) /\ n \in Ends(c)
      BY <1>1 DEF EndsUpTo
    <3>2. y \in EndsUpTo(c, y) /\ y \in 1..Len(c)
      BY <1>0 DEF EndsUpTo
    <3>3. CASE y < n
      BY <1>0, <1>1, <3>2, <3>3 DEF EndsUpTo
    <3>4. CASE y > n
      <4>1. n \in EndsUpTo(c, y)
        BY <1>0, <3>1, <3>2, <3>4 DEF EndsUpTo
      <4>2. PICK z : EndsUpTo(c, y) = {z}
        <5>1. IsFiniteSet(EndsUpTo(c, y))
          BY EndsFacts
        <5> QED  BY <2>1, <5>1, FS_Singleton
      <4> QED  BY <3>2, <4>1, <4>2
    <3> QED  BY <1>0, <3>2, <3>3, <3>4
  <2>2. n \in Ends(c)
    BY <1>1 DEF EndsUpTo
  <2>3. {y \in Ends(c) : Cardinality(EndsUpTo(c, y)) = 1} = {n}
    BY <1>2, <2>1, <2>2
  <2>4. Kth(c, 1) = {c[n].of}
    BY <2>3 DEF Kth
  <2>5. Some(Kth(c, 1)) = c[n].of
    BY <2>4, SomeOf
  <2> QED  BY <1>3, <1>4, <2>5
<1> DEFINE M == Messages(c)
           N == Count(u)
<1>6. M \in Seq({M[k] : k \in 1..Len(M)})
  <2>1. M = [k \in 1..Count(c) |-> M[k]] /\ Len(M) = Count(c) /\ Count(c) \in Nat
    BY <1>3, <1>4
  <2> HIDE DEF M
  <2> QED  BY <2>1, SMTT(30)
<1>7. Len(M) = N + 1 /\ N \in Nat
  BY <1>3, <1>4
<1>8. Messages(u) = [k \in 1..N |-> M[k + 1]]
  BY <1>3
<1> HIDE DEF M, N
<1>9. Tail(M) = [k \in 1..N |-> M[k + 1]] /\ M # <<>> /\ Head(M) = M[1]
  BY <1>6, <1>7, TailOf
<1> QED  BY <1>5, <1>6, <1>8, <1>9 DEF M

-----------------------------------------------------------------------------
(* The steps, message by message *)

\* Every octet knows its message and its place in it.
LEMMA OctetsOf ==
    ASSUME Types, NEW p \in Proc, NEW m \in {Sz, Nr, Sy, Data(p)}
    PROVE  /\ Wire(m) \in Seq(Piece) /\ Len(Wire(m)) \in Nat
           /\ \A x \in 1..Len(Wire(m)) : Wire(m)[x].idx = x /\ Wire(m)[x].of = m
<1>1. size["tr"] \in Nat /\ nrepeat["tr"] \in Nat /\ Bytes(size[p]) \in Nat
  BY MessageFacts DEF Types
<1>2. ASSUME NEW w, NEW L \in Nat, NEW o, Len(w) = L,
             \A x \in 1..L : w[x] = [of |-> m, idx |-> x, oct |-> o[x]]
      PROVE  \A x \in 1..Len(w) : w[x].idx = x /\ w[x].of = m
  <2> TAKE x \in 1..Len(w)
  <2>1. w[x] = [of |-> m, idx |-> x, oct |-> o[x]]
    BY <1>2
  <2> QED  BY <2>1
<1>3. CASE m = Sz
  <2>1. /\ Wire(Sz) \in Seq(Piece) /\ Len(Wire(Sz)) = 4
        /\ \A x \in 1..4 : Wire(Sz)[x] = [of |-> Sz, idx |-> x, oct |-> Htonl(size["tr"])[x]]
    BY <1>1, CountFacts DEF Sz
  <2>2. \A x \in 1..Len(Wire(m)) : Wire(m)[x].idx = x /\ Wire(m)[x].of = m
    BY <1>2, <1>3, <2>1
  <2> QED  BY <1>3, <2>1, <2>2
<1>4. CASE m = Nr
  <2>1. /\ Wire(Nr) \in Seq(Piece) /\ Len(Wire(Nr)) = 4
        /\ \A x \in 1..4 : Wire(Nr)[x] = [of |-> Nr, idx |-> x, oct |-> Htonl(nrepeat["tr"])[x]]
    BY <1>1, CountFacts DEF Nr
  <2>2. \A x \in 1..Len(Wire(m)) : Wire(m)[x].idx = x /\ Wire(m)[x].of = m
    BY <1>2, <1>4, <2>1
  <2> QED  BY <1>4, <2>1, <2>2
<1>5. CASE m = Sy
  <2>1. \A x \in 1..Len(Wire(m)) : Wire(m)[x].idx = x /\ Wire(m)[x].of = m
    BY <1>2, <1>5, SyncFacts
  <2> QED  BY <1>5, <2>1, SyncFacts
<1>6. CASE m = Data(p)
  <2> DEFINE o == [x \in 1..Bytes(size[p]) |-> x]
  <2>1. /\ Wire(Data(p)) \in Seq(Piece) /\ Len(Wire(Data(p))) = Bytes(size[p])
        /\ \A x \in 1..Bytes(size[p]) : Wire(Data(p))[x] = [of |-> Data(p), idx |-> x, oct |-> o[x]]
    BY <1>1, DataFacts DEF Data
  <2> HIDE DEF o
  <2>2. \A x \in 1..Len(Wire(m)) : Wire(m)[x].idx = x /\ Wire(m)[x].of = m
    BY <1>1, <1>2, <1>6, <2>1
  <2> QED  BY <1>1, <1>6, <2>1, <2>2
<1> QED  BY <1>3, <1>4, <1>5, <1>6

\* What PingPong calls by the same name.
LEMMA SameNames ==
    ASSUME Inv
    PROVE  /\ Promise!Proc = Proc
           /\ \A p \in Proc : /\ Promise!Peer(p) = Peer(p) /\ Peer(p) \in Proc /\ Peer(p) # p
                              /\ Promise!Up(p) <=> Up(p)
                              /\ \A jj : Promise!LoopHead(p, jj) = LoopHead(p, jj)
                              /\ Promise!DataMsg(size[p]) = Data(p)
                              /\ MsgPc[p] = IF pc[p] = "alloc" THEN "syncWrite" ELSE pc[p]
                              /\ MsgChan[p] = Messages(chan[p])
           /\ Promise!SyncMsg = Sy
           /\ Promise!SizeMsg(size["tr"]) = Sz /\ Promise!NrepeatMsg(nrepeat["tr"]) = Nr
           /\ \A p \in Proc : LoopHead(p, 0) \in {"send", "recv", "check"}
           /\ \A p \in Proc : LoopHead(p, j[p] + 1) \in {"send", "recv", "check"}
<1>1. Promise!Proc = Proc
  BY DEF Promise!Proc
<1>2. ASSUME NEW p \in Proc
      PROVE  /\ Promise!Peer(p) = Peer(p) /\ Peer(p) \in Proc /\ Peer(p) # p
             /\ \A jj : Promise!LoopHead(p, jj) = LoopHead(p, jj)
             /\ MsgPc[p] = IF pc[p] = "alloc" THEN "syncWrite" ELSE pc[p]
             /\ MsgChan[p] = Messages(chan[p])
             /\ \A jj : LoopHead(p, jj) \in {"send", "recv", "check"}
  BY DEF Promise!Peer, Peer, Promise!LoopHead, LoopHead, MsgPc, MsgChan
<1>3. ASSUME NEW p \in Proc PROVE Promise!Up(p) <=> Up(p)
  BY <1>2 DEF Promise!Up, Up
<1>4. ASSUME NEW p \in Proc PROVE Promise!DataMsg(size[p]) = Data(p)
  <2>1. size[p] \in Nat
    BY DEF Inv, Types
  <2>2. \A s \in Nat : (s + 7) \div 8 = IF s % 8 = 0 THEN s \div 8 ELSE s \div 8 + 1
    OBVIOUS
  <2>3. Promise!Bytes(size[p]) = Bytes(size[p])
    BY <2>1, <2>2 DEF Promise!Bytes, Bytes
  <2> QED  BY <2>3 DEF Promise!DataMsg, Data
<1>5. /\ Promise!SyncMsg = Sy
      /\ Promise!SizeMsg(size["tr"]) = Sz /\ Promise!NrepeatMsg(nrepeat["tr"]) = Nr
  BY DEF Promise!SyncMsg, Sy, Promise!SizeMsg, Sz, Promise!NrepeatMsg, Nr
<1> QED  BY <1>1, <1>2, <1>3, <1>4, <1>5

\* A step of p to l, as PingPong sees it: alloc is already syncWrite.
LEMMA PcMaps ==
    ASSUME Inv, NEW p \in Proc, NEW l, pc' = [pc EXCEPT ![p] = l]
    PROVE  MsgPc' = [MsgPc EXCEPT ![p] = IF l = "alloc" THEN "syncWrite" ELSE l]
<1>1. pc \in [Proc -> Labels]
  BY DEF Inv, Types
<1> QED  BY <1>1 DEF MsgPc

\* A changed stream, as PingPong sees it.
LEMMA ChanMaps ==
    ASSUME Inv, NEW p \in Proc, NEW s, chan' = [chan EXCEPT ![p] = s]
    PROVE  MsgChan' = [MsgChan EXCEPT ![p] = Messages(s)]
<1>1. chan \in [Proc -> Seq(Piece)]
  BY DEF Inv, Types
<1> QED  BY <1>1 DEF MsgChan

\* What does not change here does not change there.
LEMMA NothingMaps ==
    /\ chan' = chan => MsgChan' = MsgChan
    /\ pc' = pc => MsgPc' = MsgPc
  BY DEF MsgChan, MsgPc

\* An empty stream holds no message.
LEMMA NoMessages == Messages(<<>>) = <<>>
<1>1. Ends(<<>>) = {}
  BY DEF Ends
<1>2. Count(<<>>) = 0
  BY <1>1, FS_EmptySet DEF Count
<1>3. Messages(<<>>) = [k \in 1..0 |-> Some(Kth(<<>>, k))]
  BY <1>2, MessagesAre
<1> QED  BY <1>3

\* A process that ends.
LEMMA CloseMaps ==
    ASSUME Inv, NEW p \in Proc, Up(p), NEW c, NEW rest, Close(p, c, rest)
    PROVE  Promise!Stop(p)
<1> DEFINE q == Peer(p)
<1>1. q \in Proc /\ q # p /\ Promise!Peer(p) = q /\ Promise!Up(p) /\ Promise!Proc = Proc
      /\ MsgChan[q] = Messages(chan[q]) /\ chan[q] \in Seq(Piece) /\ \A x \in Proc : x = p \/ x = q
  <2>1. \A x \in Proc : x = p \/ x = Peer(p)
    BY DEF Peer
  <2> QED  BY <2>1, SameNames DEF Inv, Types
<1> HIDE DEF q
<1>a. q = Peer(p)
  BY DEF q
<1>2. PICK k \in 0..Len(chan[q]) : chan' = [x \in Proc |-> IF x = p THEN <<>> ELSE SubSeq(chan[x], 1, k)]
  BY <1>a DEF Close
<1>3. pc' = [pc EXCEPT ![p] = "stopped"] /\ UNCHANGED <<size, nrepeat, j, whole, ret>>
  BY DEF Close, Goto, locals
<1>4. Promise!Goto(p, "stopped")
  BY <1>3, PcMaps DEF Promise!Goto
<1> DEFINE b == SubSeq(chan[q], 1, k)
<1>5. b \in Seq(Piece) /\ Begins(b, chan[q], k)
  BY <1>1, <1>2 DEF Begins
<1> HIDE DEF b
<1>6. /\ Messages(b) = SubSeq(Messages(chan[q]), 1, Count(b)) /\ Count(b) <= Count(chan[q])
      /\ Count(b) \in Nat /\ Count(chan[q]) \in Nat /\ Len(Messages(chan[q])) = Count(chan[q])
  BY <1>1, <1>2, <1>5, BeginningHolds, MessagesSeq
<1>7. Count(b) \in 0..Len(MsgChan[Promise!Peer(p)])
  BY <1>1, <1>6
<1>8. MsgChan' = [x \in Promise!Proc |-> IF x = p THEN <<>> ELSE SubSeq(MsgChan[x], 1, Count(b))]
  <2>1. MsgChan' = [x \in Proc |-> Messages(chan'[x])]
    BY DEF MsgChan
  <2>2. chan'[p] = <<>> /\ chan'[q] = b
    BY <1>1, <1>2 DEF b
  <2>3. ASSUME NEW x \in Proc
        PROVE  Messages(chan'[x]) = IF x = p THEN <<>> ELSE SubSeq(MsgChan[x], 1, Count(b))
    <3>1. CASE x = p
      BY <2>2, <3>1, NoMessages
    <3>2. CASE x = q
      BY <1>1, <1>6, <2>2, <3>2
    <3> QED  BY <1>1, <3>1, <3>2
  <2> QED  BY <1>1, <2>1, <2>3
<1>9. Promise!Halt(p)
  BY <1>3, <1>4, <1>7, <1>8 DEF Promise!Halt
<1> QED  BY <1>1, <1>9 DEF Promise!Stop

\* A write that has returned, when its message is in the stream or lost with the peer.
LEMMA WriteMaps ==
    ASSUME Inv, NEW p \in Proc, pc[p] \in Writing, AfterWrite(p),
           UNCHANGED <<size, nrepeat, whole, ret>>,
           Promise!Emit(p, Outgoing(p))
    PROVE  Promise!Next
<1>1. Types
  BY DEF Inv
<1>2. CASE pc[p] \in {"sendSize", "sendNrepeat"}
  <2>1. p = "tr" /\ j' = j /\ pc' = [pc EXCEPT ![p] = IF pc[p] = "sendSize" THEN "sendNrepeat" ELSE "alloc"]
    BY <1>1, <1>2 DEF AfterWrite, Goto, Types
  <2>2. MsgPc' = [MsgPc EXCEPT ![p] = IF pc[p] = "sendSize" THEN "sendNrepeat" ELSE "syncWrite"]
    BY <1>2, <2>1, PcMaps
  <2>3. MsgPc[p] = pc[p] /\ (pc[p] = "sendSize" => Outgoing(p) = Promise!SizeMsg(size[p]))
        /\ (pc[p] = "sendNrepeat" => Outgoing(p) = Promise!NrepeatMsg(nrepeat[p]))
    BY <1>1, <1>2, <2>1, Pending, SameNames
  <2>4. Promise!SendRepeat(p)
    <3>1. CASE pc[p] = "sendSize"
      BY <2>1, <2>2, <2>3, <3>1 DEF Promise!SendRepeat, Promise!Goto
    <3>2. CASE pc[p] = "sendNrepeat"
      BY <2>1, <2>2, <2>3, <3>2 DEF Promise!SendRepeat, Promise!Goto
    <3> QED  BY <1>2, <3>1, <3>2
  <2> QED  BY <2>4, SameNames DEF Promise!Next
<1>3. CASE pc[p] = "syncWrite"
  <2>1. j' = j /\ pc' = [pc EXCEPT ![p] = "syncRead"]
    BY <1>3 DEF AfterWrite, Goto
  <2>2. MsgPc' = [MsgPc EXCEPT ![p] = "syncRead"] /\ MsgPc[p] = "syncWrite"
    BY <1>3, <2>1, PcMaps, SameNames
  <2>3. Outgoing(p) = Promise!SyncMsg
    BY <1>1, <1>3, Pending, SameNames
  <2>4. Promise!SyncWrite(p)
    BY <2>1, <2>2, <2>3 DEF Promise!SyncWrite, Promise!Goto
  <2> QED  BY <2>4, SameNames DEF Promise!Next
<1>4. CASE pc[p] = "send"
  <2>1. Outgoing(p) = Promise!DataMsg(size[p]) /\ MsgPc[p] = "send"
    BY <1>1, <1>4, Pending, SameNames
  <2>2. Promise!SendData(p)
    <3>1. CASE p = "tr"
      <4>1. j' = j /\ pc' = [pc EXCEPT ![p] = "recv"]
        BY <1>4, <3>1 DEF AfterWrite, Goto
      <4>2. MsgPc' = [MsgPc EXCEPT ![p] = "recv"]
        BY <4>1, PcMaps
      <4> QED  BY <2>1, <3>1, <4>1, <4>2 DEF Promise!SendData, Promise!Goto
    <3>2. CASE p = "rcv"
      <4>1. j' = [j EXCEPT ![p] = @ + 1] /\ pc' = [pc EXCEPT ![p] = LoopHead(p, j[p] + 1)]
        BY <1>4, <3>2 DEF AfterWrite, Goto
      <4>2. LoopHead(p, j[p] + 1) # "alloc" /\ Promise!LoopHead(p, j[p] + 1) = LoopHead(p, j[p] + 1)
        BY SameNames
      <4>3. MsgPc' = [MsgPc EXCEPT ![p] = Promise!LoopHead(p, j[p] + 1)]
        BY <4>1, <4>2, PcMaps
      <4> QED  BY <2>1, <3>2, <4>1, <4>3 DEF Promise!SendData, Promise!Goto
    <3> QED  BY <3>1, <3>2
  <2> QED  BY <2>2, SameNames DEF Promise!Next
<1> QED  BY <1>2, <1>3, <1>4 DEF Writing

\* WriteLost is a step of PingPong that sends to a process that has ended.
LEMMA WriteLostMaps ==
    ASSUME Inv, NEW p \in Proc, WriteLost(p)
    PROVE  Promise!Next
<1>1. /\ pc[p] \in Writing /\ ~Up(Peer(p)) /\ AfterWrite(p)
      /\ UNCHANGED <<size, nrepeat, whole, ret>> /\ chan' = chan
  BY DEF WriteLost
<1>2. Promise!Emit(p, Outgoing(p))
  <2>1. ~Promise!Up(Promise!Peer(p)) /\ MsgChan' = MsgChan
    BY <1>1, SameNames, NothingMaps
  <2> QED  BY <2>1 DEF Promise!Emit
<1> QED  BY <1>1, <1>2, WriteMaps

\* The octets of a message that one write takes.
LEMMA CutOf ==
    ASSUME NEW w \in Seq(Piece), NEW o \in Nat, NEW n \in Nat, o + n <= Len(w)
    PROVE  /\ SubSeq(w, o + 1, o + n) \in Seq(Piece) /\ Len(SubSeq(w, o + 1, o + n)) = n
           /\ \A x \in 1..n : SubSeq(w, o + 1, o + n)[x] = w[o + x]
  BY SubSeqProperties

\* WriteSome is a send of PingPong when it writes the last octet, and a stutter before.
LEMMA WriteSomeMaps ==
    ASSUME Inv, NEW p \in Proc, WriteSome(p)
    PROVE  Promise!Next \/ UNCHANGED Promise!vars
<1>1. pc[p] \in Writing /\ Up(Peer(p)) /\ UNCHANGED <<size, nrepeat, whole, ret>>
  BY DEF WriteSome
<1> DEFINE L == Len(Wire(Outgoing(p)))
           q == Peer(p)
           m == Outgoing(p)
<1>2. PICK n \in 1..MinOf(Cap - Len(chan[Peer(p)]), L - off[p]) :
         /\ Puts(p, n)
         /\ IF off[p] + n = L
            THEN AfterWrite(p) /\ off' = [off EXCEPT ![p] = 0]
            ELSE off' = [off EXCEPT ![p] = @ + n] /\ UNCHANGED <<pc, j>>
  BY DEF WriteSome, WriteReturns, Puts
<1>3. Types /\ off[p] \in Nat /\ chan[q] \in Seq(Piece) /\ Len(chan[q]) \in Nat /\ q \in Proc
  BY SMTT(30) DEF Inv, Types, Peer
<1>4. Wire(m) \in Seq(Piece) /\ Len(Wire(m)) = L /\ L \in Nat
      /\ \A x \in 1..L : Wire(m)[x].idx = x /\ Wire(m)[x].of = m
  <2>1. m \in {Sz, Nr, Sy, Data(p)}
    BY <1>1, <1>3, Pending DEF Writing
  <2> QED  BY <1>3, <2>1, OctetsOf
<1>a. q = Peer(p)
  OBVIOUS
<1> HIDE DEF L, m, q
<1>5. n \in Nat /\ n > 0 /\ off[p] + n <= L
  BY <1>3, <1>4, CapAssumption, <1>a DEF MinOf
<1> DEFINE e == SubSeq(Wire(m), off[p] + 1, off[p] + n)
<1>6. e \in Seq(Piece) /\ Len(e) = n /\ \A x \in 1..n : e[x] = Wire(m)[off[p] + x]
  <2>1. off[p] + n <= Len(Wire(m)) /\ off[p] \in Nat /\ n \in Nat /\ Wire(m) \in Seq(Piece)
    BY <1>3, <1>4, <1>5
  <2> QED  BY <2>1, CutOf
<1>7. chan' = [chan EXCEPT ![q] = chan[q] \o e]
  BY <1>2, <1>a DEF Puts, m
<1> HIDE DEF e
<1>8. \A x \in 1..Len(e) : e[x].idx = off[p] + x /\ e[x].of = m
  <2> TAKE x \in 1..Len(e)
  <2>1. off[p] + x \in 1..L /\ e[x] = Wire(m)[off[p] + x]
    BY <1>3, <1>4, <1>5, <1>6
  <2> QED  BY <1>4, <2>1
<1>9. MsgChan' = [MsgChan EXCEPT ![q] = Messages(chan[q] \o e)] /\ MsgChan[q] = Messages(chan[q])
  BY <1>3, <1>7, ChanMaps, SameNames
<1>10. CASE off[p] + n = L
  <2>1. \A x \in 1..Len(e) : e[x].idx = Len(Wire(e[x].of)) <=> x = Len(e)
    BY <1>3, <1>4, <1>5, <1>6, <1>8, <1>10
  <2>2. Messages(chan[q] \o e) = Append(Messages(chan[q]), e[Len(e)].of)
    BY <1>3, <1>5, <1>6, <2>1, MessageAdded
  <2>3. e[Len(e)].of = m
    BY <1>5, <1>6, <1>8
  <2>4. MsgChan' = [MsgChan EXCEPT ![q] = Append(@, m)]
    BY <1>9, <2>2, <2>3
  <2>5. Promise!Emit(p, Outgoing(p))
    BY <1>1, <1>a, <2>4, SameNames DEF Promise!Emit, m
  <2> QED  BY <1>1, <1>2, <1>10, <2>5, WriteMaps
<1>11. CASE off[p] + n # L
  <2>1. \A x \in 1..Len(e) : e[x].idx # Len(Wire(e[x].of))
    BY <1>3, <1>4, <1>5, <1>6, <1>8, <1>11
  <2>2. Messages(chan[q] \o e) = Messages(chan[q])
    BY <1>3, <1>6, <2>1, NoMessageAdded
  <2>3. MsgChan' = MsgChan
    BY <1>9, <2>2 DEF MsgChan
  <2>4. pc' = pc /\ j' = j
    BY <1>2, <1>11
  <2> QED  BY <1>1, <2>3, <2>4, NothingMaps DEF Promise!vars
<1> QED  BY <1>10, <1>11

\* What the octets that a read takes do to the messages.
LEMMA ReadMaps ==
    ASSUME Inv, NEW p \in Proc, pc[p] \in Reading, NEW n \in ReadSizes(p), Take(p, n)
    PROVE  /\ off[p] + n < Asked(p) => MsgChan' = MsgChan
           /\ off[p] + n = Asked(p) =>
                 /\ MsgChan[p] # <<>> /\ Head(MsgChan[p]) = Incoming(p)
                 /\ MsgChan' = [MsgChan EXCEPT ![p] = Tail(@)]
<1>1. /\ n \in Nat /\ n > 0 /\ off[p] \in Nat /\ Asked(p) \in Nat /\ off[p] + n <= Asked(p)
      /\ chan[p] \in Seq(Piece) /\ Len(chan[p]) \in Nat /\ n <= Len(chan[p])
      /\ \A x \in 1..n : chan[p][x] = Wire(Incoming(p))[off[p] + x]
      /\ Rest(p, n) \in Seq(Piece) /\ Len(Rest(p, n)) = Len(chan[p]) - n
  BY ReadFacts
<1>2. Len(Wire(Incoming(p))) = Asked(p)
      /\ \A x \in 1..Asked(p) : Wire(Incoming(p))[x].idx = x /\ Wire(Incoming(p))[x].of = Incoming(p)
  <2>1. Incoming(p) \in {Sz, Nr, Sy, Data(p)} /\ Types
    BY DEF Incoming, Reading, Inv
  <2> QED  BY <2>1, OctetsOf, Pending
<1>3. \A x \in 1..n : chan[p][x].idx = off[p] + x /\ chan[p][x].of = Incoming(p)
  <2> TAKE x \in 1..n
  <2>1. off[p] + x \in 1..Asked(p)
    BY <1>1
  <2> QED  BY <1>1, <1>2, <2>1, SMTT(30)
<1>4. Drops(Rest(p, n), chan[p], n)
  <2>1. \A x \in 1..Len(Rest(p, n)) : Rest(p, n)[x] = chan[p][x + n]
    BY <1>1, SMTT(30) DEF Rest
  <2> QED  BY <1>1, <2>1 DEF Drops
<1>5. MsgChan' = [MsgChan EXCEPT ![p] = Messages(Rest(p, n))] /\ MsgChan[p] = Messages(chan[p])
  BY ChanMaps, SameNames DEF Take
<1>6. ASSUME off[p] + n < Asked(p) PROVE MsgChan' = MsgChan
  <2>1. ASSUME NEW x \in 1..n PROVE chan[p][x].idx # Len(Wire(chan[p][x].of))
    <3>1. chan[p][x].idx = off[p] + x /\ Len(Wire(chan[p][x].of)) = Asked(p)
      BY <1>2, <1>3
    <3> QED  BY <1>1, <1>6, <3>1
  <2>2. n \in 0..Len(chan[p])
    BY <1>1
  <2>3. Messages(Rest(p, n)) = Messages(chan[p])
    BY <1>1, <1>4, <2>1, <2>2, NoMessageTaken
  <2> QED  BY <1>5, <2>3 DEF MsgChan
<1>7. ASSUME off[p] + n = Asked(p)
      PROVE  /\ MsgChan[p] # <<>> /\ Head(MsgChan[p]) = Incoming(p)
             /\ MsgChan' = [MsgChan EXCEPT ![p] = Tail(@)]
  <2>1. ASSUME NEW x \in 1..n PROVE chan[p][x].idx = Len(Wire(chan[p][x].of)) <=> x = n
    <3>1. chan[p][x].idx = off[p] + x /\ Len(Wire(chan[p][x].of)) = Asked(p)
      BY <1>2, <1>3
    <3> QED  BY <1>1, <1>7, <3>1
  <2>2. n \in 1..Len(chan[p])
    BY <1>1
  <2>3. /\ Messages(chan[p]) # <<>> /\ Head(Messages(chan[p])) = chan[p][n].of
        /\ Messages(Rest(p, n)) = Tail(Messages(chan[p]))
    BY <1>1, <1>4, <2>1, <2>2, MessageTaken
  <2>4. chan[p][n].of = Incoming(p)
    BY <1>1, <1>3
  <2> QED  BY <1>5, <2>3, <2>4
<1> QED  BY <1>6, <1>7

\* The end of a turn of the loop.
LEMMA AfterMaps ==
    ASSUME Inv, NEW p \in Proc, AfterRecvData(p)
    PROVE  Promise!AfterRecvData(p)
<1>1. CASE p = "rcv"
  <2>1. j' = j /\ pc' = [pc EXCEPT ![p] = "send"]
    BY <1>1 DEF AfterRecvData, Goto
  <2>2. MsgPc' = [MsgPc EXCEPT ![p] = "send"]
    BY <2>1, PcMaps
  <2> QED  BY <1>1, <2>1, <2>2 DEF Promise!AfterRecvData, Promise!Goto
<1>2. CASE p = "tr"
  <2>1. j' = [j EXCEPT ![p] = @ + 1] /\ pc' = [pc EXCEPT ![p] = LoopHead(p, j[p] + 1)]
    BY <1>2 DEF AfterRecvData, Goto
  <2>2. LoopHead(p, j[p] + 1) # "alloc" /\ Promise!LoopHead(p, j[p] + 1) = LoopHead(p, j[p] + 1)
    BY SameNames
  <2>3. MsgPc' = [MsgPc EXCEPT ![p] = Promise!LoopHead(p, j[p] + 1)]
    BY <2>1, <2>2, PcMaps
  <2> QED  BY <1>2, <2>1, <2>3 DEF Promise!AfterRecvData, Promise!Goto
<1> QED  BY <1>1, <1>2

\* RecvRepeat, Sync and RecvData.
LEMMA ReadStepsMap ==
    ASSUME Inv, NEW p \in Proc, RecvRepeat(p) \/ SyncRead(p) \/ RecvData(p)
    PROVE  Promise!Next \/ UNCHANGED Promise!vars
<1>1. Types /\ Promise!Proc = Proc
  BY SameNames DEF Inv
<1>2. ASSUME NEW n \in ReadSizes(p), ReadMore(p, n), pc[p] \in Reading
      PROVE  UNCHANGED Promise!vars
  <2>1. MsgChan' = MsgChan
    BY <1>2, ReadMaps DEF ReadMore
  <2> QED  BY <1>2, <2>1, NothingMaps DEF ReadMore, locals, Promise!vars
<1>3. ASSUME NEW n \in ReadSizes(p), Take(p, n), off[p] + n = Asked(p), pc[p] \in Reading
      PROVE  Promise!Consume(p) /\ Head(MsgChan[p]) = Incoming(p)
  BY <1>3, ReadMaps DEF Promise!Consume
<1>4. CASE RecvRepeat(p)
  <2>1. p = "rcv" /\ pc[p] \in Reading /\ MsgPc[p] = pc[p]
    BY <1>1, <1>4, SameNames DEF RecvRepeat, Types, Reading
  <2>2. PICK n \in ReadSizes(p) :
          \/ ReadMore(p, n)
          \/ /\ pc[p] = "recvSize"
             /\ ReadDone(p, n)
             /\ size' = [size EXCEPT ![p] = Ntohl(Filled(p, n))]
             /\ Goto(p, "recvNrepeat")
             /\ UNCHANGED <<nrepeat, j, whole, rbuf, rst, code, ret>>
          \/ /\ pc[p] = "recvNrepeat"
             /\ ReadDone(p, n)
             /\ nrepeat' = [nrepeat EXCEPT ![p] = Ntohl(Filled(p, n))]
             /\ Goto(p, IF size[p] = 0 THEN "exitSignal" ELSE "alloc")
             /\ UNCHANGED <<size, j, whole, rbuf, rst, code, ret>>
    BY <1>4 DEF RecvRepeat
  <2>3. ASSUME ReadDone(p, n), pc[p] \in {"recvSize", "recvNrepeat"}
        PROVE  Promise!Consume(p) /\ Ntohl(Filled(p, n)) = Head(MsgChan[p]).v
    <3>1. Take(p, n) /\ off[p] + n = Asked(p)
      BY <2>3 DEF ReadDone
    <3>2. Ntohl(Filled(p, n)) = Incoming(p).v
      BY <2>1, <2>3, <3>1, CountRead
    <3> QED  BY <1>3, <2>1, <3>1, <3>2
  <2>4. CASE /\ pc[p] = "recvSize" /\ ReadDone(p, n) /\ size' = [size EXCEPT ![p] = Ntohl(Filled(p, n))]
             /\ Goto(p, "recvNrepeat") /\ UNCHANGED <<nrepeat, j, whole, rbuf, rst, code, ret>>
    <3>1. MsgPc' = [MsgPc EXCEPT ![p] = "recvNrepeat"]
      BY <2>4, PcMaps DEF Goto
    <3>2. Promise!RecvSize(p)
      BY <2>1, <2>3, <2>4, <3>1 DEF Promise!RecvSize, Promise!Goto
    <3> QED  BY <1>1, <3>2 DEF Promise!Next
  <2>5. CASE /\ pc[p] = "recvNrepeat" /\ ReadDone(p, n) /\ nrepeat' = [nrepeat EXCEPT ![p] = Ntohl(Filled(p, n))]
             /\ Goto(p, IF size[p] = 0 THEN "exitSignal" ELSE "alloc") /\ UNCHANGED <<size, j, whole, rbuf, rst, code, ret>>
    <3>1. MsgPc' = [MsgPc EXCEPT ![p] = IF size[p] = 0 THEN "exitSignal" ELSE "syncWrite"]
      BY <2>5, PcMaps DEF Goto
    <3>2. Promise!RecvNrepeat(p)
      BY <2>1, <2>3, <2>5, <3>1 DEF Promise!RecvNrepeat, Promise!Goto
    <3> QED  BY <1>1, <3>2 DEF Promise!Next
  <2> QED  BY <1>2, <2>1, <2>2, <2>4, <2>5
<1>5. CASE SyncRead(p)
  <2>1. pc[p] = "syncRead" /\ pc[p] \in Reading /\ MsgPc[p] = "syncRead"
    BY <1>5, SameNames DEF SyncRead, Reading
  <2>2. PICK n \in ReadSizes(p) :
          \/ ReadMore(p, n)
          \/ /\ ReadDone(p, n)
             /\ Goto(p, LoopHead(p, 0))
             /\ UNCHANGED <<rst, code, locals>>
          \/ off[p] + n = Asked(p) /\ Filled(p, n) # SyncStr
    BY <1>5 DEF SyncRead
  <2>3. CASE ReadDone(p, n) /\ Goto(p, LoopHead(p, 0)) /\ UNCHANGED <<rst, code, locals>>
    <3>1. Promise!Consume(p)
      BY <1>3, <2>1, <2>3 DEF ReadDone
    <3>2. LoopHead(p, 0) # "alloc" /\ Promise!LoopHead(p, 0) = LoopHead(p, 0)
      BY SameNames
    <3>3. MsgPc' = [MsgPc EXCEPT ![p] = Promise!LoopHead(p, 0)]
      BY <2>3, <3>2, PcMaps DEF Goto
    <3>4. Promise!SyncRead(p)
      BY <2>1, <2>3, <3>1, <3>3 DEF Promise!SyncRead, Promise!Goto, locals
    <3> QED  BY <1>1, <3>4 DEF Promise!Next
  <2> QED  BY <1>2, <2>1, <2>2, <2>3, SyncMatches
<1>6. CASE RecvData(p)
  <2>1. pc[p] = "recv" /\ pc[p] \in Reading /\ MsgPc[p] = "recv"
    BY <1>6, SameNames DEF RecvData, Reading
  <2>2. PICK n \in ReadSizes(p) :
          /\ Take(p, n)
          /\ UNCHANGED <<size, nrepeat, ret>>
          /\ \/ off[p] + n < Asked(p) /\ UNCHANGED <<pc, j, whole>>
             \/ off[p] + n = Asked(p) /\ whole' = [whole EXCEPT ![p] = @ + 1] /\ AfterRecvData(p)
    BY <1>6 DEF RecvData
  <2>3. CASE off[p] + n < Asked(p) /\ UNCHANGED <<pc, j, whole>>
    <3>1. MsgChan' = MsgChan
      BY <2>1, <2>2, <2>3, ReadMaps
    <3> QED  BY <2>2, <2>3, <3>1, NothingMaps DEF Promise!vars
  <2>4. CASE off[p] + n = Asked(p) /\ whole' = [whole EXCEPT ![p] = @ + 1] /\ AfterRecvData(p)
    <3>1. Promise!Consume(p)
      BY <1>3, <2>1, <2>2, <2>4
    <3>2. Promise!AfterRecvData(p)
      BY <2>4, AfterMaps
    <3>3. Promise!RecvData(p)
      BY <2>1, <2>2, <2>4, <3>1, <3>2 DEF Promise!RecvData
    <3> QED  BY <1>1, <3>3 DEF Promise!Next
  <2> QED  BY <2>2, <2>3, <2>4
<1> QED  BY <1>4, <1>5, <1>6

\* Every step of the byte streams is a step of the message exchange, or none.
LEMMA StepMaps ==
    ASSUME ~RcvPassesArgs, Inv, [Next]_vars
    PROVE  [Promise!Next]_(Promise!vars)
<1>1. Promise!Proc = Proc
  BY SameNames
<1>2. ASSUME NEW p \in Proc, Step(p) \/ Killed(p) \/ AllocFails(p)
      PROVE  Promise!Next \/ UNCHANGED Promise!vars
  <2>1. CASE Up(p) /\ \E c \in {0, 1, 3, 137, 139, 255, 304, 305, 306, 401} : Exit(p, c)
    <3>1. Promise!Stop(p)
      BY <2>1, CloseMaps DEF Exit
    <3> QED  BY <1>1, <3>1 DEF Promise!Next
  <2>2. CASE Call(p)
    <3> DEFINE l == IF p = "tr" THEN "sendSize" ELSE "recvSize"
    <3>1. pc[p] = "idle" /\ pc' = [pc EXCEPT ![p] = l] /\ chan' = chan
      BY <2>2 DEF Call, Goto
    <3>2. MsgPc[p] = "idle" /\ MsgPc' = [MsgPc EXCEPT ![p] = l] /\ MsgChan' = MsgChan
      BY <3>1, PcMaps, SameNames, NothingMaps
    <3>3. Promise!Call(p)
      BY <2>2, <3>2 DEF Call, Promise!Call, Promise!Goto
    <3> QED  BY <1>1, <3>3 DEF Promise!Next
  <2>3. CASE Alloc(p)
    <3>1. pc[p] = "alloc" /\ pc' = [pc EXCEPT ![p] = "syncWrite"]
          /\ UNCHANGED <<size, nrepeat, j, whole, chan, ret>>
      BY <2>3 DEF Alloc, Goto
    <3>2. MsgPc' = [MsgPc EXCEPT ![p] = "syncWrite"] /\ MsgPc[p] = "syncWrite" /\ MsgChan' = MsgChan
      BY <3>1, PcMaps, SameNames, NothingMaps
    <3>3. MsgPc' = MsgPc
      BY <3>2 DEF MsgPc
    <3> QED  BY <3>1, <3>2, <3>3 DEF Promise!vars
  <2>4. CASE Return(p)
    <3>1. pc[p] = "check" /\ pc' = [pc EXCEPT ![p] = "idle"] /\ chan' = chan
      BY <2>4 DEF Return, Goto
    <3>2. MsgPc[p] = "check" /\ MsgPc' = [MsgPc EXCEPT ![p] = "idle"] /\ MsgChan' = MsgChan
      BY <3>1, PcMaps, SameNames, NothingMaps
    <3>3. Promise!Return(p)
      BY <2>4, <3>2 DEF Return, Promise!Return, Promise!Goto
    <3> QED  BY <1>1, <3>3 DEF Promise!Next
  <2>5. CASE WriteSome(p) \/ WriteLost(p)
    BY <2>5, WriteSomeMaps, WriteLostMaps
  <2>6. CASE RecvRepeat(p) \/ SyncRead(p) \/ RecvData(p)
    BY <2>6, ReadStepsMap
  <2>7. CASE /\ NothingLeft(p) /\ pc[p] = "recv" /\ AfterRecvData(p)
             /\ UNCHANGED <<size, nrepeat, whole, got, rbuf, chan, rst, code, ret>>
    <3>1. MsgPc[p] = "recv" /\ MsgChan' = MsgChan /\ MsgChan[p] = <<>> /\ ~Promise!Up(Promise!Peer(p))
      BY <2>7, SameNames, NothingMaps, NoMessages DEF NothingLeft
    <3>2. Promise!AfterRecvData(p)
      BY <2>7, AfterMaps
    <3>3. Promise!RecvDataEOF(p)
      BY <2>7, <3>1, <3>2 DEF Promise!RecvDataEOF
    <3> QED  BY <1>1, <3>3 DEF Promise!Next
  <2> QED  BY <1>2, <2>1, <2>2, <2>3, <2>4, <2>5, <2>6, <2>7, StepKinds
<1>3. CASE UNCHANGED vars
  <2>1. UNCHANGED <<pc, size, nrepeat, j, whole, chan, ret>>
    BY <1>3 DEF vars
  <2> QED  BY <2>1, NothingMaps DEF Promise!vars
<1> QED  BY <1>2, <1>3 DEF Next, Terminated

\* The mapping starts where PingPong starts.
LEMMA StartMaps == Init => Promise!Init
<1> SUFFICES ASSUME Init PROVE Promise!Init
  OBVIOUS
<1>1. MsgPc = [p \in Proc |-> "idle"]
  BY DEF Init, MsgPc
<1>2. MsgChan = [p \in Proc |-> <<>>]
  BY NoMessages DEF Init, MsgChan
<1> QED  BY <1>1, <1>2 DEF Init, Promise!Init, Promise!Proc

\* tcp.c keeps PingPong's promise: whatever read and write cut the streams into, whichever
\* process ends and wherever, what run_iters does over tcp.c is what it does over whole
\* messages, of which a write that is lost with the peer is one (SendData, RecvData, Sync,
\* SendRepeat, RecvRepeat).
THEOREM MessagesExchanged == ~RcvPassesArgs /\ Spec => PromiseKept
<1> SUFFICES ASSUME ~RcvPassesArgs PROVE Spec => PromiseKept
  OBVIOUS
<1>1. Inv /\ [Next]_vars => [Promise!Next]_(Promise!vars)
  BY StepMaps
<1> QED  BY <1>1, StartMaps, Invariant, PTL DEF Spec, PromiseKept, Promise!Spec
=============================================================================
