------------------------------- MODULE TcpRun -------------------------------
(***************************************************************************)
(* netpipe_run_iters (src/src/netpipe.c) on top of the TCP module           *)
(* (src/src/tcp.c): the two processes of a measurement, the two byte        *)
(* streams between them, and everything the socket calls may do, which is   *)
(* transfer a part of what was asked, block, report the end of file, swallow *)
(* a write or fail.                                                         *)
(*                                                                          *)
(* A read or a write is a loop of transfers: off[p] octets of the pending   *)
(* call are through, and the call returns with the last one.  The local     *)
(* computation up to the next socket call belongs to the same step.         *)
(***************************************************************************)
EXTENDS Integers, Sequences, FiniteSets

CONSTANTS
    Requests,       \* the pairs <<size in bits, nrepeat>> a script may pass
    MaxCalls,       \* bound on the calls the transmitter's script makes
    Cap,            \* octets that fit in the socket buffers of one direction
    Mortal,         \* the processes that may be killed or run out of memory
    RcvPassesArgs   \* whether the receiver's script passes size and nrepeat too

Proc == {"tr", "rcv"}

\* What is left of v without its least significant octet.
High(v) == v \div 256

\* size and nrepeat are of type uint32_t.
ASSUME RequestsAssumption ==
    /\ Requests \subseteq Nat \X Nat
    /\ \A r \in Requests : High(High(High(r[1]))) < 256 /\ High(High(High(r[2]))) < 256
ASSUME MaxCallsAssumption == MaxCalls \in Nat
\* Both sides write the synchronization string before either reads it.
ASSUME CapAssumption == Cap \in Nat /\ Cap >= 6
ASSUME MortalAssumption == Mortal \subseteq Proc
ASSUME RcvPassesArgsAssumption == RcvPassesArgs \in BOOLEAN

VARIABLES
    pc,        \* pc[p]: the library call of run_iters that p is in
    size,      \* size[p], nrepeat[p], j[p]: the local variables of run_iters
    nrepeat,
    j,
    whole,     \* whole[p]: calls of RecvData that got every octet, in this run_iters
    off,       \* off[p]: octets the pending read or write has transferred
    got,       \* got[p]: what the pending readFully has put in its buffer
    rbuf,      \* rbuf[p]: r_buff; 0 is the initial 'a' octet, k the peer's k-th 'b' octet
    chan,      \* chan[p]: the octets on their way to p
    rst,       \* rst[p]: the connection has been reset under p
    code,      \* code[p]: exit status of p, -2 while it runs
    ret        \* ret[p]: what run_iters returned to p's script, call by call

vars == <<pc, size, nrepeat, j, whole, off, got, rbuf, chan, rst, code, ret>>

Peer(p) == IF p = "tr" THEN "rcv" ELSE "tr"

Labels == {"idle", "sendSize", "sendNrepeat", "recvSize", "recvNrepeat", "alloc",
           "exitSignal",
           "syncWrite", "syncRead", "send", "recv", "check", "stopped"}

Writing == {"sendSize", "sendNrepeat", "syncWrite", "send"}
Reading == {"recvSize", "recvNrepeat", "syncRead", "recv"}

Up(p) == pc[p] # "stopped"

MinOf(a, b) == IF a < b THEN a ELSE b

-----------------------------------------------------------------------------
(* Octets and messages *)

SizeofInt == 4
SyncStr == <<83, 121, 110, 99, 77, 101>>     \* "SyncMe"

\* bytes = size / 8; if (size % 8) bytes = bytes + 1
Bytes(sz) == IF sz % 8 = 0 THEN sz \div 8 ELSE sz \div 8 + 1

\* htonl: most significant octet first.  ntohl undoes it.
Htonl(v) == <<High(High(High(v))) % 256, High(High(v)) % 256, High(v) % 256, v % 256>>
Ntohl(s) == ((s[1] * 256 + s[2]) * 256 + s[3]) * 256 + s[4]

\* The octets of one call's message, each with the message it belongs to and its
\* place in it.  The code sees oct only; the k-th octet of the 'b' pattern is k.
Wire(m) ==
    LET octs == CASE m.t \in {"size", "nrepeat"} -> Htonl(m.v)
                  [] m.t = "sync" -> SyncStr
                  [] m.t = "data" -> [i \in 1..m.v |-> i]
    IN  [i \in DOMAIN octs |-> [of |-> m, idx |-> i, oct |-> octs[i]]]

\* The message the pending write of p is about.
Outgoing(p) ==
    CASE pc[p] = "sendSize"    -> [t |-> "size", v |-> size[p]]
      [] pc[p] = "sendNrepeat" -> [t |-> "nrepeat", v |-> nrepeat[p]]
      [] pc[p] = "syncWrite"   -> [t |-> "sync", v |-> 0]
      [] pc[p] = "send"        -> [t |-> "data", v |-> Bytes(size[p])]

\* The number of octets the pending read of p asks for.
Asked(p) ==
    CASE pc[p] \in {"recvSize", "recvNrepeat"} -> SizeofInt
      [] pc[p] = "syncRead" -> Len(SyncStr)
      [] pc[p] = "recv" -> Bytes(size[p])

-----------------------------------------------------------------------------

\* Setup has connected the two sockets.
Init ==
    /\ pc = [p \in Proc |-> "idle"]
    /\ size = [p \in Proc |-> 0]
    /\ nrepeat = [p \in Proc |-> 0]
    /\ j = [p \in Proc |-> 0]
    /\ whole = [p \in Proc |-> 0]
    /\ off = [p \in Proc |-> 0]
    /\ got = [p \in Proc |-> <<>>]
    /\ rbuf = [p \in Proc |-> <<>>]
    /\ chan = [p \in Proc |-> <<>>]
    /\ rst = [p \in Proc |-> FALSE]
    /\ code = [p \in Proc |-> -2]
    /\ ret = [p \in Proc |-> <<>>]

locals == <<size, nrepeat, j, whole, rbuf, ret>>

Goto(p, l) == pc' = [pc EXCEPT ![p] = l]

\* Process p ends with status c, leaving the octets of rest unread, and the kernel
\* closes its socket.  Closing with unread octets resets the connection, and the
\* tail of what p wrote may be lost.
Close(p, c, rest) ==
    /\ Goto(p, "stopped")
    /\ code' = [code EXCEPT ![p] = c]
    /\ \E k \in 0..Len(chan[Peer(p)]) :
          /\ rest = <<>> => k = Len(chan[Peer(p)])
          /\ chan' = [q \in Proc |-> IF q = p THEN <<>> ELSE SubSeq(chan[q], 1, k)]
    /\ rst' = [rst EXCEPT ![Peer(p)] = @ \/ rest # <<>>]
    /\ off' = [off EXCEPT ![p] = 0]
    /\ got' = [got EXCEPT ![p] = <<>>]
    /\ UNCHANGED locals

Exit(p, c) == Close(p, c, chan[p])

\* for (j = 0; j < nrepeat; j++): the next turn of the loop, or what follows it.
LoopHead(p, jj) ==
    IF jj < nrepeat[p] THEN (IF p = "tr" THEN "send" ELSE "recv") ELSE "check"

\* The script calls run_iters.  Without arguments the receiver asks the peer; with
\* arguments it takes them as they are.
Call(p) ==
    /\ pc[p] = "idle"
    /\ IF p = "tr" \/ RcvPassesArgs
       THEN /\ Len(ret[p]) < MaxCalls
            /\ \E r \in Requests : /\ size' = [size EXCEPT ![p] = r[1]]
                                   /\ nrepeat' = [nrepeat EXCEPT ![p] = r[2]]
            /\ Goto(p, IF p = "tr" THEN "sendSize" ELSE "alloc")
       ELSE /\ UNCHANGED <<size, nrepeat>>
            /\ Goto(p, "recvSize")
    /\ j' = [j EXCEPT ![p] = 0]
    /\ whole' = [whole EXCEPT ![p] = 0]
    /\ UNCHANGED <<off, got, rbuf, chan, rst, code, ret>>

\* MyMalloc, InitBufferData (r_buff holds the 'a' pattern, s_buff the 'b' pattern);
\* AfterAlignmentInit and PrepareToReceive do nothing in the TCP module.
Alloc(p) ==
    /\ pc[p] = "alloc"
    /\ rbuf' = [rbuf EXCEPT ![p] = [i \in 1..Bytes(size[p]) |-> 0]]
    /\ Goto(p, "syncWrite")
    /\ UNCHANGED <<size, nrepeat, j, whole, off, got, chan, rst, code, ret>>

-----------------------------------------------------------------------------
(* Writes: SendRepeat, the first half of Sync, SendData *)

\* Variant of AfterWrite in which Sync does not wait for the peer's string.
AfterWriteNoWait(p) ==
    \/ /\ pc[p] # "send" \/ p = "tr"
       /\ Goto(p, CASE pc[p] = "sendSize" -> "sendNrepeat"
                    [] pc[p] = "sendNrepeat" -> "alloc"
                    [] pc[p] = "syncWrite" -> LoopHead(p, 0)
                    [] pc[p] = "send" -> "recv")
       /\ UNCHANGED j
    \/ /\ pc[p] = "send" /\ p = "rcv"
       /\ j' = [j EXCEPT ![p] = @ + 1]
       /\ Goto(p, LoopHead(p, j[p] + 1))

\* Where p goes on when its write has returned; bouncing the message back ends
\* the receiver's turn of the loop.
AfterWrite(p) ==
    \/ /\ pc[p] # "send" \/ p = "tr"
       /\ Goto(p, CASE pc[p] = "sendSize" -> "sendNrepeat"
                    [] pc[p] = "sendNrepeat" -> "alloc"
                    [] pc[p] = "syncWrite" -> "syncRead"
                    [] pc[p] = "send" -> "recv")
       /\ UNCHANGED j
    \/ /\ pc[p] = "send" /\ p = "rcv"
       /\ j' = [j EXCEPT ![p] = @ + 1]
       /\ Goto(p, LoopHead(p, j[p] + 1))

\* Variant of WriteReturns: one write() per message, whatever it transfers.
WriteReturnsShort(done, length) == done > 0

\* while (bytesLeft > 0 && write() > 0)
WriteReturns(done, length) == done = length

\* The kernel takes as many octets as there is room for; a blocking write goes on
\* until it has taken all of them, and the loop of SendData does the same.
WriteSome(p) ==
    /\ pc[p] \in Writing
    /\ Up(Peer(p))
    /\ LET m == Wire(Outgoing(p)) IN
       \E n \in 1..MinOf(Cap - Len(chan[Peer(p)]), Len(m) - off[p]) :
          /\ chan' = [chan EXCEPT ![Peer(p)] = @ \o SubSeq(m, off[p] + 1, off[p] + n)]
          /\ IF WriteReturns(off[p] + n, Len(m))
             THEN AfterWrite(p) /\ off' = [off EXCEPT ![p] = 0]
             ELSE off' = [off EXCEPT ![p] = @ + n] /\ UNCHANGED <<pc, j>>
    /\ UNCHANGED <<size, nrepeat, whole, got, rbuf, rst, code, ret>>

\* The peer has closed its socket.  The octets are accepted and lost, and the
\* peer's kernel answers with a reset.
WriteLost(p) ==
    /\ pc[p] \in Writing
    /\ ~Up(Peer(p))
    /\ AfterWrite(p)
    /\ off' = [off EXCEPT ![p] = 0]
    /\ rst' = [rst EXCEPT ![p] = TRUE]
    /\ UNCHANGED <<size, nrepeat, whole, got, rbuf, chan, code, ret>>

\* The write fails on a reset connection: exit(304) in SendRepeat, exit(3) in
\* Sync, exit(401) in SendData.
WriteFails(p) ==
    /\ pc[p] \in Writing
    /\ rst[p]
    /\ Exit(p, CASE pc[p] \in {"sendSize", "sendNrepeat"} -> 304
                 [] pc[p] = "syncWrite" -> 3
                 [] pc[p] = "send" -> 401)

-----------------------------------------------------------------------------
(* Reads: RecvRepeat, the second half of Sync, RecvData *)

\* The octets that have arrived and not been read when n more have been taken.
Rest(p, n) == SubSeq(chan[p], n + 1, Len(chan[p]))

\* One read(2) that finds octets: it returns n of the ones that have arrived.
ReadSizes(p) == 1..MinOf(Len(chan[p]), Asked(p) - off[p])
Take(p, n)   == chan' = [chan EXCEPT ![p] = Rest(p, n)]

\* The buffer of the pending readFully once n more octets are in it.
Filled(p, n) == got[p] \o [i \in 1..n |-> chan[p][i].oct]

\* readFully goes round its loop.
ReadMore(p, n) ==
    /\ off[p] + n < Asked(p)
    /\ Take(p, n)
    /\ off' = [off EXCEPT ![p] = @ + n]
    /\ got' = [got EXCEPT ![p] = Filled(p, n)]
    /\ UNCHANGED <<pc, rst, code, locals>>

\* Variant of ReadDone that leaves the buffer as it is for the next call.
ReadDoneKeeps(p, n) ==
    /\ off[p] + n = Asked(p)
    /\ Take(p, n)
    /\ off' = [off EXCEPT ![p] = 0]
    /\ got' = [got EXCEPT ![p] = Filled(p, n)]

\* readFully returns its whole length.
ReadDone(p, n) ==
    /\ off[p] + n = Asked(p)
    /\ Take(p, n)
    /\ off' = [off EXCEPT ![p] = 0]
    /\ got' = [got EXCEPT ![p] = <<>>]

\* The first call yields size, the second nrepeat; with size 0 run_iters then takes
\* its early return.
RecvRepeat(p) ==
    /\ pc[p] \in {"recvSize", "recvNrepeat"}
    /\ \E n \in ReadSizes(p) :
          \/ ReadMore(p, n)
          \/ /\ pc[p] = "recvSize"
             /\ ReadDone(p, n)
             /\ size' = [size EXCEPT ![p] = Ntohl(Filled(p, n))]
             /\ Goto(p, "recvNrepeat")
             /\ UNCHANGED <<nrepeat, j, whole, rbuf, rst, code, ret>>
          \/ /\ pc[p] = "recvNrepeat"
             /\ ReadDone(p, n)
             /\ nrepeat' = [nrepeat EXCEPT ![p] = Ntohl(Filled(p, n))]
             /\ Goto(p, IF size[p] = 0 THEN "exitSignal" ELSE "alloc")
             /\ UNCHANGED <<size, j, whole, rbuf, rst, code, ret>>

\* Variant of SyncRead with read() in the place of readFully().
SyncReadOnce(p) ==
    /\ pc[p] = "syncRead"
    /\ \E n \in ReadSizes(p) :
          \/ /\ Filled(p, n) = SyncStr
             /\ ReadDone(p, n)
             /\ Goto(p, LoopHead(p, 0))
             /\ UNCHANGED <<rst, code, locals>>
          \/ /\ Filled(p, n) # SyncStr
             /\ Close(p, 3, Rest(p, n))

\* The response is compared with the string once it is complete.
SyncRead(p) ==
    /\ pc[p] = "syncRead"
    /\ \E n \in ReadSizes(p) :
          \/ ReadMore(p, n)
          \/ /\ Filled(p, n) = SyncStr
             /\ ReadDone(p, n)
             /\ Goto(p, LoopHead(p, 0))
             /\ UNCHANGED <<rst, code, locals>>
          \/ /\ off[p] + n = Asked(p)
             /\ Filled(p, n) # SyncStr
             /\ Close(p, 3, Rest(p, n))

\* What follows RecvData: the receiver bounces the message, the transmitter's turn
\* of the loop is over.
AfterRecvData(p) ==
    \/ p = "rcv" /\ Goto(p, "send") /\ UNCHANGED j
    \/ /\ p = "tr"
       /\ j' = [j EXCEPT ![p] = @ + 1]
       /\ Goto(p, LoopHead(p, j[p] + 1))

\* Variant of Stored in which q does not move.
StoredAtStart(p, n) ==
    [i \in DOMAIN rbuf[p] |-> IF i \in 1..n THEN chan[p][i].oct ELSE rbuf[p][i]]

\* read() stores at q, and q moves on by what was read.
Stored(p, n) ==
    [i \in DOMAIN rbuf[p] |->
        IF i \in off[p] + 1 .. off[p] + n THEN chan[p][i - off[p]].oct ELSE rbuf[p][i]]

RecvData(p) ==
    /\ pc[p] = "recv"
    /\ \E n \in ReadSizes(p) :
          /\ Take(p, n)
          /\ rbuf' = [rbuf EXCEPT ![p] = Stored(p, n)]
          /\ \/ /\ off[p] + n < Asked(p)
                /\ off' = [off EXCEPT ![p] = @ + n]
                /\ UNCHANGED <<pc, j, whole>>
             \/ /\ off[p] + n = Asked(p)
                /\ off' = [off EXCEPT ![p] = 0]
                /\ whole' = [whole EXCEPT ![p] = @ + 1]
                /\ AfterRecvData(p)
    /\ UNCHANGED <<size, nrepeat, got, rst, code, ret>>

\* The peer has closed its socket and nothing is left to read.
NothingLeft(p) == ~Up(Peer(p)) /\ chan[p] = <<>>

\* Variants of EndOfFile: RecvData, or RecvRepeat, tries again.
EofRetriedInRecvData(p) ==
    /\ NothingLeft(p)
    /\ \/ pc[p] \in {"recvSize", "recvNrepeat"} /\ Exit(p, 306)
       \/ pc[p] = "syncRead" /\ Exit(p, 3)
       \/ pc[p] = "recv" /\ UNCHANGED vars

EofRetriedInRecvRepeat(p) ==
    /\ NothingLeft(p)
    /\ \/ pc[p] \in {"recvSize", "recvNrepeat"} /\ UNCHANGED vars
       \/ pc[p] = "syncRead" /\ Exit(p, 3)
       \/ /\ pc[p] = "recv"
          /\ AfterRecvData(p)
          /\ off' = [off EXCEPT ![p] = 0]
          /\ UNCHANGED <<size, nrepeat, whole, got, rbuf, chan, rst, code, ret>>

\* read() returns 0.  readFully returns 0, which RecvRepeat takes for a partial
\* read and Sync for a wrong string; RecvData prints a line and returns.
EndOfFile(p) ==
    /\ NothingLeft(p)
    /\ \/ pc[p] \in {"recvSize", "recvNrepeat"} /\ Exit(p, 306)
       \/ pc[p] = "syncRead" /\ Exit(p, 3)
       \/ /\ pc[p] = "recv"
          /\ AfterRecvData(p)
          /\ off' = [off EXCEPT ![p] = 0]
          /\ UNCHANGED <<size, nrepeat, whole, got, rbuf, chan, rst, code, ret>>

\* read() returns -1.
ReadFails(p) ==
    /\ NothingLeft(p)
    /\ rst[p]
    /\ pc[p] \in Reading
    /\ Exit(p, CASE pc[p] \in {"recvSize", "recvNrepeat"} -> 305
                 [] pc[p] = "syncRead" -> 3
                 [] pc[p] = "recv" -> 401)

-----------------------------------------------------------------------------

\* CheckBufferData (which only prints), FreeBuff and the result tuple.
Return(p) ==
    /\ pc[p] = "check"
    /\ ret' = [ret EXCEPT ![p] = Append(@, [size |-> size[p], nrepeat |-> nrepeat[p],
                                            full |-> whole[p] = nrepeat[p]])]
    /\ rbuf' = [rbuf EXCEPT ![p] = <<>>]
    /\ Goto(p, "idle")
    /\ UNCHANGED <<size, nrepeat, j, whole, off, got, chan, rst, code>>

\* The early return on size 0 evaluates Py_BuildValue("None"): 'N' takes a
\* PyObject pointer that was never passed, 'o' is no format character.  The
\* script sees a SystemError (status 1) or the process dies on the pointer (139).
ExitSignal(p) ==
    /\ pc[p] = "exitSignal"
    /\ \E c \in {1, 139} : Exit(p, c)

\* The script is over and the object is dropped with its socket.  NPtcp-local leaves its
\* loop by an exception or goes on to "sock.send", where sock is no name; the scripts of
\* tests/, which pass arguments on both sides, come to their end.
ScriptEnds(p) ==
    /\ pc[p] = "idle"
    /\ p = "tr" \/ RcvPassesArgs
    /\ Exit(p, IF RcvPassesArgs THEN 0 ELSE 1)

\* The process is killed at any point.
Killed(p) ==
    /\ p \in Mortal
    /\ Up(p)
    /\ Exit(p, 137)

\* MyMalloc gives up with exit(-1).
AllocFails(p) ==
    /\ p \in Mortal
    /\ pc[p] = "alloc"
    /\ Exit(p, 255)

Terminated ==
    /\ \A p \in Proc : ~Up(p)
    /\ UNCHANGED vars

\* The steps of a process that goes on running.
Step(p) ==
    \/ Call(p) \/ Alloc(p) \/ WriteSome(p) \/ WriteLost(p) \/ WriteFails(p)
    \/ RecvRepeat(p) \/ SyncRead(p) \/ RecvData(p) \/ EndOfFile(p) \/ ReadFails(p)
    \/ Return(p) \/ ExitSignal(p) \/ ScriptEnds(p)

Next ==
    \/ \E p \in Proc : Step(p) \/ Killed(p) \/ AllocFails(p)
    \/ Terminated

Spec == Init /\ [][Next]_vars

\* A process that can run is scheduled, and TCP delivers what it has accepted.
FairSpec == Spec /\ \A p \in Proc : WF_vars(Step(p))

-----------------------------------------------------------------------------

Octet == 0..255

TypeOK ==
    /\ pc \in [Proc -> Labels]
    /\ size \in [Proc -> Nat]
    /\ nrepeat \in [Proc -> Nat]
    /\ j \in [Proc -> Nat]
    /\ whole \in [Proc -> Nat]
    /\ off \in [Proc -> Nat]
    /\ \A p \in Proc : pc[p] \in Reading => off[p] < Asked(p)
    /\ \A p \in Proc : pc[p] \in Writing => off[p] < Len(Wire(Outgoing(p)))
    /\ \A p \in Proc : got[p] \in Seq(Octet) /\ Len(got[p]) < Len(SyncStr)
    /\ \A p \in Proc : Len(chan[p]) <= Cap
    /\ rst \in [Proc -> BOOLEAN]
    /\ code \in [Proc -> {-2, 0, 1, 3, 137, 139, 255, 304, 305, 306, 401}]
    /\ \A p \in Proc : Up(p) <=> code[p] = -2

BothUp == \A p \in Proc : Up(p)

\* The message a byte of the stream belongs to is the one the pending read is
\* after, and the read is at the same place in it: no octet of a repeat count,
\* of the synchronization string or of the data is ever taken for another.
OctetsAligned ==
    \A p \in Proc : pc[p] \in Reading /\ chan[p] # <<>> =>
        LET b == Head(chan[p]) IN
        /\ b.idx = off[p] + 1
        /\ b.of.t = CASE pc[p] = "recvSize" -> "size"
                      [] pc[p] = "recvNrepeat" -> "nrepeat"
                      [] pc[p] = "syncRead" -> "sync"
                      [] pc[p] = "recv" -> "data"
        /\ Len(Wire(b.of)) = Asked(p)

\* When CheckBufferData looks at r_buff every octet is the peer's 'b' pattern at
\* its own place, however read() cut the messages up; the 'a' pattern is gone.
\* (A peer that stopped in the loop may leave anything.)
BufferIntact ==
    \A p \in Proc : pc[p] = "check" /\ whole[p] = nrepeat[p] /\ nrepeat[p] > 0 =>
        \A i \in 1..Bytes(size[p]) : rbuf[p][i] = i

\* Sync fails (exit 3) only when the other side is gone.
SyncFailsOnlyAlone ==
    [][\A p \in Proc : code'[p] = 3 /\ code[p] # 3 => ~Up(Peer(p))]_vars

\* run_iters always comes back: it returns to the script or ends the process.
CallsReturn ==
    \A p \in Proc : (pc[p] # "idle") ~> (pc[p] \in {"idle", "stopped"})

\* When one process has ended the other does not wait for it forever.
NobodyLeftBehind ==
    \A p \in Proc : ~Up(p) ~> ~Up(Peer(p))

-----------------------------------------------------------------------------
(* What the comments, the scripts and the tests say, and the code does not do *)

\* The scripts of tests/ call run_iters(size, iters) on both sides and print what it
\* returns: nobody is supposed to fail while both processes are there.
NobodyFailsWhileBothUp ==
    [][BothUp => \A p \in Proc : code'[p] \in {-2, 0}]_vars

\* A result stands for nrepeat messages that came back ("Wait for it to come back").
ResultMeansBounced ==
    \A p \in Proc : \A k \in 1..Len(ret[p]) : ret[p][k].full

\* On the signal to exit the receiver's script sees None, leaves its loop and ends
\* with status 0.
ExitSignalHonoured ==
    size["rcv"] = 0 /\ nrepeat["rcv"] > 0 => code["rcv"] \in {-2, 0}

-----------------------------------------------------------------------------
(* The message-level promise.  A message is on its way from the moment its last *)
(* octet has been written until that octet has been read.                       *)

\* The places of the stream c at which a message ends, and those of them up to x.
Ends(c) == {x \in DOMAIN c : c[x].idx = Len(Wire(c[x].of))}
EndsUpTo(c, x) == {y \in Ends(c) : y <= x}

\* The messages that end in c, in their order.
KthMessage(c, k) == {c[x].of : x \in {y \in Ends(c) : Cardinality(EndsUpTo(c, y)) = k}}
Messages(c) == [k \in 1..Cardinality(Ends(c)) |-> CHOOSE m \in KthMessage(c, k) : TRUE]

MsgPc == [p \in Proc |-> IF pc[p] = "alloc" THEN "syncWrite" ELSE pc[p]]
MsgChan == [p \in Proc |-> Messages(chan[p])]

Promise == INSTANCE PingPong WITH pc <- MsgPc, chan <- MsgChan

\* tcp.c's byte streams implement the message exchange of PingPong.
PromiseKept == Promise!Spec

=============================================================================
