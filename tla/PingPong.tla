------------------------------ MODULE PingPong ------------------------------
(***************************************************************************)
(* What netpipe_run_iters (src/src/netpipe.c) promises about a measurement, *)
(* at the granularity of whole messages.  Two processes share a connection: *)
(* the transmitter "tr", whose script calls run_iters(size, nrepeat), and   *)
(* the receiver "rcv", whose script calls run_iters() in a loop.  Every     *)
(* call negotiates size and nrepeat, allocates the buffers, meets the peer  *)
(* in Sync, and bounces one message nrepeat times.                          *)
(*                                                                          *)
(* The transport is an ideal reliable FIFO between two living processes;    *)
(* what a stopped peer does to the survivor is the socket's behaviour       *)
(* (end of file, dropped writes, errors).  TcpRun implements this module    *)
(* byte by byte with the code of src/src/tcp.c.                             *)
(***************************************************************************)
EXTENDS Naturals, Sequences

CONSTANTS
    Requests,   \* the pairs <<size in bits, nrepeat>> the transmitter's script may pass
    MaxCalls    \* bound on the calls of run_iters the transmitter's script makes

\* size is any uint32_t, 0 being the signal to exit; a measurement repeats at
\* least once (netpipe.c divides the elapsed time by nrepeat).
ASSUME RequestsAssumption ==
    Requests \subseteq Nat \X (Nat \ {0})

ASSUME MaxCallsAssumption ==
    MaxCalls \in Nat

VARIABLES
    pc,        \* pc[p]: the call of run_iters that p is in
    size,      \* size[p]: the local variable size
    nrepeat,   \* nrepeat[p]: the local variable nrepeat
    j,         \* j[p]: the loop counter
    whole,     \* whole[p]: data messages that arrived completely in this call
    chan,      \* chan[p]: the messages on their way to p, oldest first
    ret        \* ret[p]: what run_iters returned to p's script, call by call

vars == <<pc, size, nrepeat, j, whole, chan, ret>>

Proc == {"tr", "rcv"}

Peer(p) == IF p = "tr" THEN "rcv" ELSE "tr"

\* The library calls of run_iters, in program order, and the two ends.
Labels == {"idle", "sendSize", "sendNrepeat", "recvSize", "recvNrepeat",
           "exitSignal", "syncWrite", "syncRead", "send", "recv", "check", "stopped"}

Reading == {"recvSize", "recvNrepeat", "syncRead", "recv"}

\* bytes = size / 8, rounded up.
Bytes(sz) == (sz + 7) \div 8

Message == [t : {"size", "nrepeat", "sync", "data"}, v : Nat]

SizeMsg(sz)   == [t |-> "size", v |-> sz]
NrepeatMsg(n) == [t |-> "nrepeat", v |-> n]
SyncMsg       == [t |-> "sync", v |-> 0]
DataMsg(sz)   == [t |-> "data", v |-> Bytes(sz)]

Result == [size : Nat, nrepeat : Nat, full : BOOLEAN]

Up(p) == pc[p] # "stopped"

-----------------------------------------------------------------------------

Init ==
    /\ pc = [p \in Proc |-> "idle"]
    /\ size = [p \in Proc |-> 0]
    /\ nrepeat = [p \in Proc |-> 0]
    /\ j = [p \in Proc |-> 0]
    /\ whole = [p \in Proc |-> 0]
    /\ chan = [p \in Proc |-> <<>>]
    /\ ret = [p \in Proc |-> <<>>]

Goto(p, l) == pc' = [pc EXCEPT ![p] = l]

\* Process p stops: its own unread messages are gone, and of what it wrote the
\* peer still gets some prefix.
Halt(p) ==
    /\ Goto(p, "stopped")
    /\ \E k \in 0..Len(chan[Peer(p)]) :
          chan' = [q \in Proc |-> IF q = p THEN <<>> ELSE SubSeq(chan[q], 1, k)]
    /\ UNCHANGED <<size, nrepeat, j, whole, ret>>

\* One message towards the peer; the socket swallows what is written to a peer
\* that has stopped.
Emit(p, m) ==
    chan' = IF Up(Peer(p)) THEN [chan EXCEPT ![Peer(p)] = Append(@, m)] ELSE chan

Consume(p) ==
    /\ chan[p] # <<>>
    /\ chan' = [chan EXCEPT ![p] = Tail(@)]

\* After Sync, and after each turn of the loop: j < nrepeat goes round again.
LoopHead(p, jj) ==
    IF jj < nrepeat[p] THEN (IF p = "tr" THEN "send" ELSE "recv") ELSE "check"

\* Variant of Call in which the loop counter keeps its last value.
CallKeepsCounter(p) ==
    /\ pc[p] = "idle"
    /\ IF p = "tr"
       THEN /\ Len(ret[p]) < MaxCalls
            /\ \E r \in Requests : /\ size' = [size EXCEPT ![p] = r[1]]
                                   /\ nrepeat' = [nrepeat EXCEPT ![p] = r[2]]
            /\ Goto(p, "sendSize")
       ELSE /\ UNCHANGED <<size, nrepeat>>
            /\ Goto(p, "recvSize")
    /\ whole' = [whole EXCEPT ![p] = 0]
    /\ UNCHANGED <<j, chan, ret>>

\* The script calls run_iters: the transmitter passes size and nrepeat, the
\* receiver passes nothing and learns them from the peer.
Call(p) ==
    /\ pc[p] = "idle"
    /\ IF p = "tr"
       THEN /\ Len(ret[p]) < MaxCalls
            /\ \E r \in Requests : /\ size' = [size EXCEPT ![p] = r[1]]
                                   /\ nrepeat' = [nrepeat EXCEPT ![p] = r[2]]
            /\ Goto(p, "sendSize")
       ELSE /\ UNCHANGED <<size, nrepeat>>
            /\ Goto(p, "recvSize")
    /\ j' = [j EXCEPT ![p] = 0]
    /\ whole' = [whole EXCEPT ![p] = 0]
    /\ UNCHANGED <<chan, ret>>

SendRepeat(p) ==
    /\ \/ pc[p] = "sendSize" /\ Emit(p, SizeMsg(size[p])) /\ Goto(p, "sendNrepeat")
       \/ pc[p] = "sendNrepeat" /\ Emit(p, NrepeatMsg(nrepeat[p])) /\ Goto(p, "syncWrite")
    /\ UNCHANGED <<size, nrepeat, j, whole, ret>>

\* Variant of RecvSize that forgets the second RecvRepeat.
RecvSizeOnly(p) ==
    /\ pc[p] = "recvSize"
    /\ Consume(p)
    /\ size' = [size EXCEPT ![p] = Head(chan[p]).v]
    /\ Goto(p, "syncWrite")
    /\ UNCHANGED <<nrepeat, j, whole, ret>>

RecvSize(p) ==
    /\ pc[p] = "recvSize"
    /\ Consume(p)
    /\ size' = [size EXCEPT ![p] = Head(chan[p]).v]
    /\ Goto(p, "recvNrepeat")
    /\ UNCHANGED <<nrepeat, j, whole, ret>>

\* Variant of RecvNrepeat that stores the second answer in size again.
RecvNrepeatIntoSize(p) ==
    /\ pc[p] = "recvNrepeat"
    /\ Consume(p)
    /\ size' = [size EXCEPT ![p] = Head(chan[p]).v]
    /\ Goto(p, IF size[p] = 0 THEN "exitSignal" ELSE "syncWrite")
    /\ UNCHANGED <<nrepeat, j, whole, ret>>

\* A size of 0 is the signal to exit: run_iters takes an early return; any other
\* size goes on to the allocation and Sync.
RecvNrepeat(p) ==
    /\ pc[p] = "recvNrepeat"
    /\ Consume(p)
    /\ nrepeat' = [nrepeat EXCEPT ![p] = Head(chan[p]).v]
    /\ Goto(p, IF size[p] = 0 THEN "exitSignal" ELSE "syncWrite")
    /\ UNCHANGED <<size, j, whole, ret>>

\* Variant of SyncWrite after which nobody waits for the peer.
SyncWithoutWaiting(p) ==
    /\ pc[p] = "syncWrite"
    /\ Emit(p, SyncMsg)
    /\ Goto(p, LoopHead(p, 0))
    /\ UNCHANGED <<size, nrepeat, j, whole, ret>>

SyncWrite(p) ==
    /\ pc[p] = "syncWrite"
    /\ Emit(p, SyncMsg)
    /\ Goto(p, "syncRead")
    /\ UNCHANGED <<size, nrepeat, j, whole, ret>>

SyncRead(p) ==
    /\ pc[p] = "syncRead"
    /\ Consume(p)
    /\ Goto(p, LoopHead(p, 0))
    /\ UNCHANGED <<size, nrepeat, j, whole, ret>>

\* Variant of SendData in which the transmitter streams.
SendDataStreams(p) ==
    /\ pc[p] = "send"
    /\ Emit(p, DataMsg(size[p]))
    /\ j' = [j EXCEPT ![p] = @ + 1]
    /\ Goto(p, LoopHead(p, j[p] + 1))
    /\ UNCHANGED <<size, nrepeat, whole, ret>>

\* The transmitter then waits for the message to come back; the receiver has
\* bounced it and its turn of the loop is over.
SendData(p) ==
    /\ pc[p] = "send"
    /\ Emit(p, DataMsg(size[p]))
    /\ IF p = "tr"
       THEN Goto(p, "recv") /\ UNCHANGED j
       ELSE /\ j' = [j EXCEPT ![p] = @ + 1]
            /\ Goto(p, LoopHead(p, j[p] + 1))
    /\ UNCHANGED <<size, nrepeat, whole, ret>>

\* Variant of AfterRecvData that counts the unsigned counter down.
AfterRecvDataCountsDown(p) ==
    IF p = "rcv"
    THEN Goto(p, "send") /\ UNCHANGED j
    ELSE /\ j' = [j EXCEPT ![p] = @ - 1]
         /\ Goto(p, LoopHead(p, j[p] + 1))

\* What follows RecvData, whether or not a whole message arrived.
AfterRecvData(p) ==
    IF p = "rcv"
    THEN Goto(p, "send") /\ UNCHANGED j
    ELSE /\ j' = [j EXCEPT ![p] = @ + 1]
         /\ Goto(p, LoopHead(p, j[p] + 1))

RecvData(p) ==
    /\ pc[p] = "recv"
    /\ Consume(p)
    /\ whole' = [whole EXCEPT ![p] = @ + 1]
    /\ AfterRecvData(p)
    /\ UNCHANGED <<size, nrepeat, ret>>

\* CheckBufferData, FreeBuff and the return to the script.
Return(p) ==
    /\ pc[p] = "check"
    /\ ret' = [ret EXCEPT ![p] = Append(@, [size |-> size[p], nrepeat |-> nrepeat[p],
                                            full |-> whole[p] = nrepeat[p]])]
    /\ Goto(p, "idle")
    /\ UNCHANGED <<size, nrepeat, j, whole, chan>>

\* Variant of RecvDataEOF that gives up on an empty pipe.
RecvDataGivesUp(p) ==
    /\ pc[p] = "recv"
    /\ chan[p] = <<>>
    /\ AfterRecvData(p)
    /\ UNCHANGED <<size, nrepeat, whole, chan, ret>>

\* The peer has stopped and everything it left has been read: RecvData alone
\* takes the end of file for an answer.
RecvDataEOF(p) ==
    /\ pc[p] = "recv"
    /\ ~Up(Peer(p))
    /\ chan[p] = <<>>
    /\ AfterRecvData(p)
    /\ UNCHANGED <<size, nrepeat, whole, chan, ret>>

\* The process ends: its script is over, it is killed, or one of the library
\* calls gives up and exits.
Stop(p) ==
    /\ Up(p)
    /\ Halt(p)

Terminated ==
    /\ \A p \in Proc : ~Up(p)
    /\ UNCHANGED vars

Next ==
    \/ \E p \in Proc :
          \/ Call(p) \/ SendRepeat(p) \/ RecvSize(p) \/ RecvNrepeat(p)
          \/ SyncWrite(p) \/ SyncRead(p) \/ SendData(p) \/ RecvData(p) \/ Return(p)
          \/ RecvDataEOF(p) \/ Stop(p)
    \/ Terminated

Spec == Init /\ [][Next]_vars

-----------------------------------------------------------------------------

TypeOK ==
    /\ pc \in [Proc -> Labels]
    /\ size \in [Proc -> Nat]
    /\ nrepeat \in [Proc -> Nat]
    /\ j \in [Proc -> Nat]
    /\ whole \in [Proc -> Nat]
    /\ chan \in [Proc -> Seq(Message)]
    /\ ret \in [Proc -> Seq(Result)]

BothUp == \A p \in Proc : Up(p)

InLoop(p) == pc[p] \in {"send", "recv"}

\* Which kind of message the pending library call of p takes what it reads for.
Wanted(p) ==
    CASE pc[p] = "recvSize" -> "size"
      [] pc[p] = "recvNrepeat" -> "nrepeat"
      [] pc[p] = "syncRead" -> "sync"
      [] pc[p] = "recv" -> "data"

\* What RecvRepeat, Sync and RecvData read was written by the matching call of
\* the peer: the stream carries no message boundaries (tcp.c reads a fixed
\* number of bytes), so one call out of step would turn data into a repeat
\* count.  A data message has exactly the length the reader asks for.
StreamAligned ==
    \A p \in Proc : pc[p] \in Reading /\ chan[p] # <<>> =>
        /\ Head(chan[p]).t = Wanted(p)
        /\ pc[p] = "recv" => Head(chan[p]).v = Bytes(size[p])

\* The timed loops of both sides run in lockstep: when the transmitter has
\* finished a round trip the receiver has bounced that message and is at most
\* one message ahead (netpipe.c: SendData; RecvData against RecvData; SendData).
Lockstep ==
    InLoop("tr") /\ InLoop("rcv") =>
        /\ j["rcv"] \in {j["tr"], j["tr"] + 1}
        /\ size["rcv"] = size["tr"]
        /\ nrepeat["rcv"] = nrepeat["tr"]

\* Sync keeps the set-up work out of the timed loop: while the transmitter's
\* clock runs and it has not yet got the last message back, the receiver
\* neither negotiates nor allocates, and is in the same call.
TimingIsClean ==
    BothUp /\ InLoop("tr") /\ pc["rcv"] \notin {"syncRead", "recv", "send"} =>
        /\ pc["tr"] = "recv" /\ j["tr"] + 1 = nrepeat["tr"]
        /\ pc["rcv"] \in {"check", "idle", "recvSize"}
        /\ Len(chan["tr"]) = 1

SameResults ==
    \A k \in 1..Len(ret["tr"]) : k \in 1..Len(ret["rcv"]) =>
        /\ ret["tr"][k].size = ret["rcv"][k].size
        /\ ret["tr"][k].nrepeat = ret["rcv"][k].nrepeat

\* The k-th result of the receiver is about the same size and repeat count as
\* the k-th result of the transmitter, and neither side gets ahead by more than
\* one call.
ResultsAgree ==
    /\ SameResults
    /\ BothUp => /\ Len(ret["tr"]) <= Len(ret["rcv"]) + 1
                 /\ Len(ret["rcv"]) <= Len(ret["tr"]) + 1

\* As long as nobody has stopped, run_iters returns only after all nrepeat
\* messages have really arrived ("Wait for it to come back").
ResultsAreFull ==
    BothUp => \A p \in Proc : \A k \in 1..Len(ret[p]) : ret[p][k].full

-----------------------------------------------------------------------------
(* The inductive invariant behind the properties above *)

Sz == SizeMsg(size["tr"])
Nr == NrepeatMsg(nrepeat["tr"])
Sy == SyncMsg

Between == {"check", "idle", "recvSize"}     \* the receiver, from one call to the next

\* The loop counters by label.
LoopCounters ==
    \A p \in Proc :
        /\ pc[p] \in {"sendSize", "sendNrepeat", "recvSize", "recvNrepeat",
                      "exitSignal", "syncWrite", "syncRead"} => j[p] = 0 /\ whole[p] = 0
        /\ pc[p] \in {"send", "recv"} => j[p] < nrepeat[p]
        /\ pc[p] = "check" => j[p] = nrepeat[p]
        /\ pc[p] = "stopped" => chan[p] = <<>>

\* A call that has begun repeats at least once.
Repeats ==
    /\ pc["tr"] \notin {"idle", "stopped"} => nrepeat["tr"] >= 1
    /\ chan["rcv"] # <<>> => nrepeat["tr"] >= 1
    /\ pc["rcv"] \in {"exitSignal", "syncWrite", "syncRead", "send", "recv"} =>
          nrepeat["rcv"] >= 1

\* What may still be in the pipe to the receiver is a prefix of what the rest of
\* its call, or the beginning of the next one, will read; the writer may be gone.
RcvReadable ==
    /\ pc["rcv"] \in Between =>
          chan["rcv"] \in {<<>>, <<Sz>>, <<Sz, Nr>>, <<Sz, Nr, Sy>>}
    /\ pc["rcv"] = "recvNrepeat" => chan["rcv"] \in {<<>>, <<Nr>>, <<Nr, Sy>>}
    /\ pc["rcv"] \in {"exitSignal", "syncWrite"} => chan["rcv"] \in {<<>>, <<Sy>>}
    /\ pc["rcv"] = "syncRead" =>
          chan["rcv"] \in {<<>>, <<Sy>>, <<Sy, DataMsg(size["rcv"])>>}
    /\ pc["rcv"] = "recv" => chan["rcv"] \in {<<>>, <<DataMsg(size["rcv"])>>}
    /\ pc["rcv"] = "send" => chan["rcv"] = <<>>
    /\ pc["rcv"] \notin {"sendSize", "sendNrepeat"}

TrReadable ==
    /\ pc["tr"] \in {"syncWrite", "syncRead"} => chan["tr"] \in {<<>>, <<Sy>>}
    /\ pc["tr"] = "recv" => chan["tr"] \in {<<>>, <<DataMsg(size["tr"])>>}
    /\ pc["tr"] \notin {"syncWrite", "syncRead", "recv"} => chan["tr"] = <<>>
    /\ pc["tr"] \notin {"recvSize", "recvNrepeat", "exitSignal"}

\* Where the two processes can be together, with what is in the pipes.
Phase ==
    LET rp == pc["rcv"]
        Pipes(toRcv, toTr) == chan["rcv"] = toRcv /\ chan["tr"] = toTr
        D == DataMsg(size["tr"])
    IN
    /\ pc["tr"] \in {"idle", "sendSize", "check"} => rp \in Between /\ Pipes(<<>>, <<>>)
    /\ pc["tr"] = "sendNrepeat" =>
          \/ rp \in Between /\ Pipes(<<Sz>>, <<>>)
          \/ rp = "recvNrepeat" /\ Pipes(<<>>, <<>>)
    /\ pc["tr"] = "syncWrite" =>
          \/ rp \in Between /\ Pipes(<<Sz, Nr>>, <<>>)
          \/ rp = "recvNrepeat" /\ Pipes(<<Nr>>, <<>>)
          \/ rp \in {"exitSignal", "syncWrite"} /\ Pipes(<<>>, <<>>)
          \/ rp = "syncRead" /\ Pipes(<<>>, <<Sy>>)
    /\ pc["tr"] = "syncRead" =>
          \/ rp \in Between /\ Pipes(<<Sz, Nr, Sy>>, <<>>)
          \/ rp = "recvNrepeat" /\ Pipes(<<Nr, Sy>>, <<>>)
          \/ rp \in {"exitSignal", "syncWrite"} /\ Pipes(<<Sy>>, <<>>)
          \/ rp = "syncRead" /\ Pipes(<<Sy>>, <<Sy>>)
          \/ rp = "recv" /\ j["rcv"] = 0 /\ Pipes(<<>>, <<Sy>>)
    /\ pc["tr"] = "send" =>
          \/ rp = "syncRead" /\ j["tr"] = 0 /\ Pipes(<<Sy>>, <<>>)
          \/ rp = "recv" /\ j["rcv"] = j["tr"] /\ Pipes(<<>>, <<>>)
    /\ pc["tr"] = "recv" =>
          \/ rp = "syncRead" /\ j["tr"] = 0 /\ Pipes(<<Sy, D>>, <<>>)
          \/ rp = "recv" /\ j["rcv"] = j["tr"] /\ Pipes(<<D>>, <<>>)
          \/ rp = "send" /\ j["rcv"] = j["tr"] /\ Pipes(<<>>, <<>>)
          \/ rp = "recv" /\ j["rcv"] = j["tr"] + 1 /\ Pipes(<<>>, <<D>>)
          \/ rp \in Between /\ j["tr"] + 1 = nrepeat["tr"] /\ Pipes(<<>>, <<D>>)

\* The receiver works with the transmitter's size and nrepeat once it has read them.
SameArgs ==
    /\ pc["rcv"] \in {"recvNrepeat", "exitSignal", "syncWrite", "syncRead", "recv", "send"}
          => size["rcv"] = size["tr"]
    /\ pc["rcv"] \in {"exitSignal", "syncWrite", "syncRead", "recv", "send"}
          => nrepeat["rcv"] = nrepeat["tr"]
    /\ pc["rcv"] = "check" /\ pc["tr"] \in {"recv", "check"} =>
          size["rcv"] = size["tr"] /\ nrepeat["rcv"] = nrepeat["tr"]

\* Nothing has been lost while both are up.
NothingLost ==
    /\ \A p \in Proc : pc[p] \in {"send", "recv", "check"} =>
          whole[p] = IF p = "rcv" /\ pc[p] = "send" THEN j[p] + 1 ELSE j[p]
    /\ ResultsAreFull

\* Who has returned from how many calls.
TrPast  == pc["rcv"] = "check" /\
           pc["tr"] \in {"idle", "sendSize", "sendNrepeat", "syncWrite", "syncRead"}
RcvPast == pc["rcv"] \in {"idle", "recvSize"} /\ pc["tr"] \in {"recv", "check"}

CallCount ==
    /\ TrPast => Len(ret["tr"]) = Len(ret["rcv"]) + 1
    /\ RcvPast => Len(ret["rcv"]) = Len(ret["tr"]) + 1
    /\ ~TrPast /\ ~RcvPast => Len(ret["tr"]) = Len(ret["rcv"])

\* The result one side has and the other has not is about the call the other one is
\* just finishing; this outlives the process that is ahead.
AheadByOne ==
    /\ Up("rcv") /\ Len(ret["tr"]) > Len(ret["rcv"]) =>
          LET r == ret["tr"][Len(ret["tr"])] IN
          /\ Len(ret["tr"]) = Len(ret["rcv"]) + 1
          /\ pc["rcv"] = "check"
          /\ r.size = size["rcv"] /\ r.nrepeat = nrepeat["rcv"]
    /\ Up("tr") /\ Len(ret["rcv"]) > Len(ret["tr"]) =>
          LET r == ret["rcv"][Len(ret["rcv"])] IN
          /\ Len(ret["rcv"]) = Len(ret["tr"]) + 1
          /\ \/ pc["tr"] = "recv" /\ j["tr"] + 1 = nrepeat["tr"]
             \/ pc["tr"] = "check"
          /\ r.size = size["tr"] /\ r.nrepeat = nrepeat["tr"]

\* The joint state of the two processes: every property above follows from it, and
\* every step of Next preserves it.
InStep ==
    /\ TypeOK
    /\ LoopCounters
    /\ Repeats
    /\ RcvReadable
    /\ TrReadable
    /\ BothUp => Phase /\ SameArgs /\ NothingLost /\ CallCount
    /\ AheadByOne
    /\ SameResults

=============================================================================
