------------------------------- MODULE IbvRun -------------------------------
(***************************************************************************)
(* Measurements over src/src/ibv.c: run_iters on both sides and the         *)
(* adapters that carry out what was posted, with the options that Init      *)
(* sets and no code changes: plain RDMA writes, noticed by watching the     *)
(* last octet of the receive buffer.  The run starts where Setup has        *)
(* returned on both sides.  The TCP connection carries whole messages here  *)
(* (IbvSetup has its octets); the queue pair delivers in order, and breaks  *)
(* when a request cannot be carried out.                                    *)
(***************************************************************************)
EXTENDS Integers, Sequences

CONSTANTS
    Stack,          \* "ibv" for ibv.c, "vapi" for ib.c, which sends by default (module IbRun)
    Requests,       \* what run_iters is called with: pairs <<size in bytes, nrepeat>>
    Pattern,        \* Pattern[size]: last octets InitBufferData leaves, [r, s]
    MaxWq,          \* max_wq: what the send queue holds
    MaxCalls        \* bound on the measurements

VARIABLES
    pc, req, left, calls,     \* run_iters: place, arguments, turns left, calls done
    chan,                     \* chan[p]: TCP messages on their way to p
    key, reg, rkey, last,     \* registered buffers, remote_key, last octet of r_buff
    sq, unreaped, err,        \* requests posted, slots they take up, queue pair broken
    got, taken                \* messages that arrived, and that RecvData returned, in this call

drv == <<pc, req, left, calls>>
mem == <<key, reg, rkey, last>>
hca == <<sq, unreaped, err>>
seen == <<got, taken>>
vars == <<drv, chan, mem, hca, seen>>

Proc == {"tr", "rcv"}
Peer(p) == IF p = "tr" THEN "rcv" ELSE "tr"

Labels == {"idle", "malloc", "addrWrite", "addrRead", "syncWrite", "syncRead",
           "send", "recv", "free", "exit"}

All(v) == [p \in Proc |-> v]

Init ==
    /\ pc = All("idle") /\ req = All(<<0, 0>>) /\ left = All(0) /\ calls = All(0)
    /\ chan = All(<<>>)
    /\ key = All(0) /\ reg = All(FALSE) /\ rkey = All(0) /\ last = All("a")
    /\ sq = All(<<>>) /\ unreaped = All(0) /\ err = All(FALSE)
    /\ got = All(0) /\ taken = All(0)

Goto(p, from, to) == pc[p] = from /\ pc' = [pc EXCEPT ![p] = to]

Tell(p, m) == chan' = [chan EXCEPT ![Peer(p)] = Append(@, m)]

Hear(p, t) ==
    /\ chan[p] # <<>> /\ Head(chan[p]).t = t
    /\ chan' = [chan EXCEPT ![p] = Tail(@)]

-----------------------------------------------------------------------------
(* run_iters up to the loop. *)

Call(p) ==
    /\ Goto(p, "idle", "malloc")
    /\ calls[p] < MaxCalls
    /\ IF p = "tr"
       THEN \E r \in Requests : /\ req' = [req EXCEPT ![p] = r]
                                /\ Tell(p, [t |-> "repeat", v |-> r])
       ELSE Hear(p, "repeat") /\ req' = [req EXCEPT ![p] = Head(chan[p]).v]
    /\ got' = [got EXCEPT ![p] = 0] /\ taken' = [taken EXCEPT ![p] = 0]
    /\ UNCHANGED <<left, calls, mem, hca>>

\* MyMalloc registers both buffers under new keys, InitBufferData fills them; memory
\* that cannot be had ends the process.
MyMalloc(p) ==
    /\ \/ /\ Goto(p, "malloc", IF Stack = "ibv" THEN "addrWrite" ELSE "syncWrite")
          /\ key' = [key EXCEPT ![p] = @ + 1]
          /\ reg' = [reg EXCEPT ![p] = TRUE]
          /\ last' = [last EXCEPT ![p] = Pattern[req[p][1]].r]
          /\ left' = [left EXCEPT ![p] = req[p][2]]
       \/ Goto(p, "malloc", "exit") /\ UNCHANGED <<key, reg, last, left>>
    /\ UNCHANGED <<req, calls, chan, rkey, hca, seen>>

\* Variant of AfterAlignmentInit that keeps the first address it was told.
AfterAlignmentInitOnce(p) ==
    /\ \/ Goto(p, "addrWrite", "addrRead") /\ Tell(p, [t |-> "addr", v |-> key[p]])
          /\ UNCHANGED rkey
       \/ Goto(p, "addrRead", "syncWrite") /\ Hear(p, "addr")
          /\ rkey' = [rkey EXCEPT ![p] = IF @ = 0 THEN Head(chan[p]).v ELSE @]
    /\ UNCHANGED <<req, left, calls, key, reg, last, hca, seen>>

\* Address and key of the receive buffer are exchanged for the writes.
AfterAlignmentInit(p) ==
    /\ \/ Goto(p, "addrWrite", "addrRead") /\ Tell(p, [t |-> "addr", v |-> key[p]])
          /\ UNCHANGED rkey
       \/ Goto(p, "addrRead", "syncWrite") /\ Hear(p, "addr")
          /\ rkey' = [rkey EXCEPT ![p] = Head(chan[p]).v]
    /\ UNCHANGED <<req, left, calls, key, reg, last, hca, seen>>

SyncWrite(p) ==
    /\ Goto(p, "syncWrite", "syncRead")
    /\ Tell(p, [t |-> "sync", v |-> 0])
    /\ UNCHANGED <<req, left, calls, mem, hca, seen>>

LoopHead(p, n) == IF n = 0 THEN "free" ELSE IF p = "tr" THEN "send" ELSE "recv"

SyncRead(p) ==
    /\ Goto(p, "syncRead", LoopHead(p, left[p]))
    /\ Hear(p, "sync")
    /\ UNCHANGED <<req, left, calls, mem, hca, seen>>

\* A TCP read of a process whose peer has exited ends it as well, and what it had
\* registered goes with it.  (A transmitter exits only after it has sent its repeat,
\* so that its peer gets as far as the address.)
PeerGone(p) ==
    /\ pc[p] = "addrRead"
    /\ chan[p] = <<>> /\ pc[Peer(p)] = "exit"
    /\ pc' = [pc EXCEPT ![p] = "exit"]
    /\ reg' = [reg EXCEPT ![p] = FALSE]
    /\ UNCHANGED <<req, left, calls, chan, key, rkey, last, hca, seen>>

-----------------------------------------------------------------------------
(* The loop. *)

\* No send is ever polled for, so a slot once taken is never free again.
Full(p) == unreaped[p] >= MaxWq

Request(p) == [key |-> key[p], rkey |-> rkey[p], octet |-> Pattern[req[p][1]].s]

\* A queue that is full is reported and the loop goes on.
SendData(p) ==
    /\ pc[p] = "send"
    /\ left' = [left EXCEPT ![p] = IF p = "tr" THEN @ ELSE @ - 1]
    /\ pc' = [pc EXCEPT ![p] = IF p = "tr" THEN "recv" ELSE LoopHead(p, left[p] - 1)]
    /\ IF Full(p) THEN UNCHANGED <<sq, unreaped>>
       ELSE /\ sq' = [sq EXCEPT ![p] = Append(@, Request(p))]
            /\ unreaped' = [unreaped EXCEPT ![p] = @ + 1]
    /\ UNCHANGED <<req, calls, chan, mem, err, seen>>

AfterRecvData(p) ==
    /\ left' = [left EXCEPT ![p] = IF p = "tr" THEN @ - 1 ELSE @]
    /\ pc' = [pc EXCEPT ![p] = IF p = "tr" THEN LoopHead(p, left[p] - 1) ELSE "send"]
    /\ taken' = [taken EXCEPT ![p] = @ + 1]

\* Variant of RecvData that leaves the last octet as it found it.
RecvDataKeeps(p) ==
    /\ pc[p] = "recv"
    /\ last[p] = "b"
    /\ AfterRecvData(p)
    /\ UNCHANGED <<req, calls, chan, mem, hca, got>>

\* Spin on the last octet and put back 'a'.
RecvData(p) ==
    /\ pc[p] = "recv"
    /\ last[p] = "b"
    /\ last' = [last EXCEPT ![p] = "a"]
    /\ AfterRecvData(p)
    /\ UNCHANGED <<req, calls, chan, key, reg, rkey, hca, got>>

\* The buffers are deregistered and freed, whatever the adapter still has to do.
FreeBuff(p) ==
    /\ Goto(p, "free", "idle")
    /\ reg' = [reg EXCEPT ![p] = FALSE]
    /\ calls' = [calls EXCEPT ![p] = @ + 1]
    /\ UNCHANGED <<req, left, chan, key, rkey, last, hca, seen>>

-----------------------------------------------------------------------------
(* The adapters. *)

Readable(p, w) == reg[p] /\ key[p] = w.key

\* An RDMA write needs the buffer it aims at, a send a receive that was posted; none
\* ever is, for run_iters calls PrepareToReceive only when asyncReceive is set.
Writable(q, w) == Stack = "ibv" /\ reg[q] /\ key[q] = w.rkey

\* The oldest request of p is carried out, or cannot be and breaks the queue pair.
Transmit(p) ==
    LET w == Head(sq[p])
        q == Peer(p)
    IN /\ sq[p] # <<>>
       /\ \/ /\ ~err[p] /\ Readable(p, w) /\ Writable(q, w)
             /\ sq' = [sq EXCEPT ![p] = Tail(@)]
             /\ last' = [last EXCEPT ![q] = w.octet]
             /\ got' = [got EXCEPT ![q] = @ + 1]
             /\ UNCHANGED err
          \/ /\ err[p] \/ ~Readable(p, w) \/ ~Writable(q, w)
             /\ err' = [err EXCEPT ![p] = TRUE]
             /\ sq' = [sq EXCEPT ![p] = <<>>]
             /\ UNCHANGED <<last, got>>
       /\ UNCHANGED <<drv, chan, key, reg, rkey, unreaped, taken>>

-----------------------------------------------------------------------------

MainThread(p) ==
    \/ Call(p) \/ MyMalloc(p) \/ AfterAlignmentInit(p)
    \/ SyncWrite(p) \/ SyncRead(p) \/ PeerGone(p)
    \/ SendData(p) \/ RecvData(p) \/ FreeBuff(p)

Next == \E p \in Proc : MainThread(p) \/ Transmit(p)

\* Processes and adapters all make progress.
Spec ==
    /\ Init /\ [][Next]_vars
    /\ \A p \in Proc : WF_vars(MainThread(p)) /\ WF_vars(Transmit(p))

-----------------------------------------------------------------------------
(* Properties. *)

\* Every variable keeps its type, and what waits in the send queue takes up a slot
\* (SendData).
TypeOK ==
    /\ pc \in [Proc -> Labels]
    /\ left \in [Proc -> Nat] /\ calls \in [Proc -> 0..MaxCalls]
    /\ unreaped \in [Proc -> 0..MaxWq]
    /\ \A p \in Proc : Len(sq[p]) <= unreaped[p]

\* RecvData returns once for each message that has arrived, never on what an
\* earlier message or InitBufferData left behind (RecvData).
ReceivedMeansArrived == \A p \in Proc : taken[p] <= got[p]

\* An RDMA write goes to the buffer the peer has registered now: keys are exchanged
\* anew in every call, and no buffer is given back while a write to it is under way
\* (AfterAlignmentInit, FreeBuff).
AimsAtLiveBuffer ==
    \A p \in Proc : \A i \in DOMAIN sq[p] : Writable(Peer(p), sq[p][i])

\* "Reset is used after a trial to empty the work request queues so we have enough
\* room for the next trial to run" (ibv.c): SendData finds room in the send queue.
QueueHasRoom == \A p \in Proc : pc[p] = "send" => ~Full(p)

\* A message that was bounced is delivered: its buffer is not taken away before
\* the adapter has read it (FreeBuff).
BouncedIsDelivered == \A p \in Proc : \A i \in DOMAIN sq[p] : Readable(p, sq[p][i])
=============================================================================
