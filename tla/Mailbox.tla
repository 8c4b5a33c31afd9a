------------------------------- MODULE Mailbox ------------------------------
(***************************************************************************)
(* The one-sided modules shmem.c, armci.c and lapi.c under run_iters.  Each *)
(* process writes into the other's memory with puts: SendRepeat into one    *)
(* slot, announced by a flag (SHMEM, ARMCI) or by a counter (LAPI), and     *)
(* SendData into the receive buffer, noticed by its last octet (SHMEM,      *)
(* ARMCI) or by the same counter (LAPI).  The puts of one process are       *)
(* delivered in order and after some delay, which is what the code relies   *)
(* on: it calls no fence between a value and its flag.                      *)
(***************************************************************************)
EXTENDS Integers, Sequences

CONSTANTS
    Libraries,      \* a subset of {"shmem", "armci", "lapi"}
    Requests,       \* pairs <<size in bytes, nrepeat>>
    Pattern,        \* Pattern[size]: last octets InitBufferData leaves, [r, s]
    MaxCalls        \* bound on the measurements

VARIABLES
    lib,                          \* the module this program was built with
    pc, req, arg, k, left, calls, \* req: what the script asked for, arg: what p works with
    flag, slot, offset, last,     \* the memory of each process the peer writes to
    net,                          \* net[p]: puts on their way to p
    got, taken                    \* messages that arrived, and that RecvData returned, in this call

vars == <<lib, pc, req, arg, k, left, calls, flag, slot, offset, last, net, got, taken>>

Proc == {"tr", "rcv"}
Peer(p) == IF p = "tr" THEN "rcv" ELSE "tr"
Counts == lib = "lapi"
ipe(p) == IF p = "tr" THEN 0 ELSE 1

Labels == {"idle", "sendRepeat", "wait", "read", "clear", "malloc", "init", "alignSend",
           "alignRecv", "sync", "send", "recv", "free", "undefined"}

All(v) == [p \in Proc |-> v]

\* Setup: each flag holds the number of the other process, counters are zero.
Init ==
    /\ lib \in Libraries
    /\ pc = [p \in Proc |-> IF p = "tr" THEN "idle" ELSE "wait"]
    /\ req = <<0, 0>> /\ arg = All(<<0, 0>>) /\ k = All(1) /\ left = All(0) /\ calls = All(0)
    /\ flag = [p \in Proc |-> IF Counts THEN 0 ELSE ipe(Peer(p))]
    /\ slot = All(0) /\ offset = All(FALSE) /\ last = All("a")
    /\ net = All(<<>>) /\ got = All(0) /\ taken = All(0)

Goto(p, from, to) == pc[p] = from /\ pc' = [pc EXCEPT ![p] = to]

\* A call that both processes make and neither leaves alone.
Together(from, to) == pc = All(from) /\ pc' = All(to)

Put(p, msgs) == net' = [net EXCEPT ![Peer(p)] = @ \o msgs]

-----------------------------------------------------------------------------
(* The size and the repeat count. *)

Call(p) ==
    /\ p = "tr" /\ Goto(p, "idle", "sendRepeat")
    /\ calls[p] < MaxCalls
    /\ \E r \in Requests : req' = r /\ arg' = [arg EXCEPT ![p] = r]
    /\ k' = [k EXCEPT ![p] = 1]
    /\ UNCHANGED <<lib, left, calls, flag, slot, offset, last, net, got, taken>>

\* Variant of SendRepeat that announces the value before it puts it.
SendRepeatFlagFirst(p) ==
    /\ pc[p] = "sendRepeat"
    /\ slot' = IF Counts THEN slot ELSE [slot EXCEPT ![p] = arg[p][k[p]]]
    /\ Put(p, IF Counts THEN <<[to |-> "slot", v |-> arg[p][k[p]]]>>
              ELSE <<[to |-> "flag", v |-> flag[p]], [to |-> "slot", v |-> arg[p][k[p]]]>>)
    /\ pc' = [pc EXCEPT ![p] = IF k[p] = 1 THEN "sendRepeat" ELSE "malloc"]
    /\ k' = [k EXCEPT ![p] = @ + 1]
    /\ UNCHANGED <<lib, req, arg, left, calls, flag, offset, last, got, taken>>

\* Called twice in a row, for the size and for nrepeat.
SendRepeat(p) ==
    /\ pc[p] = "sendRepeat"
    /\ slot' = IF Counts THEN slot ELSE [slot EXCEPT ![p] = arg[p][k[p]]]
    /\ Put(p, IF Counts THEN <<[to |-> "slot", v |-> arg[p][k[p]]]>>
              ELSE <<[to |-> "slot", v |-> arg[p][k[p]]], [to |-> "flag", v |-> flag[p]]>>)
    /\ pc' = [pc EXCEPT ![p] = IF k[p] = 1 THEN "sendRepeat" ELSE "malloc"]
    /\ k' = [k EXCEPT ![p] = @ + 1]
    /\ UNCHANGED <<lib, req, arg, left, calls, flag, offset, last, got, taken>>

\* RecvRepeat: wait for the announcement, read the slot, take the announcement back.
AwaitRepeat(p) ==
    /\ Goto(p, "wait", "read")
    /\ IF Counts THEN flag[p] >= 1 ELSE flag[p] = ipe(p)
    /\ UNCHANGED <<lib, req, arg, k, left, calls, flag, slot, offset, last, net, got, taken>>

ReadRepeat(p) ==
    /\ Goto(p, "read", "clear")
    /\ arg' = [arg EXCEPT ![p][k[p]] = slot[p]]
    /\ UNCHANGED <<lib, req, k, left, calls, flag, slot, offset, last, net, got, taken>>

ClearRepeat(p) ==
    /\ Goto(p, "clear", IF k[p] = 1 THEN "wait" ELSE "malloc")
    /\ flag' = [flag EXCEPT ![p] = IF Counts THEN @ - 1 ELSE ipe(Peer(p))]
    /\ k' = [k EXCEPT ![p] = @ + 1]
    /\ UNCHANGED <<lib, req, arg, left, calls, slot, offset, last, net, got, taken>>

-----------------------------------------------------------------------------
(* Buffers. *)

\* Both allocate together.  A symmetric allocation of different sizes, or a put
\* into a buffer of another size, has no defined outcome: the behaviour ends.
MyMalloc ==
    /\ Together("malloc", IF arg["tr"] = arg["rcv"] THEN "init" ELSE "undefined")
    /\ UNCHANGED <<lib, req, arg, k, left, calls, flag, slot, offset, last, net, got, taken>>

InitBufferData(p) ==
    /\ Goto(p, "init", IF lib = "shmem" THEN "sync" ELSE "alignSend")
    /\ last' = [last EXCEPT ![p] = Pattern[arg[p][1]].r]
    /\ left' = [left EXCEPT ![p] = arg[p][2]]
    /\ UNCHANGED <<lib, req, arg, k, calls, flag, slot, offset, net, got, taken>>

\* LAPI: wait until something has arrived, and count it.
WaitCounter(p) == flag[p] >= 1 /\ flag' = [flag EXCEPT ![p] = @ - 1]

\* ARMCI and LAPI exchange the offset of the receive buffer: LAPI by a put, ARMCI by a
\* message of MPI, which is not ordered with the puts and which four octets do not
\* keep the sender waiting for.
AfterAlignmentInit(p) ==
    /\ \/ /\ Goto(p, "alignSend", "alignRecv")
          /\ IF Counts THEN Put(p, <<[to |-> "offset", v |-> 0]>>) /\ UNCHANGED offset
             ELSE offset' = [offset EXCEPT ![Peer(p)] = TRUE] /\ UNCHANGED net
          /\ UNCHANGED flag
       \/ /\ Goto(p, "alignRecv", "sync")
          /\ IF Counts THEN WaitCounter(p) /\ UNCHANGED offset
             ELSE offset[p] /\ offset' = [offset EXCEPT ![p] = FALSE] /\ UNCHANGED flag
          /\ UNCHANGED net
    /\ UNCHANGED <<lib, req, arg, k, left, calls, slot, last, got, taken>>

LoopHead(p, n) == IF n = 0 THEN "free" ELSE IF p = "tr" THEN "send" ELSE "recv"

\* Variant of Sync that lets a process go on alone.
SyncAlone ==
    /\ \E p \in Proc : Goto(p, "sync", LoopHead(p, left[p]))
    /\ UNCHANGED <<lib, req, arg, k, left, calls, flag, slot, offset, last, net, got, taken>>

\* A barrier, which for SHMEM and LAPI also waits for all puts.
Sync ==
    /\ pc = All("sync")
    /\ lib # "armci" => net = All(<<>>)
    /\ pc' = [p \in Proc |-> LoopHead(p, left[p])]
    /\ UNCHANGED <<lib, req, arg, k, left, calls, flag, slot, offset, last, net, got, taken>>

-----------------------------------------------------------------------------
(* The loop. *)

SendData(p) ==
    /\ pc[p] = "send"
    /\ Put(p, <<[to |-> "data", v |-> 0]>>)
    /\ left' = [left EXCEPT ![p] = IF p = "tr" THEN @ ELSE @ - 1]
    /\ pc' = [pc EXCEPT ![p] = IF p = "tr" THEN "recv" ELSE LoopHead(p, left[p] - 1)]
    /\ UNCHANGED <<lib, req, arg, k, calls, flag, slot, offset, last, got, taken>>

AfterRecvData(p) ==
    /\ left' = [left EXCEPT ![p] = IF p = "tr" THEN @ - 1 ELSE @]
    /\ pc' = [pc EXCEPT ![p] = IF p = "tr" THEN LoopHead(p, left[p] - 1) ELSE "send"]
    /\ taken' = [taken EXCEPT ![p] = @ + 1]

\* Variant of RecvData that leaves what it waited for as it is.
RecvDataKeeps(p) ==
    /\ pc[p] = "recv"
    /\ IF Counts THEN flag[p] >= 1 ELSE last[p] = "b"
    /\ AfterRecvData(p)
    /\ UNCHANGED <<lib, req, arg, k, calls, flag, slot, offset, last, net, got>>

\* SHMEM and ARMCI: wait for 'b' in the last octet, and write 'a' there.
WaitLastOctet(p) == last[p] = "b" /\ last' = [last EXCEPT ![p] = "a"]

RecvData(p) ==
    /\ pc[p] = "recv"
    /\ IF Counts THEN WaitCounter(p) /\ UNCHANGED last ELSE WaitLastOctet(p) /\ UNCHANGED flag
    /\ AfterRecvData(p)
    /\ UNCHANGED <<lib, req, arg, k, calls, slot, offset, net, got>>

\* The blocks that p frees, in the order of allocation of each: run_iters passes s_buff
\* and then r_buff, and MyMalloc of SHMEM has swapped them on one side.
FreeOrder(p) == IF lib = "shmem" /\ p = "rcv" THEN <<1, 2>> ELSE <<2, 1>>

\* Every block is free in the end and the next call may begin.
FreeEach ==
    /\ \E P \in IF lib = "shmem" THEN {Proc} ELSE {{"tr"}, {"rcv"}} :
           /\ \A p \in P : pc[p] = "free"
           /\ pc' = [p \in Proc |-> IF p \notin P THEN pc[p] ELSE IF p = "tr" THEN "idle" ELSE "wait"]
           /\ calls' = [p \in Proc |-> IF p \in P THEN calls[p] + 1 ELSE calls[p]]
           /\ k' = [p \in Proc |-> IF p \in P THEN 1 ELSE k[p]]
           /\ got' = [p \in Proc |-> IF p \in P THEN 0 ELSE got[p]]
           /\ taken' = [p \in Proc |-> IF p \in P THEN 0 ELSE taken[p]]
    /\ UNCHANGED <<lib, req, arg, left, flag, slot, offset, last, net>>

\* shfree is a call both processes make, with the same block; with different ones it
\* has no defined outcome, and the behaviour may end.  The others free on their own.
FreeBuff ==
    \/ /\ lib = "shmem" /\ FreeOrder("tr") # FreeOrder("rcv")
       /\ Together("free", "undefined")
       /\ UNCHANGED <<lib, req, arg, k, left, calls, flag, slot, offset, last, net, got, taken>>
    \/ FreeEach

-----------------------------------------------------------------------------

\* The oldest put reaches the memory of p; LAPI then adds one to the counter.
Deliver(p) ==
    LET m == Head(net[p])
    IN /\ net[p] # <<>>
       /\ net' = [net EXCEPT ![p] = Tail(@)]
       /\ slot' = [slot EXCEPT ![p] = IF m.to = "slot" THEN m.v ELSE @]
       /\ flag' = [flag EXCEPT ![p] = IF Counts THEN @ + 1
                                      ELSE IF m.to = "flag" THEN m.v ELSE @]
       /\ last' = [last EXCEPT ![p] = IF m.to = "data" THEN Pattern[arg[Peer(p)][1]].s ELSE @]
       /\ got' = [got EXCEPT ![p] = IF m.to = "data" THEN @ + 1 ELSE @]
       /\ UNCHANGED <<lib, pc, req, arg, k, left, calls, offset, taken>>

RecvRepeat(p) == AwaitRepeat(p) \/ ReadRepeat(p) \/ ClearRepeat(p)

Step(p) ==
    \/ Call(p) \/ SendRepeat(p) \/ RecvRepeat(p) \/ InitBufferData(p)
    \/ AfterAlignmentInit(p) \/ SendData(p) \/ RecvData(p)

Shared == MyMalloc \/ Sync \/ FreeBuff

Next == Shared \/ \E p \in Proc : Step(p) \/ Deliver(p)

\* Both processes run and every put arrives.
Spec ==
    /\ Init /\ [][Next]_vars
    /\ WF_vars(Shared) /\ \A p \in Proc : WF_vars(Step(p)) /\ WF_vars(Deliver(p))

-----------------------------------------------------------------------------
(* Properties. *)

\* Every variable keeps its type; a LAPI counter never counts more than the two puts
\* of SendRepeat ahead of the waits (RecvRepeat, RecvData).
TypeOK ==
    /\ lib \in Libraries /\ pc \in [Proc -> Labels] /\ calls \in [Proc -> 0..MaxCalls]
    /\ left \in [Proc -> Nat] /\ k \in [Proc -> 1..3]
    /\ flag \in [Proc -> IF Counts THEN 0..2 ELSE {0, 1}]

\* The second RecvRepeat returns nrepeat, although the flag says nothing about
\* which of the two values the slot holds: a value is put before its flag
\* (SendRepeat, RecvRepeat).
NrepeatIsRight == pc["rcv"] = "malloc" => arg["rcv"][2] = req[2]

\* RecvData returns once for each message that has arrived (RecvData).
ReceivedMeansArrived == \A p \in Proc : taken[p] <= got[p]

\* "Sync to prevent timing artifacts and race condition": a message that arrived
\* is never erased by the InitBufferData of a slower process (run_iters).
MessageKept ==
    \A p \in Proc : got[p] > taken[p] /\ ~Counts => last[p] = Pattern[arg[Peer(p)][1]].s

\* A message finds the receive buffer of its own measurement: it never arrives
\* before MyMalloc or after FreeBuff (SendData, FreeBuff).
PutFindsBuffer ==
    \A p \in Proc : (\E i \in DOMAIN net[p] : net[p][i].to = "data") => pc[p] \in {"init", "alignSend", "alignRecv", "sync", "send", "recv"}

\* RecvData comes back (RecvData).
RecvDataReturns == \A p \in Proc : pc[p] = "recv" ~> pc[p] # "recv"

\* "Run message size m iters times": the receiver measures the size it was told
\* (SendRepeat, RecvRepeat).
SizeIsRight == pc["rcv"] = "malloc" => arg["rcv"][1] = req[1]

\* RecvRepeat comes back once SendRepeat was called (SendRepeat, RecvRepeat).
RecvRepeatReturns ==
    (pc["tr"] = "malloc" /\ pc["rcv"] = "wait") ~> pc["rcv"] # "wait"
=============================================================================
