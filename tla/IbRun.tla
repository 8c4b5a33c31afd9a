-------------------------------- MODULE IbRun -------------------------------
(***************************************************************************)
(* Measurements over src/src/ib.c.  The control is that of ibv.c (module    *)
(* IbvRun), but Init chooses sends that the last octet of the buffer gives  *)
(* away: no address is exchanged, and each message takes a receive that the *)
(* other side has posted.  Each definition stands for the lines of ib.c     *)
(* that the map names.                                                      *)
(***************************************************************************)
EXTENDS Integers, Sequences

CONSTANTS Requests, Pattern, MaxWq, MaxCalls   \* see IbvRun

VARIABLES pc, req, left, calls, chan, key, reg, rkey, last, sq, unreaped, err, got, taken

V == INSTANCE IbvRun WITH Stack <- "vapi"

vars == V!vars

Init == V!Init

Call(p) == V!Call(p)
MyMalloc(p) == V!MyMalloc(p)

\* The peer may be gone; response then is what an earlier Sync left on the stack, the
\* right six letters perhaps (see IbvSetup).
Sync(p) ==
    \/ V!SyncWrite(p) \/ V!SyncRead(p) \/ V!PeerGone(p)
    \/ /\ pc[p] = "syncRead" /\ chan[p] = <<>> /\ pc[V!Peer(p)] = "exit"
       /\ \E to \in {"exit", V!LoopHead(p, left[p])} : pc' = [pc EXCEPT ![p] = to]
       /\ reg' = [reg EXCEPT ![p] = pc'[p] # "exit"]
       /\ UNCHANGED <<req, left, calls, chan, key, rkey, last, sq, unreaped, err, got, taken>>

SendData(p) == V!SendData(p)
RecvData(p) == V!RecvData(p)
FreeBuff(p) == V!FreeBuff(p)
Transmit(p) == V!Transmit(p)

MainThread(p) ==
    \/ Call(p) \/ MyMalloc(p) \/ Sync(p) \/ SendData(p) \/ RecvData(p) \/ FreeBuff(p)

Next == \E p \in {"tr", "rcv"} : MainThread(p) \/ Transmit(p)

Spec == Init /\ [][Next]_vars /\ \A p \in {"tr", "rcv"} : WF_vars(MainThread(p)) /\ WF_vars(Transmit(p))

-----------------------------------------------------------------------------

\* "Infiniband requires use of asynchronous communications, so we need the
\* PrepareToReceive calls below" (netpipe.c:75): a message to a process that is up
\* finds a receive posted there and breaks no queue pair (run_iters, SendData).
SendFindsReceive ==
    \A p \in {"tr", "rcv"} :
        sq[p] # <<>> /\ pc[V!Peer(p)] # "exit" => V!Writable(V!Peer(p), Head(sq[p]))
=============================================================================
