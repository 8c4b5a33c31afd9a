----------------------------- MODULE Infiniband -----------------------------
(***************************************************************************)
(* The two InfiniBand modules of the program, ibv.c and ib.c.  A behaviour  *)
(* belongs to one module (stack) and to one phase of its life: "setup"      *)
(* starts with two fresh processes and ends in the first measurement or in  *)
(* CleanUp (IbvSetup, IbSetup), "run" starts where Setup has returned on    *)
(* both sides and goes through the measurements (IbvRun).  The measurements *)
(* of ib.c end at their first message: module IbRun.  The variables of the  *)
(* other phase stay at 0.                                                   *)
(***************************************************************************)
EXTENDS Integers, Sequences

CONSTANTS
    Orders,                             \* see IbvSetup
    Requests, Pattern, MaxWq, MaxCalls  \* see IbvRun

ASSUME RequestsAssumption ==
    /\ Requests \subseteq Nat \X (Nat \ {0})
    /\ MaxWq \in Nat /\ MaxCalls \in Nat

\* No receive buffer starts out with the octet that RecvData waits for: false of a few
\* sizes (BufferData computes the octets), 599 bytes for one.
PatternsTellApart == \A r \in Requests : Pattern[r[1]].r # "b"

VARIABLES
    stack, phase,
    pc, chan,                              \* of both phases
    up, open, held, qp, dest, failed,      \* of "setup"
    req, left, calls, key, reg, rkey, last, sq, unreaped, err, got, taken    \* of "run"

setupOnly == <<up, open, held, qp, dest, failed>>
runOnly == <<req, left, calls, key, reg, rkey, last, sq, unreaped, err, got, taken>>
vars == <<stack, phase, pc, chan, setupOnly, runOnly>>

VS == INSTANCE IbvSetup WITH Stack <- "ibv"
IS == INSTANCE IbSetup
VR == INSTANCE IbvRun WITH Stack <- "ibv"

Proc == {"tr", "rcv"}

In(s, f) == stack = s /\ phase = f

NoRun ==
    /\ req = 0 /\ left = 0 /\ calls = 0 /\ key = 0 /\ reg = 0 /\ rkey = 0 /\ last = 0
    /\ sq = 0 /\ unreaped = 0 /\ err = 0 /\ got = 0 /\ taken = 0

NoSetup == up = 0 /\ open = 0 /\ held = 0 /\ qp = 0 /\ dest = 0 /\ failed = 0

Init ==
    \/ stack = "ibv"  /\ phase = "setup" /\ VS!Init /\ NoRun
    \/ stack = "vapi" /\ phase = "setup" /\ IS!Init /\ NoRun
    \/ stack = "ibv"  /\ phase = "run" /\ VR!Init /\ NoSetup

SetupStep(p) ==
    /\ \/ In("ibv", "setup") /\ VS!Step(p)
       \/ In("vapi", "setup") /\ IS!Step(p)
    /\ UNCHANGED <<stack, phase, runOnly>>

MainStep(p) ==
    /\ In("ibv", "run") /\ VR!MainThread(p)
    /\ UNCHANGED <<stack, phase, setupOnly>>

Adapter(p) ==
    /\ In("ibv", "run") /\ VR!Transmit(p)
    /\ UNCHANGED <<stack, phase, setupOnly>>

Next == \E p \in Proc : SetupStep(p) \/ MainStep(p) \/ Adapter(p)

\* As long as anyone can take a step, someone does.  No more is needed: without
\* another call of run_iters every process and adapter comes to rest.
Spec == Init /\ [][Next]_vars /\ WF_vars(Next)

-----------------------------------------------------------------------------
(* Properties, put together from those of IbvSetup and IbvRun with their type   *)
(* invariants.                                                                  *)

\* A queue pair is brought up towards the peer's address only (no octet of a QUIT, of
\* a synchronization string or of half an address was taken for d_lid or d_qp_num),
\* and may send only when the peer's can already receive, or the peer has given up
\* (initIB and the Sync inside it).
PairedWithPeer ==
    /\ phase = "setup" => VS!PairedWithPeer /\ VS!SendsToReadyPeer
    /\ In("ibv", "setup") => VS!TypeOK

\* After CleanUp no verbs object is left, wherever initIB gave up (finalizeIB).
NothingLeaked == phase = "setup" => VS!NothingLeaked

\* When initIB fails before its Sync, or later on the receiver, neither side is left
\* waiting for the other although no one expects a QUIT (CleanUp).
FailureEnds ==
    /\ (phase = "setup" /\ failed["rcv"] # "no") ~> (\A p \in Proc : pc[p] = "exit")
    /\ (phase = "setup" /\ failed["tr"] \notin {"no", "RTS"})
           ~> (\A p \in Proc : pc[p] = "exit")

\* "Specify the name of the receiver host to connect to (TCP, PVM, IB, GM)"
\* (dox/netpipe.1, option -h): a process that was given a host connects to it, unless
\* the Setup of either side fails (Init, Setup, establish).
TransmitterConnects ==
    (phase = "setup" /\ \A p \in Proc : pc[p] \in {"client", "server"})
        ~> ((phase = "setup" /\ up = "connected") \/ \E p \in Proc : pc[p] = "exit")

\* RecvData returns once for each message that has arrived, never on what an earlier
\* message or InitBufferData left behind, whatever the sizes, the numbers of turns and
\* the room in the send queue (RecvData, SendData).
ReceivedMeansArrived ==
    phase = "run" => VR!TypeOK /\ VR!ReceivedMeansArrived

\* An RDMA write under way aims at the buffer its peer has registered now: keys are
\* exchanged anew in every call, and a buffer is given back only when no write to it
\* is under way, although SendData does not wait for any of them and drops some, and a
\* queue pair may have broken (AfterAlignmentInit, SendData, FreeBuff).
AimsAtLiveBuffer == phase = "run" => VR!AimsAtLiveBuffer

\* "Reset is used after a trial to empty the work request queues so we have enough
\* room for the next trial to run" (ibv.c:826): SendData finds room (SendData).
QueueHasRoom == phase = "run" => VR!QueueHasRoom
=============================================================================
