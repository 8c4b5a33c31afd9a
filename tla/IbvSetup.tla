------------------------------ MODULE IbvSetup ------------------------------
(***************************************************************************)
(* How src/src/ibv.c brings up an InfiniBand connection and takes it down   *)
(* again: Init, Setup, establish, initIB, the first call of run_iters up to *)
(* its Sync, CleanUp and finalizeIB.  The two processes talk over a TCP     *)
(* connection on which nothing is framed: addresses of queue pairs and of   *)
(* buffers, synchronization strings, repeat counts and the QUIT of a        *)
(* process that gives up all arrive on the same stream of octets, and most  *)
(* steps of initIB can fail on one side only.                               *)
(*                                                                          *)
(* An octet is represented by the name of the message it belongs to.  "tr"  *)
(* is the process that was given a host to connect to.                      *)
(***************************************************************************)
EXTENDS Naturals, Sequences

CONSTANTS
    Stack,   \* "ibv" for ibv.c, "vapi" for ib.c (module IbSetup)
    Orders   \* what the driver does first: "hostFirst" (netpipe.c at this commit sets
             \* tr for a process with a host, then calls Init) or "initFirst"

VARIABLES
    pc,      \* pc[p]: the call that p is in
    up,      \* "closed", "listening" or "connected": the TCP connection
    open,    \* open[p]: p has not closed its end
    chan,    \* chan[p]: the octets on their way to p
    held,    \* held[p]: the verbs objects that p has created
    qp,      \* qp[p]: the state of p's queue pair
    dest,    \* dest[p]: the octets read into d_lid and d_qp_num
    failed   \* failed[p]: the call that made p give up, or "no"

vars == <<pc, up, open, chan, held, qp, dest, failed>>

Proc == {"tr", "rcv"}

Peer(p) == IF p = "tr" THEN "rcv" ELSE "tr"

Octets(what, n) == [i \in 1..n |-> what]

\* sizeof(lid) is 2 and sizeof(qp_num) is 4.
Address == Octets("lid", 2) \o Octets("qpn", 4)

SyncStr == Octets("sync", 6)

\* The four letters and the closing zero.
Quit == Octets("quit", 5)

\* The two SendRepeat of a call of run_iters.
Repeats == Octets("rpt", 8)

\* Address and key of a receive buffer (AfterAlignmentInit).
BufferAddress == Octets("addr", 12)

Labels == {"client", "server", "accept", "create", "tell", "readLid", "readQpn", "INIT", "RTR",
           "syncWrite", "syncRead", "RTS", "ready", "malloc", "addrWrite", "addrRead",
           "running", "quit", "answer", "close", "finalize", "exit"}

\* The objects in the order in which initIB and MyMalloc create them, and what
\* each one is built on: the library refuses to destroy an object in use.
Created == <<"ctx", "pd", "scq", "rcq", "qp">>
Regions == {"rmr", "smr"}
BuiltOn(r) ==
    CASE r = "ctx" -> {}
      [] r = "pd"  -> {"ctx"}
      [] r \in {"scq", "rcq"} -> {"ctx"}
      [] r = "qp"  -> {"pd", "scq", "rcq"}
      [] r \in Regions -> {"pd"}

\* Init makes a receiver of every process: the one with a host transmits only when
\* it is told so afterwards.
Init ==
    /\ \E order \in Orders :
          pc = [p \in Proc |-> IF p = "tr" /\ order = "initFirst" THEN "client" ELSE "server"]
    /\ up = "closed"
    /\ open = [p \in Proc |-> TRUE]
    /\ chan = [p \in Proc |-> <<>>]
    /\ held = [p \in Proc |-> {}]
    /\ qp = [p \in Proc |-> "none"]
    /\ dest = [p \in Proc |-> <<>>]
    /\ failed = [p \in Proc |-> "no"]

-----------------------------------------------------------------------------
(* The socket. *)

Goto(p, from, to) == pc[p] = from /\ pc' = [pc EXCEPT ![p] = to]

\* A write to a peer that has closed is accepted and lost.
Written(p, octets) ==
    IF open[Peer(p)] THEN [chan EXCEPT ![Peer(p)] = @ \o octets] ELSE chan

Left(p) == chan[p] = <<>> /\ ~open[Peer(p)]

\* Closing with unread octets resets the connection: of what p wrote the peer
\* may lose a part.
CloseComm(p) ==
    /\ open' = [open EXCEPT ![p] = FALSE]
    /\ \E k \in 0..Len(chan[Peer(p)]) :
          /\ chan[p] = <<>> => k = Len(chan[Peer(p)])
          /\ chan' = [chan EXCEPT ![p] = <<>>, ![Peer(p)] = SubSeq(@, 1, k)]

Exit(p) ==
    /\ pc' = [pc EXCEPT ![p] = "exit"]
    /\ CloseComm(p)

\* initIB returns -1 and Setup calls CleanUp, which writes first on the
\* transmitter and reads first on the receiver.
GiveUp(p) ==
    /\ pc' = [pc EXCEPT ![p] = IF p = "tr" THEN "quit" ELSE "answer"]
    /\ failed' = [failed EXCEPT ![p] = pc[p]]

-----------------------------------------------------------------------------
(* Setup and establish. *)

\* No socket, an unknown host, bind() refused, connect() refused because the
\* receiver does not listen yet.
SetupFails(p) ==
    /\ pc[p] \in {"client", "server"}
    /\ Exit(p)
    /\ UNCHANGED <<up, held, qp, dest, failed>>

\* Only at the receiver's address will anyone knock.
Listen(p) ==
    /\ Goto(p, "server", "accept")
    /\ up' = IF p = "rcv" THEN "listening" ELSE up
    /\ UNCHANGED <<open, chan, held, qp, dest, failed>>

Connect ==
    /\ up = "listening"
    /\ Goto("tr", "client", "create")
    /\ up' = "connected"
    /\ UNCHANGED <<open, chan, held, qp, dest, failed>>

Accept ==
    /\ up = "connected"
    /\ Goto("rcv", "accept", "create")
    /\ UNCHANGED <<up, open, chan, held, qp, dest, failed>>

-----------------------------------------------------------------------------
(* initIB. *)

\* Opens the device, queries the port, and creates the protection domain, the
\* two completion queues and the queue pair, one after the other.
Create(p) ==
    /\ pc[p] = "create"
    /\ LET i == CHOOSE k \in DOMAIN Created :
                   Created[k] \notin held[p] /\ \A h \in 1..(k - 1) : Created[h] \in held[p]
       IN /\ held' = [held EXCEPT ![p] = @ \cup {Created[i]}]
          /\ pc' = [pc EXCEPT ![p] = IF i = Len(Created) THEN "tell" ELSE @]
          /\ qp' = [qp EXCEPT ![p] = IF i = Len(Created) THEN "RESET" ELSE @]
    /\ UNCHANGED <<up, open, chan, dest, failed>>

\* Any of the calls of initIB that can fail does, and -1 is returned.
InitIBFails(p) ==
    /\ pc[p] \in {"create", "INIT", "RTR", "RTS"}
          \cup (IF open[Peer(p)] THEN {} ELSE {"tell"})
    /\ GiveUp(p)
    /\ UNCHANGED <<up, open, chan, held, qp, dest>>

Tell(p) ==
    /\ Goto(p, "tell", "readLid")
    /\ chan' = Written(p, Address)
    /\ UNCHANGED <<up, open, held, qp, dest, failed>>

\* read() returns up to n octets; anything but n makes initIB fail.
ReadExactly(p, n, next) ==
    /\ \/ /\ chan[p] # <<>>
          /\ \E k \in 1..n :
                /\ k <= Len(chan[p])
                /\ dest' = [dest EXCEPT ![p] = @ \o SubSeq(chan[p], 1, k)]
                /\ chan' = [chan EXCEPT ![p] = SubSeq(@, k + 1, Len(@))]
                /\ IF k = n
                   THEN pc' = [pc EXCEPT ![p] = next] /\ UNCHANGED failed
                   ELSE GiveUp(p)
       \/ /\ Left(p)
          /\ GiveUp(p)
          /\ UNCHANGED <<dest, chan>>
    /\ UNCHANGED <<up, open, held, qp>>

\* Variant of ReadPeer that takes whatever read() returned.
ReadPeerAnyLength(p) ==
    /\ pc[p] \in {"readLid", "readQpn"}
    /\ chan[p] # <<>>
    /\ \E k \in 1..(IF pc[p] = "readLid" THEN 2 ELSE 4) :
          /\ k <= Len(chan[p])
          /\ dest' = [dest EXCEPT ![p] = @ \o SubSeq(chan[p], 1, k)]
          /\ chan' = [chan EXCEPT ![p] = SubSeq(@, k + 1, Len(@))]
    /\ pc' = [pc EXCEPT ![p] = IF @ = "readLid" THEN "readQpn" ELSE "INIT"]
    /\ UNCHANGED <<up, open, held, qp, failed>>

ReadPeer(p) ==
    \/ pc[p] = "readLid" /\ ReadExactly(p, 2, "readQpn")
    \/ pc[p] = "readQpn" /\ ReadExactly(p, 4, "INIT")

\* INIT, RTR and RTS, with the Sync between the last two.
ModifyQP(p) ==
    /\ pc[p] \in {"INIT", "RTR", "RTS"}
    /\ qp' = [qp EXCEPT ![p] = pc[p]]
    /\ pc' = [pc EXCEPT ![p] = CASE @ = "INIT" -> "RTR"
                                 [] @ = "RTR" -> "syncWrite"
                                 [] @ = "RTS" -> "ready"]
    /\ UNCHANGED <<up, open, chan, held, dest, failed>>

SyncWrite(p) ==
    /\ Goto(p, "syncWrite", "syncRead")
    /\ chan' = Written(p, SyncStr)
    /\ UNCHANGED <<up, open, held, qp, dest, failed>>

\* Where the two Syncs lead: on to RTS in initIB, into the loop in run_iters.
AfterSync(p) == IF qp[p] = "RTR" THEN "RTS" ELSE "running"

\* Variant of SyncRead that goes on without the answer.
SyncReadNoWait(p) ==
    /\ pc[p] = "syncRead"
    /\ pc' = [pc EXCEPT ![p] = AfterSync(p)]
    /\ UNCHANGED <<up, open, chan, held, qp, dest, failed>>

\* readFully assembles six octets; the wrong ones, or the end of the stream
\* before them, end the process without CleanUp.  response is not initialized: at
\* the end of the stream it may still hold the letters that the Sync of initIB read.
SyncRead(p) ==
    /\ pc[p] = "syncRead"
    /\ \/ /\ Len(chan[p]) >= 6
          /\ SubSeq(chan[p], 1, 6) = SyncStr
          /\ pc' = [pc EXCEPT ![p] = AfterSync(p)]
          /\ chan' = [chan EXCEPT ![p] = SubSeq(@, 7, Len(@))]
          /\ UNCHANGED open
       \/ /\ \/ Len(chan[p]) >= 6 /\ SubSeq(chan[p], 1, 6) # SyncStr
             \/ Len(chan[p]) < 6 /\ ~open[Peer(p)]
          /\ Exit(p)
       \/ /\ Left(p) /\ failed[Peer(p)] = "no" /\ qp[p] = "RTS"
          /\ pc' = [pc EXCEPT ![p] = AfterSync(p)]
          /\ UNCHANGED <<open, chan>>
    /\ UNCHANGED <<up, held, qp, dest, failed>>

-----------------------------------------------------------------------------
(* The first call of run_iters, up to its Sync. *)

FirstRepeats(p) ==
    /\ pc[p] = "ready"
    /\ \/ /\ p = "tr"
          /\ chan' = Written(p, Repeats)
          /\ pc' = [pc EXCEPT ![p] = "malloc"]
          /\ UNCHANGED open
       \/ /\ p = "rcv" /\ Len(chan[p]) >= 8
          /\ chan' = [chan EXCEPT ![p] = SubSeq(@, 9, Len(@))]
          /\ pc' = [pc EXCEPT ![p] = "malloc"]
          /\ UNCHANGED open
       \/ /\ p = "rcv" /\ Len(chan[p]) < 8 /\ ~open["tr"]
          /\ Exit(p)
    /\ UNCHANGED <<up, held, qp, dest, failed>>

\* Both buffers are registered; a failure ends the process without CleanUp.  Only
\* ibv.c, which writes into its peer's memory by default, goes on to tell where.
MyMalloc(p) ==
    /\ pc[p] = "malloc"
    /\ \/ /\ pc' = [pc EXCEPT ![p] = IF Stack = "ibv" THEN "addrWrite" ELSE "syncWrite"]
          /\ held' = [held EXCEPT ![p] = @ \cup Regions]
          /\ UNCHANGED <<open, chan>>
       \/ Exit(p) /\ UNCHANGED held
    /\ UNCHANGED <<up, qp, dest, failed>>

\* Any twelve octets will do; the end of the stream before them ends the process.
AfterAlignmentInit(p) ==
    /\ \/ /\ Goto(p, "addrWrite", "addrRead")
          /\ chan' = Written(p, BufferAddress)
          /\ UNCHANGED open
       \/ /\ Len(chan[p]) >= 12
          /\ Goto(p, "addrRead", "syncWrite")
          /\ chan' = [chan EXCEPT ![p] = SubSeq(@, 13, Len(@))]
          /\ UNCHANGED open
       \/ pc[p] = "addrRead" /\ Len(chan[p]) < 12 /\ ~open[Peer(p)] /\ Exit(p)
    /\ UNCHANGED <<up, held, qp, dest, failed>>

-----------------------------------------------------------------------------
(* CleanUp and finalizeIB. *)

QuitWrite(p) ==
    /\ pc[p] = "quit"
    /\ chan' = Written(p, Quit)
    /\ pc' = [pc EXCEPT ![p] = IF p = "tr" THEN "answer" ELSE "close"]
    /\ UNCHANGED <<up, open, held, qp, dest, failed>>

\* Variant of QuitRead that insists on the five octets of QUIT.
QuitReadQuit(p) ==
    /\ pc[p] = "answer"
    /\ Len(chan[p]) >= 5 /\ SubSeq(chan[p], 1, 5) = Quit
    /\ chan' = [chan EXCEPT ![p] = SubSeq(@, 6, Len(@))]
    /\ pc' = [pc EXCEPT ![p] = IF p = "tr" THEN "close" ELSE "quit"]
    /\ UNCHANGED <<up, open, held, qp, dest, failed>>

\* Whatever has arrived will do: the result of read() is not looked at.  It is given
\* a string literal to read into: where literals are read-only the octets stay where
\* they are (EFAULT, k = 0).
QuitRead(p) ==
    /\ pc[p] = "answer"
    /\ \/ Left(p) /\ UNCHANGED chan
       \/ \E k \in 0..5 : /\ chan[p] # <<>> /\ k <= Len(chan[p])
                          /\ chan' = [chan EXCEPT ![p] = SubSeq(@, k + 1, Len(@))]
    /\ pc' = [pc EXCEPT ![p] = IF p = "tr" THEN "close" ELSE "quit"]
    /\ UNCHANGED <<up, open, held, qp, dest, failed>>

Close(p) ==
    /\ Goto(p, "close", "finalize")
    /\ CloseComm(p)
    /\ UNCHANGED <<up, held, qp, dest, failed>>

\* The order of finalizeIB.
Destroyed == <<"qp", "rcq", "scq", "smr", "rmr", "pd", "ctx">>

\* What is left after the objects of a sequence were destroyed in turn: one
\* that another is built on stays, and only a message is printed.
Remaining(order, objects) ==
    LET left[i \in 0..Len(order)] ==
          IF i = 0 THEN objects
          ELSE IF \E r \in left[i - 1] : order[i] \in BuiltOn(r)
               THEN left[i - 1]
               ELSE left[i - 1] \ {order[i]}
    IN left[Len(order)]

finalizeIB(p) ==
    /\ Goto(p, "finalize", "exit")
    /\ held' = [held EXCEPT ![p] = Remaining(Destroyed, @)]
    /\ qp' = [qp EXCEPT ![p] = "none"]
    /\ UNCHANGED <<up, open, chan, dest, failed>>

-----------------------------------------------------------------------------

InitIB(p) ==
    \/ Create(p) \/ InitIBFails(p) \/ Tell(p) \/ ReadPeer(p) \/ ModifyQP(p)

FirstCall(p) ==
    \/ SyncWrite(p) \/ SyncRead(p) \/ FirstRepeats(p) \/ MyMalloc(p) \/ AfterAlignmentInit(p)

CleanUp(p) ==
    \/ QuitWrite(p) \/ QuitRead(p) \/ Close(p) \/ finalizeIB(p)

Step(p) ==
    \/ SetupFails(p)
    \/ Listen(p)
    \/ p = "rcv" /\ Accept
    \/ p = "tr" /\ Connect
    \/ InitIB(p) \/ FirstCall(p) \/ CleanUp(p)

Next == \E p \in Proc : Step(p)

\* A process that can run is scheduled, and TCP delivers what it accepted.
Spec == Init /\ [][Next]_vars /\ \A p \in Proc : WF_vars(Step(p))

-----------------------------------------------------------------------------
(* Properties. *)

\* Every variable of Setup, initIB and finalizeIB keeps its type, and only octets of
\* the six kinds of message are ever on the connection.
TypeOK ==
    /\ pc \in [Proc -> Labels]
    /\ up \in {"closed", "listening", "connected"}
    /\ open \in [Proc -> BOOLEAN]
    /\ \A p \in Proc : \A i \in DOMAIN chan[p] :
          chan[p][i] \in {"lid", "qpn", "sync", "quit", "rpt", "addr"}
    /\ \A p \in Proc : held[p] \subseteq {Created[i] : i \in DOMAIN Created} \cup Regions
    /\ qp \in [Proc -> {"none", "RESET", "INIT", "RTR", "RTS"}]
    /\ failed \in [Proc -> Labels \cup {"no"}]

\* A queue pair is brought up towards the peer's address only: no octet of a
\* QUIT, of a synchronization string or of half an address was taken for
\* d_lid or d_qp_num (initIB).
PairedWithPeer ==
    \A p \in Proc : qp[p] \in {"INIT", "RTR", "RTS"} => dest[p] = Address

\* Sync stands between RTR and RTS: a process may send only when the peer's
\* queue pair can already receive, or the peer has given up (initIB).
SendsToReadyPeer ==
    \A p \in Proc :
        qp[p] = "RTS" => qp[Peer(p)] \in {"RTR", "RTS"} \/ pc[Peer(p)] \in {"finalize", "exit"}

\* After CleanUp nothing is left, wherever initIB gave up (finalizeIB).
NothingLeaked ==
    \A p \in Proc : pc[p] = "exit" /\ failed[p] # "no" => held[p] = {}

\* When initIB fails before its Sync, or later on the receiver, neither side is
\* left waiting for the other although no one expects a QUIT (CleanUp).
FailureEnds ==
    /\ (failed["rcv"] # "no") ~> (\A p \in Proc : pc[p] = "exit")
    /\ (failed["tr"] \notin {"no", "RTS"}) ~> (\A p \in Proc : pc[p] = "exit")

\* Whoever gives up in initIB gets to finalizeIB (Setup, CleanUp).
FailureCleansUp ==
    \A p \in Proc : (failed[p] # "no") ~> (pc[p] = "exit")
=============================================================================
