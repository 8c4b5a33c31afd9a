--------------------------------- MODULE Pvm --------------------------------
(***************************************************************************)
(* run_iters over src/src/pvm.c.  The transmitter finds the receiver among  *)
(* the tasks of the parallel machine; after that every message, whatever it *)
(* holds, has tag 1, and pvm_recv(-1, -1) takes the next one from anybody.  *)
(* Sync is empty.  "tr" is the process that was given a host.               *)
(***************************************************************************)
EXTENDS Integers, Sequences

CONSTANTS
    Orders,     \* what the driver does first: "hostFirst" (netpipe.c at this commit sets
                \* tr for a process with a host, then calls Init) or "initFirst"
    Others,     \* tasks of the machine that an earlier run left behind
    Requests,   \* pairs <<size in bytes, nrepeat>>
    MaxCalls    \* bound on the measurements

VARIABLES
    tasks,                         \* tasks in the parallel machine
    othertid,                      \* othertid[p]: where p sends to
    pc, k, arg, left, calls,       \* run_iters, as in the other modules
    mail                           \* mail[t]: messages on their way to task t

vars == <<tasks, othertid, pc, k, arg, left, calls, mail>>

Proc == {"tr", "rcv"}
Peer(p) == IF p = "tr" THEN "rcv" ELSE "tr"
All(v) == [p \in Proc |-> v]

Labels == {"joinTr", "joinRcv", "find", "await", "idle", "repeat", "malloc", "init", "send", "recv", "free", "exit"}

\* Init makes a receiver of every process: the one with a host transmits only when
\* it is told so afterwards.
Init ==
    /\ \E order \in Orders :
          pc = [p \in Proc |-> IF p = "tr" /\ order = "initFirst" THEN "joinTr" ELSE "joinRcv"]
    /\ tasks = Others
    /\ othertid = All("none")
    /\ k = All(1) /\ arg = All(<<0, 0>>)
    /\ left = All(0) /\ calls = All(0)
    /\ mail = [t \in Proc \cup Others |-> <<>>]

Goto(p, from, to) == pc[p] = from /\ pc' = [pc EXCEPT ![p] = to]

\* pvm_send: the message is copied and the call returns.
Send(t, what, v) == mail' = [mail EXCEPT ![t] = Append(@, [what |-> what, v |-> v])]

\* pvm_recv(-1, -1): the next message, of any sender and with any tag.
Recv(p) == mail[p] # <<>> /\ mail' = [mail EXCEPT ![p] = Tail(@)]

-----------------------------------------------------------------------------
(* Setup. *)

\* pvm_mytid makes the process a task of the machine.
Join(p) ==
    /\ Goto(p, "joinTr", "find") \/ Goto(p, "joinRcv", "await")
    /\ tasks' = tasks \cup {p}
    /\ UNCHANGED <<othertid, k, arg, left, calls, mail>>

\* The transmitter takes the other one of two tasks; with any other number it exits.
Find ==
    /\ pc["tr"] = "find"
    /\ \/ /\ \E t \in tasks : tasks = {"tr", t} /\ t # "tr"
                              /\ othertid' = [othertid EXCEPT !["tr"] = t] /\ Send(t, "tid", 0)
          /\ pc' = [pc EXCEPT !["tr"] = "idle"]
       \/ /\ \A t \in tasks : t # "tr" => tasks # {"tr", t}
          /\ pc' = [pc EXCEPT !["tr"] = "exit"] /\ UNCHANGED <<othertid, mail>>
    /\ UNCHANGED <<tasks, k, arg, left, calls>>

\* The receiver takes whatever comes first for the task identifier of its peer.
Found(p) ==
    /\ Goto(p, "await", "repeat") /\ Recv(p)
    /\ othertid' = [othertid EXCEPT ![p] = Peer(p)]
    /\ UNCHANGED <<tasks, k, arg, left, calls>>

-----------------------------------------------------------------------------
(* run_iters. *)

Call(p) ==
    /\ p = "tr" /\ Goto(p, "idle", "repeat") /\ calls[p] < MaxCalls
    /\ \E r \in Requests : arg' = [arg EXCEPT ![p] = r]
    /\ UNCHANGED <<tasks, othertid, k, left, calls, mail>>

SendRepeat(p) ==
    /\ p = "tr" /\ Goto(p, "repeat", IF k[p] = 1 THEN "repeat" ELSE "malloc")
    /\ Send(othertid[p], IF k[p] = 1 THEN "size" ELSE "nrepeat", arg[p][k[p]])
    /\ k' = [k EXCEPT ![p] = 3 - k[p]]
    /\ UNCHANGED <<tasks, othertid, arg, left, calls>>

\* Variant of RecvRepeat that looks whether a message is there and does not wait.
RecvRepeatProbes(p) ==
    /\ p = "rcv" /\ Goto(p, "repeat", IF k[p] = 1 THEN "repeat" ELSE "malloc")
    /\ \/ Recv(p) /\ arg' = [arg EXCEPT ![p][k[p]] = Head(mail[p]).v]
       \/ k[p] = 2 /\ mail[p] = <<>> /\ UNCHANGED <<mail, arg>>
    /\ k' = [k EXCEPT ![p] = 3 - k[p]]
    /\ UNCHANGED <<tasks, othertid, left, calls>>

RecvRepeat(p) ==
    /\ p = "rcv" /\ Goto(p, "repeat", IF k[p] = 1 THEN "repeat" ELSE "malloc")
    /\ Recv(p)
    /\ arg' = [arg EXCEPT ![p][k[p]] = Head(mail[p]).v]
    /\ k' = [k EXCEPT ![p] = 3 - k[p]]
    /\ UNCHANGED <<tasks, othertid, left, calls>>

MyMalloc(p) ==
    /\ Goto(p, "malloc", "init")
    /\ left' = [left EXCEPT ![p] = arg[p][2]]
    /\ UNCHANGED <<tasks, othertid, k, arg, calls, mail>>

LoopHead(p, n) == IF n = 0 THEN "free" ELSE IF p = "tr" THEN "send" ELSE "recv"

\* Sync does nothing: from InitBufferData the process goes straight into the loop.
Sync(p) ==
    /\ Goto(p, "init", LoopHead(p, left[p]))
    /\ UNCHANGED <<tasks, othertid, k, arg, left, calls, mail>>

SendData(p) ==
    /\ pc[p] = "send"
    /\ Send(othertid[p], "data", arg[p][1])
    /\ left' = [left EXCEPT ![p] = IF p = "tr" THEN @ ELSE @ - 1]
    /\ pc' = [pc EXCEPT ![p] = IF p = "tr" THEN "recv" ELSE LoopHead(p, left[p] - 1)]
    /\ UNCHANGED <<tasks, othertid, k, arg, calls>>

RecvData(p) ==
    /\ pc[p] = "recv" /\ Recv(p)
    /\ left' = [left EXCEPT ![p] = IF p = "tr" THEN @ - 1 ELSE @]
    /\ pc' = [pc EXCEPT ![p] = IF p = "tr" THEN LoopHead(p, left[p] - 1) ELSE "send"]
    /\ UNCHANGED <<tasks, othertid, k, arg, calls>>

FreeBuff(p) ==
    /\ Goto(p, "free", IF p = "tr" THEN "idle" ELSE "repeat")
    /\ calls' = [calls EXCEPT ![p] = @ + 1]
    /\ UNCHANGED <<tasks, othertid, k, arg, left, mail>>

Step(p) ==
    \/ Join(p) \/ (p = "tr" /\ Find) \/ Found(p)
    \/ Call(p) \/ SendRepeat(p) \/ RecvRepeat(p) \/ MyMalloc(p) \/ Sync(p)
    \/ SendData(p) \/ RecvData(p) \/ FreeBuff(p)

Next == \E p \in Proc : Step(p)

\* Both programs run on, and the machine delivers what was sent.
Spec == Init /\ [][Next]_vars /\ \A p \in Proc : WF_vars(Step(p))

-----------------------------------------------------------------------------
(* Properties. *)

\* Every variable keeps its type; the messages under way are bounded, because every
\* SendData is answered (SendRepeat, SendData).
TypeOK ==
    /\ pc \in [Proc -> Labels] /\ k \in [Proc -> 1..2] /\ left \in [Proc -> Nat]
    /\ tasks \subseteq Proc \cup Others /\ othertid \in [Proc -> Proc \cup Others \cup {"none"}]
    /\ \A p \in Proc : Len(mail[p]) <= 2 * MaxCalls + 2

\* The message that pvm_recv finds is of the kind and the length the code unpacks,
\* although tags and senders are not looked at (RecvRepeat, RecvData).
UnpacksWhatWasPacked ==
    \A p \in Proc : mail[p] # <<>> =>
        LET m == Head(mail[p])
        IN /\ pc[p] = "await" => m.what = "tid"
           /\ pc[p] = "repeat" => m.what = IF k[p] = 1 THEN "size" ELSE "nrepeat"
           /\ pc[p] = "recv" => m = [what |-> "data", v |-> arg[p][1]]

\* "Since there are two tasks, one is ours the other is the receiver"
\* (establish).
FindsReceiver == othertid["tr"] \in {"none", "rcv"}

\* "The transmitter will be set using the -h host flag" (pvm.c:29): a receiver that
\* waits for its peer is told of it, unless the transmitter finds too few tasks or too
\* many and exits (Init, establish).
ReceiverIsTold == pc["rcv"] = "await" ~> (pc["rcv"] # "await" \/ pc["tr"] = "exit")

\* A measurement comes to its end, without any synchronization (run_iters).
RunEnds == (pc["tr"] = "repeat" /\ othertid["tr"] = "rcv") ~> pc["tr"] = "idle"

\* "Sync to prevent timing artifacts": while the transmitter's clock runs, the
\* receiver is done with its preparations (run_iters, Sync).
TimingIsClean ==
    pc["tr"] = "recv" => ~(pc["rcv"] \in {"repeat", "malloc", "init"} /\ calls["rcv"] <= calls["tr"])
=============================================================================
