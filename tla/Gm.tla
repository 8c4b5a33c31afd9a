--------------------------------- MODULE Gm ---------------------------------
(***************************************************************************)
(* run_iters over src/src/gm.c.  A send is queued and the call returns: the *)
(* adapter reads the buffer later, and no caller waits for the callback.    *)
(* A message is delivered into the oldest buffer of its size class that the *)
(* peer has provided, and is retried until there is one.  "tr" is the       *)
(* process that was given a host.                                           *)
(***************************************************************************)
EXTENDS Integers, Sequences

CONSTANTS
    Orders,     \* what the driver does first: "hostFirst" (netpipe.c at this commit sets
                \* tr for a process with a host, then calls Init) or "initFirst"
    Requests,   \* pairs <<size in bytes, nrepeat>>
    MaxCalls    \* bound on the measurements

VARIABLES
    pc, k, arg, req, left, calls,  \* run_iters, as in the other modules
    lrpt,                          \* the one buffer SendRepeat and RecvRepeat use
    sends,                         \* sends[p]: requests the adapter of p has not read yet
    given,                         \* given[p]: receive buffers p has provided
    events, need,                  \* receive events, and octets readFully still waits for
    live                           \* s_buff[p] is allocated

vars == <<pc, k, arg, req, left, calls, lrpt, sends, given, events, need, live>>

Proc == {"tr", "rcv"}
Peer(p) == IF p = "tr" THEN "rcv" ELSE "tr"
All(v) == [p \in Proc |-> v]

Labels == {"greet", "await", "hello", "idle", "repeat", "inRepeat", "malloc", "sync", "inSync", "send",
           "recv", "inRecv", "free"}

RepeatLen == 8   \* sizeof(unsigned long)
SyncLen == 7     \* strlen("Syncme") + 1
HelloLen == 20   \* "this is the sender!!"

\* gm_min_size_for_length: a buffer of class c holds 2^c - 8 octets.
gm_min_size_for_length(len) == CHOOSE c \in 3..31 : 2^c - 8 >= len /\ \A d \in 3..(c - 1) : 2^d - 8 < len

\* Init makes a receiver of every process: the one with a host transmits only when
\* it is told so afterwards.
Init ==
    /\ \E order \in Orders :
          pc = [p \in Proc |-> IF p = "tr" /\ order = "initFirst" THEN "greet" ELSE "await"]
    /\ k = All(1) /\ arg = All(<<0, 0>>) /\ req = <<0, 0>>
    /\ left = All(0) /\ calls = All(0)
    /\ lrpt = All(0) /\ sends = All(<<>>) /\ given = All(<<>>)
    /\ events = All(<<>>) /\ need = All(0) /\ live = All(FALSE)

Goto(p, from, to) == pc[p] = from /\ pc' = [pc EXCEPT ![p] = to]

Send(p, buf, size, len) ==
    sends' = [sends EXCEPT ![p] = Append(@, [buf |-> buf, size |-> size, len |-> len])]

\* gm_provide_receive_buffer, and readFully is entered.
Provide(p, buf, size, len) ==
    /\ given' = [given EXCEPT ![p] = Append(@, [buf |-> buf, size |-> size])]
    /\ need' = [need EXCEPT ![p] = len]

-----------------------------------------------------------------------------

\* Every event takes its length off what readFully waits for.
readFully(p) ==
    /\ pc[p] \in {"hello", "inRepeat", "inSync", "inRecv"} /\ need[p] > 0
    /\ events[p] # <<>>
    /\ need' = [need EXCEPT ![p] = @ - Head(events[p])]
    /\ events' = [events EXCEPT ![p] = Tail(@)]
    /\ UNCHANGED <<pc, k, arg, req, left, calls, lrpt, sends, given, live>>

\* The transmitter greets the receiver, which learns host_id from the event.
establish(p) ==
    /\ \/ /\ Goto(p, "greet", "idle")
          /\ Send(p, "hello", 7, HelloLen) /\ UNCHANGED <<given, need>>
       \/ /\ Goto(p, "await", "hello")
          /\ Provide(p, "hello", 7, HelloLen) /\ UNCHANGED sends
       \/ Goto(p, "hello", "repeat") /\ need[p] <= 0 /\ UNCHANGED <<sends, given, need>>
    /\ UNCHANGED <<k, arg, req, left, calls, lrpt, events, live>>

Call(p) ==
    /\ p = "tr" /\ Goto(p, "idle", "repeat") /\ calls[p] < MaxCalls
    /\ \E r \in Requests : req' = r /\ arg' = [arg EXCEPT ![p] = r]
    /\ k' = [k EXCEPT ![p] = 1]
    /\ UNCHANGED <<left, calls, lrpt, sends, given, events, need, live>>

\* Called for the size and again for nrepeat, without waiting in between.
SendRepeat(p) ==
    /\ p = "tr" /\ pc[p] = "repeat"
    /\ lrpt' = [lrpt EXCEPT ![p] = arg[p][k[p]]]
    /\ Send(p, "lrpt", gm_min_size_for_length(RepeatLen), RepeatLen)
    /\ k' = [k EXCEPT ![p] = 3 - k[p]]
    /\ pc' = [pc EXCEPT ![p] = IF k[p] = 1 THEN "repeat" ELSE "malloc"]
    /\ UNCHANGED <<arg, req, left, calls, given, events, need, live>>

RecvRepeat(p) ==
    \/ /\ p = "rcv" /\ Goto(p, "repeat", "inRepeat")
       /\ Provide(p, "lrpt", gm_min_size_for_length(RepeatLen), RepeatLen)
       /\ UNCHANGED <<k, arg, req, left, calls, lrpt, sends, events, live>>
    \/ /\ Goto(p, "inRepeat", IF k[p] = 1 THEN "repeat" ELSE "malloc") /\ need[p] <= 0
       /\ arg' = [arg EXCEPT ![p][k[p]] = lrpt[p]]
       /\ k' = [k EXCEPT ![p] = 3 - k[p]]
       /\ UNCHANGED <<req, left, calls, lrpt, sends, given, events, need, live>>

MyMalloc(p) ==
    /\ Goto(p, "malloc", "sync")
    /\ left' = [left EXCEPT ![p] = arg[p][2]]
    /\ live' = [live EXCEPT ![p] = TRUE]
    /\ UNCHANGED <<k, arg, req, calls, lrpt, sends, given, events, need>>

LoopHead(p, n) == IF n = 0 THEN "free" ELSE IF p = "tr" THEN "send" ELSE "recv"

\* The class is that of the text, the length includes its final zero.
SyncClass == gm_min_size_for_length(SyncLen - 1)

\* Variant of Sync that provides no buffer for the peer's message.
SyncNoBuffer(p) ==
    \/ /\ Goto(p, "sync", "inSync")
       /\ Send(p, "sync", SyncClass, SyncLen)
       /\ need' = [need EXCEPT ![p] = SyncLen]
       /\ UNCHANGED <<k, arg, req, left, calls, lrpt, given, events, live>>
    \/ /\ Goto(p, "inSync", LoopHead(p, left[p])) /\ need[p] <= 0
       /\ UNCHANGED <<k, arg, req, left, calls, lrpt, sends, given, events, need, live>>

\* Variant of Sync that does not wait for the peer's message.
SyncNoWait(p) ==
    \/ /\ Goto(p, "sync", "inSync")
       /\ Send(p, "sync", SyncClass, SyncLen)
       /\ Provide(p, "sync1", SyncClass, SyncLen)
       /\ UNCHANGED <<k, arg, req, left, calls, lrpt, events, live>>
    \/ /\ Goto(p, "inSync", LoopHead(p, left[p]))
       /\ UNCHANGED <<k, arg, req, left, calls, lrpt, sends, given, events, need, live>>

Sync(p) ==
    \/ /\ Goto(p, "sync", "inSync")
       /\ Send(p, "sync", SyncClass, SyncLen)
       /\ Provide(p, "sync1", SyncClass, SyncLen)
       /\ UNCHANGED <<k, arg, req, left, calls, lrpt, events, live>>
    \/ /\ Goto(p, "inSync", LoopHead(p, left[p])) /\ need[p] <= 0
       /\ UNCHANGED <<k, arg, req, left, calls, lrpt, sends, given, events, need, live>>

DataClass(p) == gm_min_size_for_length(arg[p][1])

SendData(p) ==
    /\ pc[p] = "send"
    /\ Send(p, "s_buff", DataClass(p), arg[p][1])
    /\ left' = [left EXCEPT ![p] = IF p = "tr" THEN @ ELSE @ - 1]
    /\ pc' = [pc EXCEPT ![p] = IF p = "tr" THEN "recv" ELSE LoopHead(p, left[p] - 1)]
    /\ UNCHANGED <<k, arg, req, calls, lrpt, given, events, need, live>>

RecvData(p) ==
    \/ /\ Goto(p, "recv", "inRecv")
       /\ Provide(p, "r_buff", DataClass(p), arg[p][1])
       /\ UNCHANGED <<k, arg, req, left, calls, lrpt, sends, events, live>>
    \/ /\ pc[p] = "inRecv" /\ need[p] <= 0
       /\ left' = [left EXCEPT ![p] = IF p = "tr" THEN @ - 1 ELSE @]
       /\ pc' = [pc EXCEPT ![p] = IF p = "tr" THEN LoopHead(p, left[p] - 1) ELSE "send"]
       /\ UNCHANGED <<k, arg, req, calls, lrpt, sends, given, events, need, live>>

FreeBuff(p) ==
    /\ Goto(p, "free", IF p = "tr" THEN "idle" ELSE "repeat")
    /\ live' = [live EXCEPT ![p] = FALSE]
    /\ calls' = [calls EXCEPT ![p] = @ + 1]
    /\ UNCHANGED <<k, arg, req, left, lrpt, sends, given, events, need>>

-----------------------------------------------------------------------------

\* Buffers of p that fit the class, oldest first.
Fitting(p, size) == {i \in DOMAIN given[p] : given[p][i].size = size}

\* The adapter reads the oldest request of p now and fills a buffer of the peer.
Transmit(p) ==
    LET m == Head(sends[p])
        q == Peer(p)
        fit == Fitting(q, m.size)
        i == CHOOSE j \in fit : \A h \in fit : j <= h
    IN /\ sends[p] # <<>> /\ fit # {}
       /\ sends' = [sends EXCEPT ![p] = Tail(@)]
       /\ given' = [given EXCEPT ![q] = SubSeq(@, 1, i - 1) \o SubSeq(@, i + 1, Len(@))]
       /\ lrpt' = [lrpt EXCEPT ![q] = IF m.buf = "lrpt" /\ given[q][i].buf = "lrpt" THEN lrpt[p] ELSE @]
       /\ events' = [events EXCEPT ![q] = Append(@, m.len)]
       /\ UNCHANGED <<pc, k, arg, req, left, calls, need, live>>

Step(p) ==
    \/ establish(p) \/ Call(p) \/ SendRepeat(p) \/ RecvRepeat(p) \/ MyMalloc(p) \/ Sync(p)
    \/ SendData(p) \/ RecvData(p) \/ FreeBuff(p) \/ readFully(p)

Next == \E p \in Proc : Step(p) \/ Transmit(p)

\* Both programs and both adapters make progress.
Spec == Init /\ [][Next]_vars /\ \A p \in Proc : WF_vars(Step(p)) /\ WF_vars(Transmit(p))

-----------------------------------------------------------------------------
(* Properties. *)

Agreed == arg["tr"] = arg["rcv"]

\* Every variable keeps its type; a process never has two receive buffers provided or
\* two receive events pending (RecvRepeat, Sync, RecvData).
TypeOK ==
    /\ pc \in [Proc -> Labels] /\ k \in [Proc -> 1..2] /\ left \in [Proc -> Nat]
    /\ \A p \in Proc : Len(events[p]) <= 1 /\ Len(given[p]) <= 1

\* nrepeat reaches the receiver, although both values go through one buffer
\* (SendRepeat, RecvRepeat).
NrepeatIsRight == pc["rcv"] = "malloc" => arg["rcv"][2] = req[2]

\* A message lands in the buffer that was provided for it: small data, counts and
\* "Syncme" are of the same size class, so only their order tells them apart
\* (readFully).
LandsInItsBuffer ==
    \A p \in Proc : sends[p] # <<>> =>
        \A i \in Fitting(Peer(p), Head(sends[p]).size) :
            <<Head(sends[p]).buf, given[Peer(p)][i].buf>>
                \in {<<"hello", "hello">>, <<"lrpt", "lrpt">>, <<"sync", "sync1">>, <<"s_buff", "r_buff">>}

\* A measurement on whose size both sides agree comes to its end (run_iters).
RunEnds == (pc = All("sync") /\ Agreed) ~> pc["tr"] = "idle"

\* "Run message size m iters times": the receiver measures the size it was told
\* (SendRepeat).
SizeIsRight == pc["rcv"] = "malloc" => arg["rcv"][1] = req[1]

\* "bounce it back": what SendData queued is read from a buffer that has not been
\* freed (SendData, FreeBuff).
SentFromLiveBuffer ==
    \A p \in Proc : \A i \in DOMAIN sends[p] : sends[p][i].buf = "s_buff" => live[p]
=============================================================================
