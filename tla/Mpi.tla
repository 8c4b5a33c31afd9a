--------------------------------- MODULE Mpi --------------------------------
(***************************************************************************)
(* run_iters over src/src/mpi.c (messages), src/src/mpi2.c (puts into a     *)
(* window, between fences) and src/src/tcgmsg.c (messages, no receive       *)
(* posted).  Rank 0 transmits, the last rank receives, and the ranks        *)
(* between them are neither.  MPI_Send may return at once or wait until the *)
(* message is taken; barrier, fence and window creation wait for all ranks. *)
(***************************************************************************)
EXTENDS Integers, Sequences

CONSTANTS
    N,             \* nprocs
    AsyncReceive,  \* run_iters calls PrepareToReceive
    Repeats,       \* values of nrepeat
    MaxRuns        \* bound on the measurements

VARIABLES
    lib, eager,        \* "mpi", "mpi2" or "tcgmsg"; whether MPI_Send returns at once
    pc, back,          \* place, and where the call that blocks returns to
    nrepeat, left, runs,
    mail,              \* mail[r]: messages [tag, v] on their way to r
    recvPosted,        \* MPI_Irecv was called and not waited for
    epoch, flying,     \* collective calls made; put on its way to r, 0 for none
    buf, done          \* number of the message in r_buff; messages RecvData returned

vars == <<lib, eager, pc, back, nrepeat, left, runs, mail, recvPosted, epoch, flying, buf, done>>

Rank == 0..(N - 1)
tr == 0
rcv == N - 1
nbor(r) == IF r = tr THEN rcv ELSE tr
All(v) == [r \in Rank |-> v]

Labels == {"idle", "size", "repeat", "inSend", "inAll", "malloc", "win", "prepare", "sync", "send",
           "recv", "echoed", "free", "ended"}

Init ==
    /\ lib \in {"mpi", "mpi2", "tcgmsg"} /\ eager \in BOOLEAN
    /\ pc = All("idle") /\ back = All("idle") /\ nrepeat = All(0) /\ left = All(0) /\ runs = All(0)
    /\ mail = All(<<>>) /\ recvPosted = All(FALSE) /\ epoch = All(0) /\ flying = All(0)
    /\ buf = All(0) /\ done = All(0)

Goto(r, from, to) == pc[r] = from /\ pc' = [pc EXCEPT ![r] = to]

Send(r, tag, v, then) ==
    /\ mail' = [mail EXCEPT ![nbor(r)] = Append(@, [tag |-> tag, v |-> v])]
    /\ pc' = [pc EXCEPT ![r] = "inSend"]
    /\ back' = [back EXCEPT ![r] = then]

Waiting(r, tag) == \E j \in DOMAIN mail[r] : mail[r][j].tag = tag

\* The oldest message with this tag, and its removal.
Oldest(r, tag) ==
    CHOOSE j \in DOMAIN mail[r] : mail[r][j].tag = tag /\ \A h \in 1..(j - 1) : mail[r][h].tag # tag

Take(r, tag) ==
    LET i == Oldest(r, tag)
    IN mail' = [mail EXCEPT ![r] = SubSeq(@, 1, i - 1) \o SubSeq(@, i + 1, Len(@))]

\* A call all ranks have to make.
Enter(r, then) ==
    /\ epoch' = [epoch EXCEPT ![r] = @ + 1]
    /\ pc' = [pc EXCEPT ![r] = "inAll"]
    /\ back' = [back EXCEPT ![r] = then]

\* TCGMSG's SendData asks SND_ not to wait; its SendRepeat waits.
Asynchronous(r) == lib = "tcgmsg" /\ back[r] \in {"recv", "echoed"}

SendReturns(r) ==
    /\ pc[r] = "inSend" /\ (eager \/ Asynchronous(r) \/ mail[nbor(r)] = <<>>)
    /\ pc' = [pc EXCEPT ![r] = back[r]]
    /\ UNCHANGED <<lib, eager, back, nrepeat, left, runs, mail, recvPosted, epoch, flying, buf, done>>

\* Everybody is in the call, and the puts made before it have been carried out.
AllReturn(r) ==
    /\ pc[r] = "inAll" /\ \A s \in Rank : epoch[s] >= epoch[r]
    /\ flying = All(0)
    /\ pc' = [pc EXCEPT ![r] = back[r]]
    /\ UNCHANGED <<lib, eager, back, nrepeat, left, runs, mail, recvPosted, epoch, flying, buf, done>>

\* A put arrives, at the latest when the fence after it ends.
Land(r) ==
    /\ flying[r] # 0
    /\ buf' = [buf EXCEPT ![r] = flying[r]]
    /\ flying' = [flying EXCEPT ![r] = 0]
    /\ UNCHANGED <<lib, eager, pc, back, nrepeat, left, runs, mail, recvPosted, epoch, done>>

-----------------------------------------------------------------------------

\* A rank that is neither transmitter nor receiver bails out of run_iters.
Call(r) ==
    /\ Goto(r, "idle", IF r \in {tr, rcv} THEN "size" ELSE "ended")
    /\ r = tr => runs[r] < MaxRuns
    /\ \E n \in IF r = tr THEN Repeats ELSE {nrepeat[r]} : nrepeat' = [nrepeat EXCEPT ![r] = n]
    /\ runs' = [runs EXCEPT ![r] = @ + 1]
    /\ UNCHANGED <<lib, eager, back, left, mail, recvPosted, epoch, flying, buf, done>>

SendRepeat(r) ==
    /\ r = tr
    /\ \/ pc[r] = "size" /\ Send(r, 2, 1, "repeat")
       \/ pc[r] = "repeat" /\ Send(r, 2, nrepeat[r], "malloc")
    /\ UNCHANGED <<lib, eager, nrepeat, left, runs, recvPosted, epoch, flying, buf, done>>

RecvRepeat(r) ==
    /\ r = rcv /\ Waiting(r, 2) /\ Take(r, 2)
    /\ \/ Goto(r, "size", "repeat") /\ UNCHANGED nrepeat
       \/ Goto(r, "repeat", "malloc") /\ nrepeat' = [nrepeat EXCEPT ![r] = mail[r][Oldest(r, 2)].v]
    /\ UNCHANGED <<lib, eager, back, left, runs, recvPosted, epoch, flying, buf, done>>

MyMalloc(r) ==
    /\ Goto(r, "malloc", IF lib = "mpi2" THEN "win" ELSE "prepare")
    /\ left' = [left EXCEPT ![r] = nrepeat[r]]
    /\ buf' = [buf EXCEPT ![r] = 0] /\ done' = [done EXCEPT ![r] = 0]
    /\ UNCHANGED <<lib, eager, back, nrepeat, runs, mail, recvPosted, epoch, flying>>

\* MPI_Win_create.
AfterAlignmentInit(r) ==
    /\ pc[r] = "win" /\ Enter(r, "prepare")
    /\ UNCHANGED <<lib, eager, nrepeat, left, runs, mail, recvPosted, flying, buf, done>>

\* mpi.c posts one receive, unless one is outstanding: then the process exits.
PrepareToReceive(r) ==
    /\ pc[r] = "prepare"
    /\ LET posts == AsyncReceive /\ lib = "mpi"
       IN /\ pc' = [pc EXCEPT ![r] = IF posts /\ recvPosted[r] THEN "ended" ELSE "sync"]
          /\ recvPosted' = [recvPosted EXCEPT ![r] = @ \/ posts]
    /\ UNCHANGED <<lib, eager, back, nrepeat, left, runs, mail, epoch, flying, buf, done>>

\* Variant of LoopHead that goes around once more.
LoopHeadOneMore(r, n) == IF n < 0 THEN "free" ELSE IF r = tr THEN "send" ELSE "recv"

LoopHead(r, n) == IF n = 0 THEN "free" ELSE IF r = tr THEN "send" ELSE "recv"

\* MPI_Barrier, SYNCH_, or a fence.
Sync(r) ==
    /\ pc[r] = "sync" /\ Enter(r, LoopHead(r, left[r]))
    /\ UNCHANGED <<lib, eager, nrepeat, left, runs, mail, recvPosted, flying, buf, done>>

-----------------------------------------------------------------------------
(* The loop.  Messages are numbered by its turns. *)

Message(r) == nrepeat[r] - left[r] + 1

AfterSend(r) == IF r = tr THEN "recv" ELSE "echoed"

\* Variant of SendData whose put is not followed by a fence.
SendDataNoFence(r) ==
    /\ pc[r] = "send"
    /\ IF lib # "mpi2" THEN Send(r, 1, Message(r), AfterSend(r)) /\ UNCHANGED <<epoch, flying>>
       ELSE /\ pc' = [pc EXCEPT ![r] = AfterSend(r)]
            /\ flying' = [flying EXCEPT ![nbor(r)] = Message(r)]
            /\ UNCHANGED <<mail, back, epoch>>
    /\ UNCHANGED <<lib, eager, nrepeat, left, runs, recvPosted, buf, done>>

\* MPI_Send or SND_.
SendMessage(r) ==
    /\ lib # "mpi2"
    /\ Send(r, 1, Message(r), AfterSend(r))
    /\ UNCHANGED <<epoch, flying>>

\* MPI_Put and the fence after it.
PutAndFence(r) ==
    /\ lib = "mpi2"
    /\ flying' = [flying EXCEPT ![nbor(r)] = Message(r)]
    /\ Enter(r, AfterSend(r))
    /\ UNCHANGED mail

SendData(r) ==
    /\ pc[r] = "send"
    /\ SendMessage(r) \/ PutAndFence(r)
    /\ UNCHANGED <<lib, eager, nrepeat, left, runs, recvPosted, buf, done>>

AfterRecv(r) == IF r = tr THEN "echoed" ELSE "send"

\* Variant of RecvData that does not forget the request it has waited for.
RecvDataKeepsRequest(r) ==
    /\ pc[r] = "recv"
    /\ IF lib = "mpi2" THEN Enter(r, AfterRecv(r)) /\ UNCHANGED <<mail, buf>>
       ELSE /\ pc' = [pc EXCEPT ![r] = AfterRecv(r)]
            /\ \/ recvPosted[r] /\ done[r] > 0 /\ UNCHANGED <<mail, buf>>
               \/ /\ ~(recvPosted[r] /\ done[r] > 0)
                  /\ Waiting(r, 1) /\ Take(r, 1)
                  /\ buf' = [buf EXCEPT ![r] = mail[r][Oldest(r, 1)].v]
            /\ UNCHANGED <<back, epoch>>
    /\ done' = [done EXCEPT ![r] = @ + 1]
    /\ UNCHANGED <<lib, eager, nrepeat, left, runs, recvPosted, flying>>

\* MPI_Wait for the posted receive, or MPI_Recv or RCV_.
TakeMessage(r) ==
    /\ lib # "mpi2" /\ Waiting(r, 1) /\ Take(r, 1)
    /\ buf' = [buf EXCEPT ![r] = mail[r][Oldest(r, 1)].v]
    /\ recvPosted' = [recvPosted EXCEPT ![r] = FALSE]
    /\ pc' = [pc EXCEPT ![r] = AfterRecv(r)]
    /\ UNCHANGED <<back, epoch>>

Fence(r) == lib = "mpi2" /\ Enter(r, AfterRecv(r)) /\ UNCHANGED <<mail, buf, recvPosted>>

RecvData(r) ==
    /\ pc[r] = "recv"
    /\ TakeMessage(r) \/ Fence(r)
    /\ done' = [done EXCEPT ![r] = @ + 1]
    /\ UNCHANGED <<lib, eager, nrepeat, left, runs, flying>>

\* The end of a turn of the loop.
EndTurn(r) ==
    /\ Goto(r, "echoed", LoopHead(r, left[r] - 1))
    /\ left' = [left EXCEPT ![r] = @ - 1]
    /\ UNCHANGED <<lib, eager, back, nrepeat, runs, mail, recvPosted, epoch, flying, buf, done>>

FreeBuff(r) ==
    /\ Goto(r, "free", "idle")
    /\ UNCHANGED <<lib, eager, back, nrepeat, left, runs, mail, recvPosted, epoch, flying, buf, done>>

Step(r) ==
    \/ Call(r) \/ SendRepeat(r) \/ RecvRepeat(r) \/ MyMalloc(r) \/ AfterAlignmentInit(r)
    \/ PrepareToReceive(r) \/ Sync(r) \/ SendData(r) \/ RecvData(r) \/ EndTurn(r) \/ FreeBuff(r)
    \/ SendReturns(r) \/ AllReturn(r)

Next == \E r \in Rank : Step(r) \/ Land(r)

\* Ranks that can go on do, and puts are carried out.
Spec == Init /\ [][Next]_vars /\ \A r \in Rank : WF_vars(Step(r)) /\ WF_vars(Land(r))

-----------------------------------------------------------------------------
(* Properties. *)

\* Every variable keeps its type; the loop of run_iters never counts below zero, and
\* at most the two messages of SendRepeat are ever under way to a rank.
TypeOK ==
    /\ pc \in [Rank -> Labels] /\ back \in [Rank -> Labels]
    /\ left \in [Rank -> Nat] /\ recvPosted \in [Rank -> BOOLEAN]
    /\ \A r \in Rank : left[r] <= nrepeat[r] /\ Len(mail[r]) <= 2

\* When RecvData has returned, the message of this turn is in the buffer, with
\* fences as well as with messages (RecvData).
ReceivedMeansArrived == \A r \in {tr, rcv} : pc[r] \notin {"inAll", "inSend"} => done[r] <= buf[r]

\* No message is overwritten by the next one before RecvData has returned it, and
\* none is left over for the next measurement (SendData, run_iters).
NothingOverwritten ==
    \A r \in {tr, rcv} :
        buf[r] <= done[r] + 1 /\ (pc[r] = "malloc" => ~Waiting(r, 1) /\ flying[r] = 0)

\* "Can't prepare to receive: outstanding receive!" is never printed
\* (PrepareToReceive).
NoOutstandingReceive == \A r \in Rank : pc[r] = "prepare" => ~recvPosted[r]

\* A measurement comes to its end, whether or not MPI_Send waits (run_iters).
RunEnds == pc[tr] = "size" ~> pc[tr] = "idle"
=============================================================================
