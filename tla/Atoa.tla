-------------------------------- MODULE Atoa --------------------------------
(***************************************************************************)
(* The script NPmpi_atoa over src/src/mpi_atoa.c: rank 0 sweeps the sizes,  *)
(* every other rank is a receiver, and all of them meet in collective calls *)
(* only.  The m-th collective call of one rank goes with the m-th of every  *)
(* other: a broadcast waits for the root, a barrier and an all-to-all wait  *)
(* for everybody.                                                           *)
(***************************************************************************)
EXTENDS Integers, Sequences

CONSTANTS
    N,          \* ranks, from 2 to MAXPROCS
    Requests,   \* pairs <<size, nrepeat>> of the sweep
    MaxRuns     \* bound on the measurements of the sweep

VARIABLES
    pc, arg, k, left,  \* run_iters on each rank: place, size and nrepeat, which of them, turns left
    runs,              \* measurements a rank has begun
    ops                \* ops[r]: the collective calls r has made, v what it gave to the call

vars == <<pc, arg, k, left, runs, ops>>

Rank == 0..(N - 1)
Labels == {"script", "bcast", "inBcast", "malloc", "sync", "inSync", "alltoall", "inAlltoall",
           "free", "ended"}

Init ==
    /\ pc = [r \in Rank |-> "script"] /\ arg = [r \in Rank |-> <<0, 0>>]
    /\ k = [r \in Rank |-> 1] /\ left = [r \in Rank |-> 0] /\ runs = [r \in Rank |-> 0]
    /\ ops = [r \in Rank |-> <<>>]

Goto(r, from, to) == pc[r] = from /\ pc' = [pc EXCEPT ![r] = to]

Enter(r, kind, count, v) ==
    ops' = [ops EXCEPT ![r] = Append(@, [kind |-> kind, count |-> count, v |-> v])]

\* The root, or everybody, has made the call that r is in.
RootIsIn(r) == Len(ops[0]) >= Len(ops[r])
AllAreIn(r) == \A s \in Rank : Len(ops[s]) >= Len(ops[r])

-----------------------------------------------------------------------------

\* The sweep of rank 0 goes on or is over; a receiver calls run_iters again.
Script(r) ==
    /\ \/ r = 0 /\ runs[0] < MaxRuns /\ Goto(r, "script", "bcast")
          /\ \E q \in Requests : arg' = [arg EXCEPT ![0] = q]
          /\ runs' = [runs EXCEPT ![0] = @ + 1]
       \/ r = 0 /\ Goto(r, "script", "ended") /\ UNCHANGED <<arg, runs>>
       \/ r # 0 /\ Goto(r, "script", "bcast") /\ UNCHANGED arg
          /\ runs' = [runs EXCEPT ![r] = @ + 1]
    /\ k' = [k EXCEPT ![r] = 1]
    /\ UNCHANGED <<left, ops>>

\* SendRepeat and RecvRepeat are broadcasts, of the size and then of nrepeat.
SendRepeat(r) ==
    /\ r = 0 /\ Goto(r, "bcast", "inBcast")
    /\ Enter(r, "bcast", 1, arg[r][k[r]])
    /\ UNCHANGED <<arg, k, left, runs>>

\* Variant of RecvRepeat whose caller asks for nrepeat first.
RecvRepeatSwapped(r) ==
    \/ /\ r # 0 /\ Goto(r, "bcast", "inBcast")
       /\ Enter(r, "bcast", 1, 0)
       /\ UNCHANGED <<arg, k, left, runs>>
    \/ /\ pc[r] = "inBcast" /\ RootIsIn(r)
       /\ arg' = IF r = 0 THEN arg ELSE [arg EXCEPT ![r][3 - k[r]] = ops[0][Len(ops[r])].v]
       /\ k' = [k EXCEPT ![r] = 3 - k[r]]
       /\ pc' = [pc EXCEPT ![r] = IF k[r] = 1 THEN "bcast"
                                  ELSE IF arg'[r][1] = 0 THEN "ended" ELSE "malloc"]
       /\ UNCHANGED <<left, runs, ops>>

\* The value is there once the root is in the call; size 0 is the signal to exit.
RecvRepeat(r) ==
    \/ /\ r # 0 /\ Goto(r, "bcast", "inBcast")
       /\ Enter(r, "bcast", 1, 0)
       /\ UNCHANGED <<arg, k, left, runs>>
    \/ /\ pc[r] = "inBcast" /\ RootIsIn(r)
       /\ arg' = IF r = 0 THEN arg ELSE [arg EXCEPT ![r][k[r]] = ops[0][Len(ops[r])].v]
       /\ k' = [k EXCEPT ![r] = 3 - k[r]]
       /\ pc' = [pc EXCEPT ![r] = IF k[r] = 1 THEN "bcast"
                                  ELSE IF arg'[r][1] = 0 THEN "ended" ELSE "malloc"]
       /\ UNCHANGED <<left, runs, ops>>

\* N blocks for each buffer.
MyMalloc(r) ==
    /\ Goto(r, "malloc", "sync")
    /\ left' = [left EXCEPT ![r] = arg[r][2]]
    /\ UNCHANGED <<arg, k, runs, ops>>

LoopHead(n) == IF n = 0 THEN "free" ELSE "alltoall"

\* Variant of Sync that does not wait.
SyncNoWait(r) ==
    \/ Goto(r, "sync", "inSync") /\ Enter(r, "barrier", 0, 0) /\ UNCHANGED <<arg, k, left, runs>>
    \/ Goto(r, "inSync", LoopHead(left[r])) /\ UNCHANGED <<arg, k, left, runs, ops>>

Sync(r) ==
    \/ Goto(r, "sync", "inSync") /\ Enter(r, "barrier", 0, 0) /\ UNCHANGED <<arg, k, left, runs>>
    \/ Goto(r, "inSync", LoopHead(left[r])) /\ AllAreIn(r) /\ UNCHANGED <<arg, k, left, runs, ops>>

\* SendData and RecvData are both an all-to-all: two of them are one turn (k
\* says which) of the loop, on every rank.
Alltoall(r) ==
    \/ /\ Goto(r, "alltoall", "inAlltoall")
       /\ Enter(r, "alltoall", arg[r][1], 0)
       /\ UNCHANGED <<arg, k, left, runs>>
    \/ /\ pc[r] = "inAlltoall" /\ AllAreIn(r)
       /\ IF k[r] = 1 THEN pc' = [pc EXCEPT ![r] = "alltoall"] /\ k' = [k EXCEPT ![r] = 2] /\ UNCHANGED left
          ELSE /\ pc' = [pc EXCEPT ![r] = LoopHead(left[r] - 1)]
               /\ k' = [k EXCEPT ![r] = 1] /\ left' = [left EXCEPT ![r] = @ - 1]
       /\ UNCHANGED <<arg, runs, ops>>

FreeBuff(r) ==
    /\ Goto(r, "free", "script")
    /\ UNCHANGED <<arg, k, left, runs, ops>>

Step(r) ==
    \/ Script(r) \/ SendRepeat(r) \/ RecvRepeat(r) \/ MyMalloc(r)
    \/ Sync(r) \/ Alltoall(r) \/ FreeBuff(r)

Next == \E r \in Rank : Step(r)

\* Every rank that can go on does; the sweep of rank 0 is bounded.
Spec == Init /\ [][Next]_vars /\ \A r \in Rank : WF_vars(Step(r))

-----------------------------------------------------------------------------
(* Properties. *)

\* Every variable of a rank keeps its type; the loop of run_iters never counts below
\* zero.
TypeOK ==
    /\ pc \in [Rank -> Labels] /\ k \in [Rank -> 1..2]
    /\ left \in [Rank -> Nat] /\ runs \in [Rank -> 0..(MaxRuns + 1)]

\* Ranks make the same collective calls in the same order and with the same
\* counts, which is what MPI asks of them (run_iters, SendData, RecvData).
CollectivesMatch ==
    \A r, s \in Rank : \A m \in 1..Len(ops[r]) :
        m <= Len(ops[s]) => ops[r][m].kind = ops[s][m].kind /\ ops[r][m].count = ops[s][m].count

\* "Sync to prevent timing artifacts": while a rank is in the timed loop, every
\* rank has its buffers and is past the allocation (run_iters).
NobodyStillPrepares ==
    \A r \in Rank : pc[r] \in {"alltoall", "inAlltoall"} =>
        \A s \in Rank : runs[s] = runs[r] => pc[s] \notin {"bcast", "inBcast", "malloc", "sync"}

\* No rank is a measurement ahead of another that has not left the loop of the
\* one before, so no message is taken for one of the next size (run_iters).
SameMeasurement ==
    \A r, s \in Rank : pc[r] \in {"alltoall", "inAlltoall"} /\ pc[s] \in {"alltoall", "inAlltoall"}
        => runs[r] = runs[s]

\* A measurement that rank 0 has begun comes to its end (run_iters).
RunEnds == pc[0] = "bcast" ~> pc[0] = "script"

\* "Receive exiting": when the sweep is over, the receivers leave their loop too
\* (NPmpi_atoa).
ReceiversEnd == pc[0] = "ended" ~> \A r \in Rank : pc[r] = "ended"
=============================================================================
