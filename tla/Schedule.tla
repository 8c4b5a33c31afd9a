------------------------------ MODULE Schedule ------------------------------
(***************************************************************************)
(* The sweep of message sizes that NPtcp-local drives: the transmitter's    *)
(* main loop and its functions incFunc, pertFunc and iterFunc.  A size is a *)
(* number of bits, as run_iters takes it.  A block of the loop tries three  *)
(* sizes around permSize and times each in TRIALS calls of run_iters.       *)
(*                                                                          *)
(* Times are whole microseconds.  run_iters reads the wall clock, which may *)
(* stand still or step back, so a measured time may be 0 or negative.       *)
(***************************************************************************)
EXTENDS Integers

CONSTANTS
    Times,      \* what a trial may measure for one round trip
    STOPTM,     \* the sweep stops when a round trip takes this long
    RUNTM,      \* the duration iterFunc aims at for a trial
    TRIALS,     \* calls of run_iters for each size
    IntMax,     \* the largest C int: what "ii" of run_iters can take
    MaxN        \* bound on the number of sizes tried

ASSUME TimesAssumption == Times \subseteq Int /\ Times # {}
ASSUME STOPTMAssumption == STOPTM \in Nat \ {0}
ASSUME RUNTMAssumption == RUNTM \in Nat \ {0}
ASSUME TRIALSAssumption == TRIALS \in Nat \ {0}
ASSUME IntMaxAssumption == IntMax \in Nat
ASSUME MaxNAssumption == MaxN \in Nat

VARIABLES
    pc,             \* "block", "run", "done" or "raised" (a Python exception)
    n, inc, permSize, count,
    pert,           \* pert[1..3]: the perturbations of this block
    pertrun,        \* index of the next one
    size, iters,    \* arguments of the last run_iters
    iterationTime   \* the shortest round trip of the last size

vars == <<pc, n, inc, permSize, count, pert, pertrun, size, iters, iterationTime>>

\* The script's initial values; iterationTime = 25/(1e6) and pertList = [-1,0,1].
Init ==
    /\ pc = "block"
    /\ n = 0 /\ inc = 0 /\ permSize = 0 /\ count = 1
    /\ pert = [i \in 1..3 |-> i - 2]
    /\ pertrun = 1
    /\ size = 8
    /\ iters = 1000
    /\ iterationTime = 25

-----------------------------------------------------------------------------

\* Variant of incFunc that doubles in every block.
incFuncAlwaysDoubles(m, i) ==
    CASE m <= 2        -> 2 * 8
      [] m \in 3..5    -> 4 * 8
      [] m \in 6..8    -> 7 * 8
      [] m \in 9..14   -> 8 * 8
      [] OTHER         -> 2 * (i \div 8) * 8

\* Variant of incFunc that never grows and runs out of increment after the table.
incFuncNoGrowth(m, i) ==
    CASE m <= 2        -> 2 * 8
      [] m \in 3..5    -> 4 * 8
      [] m \in 6..8    -> 7 * 8
      [] m \in 9..14   -> 8 * 8
      [] OTHER         -> 0

incFunc(m, i) ==
    CASE m <= 2        -> 2 * 8
      [] m \in 3..5    -> 4 * 8
      [] m \in 6..8    -> 7 * 8
      [] m \in 9..14   -> 8 * 8
      [] OTHER         -> IF m % 2 = 1 THEN 2 * (i \div 8) * 8 ELSE (i \div 8) * 8

Perturbations(a, b, c) == [i \in 1..3 |-> CASE i = 1 -> a [] i = 2 -> b [] i = 3 -> c]

pertFunc(m, firstpert) ==
    CASE m <= 2        -> Perturbations(-8, 0, 8)
      [] m \in 3..5    -> Perturbations(-16, 0, 16)
      [] m \in 6..8    -> Perturbations(-8, 0, 24)
      [] m \in 9..14   -> Perturbations(-16, 0, 24)
      [] OTHER         -> Perturbations(firstpert, 0, 24)

\* Variant of iterFunc without max(iters, TRIALS).
iterFuncNoFloor(tlast, oldsize, newsize) ==
    IF tlast < 0 THEN 0 ELSE (RUNTM * oldsize) \div (tlast * newsize)

\* int(RUNTM*oldsize/(tlast*newsize)), at least TRIALS.
iterFunc(tlast, oldsize, newsize) ==
    LET fit == IF tlast < 0 THEN 0 ELSE (RUNTM * oldsize) \div (tlast * newsize)
    IN  IF fit > TRIALS THEN fit ELSE TRIALS

\* Variant of FirstPert that widens the first perturbation one block too late.
FirstPertLate == IF count % 6 = 3 THEN -inc + pert[1] ELSE pert[1]

\* pertList[0] when pertFunc is called; pertList and pert are one list.
FirstPert == IF count % 6 = 0 THEN -inc + pert[1] ELSE pert[1]

\* The body of the while loop up to the for loop.
Block ==
    /\ pc = "block"
    /\ iterationTime < STOPTM
    /\ n < MaxN
    /\ inc' = incFunc(n, inc)
    /\ permSize' = permSize + inc'
    /\ pert' = pertFunc(n, FirstPert)
    /\ pertrun' = 1
    /\ pc' = "run"
    /\ UNCHANGED <<n, count, size, iters, iterationTime>>

NewSize == permSize + pert[pertrun]

Counted == IF n + 1 >= 11 THEN count + 1 ELSE count

\* TRIALS calls of run_iters, the shortest one counts.
Trials ==
    /\ pc = "run"
    /\ size' = NewSize
    /\ iters' = iterFunc(iterationTime, size, NewSize)
    /\ size' <= IntMax /\ iters' <= IntMax
    /\ \E itimes \in [1..TRIALS -> Times], i \in 1..TRIALS :
          /\ \A k \in 1..TRIALS : itimes[i] <= itimes[k]
          /\ iterationTime' = itimes[i]

\* One pass of the for loop.
Run ==
    /\ Trials
    /\ iterationTime' # 0
    /\ n' = n + 1
    /\ count' = Counted
    /\ pertrun' = pertrun + 1
    /\ pc' = IF pertrun = 3 THEN "block" ELSE "run"
    /\ UNCHANGED <<inc, permSize, pert>>

\* The shortest trial took no time at all: the rate is a division by zero.
ZeroTime ==
    /\ Trials
    /\ iterationTime' = 0
    /\ pc' = "raised"
    /\ UNCHANGED <<n, inc, permSize, count, pert, pertrun>>

\* An argument does not fit an int: PyArg_ParseTuple fails and run_iters bails out.
TooLarge ==
    /\ pc = "run"
    /\ size' = NewSize
    /\ iters' = iterFunc(iterationTime, size, NewSize)
    /\ size' > IntMax \/ iters' > IntMax
    /\ pc' = "raised"
    /\ UNCHANGED <<n, inc, permSize, count, pert, pertrun, iterationTime>>

Stop ==
    /\ pc = "block"
    /\ iterationTime >= STOPTM
    /\ pc' = "done"
    /\ UNCHANGED <<n, inc, permSize, count, pert, pertrun, size, iters, iterationTime>>

Next == Block \/ Run \/ ZeroTime \/ TooLarge \/ Stop

Spec == Init /\ [][Next]_vars

\* The script runs; every run_iters it makes returns (CallsReturn of TcpRun).
FairSpec == Spec /\ WF_vars(Next)

-----------------------------------------------------------------------------

\* What the loop hands to run_iters is positive, for any times measured, and iterFunc
\* never divides by zero: the rate of the same time is computed first.
TypeOK ==
    /\ pc \in {"block", "run", "done", "raised"}
    /\ n \in Nat /\ inc \in Nat /\ permSize \in Nat /\ count \in Nat
    /\ pert \in [1..3 -> Int]
    /\ pertrun \in 1..4
    /\ size \in Nat \ {0}
    /\ iters \in Nat \ {0}
    /\ iterationTime \in Int /\ (pc = "run" => iterationTime # 0)

\* Sizes only grow: with the tables for n < 15 and the doubling after them, every
\* size the loop tries is larger than the one before it, across blocks too, so no
\* size is measured twice.  (The very first one is the initial value of size.)
Increasing == [][(pc = "run" /\ n > 0) => size' > size]_vars

\* The block that began at n - (pertrun - 1).
BlockStart == n - (pertrun - 1)

\* Once the tables are through, a block's three sizes are 24 bits above the previous
\* block's largest size and 24 bits below and at its own largest size, and that one
\* is 3/2 or 4/3 of the previous one in turn: the powers of two and the sizes half way
\* between them, each with its two neighbours, which the C loop quoted in
\* pertFunc calls a perturbation loop to test nearby values.
Nearby ==
    (pc = "run" /\ BlockStart >= 15) =>
        LET top == permSize + pert[3]
            before == top - inc
        IN  /\ permSize + pert[1] = before + 24
            /\ permSize + pert[2] = top - 24
            /\ top = (IF BlockStart % 2 = 1 THEN 3 * inc ELSE 4 * inc)

\* The sweep ends, whatever is measured: by STOPTM, by a trial that
\* took no time, or at the latest when the sizes have outgrown an int.  It never goes on for ever.
SweepEnds == <>(pc \in {"done", "raised"})

=============================================================================
