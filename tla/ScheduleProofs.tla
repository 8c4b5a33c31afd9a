--------------------------- MODULE ScheduleProofs ---------------------------
(***************************************************************************)
(* Proofs about Schedule, for every set of measured times, every STOPTM,    *)
(* RUNTM, TRIALS, width of an int and number of sizes.                      *)
(*                                                                          *)
(* The argument is one inductive invariant, Ladder: it says in closed form  *)
(* which increment, permSize and perturbations belong to the block that     *)
(* started at n = b, how count follows n, and which size was tried last.    *)
(***************************************************************************)
EXTENDS Schedule, TLAPS

\* inc, permSize and pert of the block that started at n = b.
Rung(b) ==
    /\ b \in Nat /\ b % 3 = 0
    /\ pert[2] = 0
    /\ b = 0  => inc = 16 /\ permSize = 16  /\ pert[1] = -8  /\ pert[3] = 8
    /\ b = 3  => inc = 32 /\ permSize = 48  /\ pert[1] = -16 /\ pert[3] = 16
    /\ b = 6  => inc = 56 /\ permSize = 104 /\ pert[1] = -8  /\ pert[3] = 24
    /\ b = 9  => inc = 64 /\ permSize = 168 /\ pert[1] = -16 /\ pert[3] = 24
    /\ b = 12 => inc = 64 /\ permSize = 232 /\ pert[1] = -16 /\ pert[3] = 24
    /\ b >= 15 =>
          /\ inc % 8 = 0 /\ inc >= 128
          /\ permSize = (IF b % 2 = 1 THEN 3 * inc ELSE 4 * inc) - 24
          /\ pert[1] = 48 - inc /\ pert[3] = 24

\* The largest size of the block before the one that started at n = b > 0.
TopBefore(b) ==
    CASE b = 3 -> 24 [] b = 6 -> 64 [] b = 9 -> 128 [] b = 12 -> 192
      [] OTHER -> permSize - inc + 24

\* The size tried last, inside a block.
LastTried ==
    CASE pertrun = 1 -> IF n = 0 THEN 8 ELSE TopBefore(n)
      [] OTHER -> permSize + pert[pertrun - 1]

Ladder ==
    /\ TypeOK
    /\ count = (IF n < 11 THEN 1 ELSE n - 9)
    /\ pc = "block" => iterationTime # 0
    /\ (pc = "block" /\ n = 0) => inc = 0 /\ permSize = 0 /\ size = 8
    /\ (pc = "block" /\ n # 0) =>
          n \in Nat /\ n >= 3 /\ Rung(n - 3) /\ size = permSize + pert[3]
    /\ pc = "run" =>
          /\ pertrun \in 1..3
          /\ Rung(BlockStart)
          /\ size = LastTried

-----------------------------------------------------------------------------

\* A quotient of naturals is a natural.
LEMMA QuotientIsNat ==
    ASSUME NEW a \in Nat, NEW d \in Nat \ {0}
    PROVE  a \div d \in Nat
  BY SMT

\* A product of positive naturals is a positive natural.
LEMMA PositiveProduct ==
    ASSUME NEW a \in Nat \ {0}, NEW b \in Nat \ {0}
    PROVE  a * b \in Nat \ {0}
  BY SMT

\* iterFunc returns a positive number of repetitions for any time but 0.
LEMMA IterFuncPositive ==
    ASSUME NEW t \in Int \ {0}, NEW o \in Nat \ {0}, NEW w \in Nat \ {0}
    PROVE  iterFunc(t, o, w) \in Nat \ {0}
  <1>1. CASE t < 0
    BY <1>1, TRIALSAssumption, SMT DEF iterFunc
  <1>2. CASE t > 0
    <2>1. RUNTM * o \in Nat \ {0}
      BY PositiveProduct, RUNTMAssumption
    <2>2. t * w \in Nat \ {0}
      BY PositiveProduct, <1>2
    <2>3. (RUNTM * o) \div (t * w) \in Nat
      BY <2>1, <2>2, QuotientIsNat
    <2>. QED
      BY <2>3, <1>2, TRIALSAssumption DEF iterFunc
  <1>. QED
    BY <1>1, <1>2

\* Where the next block starts, its increment, permSize and perturbations.
LEMMA NextRung ==
    ASSUME Ladder, Block
    PROVE  /\ inc' \in Nat /\ permSize' \in Nat /\ pert' \in [1..3 -> Int]
           /\ Rung(n)'
           /\ size = (IF n = 0 THEN 8 ELSE TopBefore(n)')
  <1>. USE DEF Ladder, TypeOK
  <1>1. /\ pc = "block" /\ n \in Nat /\ n' = n /\ size' = size
        /\ inc' = incFunc(n, inc) /\ permSize' = permSize + inc'
        /\ pert' = pertFunc(n, FirstPert)
    BY DEF Block
  <1>4. CASE n = 0
    <2>1. inc' = 16 /\ permSize' = 16 /\ pert' = Perturbations(-8, 0, 8)
      BY <1>1, <1>4 DEF incFunc, pertFunc
    <2>2. /\ pert' \in [1..3 -> Int]
          /\ pert'[1] = -8 /\ pert'[2] = 0 /\ pert'[3] = 8
      BY <2>1 DEF Perturbations
    <2>3. Rung(n)'
      BY <1>1, <1>4, <2>1, <2>2 DEF Rung
    <2>. QED
      BY <1>1, <1>4, <2>1, <2>2, <2>3
  <1>5. CASE n = 3
    <2>1. inc' = 32 /\ permSize' = 48 /\ pert' = Perturbations(-16, 0, 16) /\ size = 24
      BY <1>1, <1>5 DEF incFunc, pertFunc, Rung
    <2>2. /\ pert' \in [1..3 -> Int]
          /\ pert'[1] = -16 /\ pert'[2] = 0 /\ pert'[3] = 16
      BY <2>1 DEF Perturbations
    <2>3. Rung(n)'
      BY <1>1, <1>5, <2>1, <2>2 DEF Rung
    <2>. QED
      BY <1>1, <1>5, <2>1, <2>2, <2>3 DEF TopBefore
  <1>6. CASE n = 6
    <2>1. inc' = 56 /\ permSize' = 104 /\ pert' = Perturbations(-8, 0, 24) /\ size = 64
      BY <1>1, <1>6 DEF incFunc, pertFunc, Rung
    <2>2. /\ pert' \in [1..3 -> Int]
          /\ pert'[1] = -8 /\ pert'[2] = 0 /\ pert'[3] = 24
      BY <2>1 DEF Perturbations
    <2>3. Rung(n)'
      BY <1>1, <1>6, <2>1, <2>2 DEF Rung
    <2>. QED
      BY <1>1, <1>6, <2>1, <2>2, <2>3 DEF TopBefore
  <1>7. CASE n = 9
    <2>1. inc' = 64 /\ permSize' = 168 /\ pert' = Perturbations(-16, 0, 24) /\ size = 128
      BY <1>1, <1>7 DEF incFunc, pertFunc, Rung
    <2>2. /\ pert' \in [1..3 -> Int]
          /\ pert'[1] = -16 /\ pert'[2] = 0 /\ pert'[3] = 24
      BY <2>1 DEF Perturbations
    <2>3. Rung(n)'
      BY <1>1, <1>7, <2>1, <2>2 DEF Rung
    <2>. QED
      BY <1>1, <1>7, <2>1, <2>2, <2>3 DEF TopBefore
  <1>8. CASE n = 12
    <2>1. inc' = 64 /\ permSize' = 232 /\ pert' = Perturbations(-16, 0, 24) /\ size = 192
      BY <1>1, <1>8 DEF incFunc, pertFunc, Rung
    <2>2. /\ pert' \in [1..3 -> Int]
          /\ pert'[1] = -16 /\ pert'[2] = 0 /\ pert'[3] = 24
      BY <2>1 DEF Perturbations
    <2>3. Rung(n)'
      BY <1>1, <1>8, <2>1, <2>2 DEF Rung
    <2>. QED
      BY <1>1, <1>8, <2>1, <2>2, <2>3 DEF TopBefore
  <1>9. CASE n >= 15
    <2>1. /\ Rung(n - 3) /\ size = permSize + pert[3] /\ count = n - 9
          /\ inc \in Nat /\ permSize \in Nat /\ pert[1] \in Int
      BY <1>1, <1>9
    <2>2. n % 3 = 0 /\ inc % 8 = 0 /\ inc >= 64 /\ pert[1] = 48 - inc /\ pert[3] = 24
          /\ permSize = (IF n % 2 = 0 THEN 3 * inc ELSE 4 * inc) - 24
      BY <1>1, <1>9, <2>1 DEF Rung
    <2>3. pert' = Perturbations(FirstPert, 0, 24)
      BY <1>1, <1>9 DEF pertFunc
    <2>4. (inc \div 8) * 8 = inc /\ 2 * (inc \div 8) * 8 = 2 * inc
      BY <2>1, <2>2
    <2>5. CASE n % 2 = 1
      <3>1. count % 6 = 0
        BY <1>1, <1>9, <2>1, <2>2, <2>5
      <3>2. inc' = 2 * inc /\ permSize' = permSize + 2 * inc
        BY <1>1, <1>9, <2>4, <2>5 DEF incFunc
      <3>3. FirstPert = 48 - 2 * inc
        BY <2>1, <2>2, <3>1 DEF FirstPert
      <3>4. inc' \in Nat /\ permSize' \in Nat /\ inc' % 8 = 0 /\ inc' >= 128
            /\ permSize' = 3 * inc' - 24 /\ FirstPert = 48 - inc'
        BY <2>1, <2>2, <2>5, <3>2, <3>3
      <3>5. pert' \in [1..3 -> Int] /\ pert'[1] = 48 - inc' /\ pert'[2] = 0 /\ pert'[3] = 24
        BY <2>3, <3>4 DEF Perturbations
      <3>6. Rung(n)'
        BY <1>1, <1>9, <2>2, <2>5, <3>4, <3>5 DEF Rung
      <3>7. TopBefore(n)' = permSize' - inc' + 24
        BY <1>1, <1>9 DEF TopBefore
      <3>8. size = TopBefore(n)'
        BY <2>1, <2>2, <2>5, <3>2, <3>7
      <3>. QED
        BY <1>1, <1>9, <3>4, <3>5, <3>6, <3>8
    <2>6. CASE n % 2 = 0
      <3>1. count % 6 # 0
        BY <1>1, <1>9, <2>1, <2>2, <2>6
      <3>2. inc' = inc /\ permSize' = permSize + inc
        BY <1>1, <1>9, <2>4, <2>6 DEF incFunc
      <3>3. FirstPert = 48 - inc
        BY <2>1, <2>2, <3>1 DEF FirstPert
      <3>4. n >= 18
        BY <1>1, <1>9, <2>2, <2>6
      <3>5. inc >= 128
        BY <1>1, <2>1, <3>4 DEF Rung
      <3>6. inc' \in Nat /\ permSize' \in Nat /\ inc' % 8 = 0 /\ inc' >= 128
            /\ permSize' = 4 * inc' - 24 /\ FirstPert = 48 - inc'
        BY <2>1, <2>2, <2>6, <3>2, <3>3, <3>5
      <3>7. pert' \in [1..3 -> Int] /\ pert'[1] = 48 - inc' /\ pert'[2] = 0 /\ pert'[3] = 24
        BY <2>3, <3>6 DEF Perturbations
      <3>8. Rung(n)'
        BY <1>1, <1>9, <2>2, <2>6, <3>6, <3>7 DEF Rung
      <3>9. TopBefore(n)' = permSize' - inc' + 24
        BY <1>1, <1>9 DEF TopBefore
      <3>10. size = TopBefore(n)'
        BY <2>1, <2>2, <2>6, <3>2, <3>9
      <3>. QED
        BY <1>1, <1>9, <3>6, <3>7, <3>8, <3>10
    <2>. QED
      BY <1>1, <2>5, <2>6
  <1>10. n = 0 \/ n = 3 \/ n = 6 \/ n = 9 \/ n = 12 \/ n >= 15
    BY <1>1 DEF Rung
  <1>. QED
    BY <1>4, <1>5, <1>6, <1>7, <1>8, <1>9, <1>10

\* In a block the size about to be tried is positive and, but for the first one of
\* all, larger than the last one.
LEMMA NextSizeLarger ==
    ASSUME Ladder, pc = "run"
    PROVE  /\ NewSize \in Nat \ {0}
           /\ n > 0 => NewSize > size
  <1>. USE DEF Ladder, TypeOK
  <1>1. /\ pertrun \in 1..3 /\ Rung(BlockStart) /\ size = LastTried
        /\ pert \in [1..3 -> Int] /\ n \in Nat /\ permSize \in Nat /\ inc \in Nat
    OBVIOUS
  <1>2. BlockStart = 0 \/ BlockStart = 3 \/ BlockStart = 6 \/ BlockStart = 9
        \/ BlockStart = 12 \/ BlockStart >= 15
    BY <1>1 DEF Rung, BlockStart
  <1>3. CASE pertrun = 1
    <2>1. BlockStart = n /\ NewSize = permSize + pert[1]
      BY <1>1, <1>3 DEF BlockStart, NewSize
    <2>2. size = (IF n = 0 THEN 8 ELSE TopBefore(n))
      BY <1>1, <1>3 DEF LastTried
    <2>. QED
      BY <1>1, <1>2, <2>1, <2>2 DEF Rung, TopBefore
  <1>4. CASE pertrun = 2
    <2>1. NewSize = permSize + pert[2] /\ size = permSize + pert[1]
      BY <1>1, <1>4 DEF NewSize, LastTried
    <2>. QED
      BY <1>1, <1>2, <2>1 DEF Rung
  <1>5. CASE pertrun = 3
    <2>1. NewSize = permSize + pert[3] /\ size = permSize + pert[2]
      BY <1>1, <1>5 DEF NewSize, LastTried
    <2>. QED
      BY <1>1, <1>2, <2>1 DEF Rung
  <1>. QED
    BY <1>1, <1>3, <1>4, <1>5

-----------------------------------------------------------------------------

\* The script's initial values are on the ladder.
LEMMA LadderInit == Init => Ladder
  BY DEF Init, Ladder, TypeOK

\* Every step of the loop stays on it.
LEMMA LadderStep == Ladder /\ [Next]_vars => Ladder'
  <1>. SUFFICES ASSUME Ladder, [Next]_vars PROVE Ladder'
    OBVIOUS
  <1>0. TypeOK
    BY DEF Ladder
  <1>1. CASE Block
    <2>1. /\ inc' \in Nat /\ permSize' \in Nat /\ pert' \in [1..3 -> Int]
          /\ Rung(n)'
          /\ size = (IF n = 0 THEN 8 ELSE TopBefore(n)')
      BY <1>1, NextRung
    <2>2. /\ pc' = "run" /\ pertrun' = 1 /\ n' = n /\ count' = count /\ size' = size
          /\ iters' = iters /\ iterationTime' = iterationTime
      BY <1>1 DEF Block
    <2>0. pc = "block" /\ iterationTime # 0
      BY <1>1 DEF Block, Ladder
    <2>3. TypeOK'
      BY <1>0, <2>0, <2>1, <2>2 DEF TypeOK
    <2>4. BlockStart' = n'
      BY <1>0, <2>2 DEF BlockStart, TypeOK
    <2>5. LastTried' = (IF n' = 0 THEN 8 ELSE TopBefore(n)')
      BY <2>2 DEF LastTried
    <2>6. Rung(BlockStart)'
      BY <2>1, <2>4, ZenonT(40) DEF Rung
    <2>7. size' = LastTried'
      BY <2>1, <2>2, <2>5
    <2>. QED
      BY <2>2, <2>3, <2>6, <2>7 DEF Ladder
  <1>2. ASSUME Trials
        PROVE  /\ pc = "run" /\ size' = NewSize /\ NewSize \in Nat \ {0}
               /\ iters' \in Nat \ {0} /\ iterationTime' \in Int
    <2>1. /\ pc = "run" /\ size' = NewSize
          /\ iters' = iterFunc(iterationTime, size, NewSize)
      BY <1>2 DEF Trials
    <2>2. NewSize \in Nat \ {0}
      BY <2>1, NextSizeLarger
    <2>3. iters' \in Nat \ {0}
      BY <1>0, <2>1, <2>2, IterFuncPositive DEF TypeOK
    <2>4. iterationTime' \in Int
      BY <1>2, TimesAssumption DEF Trials
    <2>. QED
      BY <2>1, <2>2, <2>3, <2>4
  <1>3. CASE Run
    <2>1. /\ pc = "run" /\ iterationTime' # 0 /\ size' = NewSize
          /\ n' = n + 1 /\ count' = Counted /\ pertrun' = pertrun + 1
          /\ pc' = IF pertrun = 3 THEN "block" ELSE "run"
          /\ inc' = inc /\ permSize' = permSize /\ pert' = pert
      BY <1>2, <1>3 DEF Run
    <2>2. NewSize \in Nat \ {0} /\ iters' \in Nat \ {0} /\ iterationTime' \in Int
      BY <1>2, <1>3 DEF Run
    <2>5. /\ pertrun \in 1..3 /\ Rung(BlockStart)
          /\ count = (IF n < 11 THEN 1 ELSE n - 9)
      BY <2>1 DEF Ladder
    <2>6. count' = (IF n' < 11 THEN 1 ELSE n' - 9) /\ count' \in Nat
      BY <1>0, <2>1, <2>5 DEF Counted, TypeOK
    <2>7. TypeOK'
      BY <1>0, <2>1, <2>2, <2>5, <2>6 DEF TypeOK
    <2>8. CASE pertrun = 3
      <3>1. pc' = "block" /\ BlockStart = n' - 3
        BY <1>0, <2>1, <2>8 DEF BlockStart, TypeOK
      <3>2. Rung(n - 3)' /\ n' \in Nat /\ n' >= 3
        BY <1>0, <2>1, <2>5, <3>1 DEF Rung, TypeOK
      <3>3. size' = permSize' + pert'[3]
        BY <2>1, <2>8 DEF NewSize
      <3>. QED
        BY <2>1, <2>6, <2>7, <3>1, <3>2, <3>3 DEF Ladder
    <2>9. CASE pertrun # 3
      <3>1. pc' = "run" /\ pertrun' \in 2..3 /\ BlockStart' = BlockStart
        BY <1>0, <2>1, <2>5, <2>9 DEF BlockStart, TypeOK
      <3>2. Rung(BlockStart)'
        BY <2>1, <2>5, <3>1 DEF Rung
      <3>3. size' = LastTried'
        BY <2>1, <2>5, <3>1 DEF NewSize, LastTried
      <3>. QED
        BY <2>6, <2>7, <3>1, <3>2, <3>3 DEF Ladder
    <2>. QED
      BY <2>8, <2>9
  <1>4. CASE ZeroTime
    BY <1>0, <1>2, <1>4 DEF ZeroTime, Ladder, TypeOK
  <1>5. CASE TooLarge
    <2>1. /\ pc = "run" /\ size' = NewSize
          /\ iters' = iterFunc(iterationTime, size, NewSize)
      BY <1>5 DEF TooLarge
    <2>2. NewSize \in Nat \ {0}
      BY <2>1, NextSizeLarger
    <2>3. iters' \in Nat \ {0}
      BY <1>0, <2>1, <2>2, IterFuncPositive DEF TypeOK
    <2>. QED
      BY <1>0, <1>5, <2>1, <2>2, <2>3 DEF TooLarge, Ladder, TypeOK
  <1>6. CASE Stop
    BY <1>0, <1>6 DEF Stop, Ladder, TypeOK
  <1>7. CASE UNCHANGED vars
    BY <1>0, <1>7 DEF vars, Ladder, TypeOK, Rung, BlockStart, LastTried, TopBefore
  <1>. QED
    BY <1>1, <1>3, <1>4, <1>5, <1>6, <1>7 DEF Next

\* The loop of NPtcp-local stays on the ladder.
THEOREM OnTheLadder == Spec => []Ladder
  BY LadderInit, LadderStep, PTL DEF Spec

\* The variables of the loop have their types; above all, sizes and repetition
\* counts handed to run_iters are positive, for any times measured.
THEOREM TypeCorrect == Spec => []TypeOK
  <1>1. Ladder => TypeOK
    BY DEF Ladder
  <1>. QED
    BY <1>1, OnTheLadder, PTL

\* Each size the sweep tries is larger than the one before it.
THEOREM SizesIncrease == Spec => Increasing
  <1>1. Ladder /\ [Next]_vars => [(pc = "run" /\ n > 0) => size' > size]_vars
    <2>. SUFFICES ASSUME Ladder, Next, pc = "run", n > 0 PROVE size' > size
      OBVIOUS
    <2>1. NewSize > size
      BY NextSizeLarger
    <2>2. size' = NewSize
      BY DEF Next, Block, Run, ZeroTime, Trials, TooLarge, Stop
    <2>. QED
      BY <2>1, <2>2
  <1>. QED
    BY <1>1, OnTheLadder, PTL DEF Spec, Increasing

\* After the tables, the blocks climb through the powers of two and the sizes half
\* way between them, with the neighbours 24 bits away.
THEOREM NearbyValues == Spec => []Nearby
  <1>1. Ladder => Nearby
    <2>. SUFFICES ASSUME Ladder, pc = "run", BlockStart >= 15
                  PROVE  /\ permSize + pert[1] = (permSize + pert[3]) - inc + 24
                         /\ permSize + pert[2] = (permSize + pert[3]) - 24
                         /\ permSize + pert[3] =
                               (IF BlockStart % 2 = 1 THEN 3 * inc ELSE 4 * inc)
      BY DEF Nearby
    <2>1. Rung(BlockStart) /\ inc \in Nat /\ permSize \in Nat
      BY DEF Ladder, TypeOK
    <2>. QED
      BY <2>1 DEF Rung
  <1>. QED
    BY <1>1, OnTheLadder, PTL

============================================================================
