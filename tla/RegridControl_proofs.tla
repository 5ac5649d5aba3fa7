------------------------ MODULE RegridControl_proofs ------------------------
(***************************************************************************)
(* Proofs of the invariants of RegridControl, for every value of the       *)
(* constants.  The CFL criterion bounds the distance through an invariant  *)
(* that pays for the old velocity of the next step in advance: that        *)
(* velocity is at most GrowthFactor times the new velocity of this step.   *)
(***************************************************************************)
EXTENDS RegridControl, TLAPS

\* The intervals are natural numbers and never change.
LEMMA InputFixed ==
    TypeOK /\ [Next]_vars =>
        /\ cflInterval \in Nat /\ cflInterval' = cflInterval
        /\ stepInterval \in Nat /\ stepInterval' = stepInterval
  BY ControlAssumption
     DEF TypeOK, Next, AdvanceHierarchy, PutToDatabase, Restart, vars, input

LEMMA InitType == Init => TypeOK
  BY ControlAssumption DEF Init, TypeOK, States, state

LEMMA NextType == TypeOK /\ [Next]_vars => TypeOK'
<1> SUFFICES ASSUME TypeOK, [Next]_vars PROVE TypeOK'
  OBVIOUS
<1> USE ControlAssumption
<1> /\ step \in Nat /\ estimate \in Nat /\ newCfl \in 0..MaxCfl
    /\ moved \in Nat /\ sinceRegrid \in Nat /\ sinceRegrid <= step
  BY DEF TypeOK, States, state
<1>1. ASSUME NEW old \in 0..MaxCfl, NEW new \in 0..MaxCfl, AdvanceHierarchy(old, new)
      PROVE TypeOK'
  <2>1. /\ step' \in Nat /\ estimate' \in Nat /\ newCfl' \in 0..MaxCfl
        /\ moved' \in Nat /\ sinceRegrid' \in Nat /\ sinceRegrid' <= step'
    BY <1>1 DEF AdvanceHierarchy
  <2>2. saved' = saved /\ restarts' = restarts
    BY <1>1 DEF AdvanceHierarchy
  <2> QED
    BY <2>1, <2>2, InputFixed DEF TypeOK, States, state
<1>2. CASE PutToDatabase
  BY <1>2 DEF PutToDatabase, RestartFile, TypeOK, States, state, input
<1>3. CASE Restart
  BY <1>3 DEF Restart, TypeOK, States, state, input
<1>4. CASE UNCHANGED vars
  BY <1>4 DEF vars, TypeOK, States, state, input
<1> QED
  BY <1>1, <1>2, <1>3, <1>4 DEF Next

\* The members and the restart file keep their types (TypeOK).
THEOREM TypeCorrect == Spec => []TypeOK
  BY InitType, NextType, PTL DEF Spec

-----------------------------------------------------------------------------
(* Regridding by CFL number *)

\* Multiplication by a natural number is monotone.
LEMMA Monotone ==
    ASSUME NEW k \in Nat, NEW a \in Nat, NEW b \in Nat, a <= b
    PROVE  k * a <= k * b
  OBVIOUS

\* What holds of one set of values, those of the program or of a restart file:
\* the estimate stays one step below the interval, and the distance with the
\* largest old velocity of the next step is paid for.
Paid(s) ==
    /\ s.estimate <= cflInterval + MaxCfl
    /\ s.moved + GrowthFactor * s.newCfl <= (1 + GrowthFactor) * s.estimate + MaxCfl

\* The strengthening of NodesInReach.
AllPaid == cflInterval > 0 /\ GrowthFactor >= 1 => Paid(state) /\ Paid(saved)

LEMMA InitPaid == Init => AllPaid
  BY ControlAssumption DEF Init, AllPaid, Paid, state

LEMMA NextPaid == TypeOK /\ AllPaid /\ [Next]_vars => AllPaid'
<1> SUFFICES ASSUME TypeOK, AllPaid, [Next]_vars,
                    cflInterval > 0, GrowthFactor >= 1
             PROVE  Paid(state)' /\ Paid(saved)'
  BY InputFixed DEF AllPaid
<1> USE ControlAssumption, InputFixed
<1> /\ step \in Nat /\ estimate \in Nat /\ newCfl \in 0..MaxCfl
    /\ moved \in Nat /\ sinceRegrid \in Nat
  BY DEF TypeOK, States, state
<1>0. Paid(state) /\ Paid(saved)
  BY DEF AllPaid
<1>1. ASSUME NEW old \in 0..MaxCfl, NEW new \in 0..MaxCfl, AdvanceHierarchy(old, new)
      PROVE  Paid(state)' /\ Paid(saved)'
  <2>1. Paid(saved)'
    BY <1>0, <1>1 DEF Paid, AdvanceHierarchy
  <2>2. estimate' <= cflInterval + MaxCfl
    BY <1>1 DEF AdvanceHierarchy, AtRegridPoint
  <2>3. CASE AtRegridPoint
    <3>1. estimate' = new /\ moved' = old + new /\ newCfl' = new
      BY <1>1, <2>3 DEF AdvanceHierarchy
    <3>2. old + new + GrowthFactor * new <= (1 + GrowthFactor) * new + MaxCfl
      OBVIOUS
    <3> QED
      BY <2>1, <2>2, <3>1, <3>2 DEF Paid, state
  <2>4. CASE ~AtRegridPoint
    <3>1. /\ estimate' = new + estimate
          /\ moved' = old + new + moved
          /\ newCfl' = new
      BY <1>1, <2>4 DEF AdvanceHierarchy
    <3>2. old <= GrowthFactor * newCfl
      BY <1>1, <2>4 DEF AdvanceHierarchy, OldCfl, AtRegridPoint, InitialTime
    <3>3. moved + GrowthFactor * newCfl <= (1 + GrowthFactor) * estimate + MaxCfl
      BY <1>0 DEF Paid, state
    <3>4. GrowthFactor * new \in Nat /\ GrowthFactor * newCfl \in Nat
      OBVIOUS
    <3>5. (1 + GrowthFactor) * (new + estimate)
              = (1 + GrowthFactor) * estimate + new + GrowthFactor * new
      OBVIOUS
    <3>6. (1 + GrowthFactor) * estimate \in Nat
      OBVIOUS
    <3>7. old + new + moved + GrowthFactor * new
              <= (1 + GrowthFactor) * (new + estimate) + MaxCfl
      BY <3>2, <3>3, <3>4, <3>5, <3>6
    <3> QED
      BY <2>1, <2>2, <3>1, <3>7 DEF Paid, state
  <2> QED
    BY <2>3, <2>4
<1>2. CASE PutToDatabase
  BY <1>0, <1>2 DEF PutToDatabase, RestartFile, Paid, state
<1>3. CASE Restart
  BY <1>0, <1>3 DEF Restart, Paid, state
<1>4. CASE UNCHANGED vars
  BY <1>0, <1>4 DEF vars, Paid, state
<1> QED
  BY <1>1, <1>2, <1>3, <1>4 DEF Next

LEMMA PaidInReach == TypeOK /\ AllPaid => NodesInReach
<1> SUFFICES ASSUME TypeOK, AllPaid, cflInterval > 0, RoomForGrowth
             PROVE  moved <= 2 * CflWidth
  BY DEF NodesInReach
<1> USE ControlAssumption
<1>1. estimate \in Nat /\ newCfl \in Nat /\ moved \in Nat /\ cflInterval \in Nat
  BY DEF TypeOK, States, state
<1>2. /\ estimate <= cflInterval + MaxCfl
      /\ moved + GrowthFactor * newCfl <= (1 + GrowthFactor) * estimate + MaxCfl
  BY DEF AllPaid, Paid, RoomForGrowth, state
<1>3. (1 + GrowthFactor) * estimate <= (1 + GrowthFactor) * (cflInterval + MaxCfl)
  BY <1>1, <1>2, Monotone
<1>4. /\ GrowthFactor * newCfl \in Nat
      /\ (1 + GrowthFactor) * estimate \in Nat
      /\ (1 + GrowthFactor) * (cflInterval + MaxCfl) \in Nat
  BY <1>1
<1> QED
  BY <1>1, <1>2, <1>3, <1>4 DEF RoomForGrowth

\* With room for one more step, growing step sizes and one old velocity, the
\* CFL criterion keeps every node within reach (NodesInReach).
THEOREM CflCriterionSuffices == Spec => []NodesInReach
<1>1. Init => TypeOK /\ AllPaid
  BY InitType, InitPaid
<1>2. TypeOK /\ AllPaid /\ [Next]_vars => (TypeOK /\ AllPaid)'
  BY NextType, NextPaid
<1> QED
  BY <1>1, <1>2, PaidInReach, PTL DEF Spec

-----------------------------------------------------------------------------
(* Regridding by step count *)

\* Division with remainder.
LEMMA DivMod ==
    ASSUME NEW n \in Nat, NEW i \in Nat \ {0}
    PROVE  n % i \in 0..(i - 1) /\ n \div i \in Nat /\ n = i * (n \div i) + (n % i)
  OBVIOUS

\* A multiple leaves no remainder.
LEMMA MultipleMod ==
    ASSUME NEW k \in Nat, NEW i \in Nat \ {0}
    PROVE  (i * k) % i = 0
<1> DEFINE d == (i * k) \div i
<1> DEFINE r == (i * k) % i
<1>1. i * k \in Nat
  OBVIOUS
<1>2. d \in Nat /\ r \in 0..(i - 1) /\ i * k = i * d + r
  BY <1>1, DivMod
<1> HIDE DEF d, r
<1>3. i * (k - d) = r
  BY <1>2
<1>4. k - d < 1
  <2> SUFFICES ASSUME k - d >= 1 PROVE FALSE
    BY <1>2
  <2>1. PICK e \in Nat : k - d = e + 1
    BY <1>2
  <2>2. i * (e + 1) = i * e + i /\ i * e \in Nat
    OBVIOUS
  <2> QED BY <1>2, <1>3, <2>1, <2>2
<1>5. k - d > -1
  <2> SUFFICES ASSUME k - d <= -1 PROVE FALSE
    BY <1>2
  <2>1. PICK e \in Nat : d - k = e + 1
    BY <1>2
  <2>2. i * (k - d) = -(i * (e + 1)) /\ i * (e + 1) = i * e + i /\ i * e \in Nat
    BY <2>1, <1>2
  <2> QED BY <1>2, <1>3, <2>1, <2>2
<1>6. k - d = 0
  BY <1>4, <1>5, <1>2
<1>7. r = 0
  BY <1>6, <1>3
<1> QED BY <1>7 DEF r

\* What holds of one set of values: the last regrid was at a multiple of the
\* interval, at most one interval ago, and no step moved a node further than
\* the largest CFL number.
Regular(s) ==
    /\ \E k \in Nat : s.step = s.sinceRegrid + stepInterval * k
    /\ s.sinceRegrid <= stepInterval
    /\ s.moved <= 2 * (MaxCfl * s.sinceRegrid)

\* The strengthening of StepsInReach.
AllRegular == cflInterval = 0 /\ stepInterval > 0 => Regular(state) /\ Regular(saved)

LEMMA InitRegular == Init => AllRegular
<1> SUFFICES ASSUME Init, stepInterval > 0 PROVE Regular(state) /\ Regular(saved)
  BY DEF AllRegular
<1>1. state.step = state.sinceRegrid + stepInterval * 0
  BY ControlAssumption DEF Init, state
<1> QED
  BY <1>1, ControlAssumption DEF Init, Regular, state

LEMMA NextRegular == TypeOK /\ AllRegular /\ [Next]_vars => AllRegular'
<1> SUFFICES ASSUME TypeOK, AllRegular, [Next]_vars,
                    cflInterval = 0, stepInterval > 0
             PROVE  Regular(state)' /\ Regular(saved)'
  BY InputFixed DEF AllRegular
<1> USE ControlAssumption, InputFixed
<1> /\ step \in Nat /\ estimate \in Nat /\ newCfl \in 0..MaxCfl
    /\ moved \in Nat /\ sinceRegrid \in Nat
  BY DEF TypeOK, States, state
<1>0. Regular(state) /\ Regular(saved)
  BY DEF AllRegular
<1>1. ASSUME NEW old \in 0..MaxCfl, NEW new \in 0..MaxCfl, AdvanceHierarchy(old, new)
      PROVE  Regular(state)' /\ Regular(saved)'
  <2>1. Regular(saved)'
    BY <1>0, <1>1 DEF Regular, AdvanceHierarchy
  <2>2. step' = step + 1
    BY <1>1 DEF AdvanceHierarchy
  <2>3. CASE AtRegridPoint
    <3>1. sinceRegrid' = 1 /\ moved' = old + new
      BY <1>1, <2>3 DEF AdvanceHierarchy
    <3>2. PICK k \in Nat : step = stepInterval * k
      <4>1. CASE step = 0
        <5>1. step = stepInterval * 0
          BY <4>1
        <5> QED
          BY <5>1
      <4>2. CASE step # 0
        <5>1. step % stepInterval = 0
          BY <2>3, <4>2 DEF AtRegridPoint, InitialTime
        <5>2. stepInterval \in Nat \ {0}
          OBVIOUS
        <5>3. /\ step \div stepInterval \in Nat
              /\ step = stepInterval * (step \div stepInterval) + (step % stepInterval)
          BY <5>2, DivMod
        <5>4. stepInterval * (step \div stepInterval) \in Nat
          BY <5>3
        <5>5. step = stepInterval * (step \div stepInterval)
          BY <5>1, <5>3, <5>4
        <5> QED
          BY <5>3, <5>5
      <4> QED
        BY <4>1, <4>2
    <3>3. step' = sinceRegrid' + stepInterval * k
      BY <2>2, <3>1, <3>2
    <3> QED
      BY <2>1, <3>1, <3>3 DEF Regular, state
  <2>4. CASE ~AtRegridPoint
    <3>1. sinceRegrid' = 1 + sinceRegrid /\ moved' = old + new + moved
      BY <1>1, <2>4 DEF AdvanceHierarchy
    <3>2. PICK k \in Nat : step = sinceRegrid + stepInterval * k
      BY <1>0 DEF Regular, state
    <3>3. step' = sinceRegrid' + stepInterval * k
      BY <2>2, <3>1, <3>2
    <3>4. sinceRegrid # stepInterval
      <4> SUFFICES ASSUME sinceRegrid = stepInterval PROVE FALSE
        OBVIOUS
      <4>1. step = stepInterval * (k + 1)
        BY <3>2
      <4>2. step % stepInterval = 0
        BY <4>1, MultipleMod
      <4> QED
        BY <2>4, <4>2 DEF AtRegridPoint
    <3>5. sinceRegrid' <= stepInterval
      BY <1>0, <3>1, <3>4 DEF Regular, state
    <3>6. moved <= 2 * (MaxCfl * sinceRegrid)
      BY <1>0 DEF Regular, state
    <3>7. MaxCfl * (1 + sinceRegrid) = MaxCfl + MaxCfl * sinceRegrid
      OBVIOUS
    <3>8. moved' <= 2 * (MaxCfl * sinceRegrid')
      BY <3>1, <3>6, <3>7
    <3> QED
      BY <2>1, <3>3, <3>5, <3>8 DEF Regular, state
  <2> QED
    BY <2>3, <2>4
<1>2. CASE PutToDatabase
  BY <1>0, <1>2 DEF PutToDatabase, RestartFile, Regular, state
<1>3. CASE Restart
  BY <1>0, <1>3 DEF Restart, Regular, state
<1>4. CASE UNCHANGED vars
  BY <1>0, <1>4 DEF vars, Regular, state
<1> QED
  BY <1>1, <1>2, <1>3, <1>4 DEF Next

LEMMA RegularInReach == TypeOK /\ AllRegular => StepsInReach
<1> SUFFICES ASSUME TypeOK, AllRegular, ShortSteps PROVE moved <= 2 * CflWidth
  BY DEF StepsInReach
<1> USE ControlAssumption
<1>1. sinceRegrid \in Nat /\ moved \in Nat /\ stepInterval \in Nat
  BY DEF TypeOK, States, state
<1>2. sinceRegrid <= stepInterval /\ moved <= 2 * (MaxCfl * sinceRegrid)
  BY DEF AllRegular, Regular, ShortSteps, state
<1>3. MaxCfl * sinceRegrid <= MaxCfl * stepInterval
  BY <1>1, <1>2, Monotone
<1>4. MaxCfl * stepInterval = stepInterval * MaxCfl
  BY <1>1
<1>5. MaxCfl * sinceRegrid \in Nat /\ stepInterval * MaxCfl \in Nat
  BY <1>1
<1> QED
  BY <1>1, <1>2, <1>3, <1>4, <1>5 DEF ShortSteps

\* When the largest CFL number times the step interval is at most the width of
\* the search, regridding by step count keeps every node within reach
\* (StepsInReach).
THEOREM StepCountSuffices == Spec => []StepsInReach
<1>1. Init => TypeOK /\ AllRegular
  BY InitType, InitRegular
<1>2. TypeOK /\ AllRegular /\ [Next]_vars => (TypeOK /\ AllRegular)'
  BY NextType, NextRegular
<1> QED
  BY <1>1, <1>2, RegularInReach, PTL DEF Spec
=============================================================================
