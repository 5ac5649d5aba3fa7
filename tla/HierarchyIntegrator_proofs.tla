---------------------- MODULE HierarchyIntegrator_proofs ----------------------
(***************************************************************************)
(* Proofs about HierarchyIntegrator, for every chain, every input file and *)
(* any number of restarts.                                                 *)
(***************************************************************************)
EXTENDS HierarchyIntegrator, WellFoundedInduction, SequenceTheorems, TLAPS

-----------------------------------------------------------------------------
(* Induction *)

\* The induction rules are stated for sets: the set of what a claim holds of.

\* A set of numbers that is not empty has a least element.
LEMMA LeastElement ==
  ASSUME NEW T \in SUBSET Nat, T # {}
  PROVE  \E m \in T : \A k \in T : m <= k
<1> DEFINE R == OpToRel(<, Nat)
<1>1. IsWellFoundedOn(R, Nat)
  BY NatLessThanWellFounded
<1> HIDE DEF R
<1>2. PICK m \in T : \A k \in T : ~ (<<k, m>> \in R)
  BY <1>1, WFMin
<1>3. \A j, k \in Nat : j < k => <<j, k>> \in R
  BY DEF R, OpToRel
<1>4. ASSUME NEW k \in T PROVE m <= k
  <2>1. m \in Nat /\ k \in Nat /\ ~ (k < m)
    BY <1>2, <1>3
  <2> QED BY <2>1
<1> QED BY <1>4

\* A set of numbers that contains zero and with each number the next one
\* contains them all.
LEMMA SetInduction ==
  ASSUME NEW S \in SUBSET Nat, 0 \in S, \A n \in S : n + 1 \in S
  PROVE  S = Nat
<1> SUFFICES ASSUME Nat \ S # {} PROVE FALSE
  OBVIOUS
<1>1. PICK m \in Nat \ S : \A k \in Nat \ S : m <= k
  BY LeastElement
<1>2. m - 1 \in Nat /\ m = (m - 1) + 1
  OBVIOUS
<1>3. m - 1 \in S
  BY <1>1, <1>2
<1> QED BY <1>2, <1>3

-----------------------------------------------------------------------------
(* Lemmas about the operators *)

\* The root is one of the integrators.
LEMMA RootIsIntegrator == 1 \in Integrators
  BY ChainAssumption DEF Integrators

\* Every number of cycles is a positive number.
LEMMA CyclesType ==
  ASSUME TypeOK, NEW i \in Integrators
  PROVE  GetNumberOfCycles(i) \in Nat \ {0}
  BY DEF TypeOK, GetNumberOfCycles

\* The calls of a cycle are calls of integrators of the chain.
LEMMA ChildCallsType ==
  ASSUME TypeOK, NEW i \in Integrators, NEW cycle \in Nat
  PROVE  ChildCalls(i, cycle) \in Seq(Call)
<1>1. CASE i = N
  BY <1>1 DEF ChildCalls
<1>2. CASE i # N
  <2>1. i + 1 \in Integrators
    BY <1>2, ChainAssumption DEF Integrators
  <2>2. GetNumberOfCycles(i + 1) \in Nat
    BY <2>1, CyclesType
  <2>3. <<[who |-> i + 1, cycle |-> cycle]>> \in Seq(Call)
    BY <2>1 DEF Call
  <2>4. [k \in 1..GetNumberOfCycles(i + 1) |-> [who |-> i + 1, cycle |-> k - 1]]
            \in Seq(Call)
    <3>1. \A k \in 1..GetNumberOfCycles(i + 1) : [who |-> i + 1, cycle |-> k - 1] \in Call
      BY <2>1, <2>2 DEF Call
    <3> QED BY <2>2, <3>1
  <2> QED BY <1>2, <2>3, <2>4 DEF ChildCalls
<1> QED BY <1>1, <1>2

\* What the new history holds: the new size in front of the old ones.
LEMMA PushFrontFacts ==
  ASSUME NEW dt \in Int, NEW history \in Seq(Int)
  PROVE  /\ PushFront(dt, history) \in Seq(Int)
         /\ Len(PushFront(dt, history)) \in 1..(Len(history) + 1)
         /\ PushFront(dt, history)[1] = dt
         /\ \A k \in 2..Len(PushFront(dt, history)) :
               PushFront(dt, history)[k] = history[k - 1]
<1> DEFINE n == IF Len(history) < MaxHistory THEN Len(history) + 1 ELSE MaxHistory
           f == [k \in 1..n |-> IF k = 1 THEN dt ELSE history[k - 1]]
<1>1. n \in 1..(Len(history) + 1)
  BY TimesAssumption
<1>2. PushFront(dt, history) = f
  BY DEF PushFront
<1>3. \A k \in 1..n : (IF k = 1 THEN dt ELSE history[k - 1]) \in Int
  BY <1>1
<1> HIDE DEF n
<1>4. f \in Seq(Int) /\ Len(f) = n
  BY <1>1, <1>3
<1> QED BY <1>1, <1>2, <1>4

\* Growing a size by a growth factor does not shrink it.
LEMMA GrowthGrows ==
  ASSUME NEW g \in Nat, g >= 1, NEW d \in Nat
  PROVE  g * d >= d /\ g * d \in Nat
  BY SMT

-----------------------------------------------------------------------------
(* Type correctness *)

\* Each limit on the step size is a number.
LEMMA LimitsType ==
  ASSUME TypeOK, ~ReadsEmptyHistory, NEW stable \in StableDts
  PROVE  AllLimits(stable) \subseteq Int
<1>1. ASSUME NEW i \in Integrators PROVE DtLimits(i, stable) \subseteq Int
  <2>1. DtMax[i] \in Int /\ stable \in Int
    BY DtAssumption, TimesAssumption
  <2>2. GrowthLimited(i) => GrowthFactor * dtPrevious[i][1] \in Int
    BY TimesAssumption DEF ReadsEmptyHistory, TypeOK
  <2> QED BY <2>1, <2>2 DEF DtLimits
<1>2. \A i \in Integrators : endTime - time[i] \in Int
  BY DEF TypeOK
<1> QED BY <1>1, <1>2 DEF AllLimits

LEMMA InitTypeOK == Init => TypeOK
<1>1. /\ Each(0) \in [Integrators -> Int]
      /\ Each(0) \in [Integrators -> Nat]
      /\ Each(-1) \in [Integrators -> Int]
      /\ Each(<<>>) \in [Integrators -> Seq(Int)]
      /\ Each(Null) \in [Integrators -> Int \cup {Null}]
  BY DEF Each
<1>2. inputCycles \in CycleChoices => inputCycles \in [Integrators -> Nat \ {0}]
  BY CyclesAssumption
<1>3. <<>> \in Seq(Call)
  OBVIOUS
<1>4. Init => fromRestart \in BOOLEAN /\ (fromRestart => saved \in RestartFiles)
  BY Zenon DEF Init
<1>5. Init => dtCheckArmed \in BOOLEAN
  BY Zenon DEF Init
<1> QED
  BY <1>1, <1>2, <1>3, <1>4, <1>5, TimesAssumption DEF Init, TypeOK, Phases

\* Every step preserves the types.
LEMMA NextTypeOK == TypeOK /\ [Next]_vars => TypeOK'
<1> SUFFICES ASSUME TypeOK, [Next]_vars PROVE TypeOK'
  OBVIOUS
<1> USE DEF Phases, Ended, Errors
<1>fresh. ASSUME FreshProcess
         PROVE  /\ endTime' \in Nat
                /\ inputCycles' \in [Integrators -> Nat \ {0}]
                /\ numCycles' \in [Integrators -> Int]
                /\ cycleNum' \in [Integrators -> Int]
                /\ calls' \in Seq(Call)
                /\ cur' \in [Integrators -> Int \cup {Null}]
                /\ new' \in [Integrators -> Int \cup {Null}]
                /\ pc' \in Phases \cup Ended
                /\ newTime' \in Int
                /\ saved' \in RestartFiles \cup {Null}
                /\ restarts' \in 0..MaxRestarts
                /\ dtCheckArmed' \in BOOLEAN
  <2>1. /\ Each(-1) \in [Integrators -> Int]
        /\ Each(Null) \in [Integrators -> Int \cup {Null}]
    BY DEF Each
  <2>2. dtCheckArmed' \in BOOLEAN
    BY <1>fresh, Zenon DEF FreshProcess
  <2>3. /\ saved' \in RestartFiles \cup {Null}
        /\ restarts' \in 0..MaxRestarts
    BY <1>fresh DEF FreshProcess, TypeOK
  <2> QED
    BY <1>fresh, <2>1, <2>2, <2>3, TimesAssumption, CyclesAssumption DEF FreshProcess
<1>1. CASE Construct
  <2>1. PICK s \in StartTimes : start' = Each(s)
    BY <1>1 DEF Construct
  <2>2. /\ start' \in [Integrators -> Int]
        /\ Each(ConstructedTime) \in [Integrators -> Int]
        /\ Each(0) \in [Integrators -> Nat]
        /\ Each(<<>>) \in [Integrators -> Seq(Int)]
    BY <2>1, TimesAssumption DEF ConstructedTime, Each
  <2> QED
    <3>1. /\ fromRestart' \in BOOLEAN
          /\ fromRestart' => saved' \in RestartFiles
      BY <1>1, Zenon DEF Construct
    <3> QED
      BY <1>1, <2>2, <3>1, <1>fresh DEF Construct, TypeOK
<1>2. CASE ConstructFromRestart
  <2>1. saved \in RestartFiles
    BY <1>2 DEF ConstructFromRestart, TypeOK
  <2> QED
    <3>1. fromRestart' \in BOOLEAN
      BY <1>2, Zenon DEF ConstructFromRestart
    <3>2. saved' \in RestartFiles
      BY <1>2, <2>1 DEF ConstructFromRestart, FreshProcess
    <3> QED
      BY <1>2, <2>1, <3>1, <3>2, <1>fresh, RootIsIntegrator
      DEF ConstructFromRestart, TypeOK, RestartFiles
<1>3. CASE InitializePatchHierarchy
  <2>1. saved # Null => saved \in RestartFiles
    BY DEF TypeOK
  <2> QED BY <1>3, <2>1 DEF InitializePatchHierarchy, TypeOK, vars, clock, input, cycles, RestartFiles
<1>4. CASE \E stable \in StableDts : AdvanceHierarchy(stable)
  <2>1. PICK stable \in StableDts : AdvanceHierarchy(stable)
    BY <1>4
  <2>2. PICK dt \in AllLimits(stable) :
            /\ newTime' = IF time[1] + dt > endTime THEN endTime ELSE time[1] + dt
            /\ pc' = IF newTime' < time[1] \/ EqualEps(time[1], newTime')
                     THEN "badStepSize" ELSE "preprocess"
    BY <2>1 DEF AdvanceHierarchy
  <2>3. dt \in Int
    BY <2>1, LimitsType DEF AdvanceHierarchy
  <2>4. newTime' \in Int
    BY <2>2, <2>3, RootIsIntegrator DEF TypeOK
  <2> QED
    BY <2>1, <2>2, <2>4
    DEF AdvanceHierarchy, TypeOK, clock, input, cycles, data, RestartFiles
<1>5. CASE UndefinedStepSize
  BY <1>5 DEF UndefinedStepSize, TypeOK, clock, input, cycles, data
<1>6. CASE RejectTimeStep
  BY <1>6 DEF RejectTimeStep, Faults, TypeOK, clock, input, cycles, data
<1>7. CASE PreprocessIntegrateHierarchy
  <2>1. numCycles' \in [Integrators -> Int]
    BY <1>7, CyclesType DEF PreprocessIntegrateHierarchy
  <2>2. [k \in 1..GetNumberOfCycles(1) |-> [who |-> 1, cycle |-> k - 1]] \in Seq(Call)
    <3>1. GetNumberOfCycles(1) \in Nat
      BY RootIsIntegrator, CyclesType
    <3>2. \A k \in 1..GetNumberOfCycles(1) : [who |-> 1, cycle |-> k - 1] \in Call
      BY RootIsIntegrator, <3>1 DEF Call
    <3> QED BY <3>1, <3>2
  <2> QED
    BY <1>7, <2>1, <2>2
    DEF PreprocessIntegrateHierarchy, TypeOK, Each, clock, input, Call
<1>8. CASE IntegrateHierarchy
  <2> DEFINE i == Head(calls).who
             cycle == Head(calls).cycle
  <2>1. Head(calls) \in Call /\ Tail(calls) \in Seq(Call)
    BY <1>8 DEF IntegrateHierarchy, TypeOK
  <2>2. i \in Integrators /\ cycle \in Nat
    BY <2>1 DEF Call
  <2>3. ChildCalls(i, cycle) \in Seq(Call)
    BY <2>2, ChildCallsType
  <2>4. calls' \in Seq(Call)
    BY <1>8, <2>1, <2>3 DEF IntegrateHierarchy
  <2>5. cycleNum' \in [Integrators -> Int] /\ pc' \in {"integrate", "assertion"}
    <3>1. /\ cycleNum' = [cycleNum EXCEPT ![i] = @ + 1]
          /\ pc' = IF cycleNum'[i] = cycle /\ cycleNum'[i] < numCycles[i]
                   THEN "integrate" ELSE "assertion"
      BY <1>8 DEF IntegrateHierarchy
    <3> HIDE DEF i, cycle
    <3> QED BY <2>2, <3>1 DEF TypeOK
  <2> QED
    BY <1>8, <2>4, <2>5 DEF IntegrateHierarchy, TypeOK, clock, input, data, Call
<1>9. CASE PostprocessIntegrateHierarchy
  <2>1. Each(-1) \in [Integrators -> Int]
    BY DEF Each
  <2>2. new' \in [Integrators -> Int \cup {Null}]
    BY <1>9, RootIsIntegrator DEF PostprocessIntegrateHierarchy, TypeOK
  <2> QED
    BY <1>9, <2>1, <2>2 DEF PostprocessIntegrateHierarchy, TypeOK, clock, input
<1>10. CASE ResetTimeDependentHierarchyData
  <2>1. \A i \in Integrators : PushFront(newTime - time[i], dtPrevious[i]) \in Seq(Int)
    BY PushFrontFacts DEF TypeOK
  <2>2. /\ time' \in [Integrators -> Int] /\ step' \in [Integrators -> Nat]
        /\ dtPrevious' \in [Integrators -> Seq(Int)]
    BY <1>10, <2>1 DEF ResetTimeDependentHierarchyData, TypeOK
  <2>3. /\ cur' \in [Integrators -> Int \cup {Null}]
        /\ new' \in [Integrators -> Int \cup {Null}]
    BY <1>10 DEF ResetTimeDependentHierarchyData, TypeOK
  <2> QED
    BY <1>10, <2>2, <2>3
    DEF ResetTimeDependentHierarchyData, TypeOK, input, cycles
<1>11. CASE Finish
  BY <1>11 DEF Finish, TypeOK, clock, input, cycles, data
<1>12. CASE PutToDatabase
  <2>1. RestartFile \in RestartFiles
    BY DEF RestartFile, RestartFiles, TypeOK
  <2>2. fromRestart' => saved' \in RestartFiles
    BY <1>12, <2>1 DEF PutToDatabase
  <2> QED
    BY <1>12, <2>1, <2>2 DEF PutToDatabase, TypeOK, clock, input, cycles, data
<1>13. CASE Stop
  BY <1>13, TimesAssumption DEF Stop, TypeOK, clock, input, cycles, data
<1>14. CASE Terminated
  BY <1>14 DEF Terminated, TypeOK, vars, clock, input, cycles, data
<1>15. CASE UNCHANGED vars
  BY <1>15 DEF TypeOK, vars, clock, input, cycles, data
<1> QED
  BY <1>1, <1>2, <1>3, <1>4, <1>5, <1>6, <1>7, <1>8, <1>9, <1>10, <1>11, <1>12,
     <1>13, <1>14, <1>15
  DEF Next, Run

\* In every reachable state the members of every integrator, the pending calls
\* and the restart file have the shape the code gives them.
THEOREM TypeCorrect == Spec => []TypeOK
  BY InitTypeOK, NextTypeOK, PTL DEF Spec
-----------------------------------------------------------------------------
(* The step sizes *)

\* What holds of the clock of a process and of a restart file: all integrators
\* agree, every step taken was longer than the tolerance and grew gradually,
\* and a run that has taken a step has left its start time.
SteadyClock(t, s, n, history) ==
    /\ \A i \in Integrators :
          t[i] = t[1] /\ s[i] = s[1] /\ n[i] = n[1] /\ history[i] = history[1]
    /\ \A k \in 1..Len(history[1]) : history[1][k] > Tol
    /\ GrowthFactor >= 1 =>
          \A k \in 1..(Len(history[1]) - 1) :
              history[1][k] <= GrowthFactor * history[1][k + 1]
    /\ s[1] = 0 \/ s[1] > Tol
    /\ Len(history[1]) = 0 => t[1] = 0
    /\ GrowthFactor >= 1 /\ Len(history[1]) > 0 => t[1] - s[1] > Tol

\* The step under way is longer than the tolerance and respects the growth
\* limit.
StepUnderWay ==
    pc \in {"preprocess", "integrate", "postprocessed"} =>
        /\ newTime - time[1] > Tol
        /\ GrowthFactor >= 1 =>
              IF Len(dtPrevious[1]) > 0
              THEN newTime - time[1] <= GrowthFactor * dtPrevious[1][1]
              ELSE newTime - start[1] > Tol

IInv ==
    /\ TypeOK
    /\ SteadyClock(time, start, step, dtPrevious)
    /\ saved # Null => SteadyClock(saved.time, saved.start, saved.step, saved.dtPrevious)
    /\ StepUnderWay
    /\ pc # "badStepSize"

\* Every limit the proposed step is taken from is longer than the tolerance.
LEMMA LimitsPositive ==
  ASSUME IInv, StepsRemaining, ~ReadsEmptyHistory, NEW stable \in StableDts
  PROVE  \A d \in AllLimits(stable) : d \in Int /\ d > Tol
<1>1. ASSUME NEW i \in Integrators, GrowthLimited(i)
      PROVE  GrowthFactor * dtPrevious[i][1] > Tol
  <2>1. dtPrevious[i] = dtPrevious[1] /\ dtPrevious[1] \in Seq(Int)
    BY <1>1, RootIsIntegrator DEF IInv, TypeOK, SteadyClock
  <2>2. dtPrevious[1] # <<>>
    BY <1>1, <2>1 DEF ReadsEmptyHistory
  <2>3. dtPrevious[1][1] \in Int /\ dtPrevious[1][1] > Tol
    BY <2>1, <2>2 DEF IInv, SteadyClock
  <2>4. GrowthFactor \in Nat /\ GrowthFactor >= 1 /\ Tol \in Nat
    BY <1>1, TimesAssumption DEF GrowthLimited
  <2> DEFINE last == dtPrevious[1][1]
  <2>5. GrowthFactor * last > Tol
    <3>1. last \in Int /\ last \in Nat /\ last > Tol
      BY <2>3, <2>4
    <3> HIDE DEF last
    <3> QED BY <2>4, <3>1, GrowthGrows
  <2> QED BY <2>1, <2>5
<1>2. ASSUME NEW i \in Integrators, NEW d \in DtLimits(i, stable) PROVE d > Tol
  <2>1. DtMax[i] > Tol /\ stable > Tol
    BY DtAssumption
  <2> QED BY <1>1, <1>2, <2>1 DEF DtLimits
<1>3. ASSUME NEW i \in Integrators PROVE endTime - time[i] > Tol
  <2>1. time[i] = time[1] /\ time[1] \in Int /\ endTime \in Int
    BY RootIsIntegrator DEF IInv, TypeOK, SteadyClock
  <2> QED BY <2>1, TimesAssumption DEF StepsRemaining, EqualEps
<1>4. AllLimits(stable) \subseteq Int
  BY LimitsType DEF IInv
<1> QED BY <1>2, <1>3, <1>4 DEF AllLimits

\* The step advanceHierarchy is called with is accepted and is within the
\* growth limit.
LEMMA ChosenStep ==
  ASSUME IInv, NEW stable \in StableDts, AdvanceHierarchy(stable)
  PROVE  /\ pc' = "preprocess"
         /\ newTime' - time[1] > Tol
         /\ GrowthFactor >= 1 =>
               IF Len(dtPrevious[1]) > 0
               THEN newTime' - time[1] <= GrowthFactor * dtPrevious[1][1]
               ELSE newTime' - start[1] > Tol
<1>1. PICK dt \in AllLimits(stable) :
          /\ \A d \in AllLimits(stable) : dt <= d
          /\ newTime' = IF time[1] + dt > endTime THEN endTime ELSE time[1] + dt
          /\ pc' = IF newTime' < time[1] \/ EqualEps(time[1], newTime')
                   THEN "badStepSize" ELSE "preprocess"
  BY DEF AdvanceHierarchy
<1>2. StepsRemaining /\ ~ReadsEmptyHistory
  BY DEF AdvanceHierarchy
<1>3. dt \in Int /\ dt > Tol
  BY <1>1, <1>2, LimitsPositive
<1>4. dt <= endTime - time[1]
  BY <1>1, RootIsIntegrator DEF AllLimits
<1>5. /\ time[1] \in Int /\ start[1] \in Int /\ endTime \in Int
      /\ dtPrevious[1] \in Seq(Int) /\ Tol \in Nat /\ GrowthFactor \in Nat
  BY RootIsIntegrator, TimesAssumption DEF IInv, TypeOK
<1>6. newTime' = time[1] + dt
  BY <1>1, <1>3, <1>4, <1>5
<1>7. pc' = "preprocess" /\ newTime' - time[1] > Tol
  BY <1>1, <1>3, <1>5, <1>6 DEF EqualEps
<1>8. ASSUME GrowthFactor >= 1, Len(dtPrevious[1]) > 0
      PROVE  newTime' - time[1] <= GrowthFactor * dtPrevious[1][1]
  <2>1. GrowthLimited(1)
    BY <1>5, <1>8 DEF GrowthLimited, InitialTime, EqualEps, IInv, SteadyClock
  <2> DEFINE limit == GrowthFactor * dtPrevious[1][1]
  <2>2. limit \in DtLimits(1, stable)
    BY <2>1 DEF DtLimits
  <2> HIDE DEF limit
  <2>3. limit \in AllLimits(stable)
    BY <2>2, RootIsIntegrator DEF AllLimits
  <2>4. dt <= limit
    BY <1>1, <2>3
  <2>5. newTime' - time[1] <= limit
    BY <1>3, <1>5, <1>6, <2>4
  <2> QED BY <2>5 DEF limit
<1>9. ASSUME GrowthFactor >= 1, ~(Len(dtPrevious[1]) > 0)
      PROVE  newTime' - start[1] > Tol
  <2>1. dtPrevious[1] = <<>>
    BY <1>5, <1>9
  <2>2. InitialTime(1)
    BY <1>2, <1>9, <2>1, RootIsIntegrator DEF ReadsEmptyHistory, GrowthLimited
  <2>3. time[1] = 0 /\ start[1] = 0
    BY <1>5, <1>9, <2>2 DEF InitialTime, EqualEps, IInv, SteadyClock
  <2> QED BY <1>3, <1>6, <2>3
<1> QED BY <1>7, <1>8, <1>9

\* Recording the step under way keeps the history steady.
LEMMA RecordedStep ==
  ASSUME IInv, ResetTimeDependentHierarchyData
  PROVE  SteadyClock(time, start, step, dtPrevious)'
<1> DEFINE dt == newTime - time[1]
           history == dtPrevious[1]
           longer == PushFront(dt, history)
<1>1. /\ time[1] \in Int /\ start[1] \in Int /\ newTime \in Int
      /\ history \in Seq(Int) /\ Tol \in Nat /\ GrowthFactor \in Nat
  BY RootIsIntegrator, TimesAssumption DEF IInv, TypeOK
<1>2. pc = "postprocessed" /\ StepUnderWay /\ SteadyClock(time, start, step, dtPrevious)
  BY DEF IInv, ResetTimeDependentHierarchyData
<1>3. dt \in Int /\ dt > Tol
  BY <1>1, <1>2 DEF StepUnderWay
<1>4. \A i \in Integrators :
          /\ time'[i] = newTime
          /\ step'[i] = step[1] + 1
          /\ start'[i] = start[1]
          /\ dtPrevious'[i] = longer
  BY <1>2 DEF ResetTimeDependentHierarchyData, Reset, SteadyClock
<1> HIDE DEF dt, history
<1>5. /\ longer \in Seq(Int) /\ Len(longer) \in 1..(Len(history) + 1)
      /\ longer[1] = dt
      /\ \A k \in 2..Len(longer) : longer[k] = history[k - 1]
  BY <1>1, <1>3, PushFrontFacts
<1> HIDE DEF longer
<1>6. \A k \in 1..Len(history) : history[k] > Tol
  BY <1>2 DEF SteadyClock, history
<1>7. \A k \in 1..Len(longer) : longer[k] > Tol
  <2> TAKE k \in 1..Len(longer)
  <2>1. CASE k = 1
    BY <1>3, <1>5, <2>1
  <2>2. CASE k # 1
    <3>1. k \in 2..Len(longer) /\ k - 1 \in 1..Len(history)
      BY <1>1, <1>5, <2>2
    <3> QED BY <1>5, <1>6, <3>1
  <2> QED BY <2>1, <2>2
<1>8. ASSUME GrowthFactor >= 1, NEW k \in 1..(Len(longer) - 1)
      PROVE  longer[k] <= GrowthFactor * longer[k + 1]
  <2>1. CASE k = 1
    <3>1. Len(history) > 0 /\ longer[2] = history[1]
      <4>1. 2 \in 2..Len(longer) /\ Len(history) > 0
        BY <1>1, <1>5, <1>8, <2>1
      <4> QED BY <1>5, <4>1
    <3>2. dt <= GrowthFactor * history[1]
      BY <1>2, <1>8, <3>1 DEF StepUnderWay, dt, history
    <3> QED BY <1>5, <2>1, <3>1, <3>2
  <2>2. CASE k # 1
    <3>1. k - 1 \in 1..(Len(history) - 1) /\ k \in 2..Len(longer) /\ k + 1 \in 2..Len(longer)
      BY <1>1, <1>5, <1>8, <2>2, SMTT(30)
    <3>2. history[k - 1] <= GrowthFactor * history[(k - 1) + 1]
      BY <1>2, <1>8, <3>1 DEF SteadyClock, history
    <3>3. (k - 1) + 1 = k /\ (k + 1) - 1 = k
      BY <1>8, <1>5
    <3>4. longer[k] = history[k - 1] /\ longer[k + 1] = history[k]
      BY <1>5, <3>1, <3>3
    <3> QED BY <3>2, <3>3, <3>4
  <2> QED BY <2>1, <2>2
<1>9. GrowthFactor >= 1 => newTime - start[1] > Tol
  BY <1>1, <1>2, <1>3 DEF StepUnderWay, SteadyClock, dt
<1>10. start[1] = 0 \/ start[1] > Tol
  BY <1>2 DEF SteadyClock
<1>11. Len(longer) # 0
  BY <1>1, <1>5
<1> QED
  BY <1>4, <1>7, <1>8, <1>9, <1>10, <1>11, RootIsIntegrator DEF SteadyClock

\* The clock of a process is steady when it starts.
LEMMA FreshClock ==
  ASSUME IInv, Construct \/ ConstructFromRestart
  PROVE  SteadyClock(time, start, step, dtPrevious)'
<1>1. CASE Construct
  <2>1. PICK s \in StartTimes : start' = Each(s)
    BY <1>1 DEF Construct
  <2>2. s \in Nat /\ (s = 0 \/ s > Tol)
    BY TimesAssumption
  <2>3. time' = Each(0) /\ step' = Each(0) /\ dtPrevious' = Each(<<>>)
    BY <1>1 DEF Construct, ConstructedTime
  <2> QED BY <2>1, <2>2, <2>3, RootIsIntegrator DEF SteadyClock, Each
<1>2. CASE ConstructFromRestart
  BY <1>2 DEF ConstructFromRestart, IInv, SteadyClock
<1> QED BY <1>1, <1>2

LEMMA InitIInv == Init => IInv
<1> SUFFICES ASSUME Init PROVE IInv
  OBVIOUS
<1>1. SteadyClock(time, start, step, dtPrevious)
  BY RootIsIntegrator DEF Init, Each, SteadyClock
<1> QED BY <1>1, InitTypeOK DEF Init, IInv, StepUnderWay

\* Every step preserves the invariant.
LEMMA NextIInv == IInv /\ [Next]_vars => IInv'
<1> SUFFICES ASSUME IInv, [Next]_vars PROVE IInv'
  OBVIOUS
<1> DEFINE Steady == SteadyClock(time, start, step, dtPrevious)
           SavedSteady == saved # Null =>
               SteadyClock(saved.time, saved.start, saved.step, saved.dtPrevious)
<1>1. TypeOK'
  BY NextTypeOK DEF IInv
<1>2. CASE Construct \/ ConstructFromRestart
  <2>1. pc' = "constructed" /\ saved' = saved
    BY <1>2 DEF Construct, ConstructFromRestart, FreshProcess
  <2>2. SavedSteady'
    BY <2>1 DEF IInv
  <2> QED BY <1>1, <1>2, <2>1, <2>2, FreshClock DEF IInv, StepUnderWay
<1>3. CASE \E stable \in StableDts : AdvanceHierarchy(stable)
  <2>1. PICK stable \in StableDts : AdvanceHierarchy(stable)
    BY <1>3
  <2>2. UNCHANGED <<clock, saved>>
    BY <2>1 DEF AdvanceHierarchy
  <2>3. StepUnderWay' /\ pc' # "badStepSize"
    BY <2>1, <2>2, ChosenStep DEF StepUnderWay, clock
  <2> QED BY <1>1, <2>2, <2>3 DEF IInv, clock
<1>4. CASE PutToDatabase
  <2>1. UNCHANGED <<pc, clock, newTime>>
    BY <1>4 DEF PutToDatabase
  <2>2. SavedSteady'
    BY <1>4 DEF PutToDatabase, RestartFile, IInv
  <2> QED BY <1>1, <2>1, <2>2 DEF IInv, StepUnderWay, clock
<1>5. CASE ResetTimeDependentHierarchyData
  <2>1. pc' = "ready" /\ saved' = saved
    BY <1>5 DEF ResetTimeDependentHierarchyData
  <2> QED BY <1>1, <1>5, <2>1, RecordedStep DEF IInv, StepUnderWay
<1>6. CASE \/ InitializePatchHierarchy \/ UndefinedStepSize \/ RejectTimeStep
           \/ Finish \/ Stop
  <2>1. UNCHANGED <<clock, saved>>
    BY <1>6
    DEF InitializePatchHierarchy, UndefinedStepSize, RejectTimeStep, Finish, Stop
  <2>2. pc' \notin {"badStepSize", "preprocess", "integrate", "postprocessed"}
    BY <1>6
    DEF InitializePatchHierarchy, UndefinedStepSize, RejectTimeStep, Faults, Finish, Stop
  <2> QED BY <1>1, <2>1, <2>2 DEF IInv, StepUnderWay, clock
<1>7. CASE \/ PreprocessIntegrateHierarchy \/ IntegrateHierarchy
           \/ PostprocessIntegrateHierarchy
  <2>1. UNCHANGED <<clock, saved, newTime>> /\ pc \in {"preprocess", "integrate"}
    BY <1>7
    DEF PreprocessIntegrateHierarchy, IntegrateHierarchy, PostprocessIntegrateHierarchy
  <2>2. pc' # "badStepSize"
    BY <1>7
    DEF PreprocessIntegrateHierarchy, IntegrateHierarchy, PostprocessIntegrateHierarchy
  <2> QED BY <1>1, <2>1, <2>2 DEF IInv, StepUnderWay, clock
<1>8. CASE Terminated \/ UNCHANGED vars
  <2>1. UNCHANGED <<clock, saved, newTime, pc>>
    BY <1>8 DEF Terminated, vars
  <2> QED BY <1>1, <2>1 DEF IInv, StepUnderWay, clock
<1> QED
  BY <1>2, <1>3, <1>4, <1>5, <1>6, <1>7, <1>8 DEF Next, Run

LEMMA Invariance == Spec => []IInv
  BY InitIInv, NextIInv, PTL DEF Spec

-----------------------------------------------------------------------------
(* Theorems *)

\* All integrators of the chain keep the same time, step and history, through
\* every step and restart.
THEOREM InLockStep == Spec => []LockStep
<1>1. IInv => LockStep
  BY DEF IInv, SteadyClock, LockStep
<1> QED BY <1>1, Invariance, PTL

\* advanceHierarchy never aborts on the step size the integrator proposes.
THEOREM StepAccepted == Spec => []ProposedStepAccepted
<1>1. IInv => ProposedStepAccepted
  BY DEF IInv, ProposedStepAccepted
<1> QED BY <1>1, Invariance, PTL

\* No recorded step is longer than the growth factor times the one before it,
\* in any integrator, across restarts.
THEOREM GrowthIsGradual == Spec => []HistoryGrowsGradually
<1>1. IInv => HistoryGrowsGradually
  BY DEF IInv, SteadyClock, HistoryGrowsGradually
<1> QED BY <1>1, Invariance, PTL

-----------------------------------------------------------------------------
(* The data of the integrators *)

\* An immersed boundary integrator drops its new data before the contexts are
\* swapped; its markers, the only data of its own, would be lost.
NoRootData == IBRoot => 1 \notin Stateful

\* The current data of every integrator has the integrator time, in a restart
\* file too, and the new data has the new time until they are swapped.
DataInv ==
    /\ pc \notin {"down", "constructed"} => \A i \in Stateful : cur[i] = time[i]
    /\ pc \in {"integrate", "postprocessed"} => \A i \in Stateful : new[i] = newTime
    /\ saved # Null => \A i \in Stateful : saved.cur[i] = saved.time[i]
    /\ pc = "constructed" /\ fromRestart =>
          time = saved.time /\ \A i \in Stateful : saved.cur[i] = saved.time[i]

LEMMA NextDataInv ==
  ASSUME NoRootData, TypeOK, DataInv, [Next]_vars
  PROVE  DataInv'
<1> USE IntegratorSetsAssumption
<1>1. CASE Construct
  BY <1>1 DEF Construct, FreshProcess, DataInv
<1>2. CASE ConstructFromRestart
  BY <1>2 DEF ConstructFromRestart, FreshProcess, DataInv
<1>3. CASE InitializePatchHierarchy
  <2>1. \A i \in Stateful : cur'[i] = IF fromRestart THEN saved.cur[i] ELSE time[i]
    BY <1>3 DEF InitializePatchHierarchy
  <2>2. UNCHANGED <<time, saved, fromRestart>> /\ pc = "constructed" /\ pc' = "ready"
    BY <1>3 DEF InitializePatchHierarchy, clock, input
  <2> QED BY <2>1, <2>2 DEF DataInv
<1>4. CASE \/ \E stable \in StableDts : AdvanceHierarchy(stable)
           \/ UndefinedStepSize \/ RejectTimeStep \/ Finish \/ Stop
  <2>2. UNCHANGED <<time, cur, saved, fromRestart>>
    BY <1>4
    DEF AdvanceHierarchy, UndefinedStepSize, RejectTimeStep, Finish, Stop, clock, input, data
  <2>3. /\ pc' \notin {"constructed", "integrate", "postprocessed"}
        /\ pc \in {"down", "constructed"} => pc' = "down"
    BY <1>4
    DEF AdvanceHierarchy, UndefinedStepSize, RejectTimeStep, Faults, Finish, Stop
  <2> QED BY <2>2, <2>3 DEF DataInv
<1>5. CASE PreprocessIntegrateHierarchy
  BY <1>5 DEF PreprocessIntegrateHierarchy, DataInv, clock, input
<1>6. CASE IntegrateHierarchy
  <2>1. UNCHANGED <<clock, input, data, saved, newTime>> /\ pc = "integrate"
        /\ pc' \in {"integrate", "assertion"}
    BY <1>6 DEF IntegrateHierarchy
  <2> QED BY <2>1 DEF DataInv, clock, input, data
<1>7. CASE PostprocessIntegrateHierarchy
  <2>1. /\ UNCHANGED <<clock, input, cur, saved, newTime>> /\ pc = "integrate"
        /\ pc' \in {"postprocessed", "assertion"}
        /\ new' = IF IBRoot THEN [new EXCEPT ![1] = Null] ELSE new
    BY <1>7 DEF PostprocessIntegrateHierarchy
  <2>2. \A i \in Stateful : new'[i] = new[i]
    BY <2>1 DEF NoRootData, TypeOK
  <2> QED BY <2>1, <2>2 DEF DataInv, clock, input
<1>8. CASE ResetTimeDependentHierarchyData
  <2>1. /\ pc = "postprocessed" /\ pc' = "ready" /\ UNCHANGED <<input, saved>>
        /\ \A i \in Stateful : cur'[i] = new[i] /\ time'[i] = newTime
    BY <1>8 DEF ResetTimeDependentHierarchyData, Reset
  <2> QED BY <2>1 DEF DataInv, input
<1>9. CASE PutToDatabase
  <2>1. /\ pc = "ready" /\ pc' = "ready" /\ saved' = RestartFile
        /\ UNCHANGED <<time, cur, fromRestart>>
    BY <1>9 DEF PutToDatabase, clock, input, data
  <2>2. RestartFile.cur = cur /\ RestartFile.time = time
    BY DEF RestartFile
  <2> QED BY <2>1, <2>2 DEF DataInv
<1>10. CASE Terminated \/ UNCHANGED vars
  BY <1>10 DEF Terminated, vars, clock, input, data, DataInv
<1> QED BY <1>1, <1>2, <1>3, <1>4, <1>5, <1>6, <1>7, <1>8, <1>9, <1>10 DEF Next, Run

\* Between two steps the current data of every integrator is that of the
\* integrator time (CurrentDataAtIntegratorTime), unless the immersed boundary
\* integrator has data of its own.
THEOREM CurrentDataKept ==
  ASSUME NoRootData
  PROVE  Spec => []CurrentDataAtIntegratorTime
<1>1. Init => DataInv
  BY DEF Init, DataInv
<1>2. TypeOK /\ DataInv /\ [Next]_vars => DataInv'
  BY NextDataInv
<1>3. DataInv => CurrentDataAtIntegratorTime
  BY DEF DataInv, CurrentDataAtIntegratorTime
<1> QED BY <1>1, <1>2, <1>3, TypeCorrect, PTL DEF Spec

-----------------------------------------------------------------------------
(* Refused changes of the step size *)

\* The size of the step under way is that of the step before, or the step ends
\* at the end time.
SameSize ==
    /\ dtPrevious[1] # <<>>
    /\ EqualEps(newTime - time[1], dtPrevious[1][1]) \/ EqualEps(newTime, endTime)

\* The exemption of the first step is over once a step of this execution began,
\* and then no step begins whose size changes.
SteadyInv ==
    /\ step[1] # began => dtCheckArmed
    /\ pc = "constructed" => step[1] = began
    /\ pc \in {"integrate", "postprocessed"} =>
          /\ dtCheckArmed
          /\ IBRoot /\ ErrorOnDtChange /\ step[1] # began => SameSize
    /\ SteadyStepSizes

LEMMA NextSteadyInv ==
  ASSUME TypeOK, SteadyInv, [Next]_vars
  PROVE  SteadyInv'
<1>1. step[1] \in Nat /\ began \in Nat
  BY RootIsIntegrator DEF TypeOK
<1>2. CASE Construct \/ ConstructFromRestart
  <2>1. pc' = "constructed" /\ step'[1] = began'
    BY <1>2, RootIsIntegrator DEF Construct, ConstructFromRestart, FreshProcess, Each
  <2> QED BY <2>1 DEF SteadyInv, SteadyStepSizes
<1>3. CASE InitializePatchHierarchy
  <2>1. /\ UNCHANGED <<clock, input, newTime, dtCheckArmed>>
        /\ pc = "constructed" /\ pc' = "ready"
    BY <1>3 DEF InitializePatchHierarchy
  <2>2. step'[1] = began'
    BY <2>1 DEF SteadyInv, clock, input
  <2>3. ~(step'[1] - began' >= 2)
    BY <1>1, <2>1, <2>2 DEF clock, input
  <2> QED BY <2>1, <2>2, <2>3 DEF SteadyInv, SteadyStepSizes, clock, input
<1>4. CASE \/ \E stable \in StableDts : AdvanceHierarchy(stable)
           \/ UndefinedStepSize \/ RejectTimeStep \/ Finish \/ Stop
  <2>1. /\ UNCHANGED <<clock, input, dtCheckArmed>>
        /\ pc' \notin {"constructed", "integrate", "postprocessed", "ready"}
    BY <1>4
    DEF AdvanceHierarchy, UndefinedStepSize, RejectTimeStep, Faults, Finish, Stop
  <2> QED BY <2>1 DEF SteadyInv, SteadyStepSizes, clock, input
<1>5. CASE PreprocessIntegrateHierarchy
  <2>1. /\ UNCHANGED <<clock, input, newTime>> /\ Faults = {}
        /\ pc' = "integrate" /\ dtCheckArmed'
    BY <1>5 DEF PreprocessIntegrateHierarchy
  <2>2. ASSUME IBRoot, ErrorOnDtChange, step[1] # began PROVE SameSize
    <3>1. ChecksDtChange
      BY <2>2 DEF ChecksDtChange, SteadyInv
    <3>2. dtPrevious[1] # <<>> /\ ~DtChanged
      BY <2>1, <3>1 DEF Faults
    <3> QED BY <3>2 DEF DtChanged, SameSize
  <2> QED BY <2>1, <2>2 DEF SteadyInv, SteadyStepSizes, SameSize, clock, input
<1>6. CASE IntegrateHierarchy \/ PostprocessIntegrateHierarchy
  <2>1. /\ UNCHANGED <<clock, input, newTime, dtCheckArmed>> /\ pc = "integrate"
        /\ pc' \in {"integrate", "postprocessed", "assertion"}
    BY <1>6 DEF IntegrateHierarchy, PostprocessIntegrateHierarchy
  <2> QED BY <2>1 DEF SteadyInv, SteadyStepSizes, SameSize, clock, input
<1>7. CASE ResetTimeDependentHierarchyData
  <2>1. /\ UNCHANGED <<input, dtCheckArmed>> /\ pc = "postprocessed" /\ pc' = "ready"
        /\ time'[1] = newTime /\ step'[1] = step[1] + 1
        /\ dtPrevious'[1] = PushFront(newTime - time[1], dtPrevious[1])
    BY <1>7, RootIsIntegrator DEF ResetTimeDependentHierarchyData, Reset
  <2>2. /\ newTime - time[1] \in Int /\ dtPrevious[1] \in Seq(Int)
    BY RootIsIntegrator DEF TypeOK
  <2> DEFINE longer == PushFront(newTime - time[1], dtPrevious[1])
  <2>3. /\ Len(longer) \in 1..(Len(dtPrevious[1]) + 1) /\ longer[1] = newTime - time[1]
        /\ \A k \in 2..Len(longer) : longer[k] = dtPrevious[1][k - 1]
    BY <2>2, PushFrontFacts
  <2> HIDE DEF longer
  <2>4. SteadyStepSizes'
    <3> SUFFICES ASSUME IBRoot, ErrorOnDtChange, step'[1] - began' >= 2,
                        Len(dtPrevious'[1]) >= 2, ~EqualEps(time'[1], endTime')
                 PROVE  EqualEps(dtPrevious'[1][1], dtPrevious'[1][2])
      BY DEF SteadyStepSizes
    <3>1. step[1] # began
      BY <1>1, <2>1 DEF input
    <3>2. EqualEps(newTime - time[1], dtPrevious[1][1])
      BY <2>1, <3>1 DEF SteadyInv, SameSize, input
    <3>3. longer[2] = dtPrevious[1][1]
      <4>1. Len(longer) >= 2 /\ Len(longer) \in Nat
        BY <2>1, <2>2, <2>3 DEF longer
      <4> QED BY <2>3, <4>1
    <3> QED BY <2>1, <2>3, <3>2, <3>3 DEF longer
  <2>5. dtCheckArmed'
    BY <2>1 DEF SteadyInv
  <2> QED BY <2>1, <2>4, <2>5 DEF SteadyInv
<1>8. CASE PutToDatabase
  <2>1. /\ UNCHANGED <<clock, input, newTime, dtCheckArmed, pc>> /\ pc = "ready"
    BY <1>8 DEF PutToDatabase
  <2> QED BY <2>1 DEF SteadyInv, SteadyStepSizes, SameSize, clock, input
<1>9. CASE Terminated \/ UNCHANGED vars
  <2>1. UNCHANGED <<clock, input, newTime, dtCheckArmed, pc>>
    BY <1>9 DEF Terminated, vars
  <2> QED BY <2>1 DEF SteadyInv, SteadyStepSizes, SameSize, clock, input
<1> QED BY <1>2, <1>3, <1>4, <1>5, <1>6, <1>7, <1>8, <1>9 DEF Next, Run

\* With error_on_dt_change, two consecutive steps of one execution have the
\* same size unless the second was clipped at the end time (SteadyStepSizes).
THEOREM StepSizesSteady == Spec => []SteadyStepSizes
<1>1. Init => SteadyInv
  BY RootIsIntegrator DEF Init, SteadyInv, SteadyStepSizes, Each
<1>2. SteadyInv => SteadyStepSizes
  BY DEF SteadyInv
<1> QED BY <1>1, <1>2, NextSteadyInv, TypeCorrect, PTL DEF Spec

-----------------------------------------------------------------------------
(* Nested cycles *)

\* The head of the pending calls is cycle c of integrator i.  The integrators
\* above m have one cycle and have done it; m is the one that iterates (or i
\* itself), and each of its cycles runs through its descendants down to i.  The
\* rest of the pending calls are the remaining cycles of m.  Descendants below
\* i have as many cycles as m as soon as the first cycle has reached them.
Iterates(m, i, c) ==
    /\ \A j \in 1..(m - 1) : numCycles[j] = 1
    /\ \A j \in m..N : j <= i \/ c > 0 => numCycles[j] = numCycles[m]
    /\ c < numCycles[m]
    /\ Len(calls) = numCycles[m] - c
    /\ calls[1] = [who |-> i, cycle |-> c]
    /\ \A k \in 2..Len(calls) : calls[k] = [who |-> m, cycle |-> c + k - 1]
    /\ \A j \in Integrators :
          cycleNum[j] = IF j < m THEN 0 ELSE IF j < i THEN c ELSE c - 1

NestedInv ==
    /\ pc # "assertion"
    /\ pc = "integrate" =>
         /\ \A i \in Integrators : numCycles[i] = GetNumberOfCycles(i)
         /\ \A i \in 1..(N - 1) : numCycles[i] \in {1, numCycles[i + 1]}
         /\ IF calls = <<>>
            THEN \A i \in Integrators : cycleNum[i] = numCycles[i] - 1
            ELSE \E i \in Integrators : \E m \in 1..i : \E c \in Nat : Iterates(m, i, c)

\* Without a rejection every integrator has one cycle or as many as its child.
LEMMA CyclesAccepted ==
  ASSUME Faults = {}, NEW i \in 1..(N - 1)
  PROVE  GetNumberOfCycles(i) \in {1, GetNumberOfCycles(i + 1)}
<1>1. ~CyclesRejected
  BY DEF Faults
<1> QED BY <1>1 DEF CyclesRejected

\* An integrator with one cycle calls all cycles of its child, which is then
\* the one that iterates.
LEMMA IterateChild ==
  ASSUME TypeOK, NEW i \in 1..(N - 1), NEW m \in 1..i, NEW c \in Nat,
         NestedInv, pc = "integrate", Iterates(m, i, c), numCycles[i] = 1,
         cycleNum' = [cycleNum EXCEPT ![i] = @ + 1], numCycles' = numCycles,
         calls' = ChildCalls(i, c) \o Tail(calls)
  PROVE  Iterates(i + 1, i + 1, 0)'
<1>1. N \in Nat /\ i \in Integrators /\ i + 1 \in Integrators
  BY ChainAssumption DEF Integrators
<1>2. numCycles[m] = 1 /\ c = 0
  <2>1. i \in m..N /\ i <= i
    BY <1>1
  <2>2. numCycles[i] = numCycles[m] /\ c < numCycles[m]
    BY <2>1 DEF Iterates
  <2> QED BY <2>2
<1> DEFINE n == numCycles[i + 1]
<1>3. n = GetNumberOfCycles(i + 1) /\ n \in Nat \ {0}
  BY <1>1, CyclesType DEF NestedInv
<1>4. ChildCalls(i, c) = [k \in 1..n |-> [who |-> i + 1, cycle |-> k - 1]]
  BY <1>1, <1>3 DEF ChildCalls
<1> HIDE DEF n
<1>5. ChildCalls(i, c) \in Seq(Call) /\ Len(ChildCalls(i, c)) = n
  <2>1. ChildCalls(i, c) \in Seq(Call)
    BY <1>1, ChildCallsType
  <2>2. DOMAIN ChildCalls(i, c) = 1..n
    BY <1>4
  <2> QED BY <1>3, <2>1, <2>2, LenProperties
<1>6. calls \in Seq(Call) /\ Len(calls) = 1 /\ calls # <<>>
  <2>1. calls \in Seq(Call) /\ Len(calls) = numCycles[m] - c
    BY DEF Iterates, TypeOK
  <2>2. Len(calls) = 1
    BY <1>2, <2>1
  <2>3. Len(<<>>) = 0
    BY EmptySeq, Zenon
  <2>4. ASSUME calls = <<>> PROVE FALSE
    <3>1. Len(calls) = 0
      BY <2>3, <2>4, Zenon
    <3> QED BY <2>2, <3>1
  <2> QED BY <2>1, <2>2, <2>4
<1>7. Tail(calls) = <<>>
  <2>1. Tail(calls) \in Seq(Call) /\ Len(Tail(calls)) = 0
    BY <1>6, HeadTailProperties
  <2> QED BY <2>1, EmptySeq
<1>8. calls' = ChildCalls(i, c)
  BY <1>5, <1>7, ConcatEmptySeq
<1>9. \A j \in Integrators : cycleNum'[j] = IF j = i THEN cycleNum[i] + 1 ELSE cycleNum[j]
  BY DEF TypeOK
<1>10. \A j \in 1..i : numCycles[j] = 1
  <2> TAKE j \in 1..i
  <2>1. CASE j < m
    BY <2>1 DEF Iterates
  <2>2. CASE j >= m
    BY <1>1, <1>2, <2>2 DEF Iterates
  <2> QED BY <2>1, <2>2
<1>11. \A j \in Integrators : cycleNum'[j] = IF j < i + 1 THEN 0 ELSE -1
  <2> TAKE j \in Integrators
  <2>1. cycleNum[j] = IF j < m THEN 0 ELSE IF j < i THEN 0 ELSE -1
    BY <1>2 DEF Iterates
  <2>2. cycleNum[i] = -1
    BY <1>1, <1>2 DEF Iterates
  <2> QED BY <1>9, <2>1, <2>2 DEF Integrators
<1>12. \A j \in (i + 1)..N : j <= i + 1 => numCycles[j] = n
  BY DEF n
<1>13. \A k \in 1..n : calls'[k] = [who |-> i + 1, cycle |-> k - 1]
  BY <1>4, <1>8
<1> QED BY <1>1, <1>3, <1>5, <1>8, <1>10, <1>11, <1>12, <1>13 DEF Iterates, n

\* An integrator with several cycles calls the same cycle of its child.
LEMMA SameCycleOfChild ==
  ASSUME TypeOK, NEW i \in 1..(N - 1), NEW m \in 1..i, NEW c \in Nat,
         NestedInv, pc = "integrate", Iterates(m, i, c), numCycles[i] # 1,
         cycleNum' = [cycleNum EXCEPT ![i] = @ + 1], numCycles' = numCycles,
         calls' = ChildCalls(i, c) \o Tail(calls)
  PROVE  Iterates(m, i + 1, c)'
<1>1. N \in Nat /\ i \in Integrators /\ i + 1 \in Integrators /\ m \in Integrators
  BY ChainAssumption DEF Integrators
<1>2. numCycles[i] = numCycles[m] /\ numCycles[i + 1] = numCycles[i] /\ numCycles[i] > 1
  <2>1. numCycles[i] \in Nat \ {0}
    BY <1>1, CyclesType DEF NestedInv
  <2> QED BY <1>1, <2>1 DEF Iterates, NestedInv
<1> DEFINE head == <<[who |-> i + 1, cycle |-> c]>>
<1>3. ChildCalls(i, c) = head
  BY <1>1, <1>2 DEF ChildCalls
<1>4. head \in Seq(Call) /\ Len(head) = 1 /\ head[1] = [who |-> i + 1, cycle |-> c]
  BY <1>1 DEF Call
<1>5. calls \in Seq(Call) /\ calls # <<>> /\ Len(calls) \in Nat
  <2>1. Len(calls) = numCycles[m] - c /\ c < numCycles[m] /\ calls \in Seq(Call)
        /\ numCycles[m] \in Int
    BY <1>1 DEF Iterates, TypeOK
  <2> QED BY <2>1
<1>6. /\ Tail(calls) \in Seq(Call) /\ Len(Tail(calls)) = Len(calls) - 1
      /\ \A k \in 1..Len(Tail(calls)) : Tail(calls)[k] = calls[k + 1]
  BY <1>5, HeadTailProperties
<1> HIDE DEF head
<1>7. /\ Len(calls') = Len(calls)
      /\ \A k \in 1..Len(calls) : calls'[k] = IF k <= 1 THEN head[k] ELSE Tail(calls)[k - 1]
  <2> DEFINE tail == Tail(calls)
  <2> HIDE DEF tail
  <2>1. /\ Len(head \o tail) = Len(head) + Len(tail)
        /\ \A k \in 1..Len(head) + Len(tail) :
             (head \o tail)[k] = IF k <= Len(head) THEN head[k] ELSE tail[k - Len(head)]
    <3>1. tail \in Seq(Call)
      BY <1>6 DEF tail
    <3> QED BY <1>4, <3>1, ConcatProperties
  <2>2. calls' = head \o tail
    BY <1>3 DEF tail
  <2>3. /\ Len(head) = 1 /\ Len(tail) = Len(calls) - 1 /\ Len(calls) \in Nat
    BY <1>4, <1>5, <1>6 DEF tail
  <2>4. Len(calls') = Len(calls)
    BY <2>1, <2>2, <2>3
  <2>5. ASSUME NEW k \in 1..Len(calls)
        PROVE  calls'[k] = IF k <= 1 THEN head[k] ELSE tail[k - 1]
    <3>1. k \in 1..Len(head) + Len(tail)
      BY <2>3
    <3>2. (head \o tail)[k] = IF k <= Len(head) THEN head[k] ELSE tail[k - Len(head)]
      BY <2>1, <3>1
    <3> QED BY <2>2, <2>3, <3>2
  <2> QED BY <2>4, <2>5 DEF tail
<1>8. calls'[1] = [who |-> i + 1, cycle |-> c]
  <2>1. 1 \in 1..Len(calls)
    BY <1>5
  <2> QED BY <1>4, <1>7, <2>1
<1>9. \A k \in 2..Len(calls) : calls'[k] = calls[k]
  <2> TAKE k \in 2..Len(calls)
  <2>1. k - 1 \in 1..Len(Tail(calls)) /\ (k - 1) + 1 = k /\ k \in 1..Len(calls) /\ ~(k <= 1)
    BY <1>5, <1>6
  <2>2. calls'[k] = Tail(calls)[k - 1]
    BY <1>7, <2>1
  <2>3. Tail(calls)[k - 1] = calls[(k - 1) + 1]
    BY <1>6, <2>1
  <2> QED BY <2>1, <2>2, <2>3
<1>10. \A j \in Integrators : cycleNum'[j] = IF j = i THEN cycleNum[i] + 1 ELSE cycleNum[j]
  BY DEF TypeOK
<1>11. \A j \in Integrators :
          cycleNum'[j] = IF j < m THEN 0 ELSE IF j < i + 1 THEN c ELSE c - 1
  <2> TAKE j \in Integrators
  <2>1. cycleNum[i] = c - 1
    BY <1>1 DEF Iterates
  <2>2. cycleNum[j] = IF j < m THEN 0 ELSE IF j < i THEN c ELSE c - 1
    BY DEF Iterates
  <2> QED BY <1>10, <2>1, <2>2 DEF Integrators
<1>12. \A j \in m..N : j <= i + 1 \/ c > 0 => numCycles[j] = numCycles[m]
  <2> TAKE j \in m..N
  <2>1. CASE j = i + 1
    BY <1>2, <2>1
  <2>2. CASE j # i + 1
    <3>1. j <= i \/ c > 0 => numCycles[j] = numCycles[m]
      BY DEF Iterates
    <3> QED BY <1>1, <2>2, <3>1
  <2> QED BY <2>1, <2>2
<1> QED BY <1>7, <1>8, <1>9, <1>11, <1>12 DEF Iterates

\* The last integrator makes no calls: the cycle of the iterating one is done.
LEMMA CycleDone ==
  ASSUME TypeOK, NEW m \in 1..N, NEW c \in Nat,
         NestedInv, pc = "integrate", Iterates(m, N, c),
         cycleNum' = [cycleNum EXCEPT ![N] = @ + 1], numCycles' = numCycles,
         calls' = ChildCalls(N, c) \o Tail(calls)
  PROVE  IF calls' = <<>>
         THEN \A j \in Integrators : cycleNum'[j] = numCycles'[j] - 1
         ELSE Iterates(m, m, c + 1)'
<1>1. N \in Nat /\ N \in Integrators /\ m \in Integrators /\ numCycles[m] \in Int
  BY ChainAssumption DEF Integrators, TypeOK
<1>2. /\ \A j \in m..N : numCycles[j] = numCycles[m]
      /\ \A j \in 1..(m - 1) : numCycles[j] = 1
  BY <1>1 DEF Iterates
<1>3. calls \in Seq(Call) /\ calls # <<>> /\ Len(calls) \in Nat /\ Len(calls) > 0
  <2>1. Len(calls) = numCycles[m] - c /\ c < numCycles[m] /\ calls \in Seq(Call)
    BY DEF Iterates, TypeOK
  <2> QED BY <1>1, <2>1
<1>4. /\ Tail(calls) \in Seq(Call) /\ Len(Tail(calls)) = Len(calls) - 1
      /\ \A k \in 1..Len(Tail(calls)) : Tail(calls)[k] = calls[k + 1]
  BY <1>3, HeadTailProperties
<1>5. calls' = Tail(calls)
  <2>1. ChildCalls(N, c) = <<>>
    BY DEF ChildCalls
  <2> QED BY <1>4, <2>1, ConcatEmptySeq
<1>6. \A j \in Integrators : cycleNum'[j] = IF j < m THEN 0 ELSE c
  <2> TAKE j \in Integrators
  <2>1. cycleNum[N] = c - 1
    BY <1>1 DEF Iterates
  <2>2. cycleNum[j] = IF j < m THEN 0 ELSE IF j < N THEN c ELSE c - 1
    BY DEF Iterates
  <2>3. cycleNum'[j] = IF j = N THEN cycleNum[N] + 1 ELSE cycleNum[j]
    BY DEF TypeOK
  <2> QED BY <1>1, <2>1, <2>2, <2>3 DEF Integrators
<1>7. CASE calls' = <<>>
  <2>1. numCycles[m] - c = 1
    <3>1. Len(calls) = numCycles[m] - c
      BY DEF Iterates
    <3>2. Len(Tail(calls)) = 0
      BY <1>4, <1>5, <1>7, EmptySeq
    <3> QED BY <1>3, <1>4, <3>1, <3>2
  <2>2. \A j \in Integrators : cycleNum'[j] = numCycles'[j] - 1
    BY <1>1, <1>2, <1>6, <2>1 DEF Integrators
  <2> QED BY <1>7, <2>2
<1>8. CASE calls' # <<>>
  <2>1. Len(calls) = numCycles[m] - c /\ Len(calls') = Len(calls) - 1 /\ Len(calls) > 1
    <3>1. Len(Tail(calls)) # 0
      BY <1>4, <1>5, <1>8, EmptySeq
    <3>2. Len(calls) = numCycles[m] - c
      BY DEF Iterates
    <3> DEFINE pending == Len(calls)  rest == Len(Tail(calls))
    <3>3. pending \in Nat /\ pending > 0 /\ rest = pending - 1 /\ rest # 0
      BY <1>3, <1>4, <3>1
    <3> HIDE DEF pending, rest
    <3>4. pending > 1
      BY <3>3
    <3>5. Len(calls') = Len(calls) - 1
      BY <1>4, <1>5
    <3> QED BY <3>2, <3>4, <3>5 DEF pending
  <2>2. \A k \in 1..Len(calls') : calls'[k] = [who |-> m, cycle |-> c + k]
    <3> TAKE k \in 1..Len(calls')
    <3>1. k + 1 \in 2..Len(calls) /\ c + (k + 1) - 1 = c + k
      BY <1>3, <2>1
    <3>2. calls'[k] = calls[k + 1]
      BY <1>4, <1>5
    <3>3. calls[k + 1] = [who |-> m, cycle |-> c + (k + 1) - 1]
      BY <3>1 DEF Iterates
    <3> QED BY <3>1, <3>2, <3>3
  <2>3. calls'[1] = [who |-> m, cycle |-> c + 1]
    <3>1. 1 \in 1..Len(calls')
      BY <1>3, <2>1
    <3> QED BY <2>2, <3>1
  <2>4. \A k \in 2..Len(calls') : calls'[k] = [who |-> m, cycle |-> (c + 1) + k - 1]
    <3> TAKE k \in 2..Len(calls')
    <3>1. k \in 1..Len(calls') /\ (c + 1) + k - 1 = c + k
      BY <1>3, <2>1
    <3> QED BY <2>2, <3>1
  <2>5. c + 1 < numCycles[m] /\ Len(calls') = numCycles[m] - (c + 1)
    BY <1>1, <2>1
  <2>6. \A j \in Integrators :
           cycleNum'[j] = IF j < m THEN 0 ELSE IF j < m THEN c + 1 ELSE (c + 1) - 1
    BY <1>6
  <2>7. Iterates(m, m, c + 1)'
    BY <1>2, <2>3, <2>4, <2>5, <2>6 DEF Iterates
  <2> QED BY <1>8, <2>7
<1> QED BY <1>7, <1>8

\* One cycle of an integrator keeps the order of the nested iterations.
LEMMA IntegrateNested ==
  ASSUME TypeOK, NestedInv, IntegrateHierarchy
  PROVE  NestedInv'
<1>1. /\ pc = "integrate" /\ calls # <<>> /\ UNCHANGED <<clock, input, numCycles>>
  BY DEF IntegrateHierarchy
<1>2. PICK i \in Integrators : \E m \in 1..i : \E c \in Nat : Iterates(m, i, c)
  BY <1>1 DEF NestedInv
<1>3. PICK m \in 1..i : \E c \in Nat : Iterates(m, i, c)
  BY <1>2
<1>4. PICK c \in Nat : Iterates(m, i, c)
  BY <1>3
<1>5. N \in Nat /\ i \in 1..N /\ m \in 1..N /\ N \in Integrators
  BY <1>2, <1>3, ChainAssumption DEF Integrators
<1>6. Head(calls).who = i /\ Head(calls).cycle = c
  <2>1. Head(calls) = calls[1]
    BY <1>1 DEF TypeOK
  <2> QED BY <1>4, <2>1 DEF Iterates
<1>7. /\ cycleNum' = [cycleNum EXCEPT ![i] = @ + 1]
      /\ calls' = ChildCalls(i, c) \o Tail(calls)
      /\ pc' = IF cycleNum'[i] = c /\ cycleNum'[i] < numCycles[i] THEN "integrate" ELSE "assertion"
  BY <1>6 DEF IntegrateHierarchy
<1>8. pc' = "integrate"
  <2>1. cycleNum[i] = c - 1
    BY <1>4, <1>5 DEF Iterates
  <2>2. cycleNum'[i] = c
    BY <1>2, <1>7, <2>1 DEF TypeOK
  <2>3. i \in m..N /\ i <= i
    BY <1>3, <1>5
  <2>4. c < numCycles[m] /\ numCycles[i] = numCycles[m]
    BY <1>4, <2>3 DEF Iterates
  <2> QED BY <1>7, <2>2, <2>4
<1>9. \A j \in Integrators : (GetNumberOfCycles(j) = numCycles[j])'
  BY <1>1 DEF NestedInv, GetNumberOfCycles, InitialTime, clock, input
<1>10. /\ numCycles' = numCycles
       /\ \A j \in 1..(N - 1) : numCycles'[j] \in {1, numCycles'[j + 1]}
  BY <1>1 DEF NestedInv
<1>11. IF calls' = <<>>
       THEN \A j \in Integrators : cycleNum'[j] = numCycles'[j] - 1
       ELSE \E j \in Integrators : \E l \in 1..j : \E d \in Nat : Iterates(l, j, d)'
  <2>1. CASE i = N
    <3>1. IF calls' = <<>>
          THEN \A j \in Integrators : cycleNum'[j] = numCycles'[j] - 1
          ELSE Iterates(m, m, c + 1)'
      BY <1>1, <1>4, <1>5, <1>7, <1>10, <2>1, CycleDone
    <3>2. m \in Integrators /\ m \in 1..m /\ c + 1 \in Nat
      BY <1>5 DEF Integrators
    <3> QED BY <3>1, <3>2
  <2>2. CASE i # N
    <3>1. i \in 1..(N - 1) /\ i + 1 \in Integrators /\ i + 1 \in 1..(i + 1) /\ m \in 1..(i + 1)
      BY <1>3, <1>5, <2>2 DEF Integrators
    <3>2. \E l \in 1..(i + 1) : \E d \in Nat : Iterates(l, i + 1, d)'
      <4>1. CASE numCycles[i] = 1
        BY <1>1, <1>3, <1>4, <1>7, <1>10, <3>1, <4>1, IterateChild
      <4>2. CASE numCycles[i] # 1
        BY <1>1, <1>3, <1>4, <1>7, <1>10, <3>1, <4>2, SameCycleOfChild
      <4> QED BY <4>1, <4>2
    <3>3. calls' # <<>>
      <4>1. PICK l \in 1..(i + 1) : \E d \in Nat : Iterates(l, i + 1, d)'
        BY <3>2
      <4>2. PICK d \in Nat : Iterates(l, i + 1, d)'
        BY <4>1
      <4>3. numCycles'[l] \in Int
        <5>1. l \in Integrators
          BY <1>5, <3>1 DEF Integrators
        <5>2. numCycles[l] \in Int
          BY <5>1 DEF TypeOK
        <5> QED BY <1>10, <5>2
      <4>4. Len(calls') = numCycles'[l] - d /\ d < numCycles'[l]
        BY <4>2 DEF Iterates
      <4>5. Len(calls') # 0
        BY <4>3, <4>4
      <4>6. Len(<<>>) = 0
        BY EmptySeq, Zenon
      <4> QED BY <4>5, <4>6, Zenon
    <3> QED BY <3>1, <3>2, <3>3
  <2> QED BY <2>1, <2>2
<1> QED BY <1>8, <1>9, <1>10, <1>11 DEF NestedInv

LEMMA PreprocessNested ==
  ASSUME TypeOK, PreprocessIntegrateHierarchy
  PROVE  NestedInv'
<1>1. /\ pc' = "integrate" /\ UNCHANGED <<clock, input>> /\ Faults = {}
      /\ numCycles' = [i \in Integrators |-> GetNumberOfCycles(i)]
      /\ cycleNum' = Each(-1)
      /\ calls' = [k \in 1..GetNumberOfCycles(1) |-> [who |-> 1, cycle |-> k - 1]]
  BY DEF PreprocessIntegrateHierarchy
<1>2. \A i \in Integrators : (numCycles[i] = GetNumberOfCycles(i))'
  BY <1>1 DEF GetNumberOfCycles, InitialTime, clock, input
<1>3. \A i \in 1..(N - 1) : numCycles'[i] \in {1, numCycles'[i + 1]}
  <2> TAKE i \in 1..(N - 1)
  <2>1. i \in Integrators /\ i + 1 \in Integrators
    BY ChainAssumption DEF Integrators
  <2> QED BY <1>1, <2>1, CyclesAccepted
<1> DEFINE n == GetNumberOfCycles(1)
<1>4. n \in Nat \ {0} /\ numCycles'[1] = n
  BY <1>1, CyclesType, RootIsIntegrator
<1>5. DOMAIN calls' = 1..n /\ \A k \in 1..n : calls'[k] = [who |-> 1, cycle |-> k - 1]
  BY <1>1
<1> HIDE DEF n
<1>6. calls' \in Seq(Call) /\ Len(calls') = n
  <2>1. calls' \in Seq(Call)
    BY NextTypeOK DEF Next, Run, TypeOK
  <2> QED BY <1>4, <1>5, <2>1, LenProperties
<1>7. Iterates(1, 1, 0)'
  <2>1. \A j \in Integrators : cycleNum'[j] = -1
    BY <1>1 DEF Each
  <2>2. \A j \in Integrators : ~(j < 1)
    BY ChainAssumption DEF Integrators
  <2>3. \A j \in 1..N : j <= 1 => j = 1
    BY ChainAssumption
  <2>4. /\ calls'[1] = [who |-> 1, cycle |-> 0]
        /\ \A k \in 2..n : calls'[k] = [who |-> 1, cycle |-> 0 + k - 1]
    BY <1>4, <1>5
  <2> QED BY <1>4, <1>6, <2>1, <2>2, <2>3, <2>4 DEF Iterates
<1>8. calls' # <<>>
  <2>1. Len(<<>>) = 0
    BY EmptySeq, Zenon
  <2>2. Len(calls') # 0
    BY <1>4, <1>6
  <2> QED BY <2>1, <2>2, Zenon
<1>9. 1 \in Integrators /\ 1 \in 1..1 /\ 0 \in Nat
  BY RootIsIntegrator
<1> QED BY <1>1, <1>2, <1>3, <1>7, <1>8, <1>9 DEF NestedInv

LEMMA NextNested ==
  ASSUME TypeOK, NestedInv, [Next]_vars
  PROVE  NestedInv'
<1>1. CASE IntegrateHierarchy
  BY <1>1, IntegrateNested
<1>2. CASE PreprocessIntegrateHierarchy
  BY <1>2, PreprocessNested
<1>3. CASE PostprocessIntegrateHierarchy
  <2>1. \A i \in Integrators : numCycles[i] = GetNumberOfCycles(i) /\ cycleNum[i] + 1 = numCycles[i]
    BY <1>3 DEF PostprocessIntegrateHierarchy, NestedInv, TypeOK
  <2>2. pc' = "postprocessed"
    BY <1>3, <2>1 DEF PostprocessIntegrateHierarchy
  <2> QED BY <2>2 DEF NestedInv
<1>4. CASE \/ \E stable \in StableDts : AdvanceHierarchy(stable)
           \/ Construct \/ ConstructFromRestart \/ InitializePatchHierarchy \/ UndefinedStepSize
           \/ RejectTimeStep \/ ResetTimeDependentHierarchyData \/ Finish \/ Stop
  <2>1. pc' \notin {"assertion", "integrate"}
    BY <1>4
    DEF AdvanceHierarchy, Construct, ConstructFromRestart, FreshProcess, InitializePatchHierarchy,
        UndefinedStepSize, RejectTimeStep, Faults, ResetTimeDependentHierarchyData, Finish, Stop
  <2> QED BY <2>1 DEF NestedInv
<1>5. CASE PutToDatabase \/ Terminated \/ UNCHANGED vars
  <2>1. UNCHANGED <<pc, clock, input, cycles>>
    BY <1>5 DEF PutToDatabase, Terminated, vars
  <2>2. UNCHANGED <<pc, numCycles, cycleNum, calls, time, start, inputCycles>>
    BY <2>1 DEF clock, input, cycles
  <2> QED BY <2>2 DEF NestedInv, Iterates, GetNumberOfCycles, InitialTime
<1> QED BY <1>1, <1>2, <1>3, <1>4, <1>5 DEF Next, Run

\* No assertion on the cycle counters fires, for any chain and any numbers of
\* cycles that the integrators accept (NestedCyclesComplete).
THEOREM CyclesComplete == Spec => []NestedCyclesComplete
<1>1. Init => NestedInv
  BY DEF Init, NestedInv
<1>2. NestedInv => NestedCyclesComplete
  BY DEF NestedInv, NestedCyclesComplete
<1> QED BY <1>1, <1>2, NextNested, TypeCorrect, PTL DEF Spec

-----------------------------------------------------------------------------
(* The history and the time *)

\* The sums of the first entries of a history exist.
LEMMA SumsExist ==
  ASSUME NEW h \in Seq(Int)
  PROVE  \E s : s = [k \in 0 .. Len(h) |-> IF k = 0 THEN 0 ELSE s[k - 1] + h[k]]
<1> DEFINE Sums(s, n) == s = [k \in 0 .. n |-> IF k = 0 THEN 0 ELSE s[k - 1] + h[k]]
           S == {n \in Nat : \E s : Sums(s, n)}
<1>1. 0 \in S
  <2>1. Sums([k \in 0 .. 0 |-> 0], 0)
    OBVIOUS
  <2> QED BY <2>1
<1>2. ASSUME NEW n \in S PROVE n + 1 \in S
  <2>1. PICK s : Sums(s, n)
    OBVIOUS
  <2> DEFINE t == [k \in 0 .. n + 1 |-> IF k = n + 1 THEN s[n] + h[n + 1] ELSE s[k]]
  <2>2. ASSUME NEW k \in 0 .. n + 1
        PROVE  t[k] = IF k = 0 THEN 0 ELSE t[k - 1] + h[k]
    <3>1. CASE k = n + 1
      <4>1. t[k] = s[n] + h[n + 1] /\ k # 0
        BY <3>1
      <4>2. k - 1 = n /\ t[n] = s[n]
        BY <3>1
      <4> QED BY <4>1, <4>2, <3>1
    <3>2. CASE k # n + 1
      <4>1. k \in 0 .. n /\ t[k] = s[k]
        BY <3>2
      <4>2. s[k] = IF k = 0 THEN 0 ELSE s[k - 1] + h[k]
        BY <2>1, <4>1
      <4>3. k # 0 => t[k - 1] = s[k - 1]
        BY <4>1
      <4> QED BY <4>1, <4>2, <4>3
    <3> QED BY <3>1, <3>2
  <2>3. t = [k \in 0 .. n + 1 |-> t[k]]
    OBVIOUS
  <2> HIDE DEF t
  <2>4. Sums(t, n + 1)
    BY <2>2, <2>3
  <2> HIDE DEF Sums
  <2> QED BY <2>4
<1>3. S = Nat
  <2> HIDE DEF S
  <2>1. S \in SUBSET Nat
    BY DEF S
  <2> QED BY <1>1, <1>2, <2>1, SetInduction
<1>4. Len(h) \in S
  BY <1>3, LenProperties
<1> QED BY <1>4

\* What SumOf computes: the last of the sums of the first entries.
LEMMA SumOfHistory ==
  ASSUME NEW h \in Seq(Int)
  PROVE  \E s \in [0 .. Len(h) -> Int] :
             /\ SumOf(h) = s[Len(h)]
             /\ s[0] = 0
             /\ \A k \in 1 .. Len(h) : s[k] = s[k - 1] + h[k]
<1> DEFINE s == CHOOSE f : f = [k \in 0 .. Len(h) |-> IF k = 0 THEN 0 ELSE f[k - 1] + h[k]]
<1>1. s = [k \in 0 .. Len(h) |-> IF k = 0 THEN 0 ELSE s[k - 1] + h[k]]
  BY SumsExist
<1>2. SumOf(h) = s[Len(h)]
  BY DEF SumOf
<1> HIDE DEF s
<1>3. Len(h) \in Nat /\ \A k \in 1 .. Len(h) : h[k] \in Int
  BY LenProperties, ElementOfSeq
<1>4. s[0] = 0 /\ \A k \in 1 .. Len(h) : s[k] = s[k - 1] + h[k]
  <2>1. ASSUME NEW k \in 0 .. Len(h)
        PROVE  s[k] = IF k = 0 THEN 0 ELSE s[k - 1] + h[k]
    BY <1>1, Zenon
  <2>2. s[0] = 0
    <3>1. 0 \in 0 .. Len(h)
      BY <1>3
    <3> QED BY <2>1, <3>1
  <2>3. ASSUME NEW k \in 1 .. Len(h) PROVE s[k] = s[k - 1] + h[k]
    <3>1. k \in 0 .. Len(h) /\ k # 0
      BY <1>3
    <3> QED BY <2>1, <3>1
  <2> QED BY <2>2, <2>3
<1> DEFINE S == {k \in Nat : k <= Len(h) => s[k] \in Int}
<1>5. S = Nat
  <2>1. 0 \in S
    BY <1>4
  <2>2. ASSUME NEW k \in S PROVE k + 1 \in S
    <3> SUFFICES ASSUME k + 1 <= Len(h) PROVE s[k + 1] \in Int
      OBVIOUS
    <3>1. k \in Nat /\ k + 1 \in 1 .. Len(h) /\ (k + 1) - 1 = k
      BY <1>3
    <3>2. s[k] \in Int
      BY <1>3, <3>1
    <3>3. s[k + 1] = s[k] + h[k + 1]
      BY <1>4, <3>1
    <3>4. h[k + 1] \in Int
      BY <1>3, <3>1
    <3> QED BY <3>2, <3>3, <3>4
  <2>3. S \in SUBSET Nat
    OBVIOUS
  <2> HIDE DEF S
  <2> QED BY <2>1, <2>2, <2>3, SetInduction
<1>6. \A k \in 0 .. Len(h) : s[k] \in Int
  BY <1>3, <1>5
<1>7. s \in [0 .. Len(h) -> Int]
  BY <1>1, <1>6
<1> QED BY <1>2, <1>4, <1>7

\* Without an entry the sum is zero.
LEMMA SumOfNothing == SumOf(<<>>) = 0
<1>1. <<>> \in Seq(Int) /\ Len(<<>>) = 0
  OBVIOUS
<1> QED BY <1>1, SumOfHistory

\* A step recorded in a history that is not full adds to the sum.
LEMMA SumGrows ==
  ASSUME NEW h \in Seq(Int), NEW dt \in Int, Len(h) < MaxHistory
  PROVE  SumOf(PushFront(dt, h)) = SumOf(h) + dt
<1> DEFINE g == PushFront(dt, h)
<1>1. /\ Len(h) \in Nat
      /\ \A k \in 1 .. Len(h) : h[k] \in Int
  BY LenProperties, ElementOfSeq
<1>2. g = [k \in 1 .. Len(h) + 1 |-> IF k = 1 THEN dt ELSE h[k - 1]]
  BY DEF PushFront
<1>3. g \in Seq(Int) /\ Len(g) = Len(h) + 1
  BY <1>1, <1>2, SeqDef
<1>4. g[1] = dt /\ \A k \in 1 .. Len(h) : g[k + 1] = h[k]
  BY <1>1, <1>2
<1> HIDE DEF g
<1>5. PICK s \in [0 .. Len(h) -> Int] :
          /\ SumOf(h) = s[Len(h)]
          /\ s[0] = 0
          /\ \A k \in 1 .. Len(h) : s[k] = s[k - 1] + h[k]
  BY SumOfHistory
<1>6. PICK t \in [0 .. Len(g) -> Int] :
          /\ SumOf(g) = t[Len(g)]
          /\ t[0] = 0
          /\ \A k \in 1 .. Len(g) : t[k] = t[k - 1] + g[k]
  BY <1>3, SumOfHistory
<1> DEFINE S == {k \in Nat : k <= Len(h) => t[k + 1] = s[k] + dt}
<1>7. 0 \in S
  BY <1>1, <1>3, <1>4, <1>5, <1>6
<1>8. ASSUME NEW k \in S PROVE k + 1 \in S
  <2> SUFFICES ASSUME k + 1 <= Len(h) PROVE t[k + 2] = s[k + 1] + dt
    OBVIOUS
  <2>0. /\ k \in Nat /\ k \in 0 .. Len(h)
        /\ k + 1 \in 1 .. Len(h) /\ (k + 1) - 1 = k
        /\ k + 2 \in 1 .. Len(g) /\ (k + 2) - 1 = k + 1 /\ (k + 1) + 1 = k + 2
    BY <1>1, <1>3
  <2>1. t[k + 1] = s[k] + dt
    BY <1>1, <2>0
  <2>2. t[k + 2] = t[k + 1] + g[k + 2]
    BY <1>6, <2>0
  <2>3. g[k + 2] = h[k + 1]
    BY <1>4, <2>0
  <2>4. s[k + 1] = s[k] + h[k + 1]
    BY <1>5, <2>0
  <2>5. s[k] \in Int /\ h[k + 1] \in Int
    BY <1>1, <1>5, <2>0
  <2> QED BY <2>1, <2>2, <2>3, <2>4, <2>5
<1>9. S = Nat
  <2> HIDE DEF S
  <2>1. S \in SUBSET Nat
    BY DEF S
  <2> QED BY <1>7, <1>8, <2>1, SetInduction
<1>10. t[Len(h) + 1] = s[Len(h)] + dt
  <2>1. Len(h) \in S
    BY <1>1, <1>9
  <2> QED BY <1>1, <2>1
<1> QED BY <1>3, <1>5, <1>6, <1>10 DEF g

\* The input file leaves start_time at its default.  The clock of a new run is
\* set before start_time is read (ConstructedTime), so with another start_time
\* the steps taken do not add up to the time since the start.
DefaultStart == StartTimes \subseteq {0}

\* A history h after n steps accounts for time t of a run that began at s.
Accounted(t, s, n, h) ==
    /\ s = 0
    /\ Len(h) = (IF n < MaxHistory THEN n ELSE MaxHistory)
    /\ n <= MaxHistory => t = SumOf(h)

\* So do those of all integrators of a process, or of a restart file.
Accounts(t, s, n, history) ==
    \A i \in Integrators : Accounted(t[i], s[i], n[i], history[i])

HistoryInv ==
    /\ Accounts(time, start, step, dtPrevious)
    /\ saved # Null => Accounts(saved.time, saved.start, saved.step, saved.dtPrevious)

\* A step from time t to time u that is recorded is accounted for.
LEMMA AccountedStep ==
  ASSUME NEW t \in Int, NEW u \in Int, NEW s, NEW n \in Nat, NEW h \in Seq(Int),
         Accounted(t, s, n, h)
  PROVE  Accounted(u, s, n + 1, PushFront(u - t, h))
<1>1. /\ s = 0
      /\ Len(h) = (IF n < MaxHistory THEN n ELSE MaxHistory)
      /\ n <= MaxHistory => t = SumOf(h)
  BY DEF Accounted
<1>2. MaxHistory \in Nat \ {0}
  BY TimesAssumption
<1>3. PushFront(u - t, h) =
          [k \in 1 .. (IF Len(h) < MaxHistory THEN Len(h) + 1 ELSE MaxHistory) |->
              IF k = 1 THEN u - t ELSE h[k - 1]]
  BY DEF PushFront
<1>4. Len(PushFront(u - t, h)) = IF Len(h) < MaxHistory THEN Len(h) + 1 ELSE MaxHistory
  BY <1>2, <1>3, LenProperties
<1>5. Len(PushFront(u - t, h)) = IF n + 1 < MaxHistory THEN n + 1 ELSE MaxHistory
  BY <1>1, <1>2, <1>4
<1>6. ASSUME n + 1 <= MaxHistory PROVE u = SumOf(PushFront(u - t, h))
  <2>1. Len(h) < MaxHistory /\ t = SumOf(h)
    BY <1>1, <1>2, <1>6
  <2>2. SumOf(PushFront(u - t, h)) = SumOf(h) + (u - t)
    BY <2>1, SumGrows
  <2> QED BY <2>1, <2>2
<1> QED BY <1>1, <1>5, <1>6, Zenon DEF Accounted

LEMMA NextHistoryInv ==
  ASSUME DefaultStart, TypeOK, HistoryInv, [Next]_vars
  PROVE  HistoryInv'
<1>1. CASE Construct
  <2>1. PICK s \in StartTimes : start' = Each(s)
    BY <1>1 DEF Construct
  <2>2. /\ time' = Each(0) /\ start' = Each(0) /\ step' = Each(0)
        /\ dtPrevious' = Each(<<>>) /\ saved' = saved
    BY <1>1, <2>1 DEF Construct, ConstructedTime, FreshProcess, DefaultStart
  <2>3. Len(<<>>) = 0 /\ 0 < MaxHistory
    BY TimesAssumption
  <2>4. Accounts(time', start', step', dtPrevious')
    BY <2>2, <2>3, SumOfNothing DEF Accounts, Accounted, Each
  <2> QED BY <2>2, <2>4 DEF HistoryInv
<1>2. CASE ConstructFromRestart
  BY <1>2 DEF ConstructFromRestart, FreshProcess, HistoryInv
<1>3. CASE ResetTimeDependentHierarchyData
  <2>1. saved' = saved
    BY <1>3 DEF ResetTimeDependentHierarchyData
  <2>2. ASSUME NEW i \in Integrators
        PROVE  Accounted(time'[i], start'[i], step'[i], dtPrevious'[i])
    <3>1. start' = start
      BY <1>3 DEF ResetTimeDependentHierarchyData, clock
    <3>2. time' = [j \in Integrators |-> newTime]
      BY <1>3 DEF ResetTimeDependentHierarchyData, Reset
    <3>3. step' = [j \in Integrators |-> step[j] + 1]
      BY <1>3 DEF ResetTimeDependentHierarchyData, Reset
    <3>4. dtPrevious' = [j \in Integrators |-> PushFront(newTime - time[j], dtPrevious[j])]
      BY <1>3, Zenon DEF ResetTimeDependentHierarchyData, Reset
    <3>5. /\ time[i] \in Int /\ newTime \in Int /\ step[i] \in Nat
          /\ dtPrevious[i] \in Seq(Int)
      BY DEF TypeOK
    <3>6. Accounted(newTime, start[i], step[i] + 1, PushFront(newTime - time[i], dtPrevious[i]))
      <4>1. Accounted(time[i], start[i], step[i], dtPrevious[i])
        BY DEF HistoryInv, Accounts
      <4> QED BY <3>5, <4>1, AccountedStep
    <3> QED BY <3>1, <3>2, <3>3, <3>4, <3>6, Zenon
  <2> QED BY <2>1, <2>2 DEF HistoryInv, Accounts
<1>4. CASE PutToDatabase
  <2>1. saved' = RestartFile /\ UNCHANGED clock
    BY <1>4 DEF PutToDatabase
  <2>2. /\ RestartFile.time = time /\ RestartFile.start = start
        /\ RestartFile.step = step /\ RestartFile.dtPrevious = dtPrevious
    BY DEF RestartFile
  <2> QED BY <2>1, <2>2 DEF HistoryInv, clock
<1>5. CASE \/ InitializePatchHierarchy \/ UndefinedStepSize \/ RejectTimeStep
           \/ PreprocessIntegrateHierarchy \/ IntegrateHierarchy
           \/ PostprocessIntegrateHierarchy \/ Finish \/ Stop
           \/ \E stable \in StableDts : AdvanceHierarchy(stable)
           \/ Terminated \/ UNCHANGED vars
  <2>1. UNCHANGED clock /\ UNCHANGED saved
    BY <1>5
    DEF InitializePatchHierarchy, UndefinedStepSize, RejectTimeStep,
        PreprocessIntegrateHierarchy, IntegrateHierarchy, PostprocessIntegrateHierarchy,
        Finish, Stop, AdvanceHierarchy, Terminated, vars
  <2> QED BY <2>1 DEF HistoryInv, clock
<1> QED BY <1>1, <1>2, <1>3, <1>4, <1>5 DEF Next, Run

\* As long as the history is complete, it has one entry per step and the
\* entries add up to the time since the start (HistoryAccountsForTime).
THEOREM HistoryComplete ==
  ASSUME DefaultStart
  PROVE  Spec => []HistoryAccountsForTime
<1>1. Init => HistoryInv
  <2>1. Len(<<>>) = 0 /\ 0 < MaxHistory
    BY TimesAssumption
  <2> QED BY <2>1, SumOfNothing DEF Init, HistoryInv, Accounts, Accounted, Each
<1>2. TypeOK /\ HistoryInv /\ [Next]_vars => HistoryInv'
  BY NextHistoryInv
<1>3. TypeOK /\ HistoryInv => HistoryAccountsForTime
  <2> SUFFICES ASSUME TypeOK, HistoryInv, NEW i \in Integrators
               PROVE  /\ Len(dtPrevious[i]) = (IF step[i] < MaxHistory THEN step[i] ELSE MaxHistory)
                      /\ step[i] <= MaxHistory => time[i] = start[i] + SumOf(dtPrevious[i])
    BY DEF HistoryAccountsForTime
  <2>1. /\ start[i] = 0 /\ time[i] \in Int
        /\ Len(dtPrevious[i]) = (IF step[i] < MaxHistory THEN step[i] ELSE MaxHistory)
        /\ step[i] <= MaxHistory => time[i] = SumOf(dtPrevious[i])
    BY DEF HistoryInv, Accounts, Accounted, TypeOK
  <2> QED BY <2>1
<1> QED BY <1>1, <1>2, <1>3, TypeCorrect, PTL DEF Spec
=============================================================================
