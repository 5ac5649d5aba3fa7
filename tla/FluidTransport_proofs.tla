----------------------- MODULE FluidTransport_proofs -----------------------
(***************************************************************************)
(* Proofs about FluidTransport: the two solvers do exactly their cycles,   *)
(* no operator is out of date when it is applied, the quantity is          *)
(* transported with the velocity of the fluid at the beginning of a step,  *)
(* and both solvers implement ConvectiveScheme.                            *)
(***************************************************************************)
EXTENDS FluidTransport, TLAPS

-----------------------------------------------------------------------------
(* Cycles *)

\* Every solver does at least one cycle per step.
LEMMA CyclesType ==
  ASSUME scheme \in [Solvers -> Schemes], NEW i \in Solvers
  PROVE  CyclesOf(i) \in Nat \ {0}
<1>1. scheme[i] \in Schemes
  OBVIOUS
<1>2. scheme[i].cycles \in Nat \ {0}
  BY <1>1 DEF Schemes
<1> QED BY <1>2 DEF CyclesOf, NumberOfCycles

\* Where the program is in a step tells how many cycles each solver has done.
Turns ==
    LET f == cycle["fluid"]
        q == cycle["transport"]
    IN  /\ pc = "idle" => f = -1 /\ q = -1
        /\ pc \in {"velocity", "transport"} =>
              f = q /\ 0 <= f /\ f < CyclesOf("fluid") /\ q < CyclesOf("transport")
        /\ pc = "fluid" =>
              q = f + 1 /\ 0 <= f /\ f < CyclesOf("fluid") /\ q <= CyclesOf("transport")
        /\ pc \in {"rest_velocity", "rest"} =>
              f = CyclesOf("fluid") /\ 0 < q /\ q < CyclesOf("transport")
        /\ pc = "post" => f = CyclesOf("fluid") /\ q = CyclesOf("transport")

\* The inductive invariant of the cycles: the configuration is one that the
\* preprocessing functions accept in every step.
CInv ==
    /\ TypeOK
    /\ \A firstStep \in BOOLEAN : Supported(scheme, firstStep)
    /\ pc # "idle" => step < MaxSteps
    /\ Turns

\* The fluid solver does one cycle, or as many as the other solver.
LEMMA CyclesFit ==
  ASSUME CInv
  PROVE  CyclesOf("fluid") \in {1, CyclesOf("transport")}
<1>1. Supported(scheme, First)
  BY DEF CInv, First
<1> QED BY <1>1 DEF Supported, CyclesOf

LEMMA InitCInv == Init => CInv
<1> SUFFICES ASSUME Init PROVE CInv
  OBVIOUS
<1>1. scheme \in [Solvers -> Schemes]
  BY SchemesAssumption DEF Init, Solvers
<1>2. \A i \in Solvers : CyclesOf(i) \in Nat \ {0}
  BY <1>1, CyclesType
<1>3. TypeOK
  BY <1>1, <1>2, StepsAssumption DEF Init, TypeOK, Places, Times, Solvers, configuration
<1>4. Turns
  BY DEF Init, Turns, Solvers
<1> QED BY <1>3, <1>4 DEF CInv, Init

LEMMA NextCInv == CInv /\ [Next]_vars => CInv'
<1> SUFFICES ASSUME CInv, [Next]_vars PROVE CInv'
  OBVIOUS
<1> USE DEF Solvers, Places
<1>0. /\ CyclesOf("fluid") \in Nat \ {0} /\ CyclesOf("transport") \in Nat \ {0}
      /\ CyclesOf("fluid") \in {1, CyclesOf("transport")}
  BY CyclesType, CyclesFit DEF CInv, TypeOK
<1>a. scheme' = scheme /\ prescribed' = prescribed
  BY DEF Next, vars, configuration, RegridHierarchy, Restart, PreprocessIntegrateHierarchy,
         UpdateAdvectionVelocity, SolveTransport, SolveFluid, SolveTransportAgain,
         ResetTimeDependentHierarchyData
<1>b. \A firstStep \in BOOLEAN : Supported(scheme, firstStep)'
  BY <1>a DEF CInv, Supported
<1>c. step' = step => \A i \in Solvers : CyclesOf(i)' = CyclesOf(i)
  BY <1>a DEF CyclesOf, First
<1>1. CASE RegridHierarchy
  BY <1>0, <1>a, <1>b, <1>c, <1>1
  DEF CInv, TypeOK, Turns, RegridHierarchy, configuration, clock
<1>2. CASE Restart
  BY <1>0, <1>a, <1>b, <1>c, <1>2
  DEF CInv, TypeOK, Turns, Restart, configuration, clock
<1>3. ASSUME NEW d \in DtValues, PreprocessIntegrateHierarchy(d) PROVE CInv'
  <2>1. TypeOK'
    BY <1>0, <1>a, <1>c, <1>3
    DEF CInv, TypeOK, PreprocessIntegrateHierarchy, FirstVelocity, configuration
  <2>2. Turns'
    BY <1>0, <1>c, <1>3 DEF CInv, Turns, PreprocessIntegrateHierarchy
  <2> QED BY <1>b, <1>3, <2>1, <2>2 DEF CInv, PreprocessIntegrateHierarchy
<1>4. CASE UpdateAdvectionVelocity
  BY <1>0, <1>a, <1>b, <1>c, <1>4
  DEF CInv, TypeOK, Turns, UpdateAdvectionVelocity, configuration, clock
<1>5. CASE SolveTransport
  <2>1. cycle' = [cycle EXCEPT !["transport"] = @ + 1]
    BY <1>5 DEF SolveTransport, Solve
  <2> QED BY <1>0, <1>a, <1>b, <1>c, <1>5, <2>1
          DEF CInv, TypeOK, Turns, SolveTransport, configuration, clock
<1>6. CASE SolveFluid
  <2>1. cycle' = [cycle EXCEPT !["fluid"] = @ + 1]
    BY <1>6 DEF SolveFluid, Solve
  <2>2. DOMAIN u' = Times
    BY <1>6 DEF SolveFluid, CInv, TypeOK
  <2>3. TypeOK'
    BY <1>0, <1>a, <1>c, <1>6, <2>1, <2>2
    DEF CInv, TypeOK, Turns, SolveFluid, configuration, clock
  <2>4. Turns'
    BY <1>0, <1>c, <1>6, <2>1 DEF CInv, TypeOK, Turns, SolveFluid, clock
  <2> QED BY <1>b, <1>6, <2>3, <2>4 DEF CInv, SolveFluid, clock
<1>7. CASE SolveTransportAgain
  <2>1. cycle' = [cycle EXCEPT !["transport"] = @ + 1]
    BY <1>7 DEF SolveTransportAgain, Solve
  <2> QED BY <1>0, <1>a, <1>b, <1>c, <1>7, <2>1
          DEF CInv, TypeOK, Turns, SolveTransportAgain, configuration, clock
<1>8. CASE ResetTimeDependentHierarchyData
  <2>1. step' = step + 1 /\ step < MaxSteps /\ cycle' = [i \in Solvers |-> -1]
    BY <1>8 DEF ResetTimeDependentHierarchyData, CInv
  <2>2. \A i \in Solvers : CyclesOf(i)' \in Nat \ {0}
    <3>1. \A i \in Solvers : scheme'[i].cycles \in Nat \ {0}
      BY <1>a DEF CInv, TypeOK, Schemes
    <3> QED BY <3>1 DEF CyclesOf, NumberOfCycles
  <2>3. TypeOK'
    BY <1>a, <1>8, <2>1, <2>2, StepsAssumption
    DEF CInv, TypeOK, ResetTimeDependentHierarchyData, configuration
  <2>4. Turns'
    BY <1>8, <2>1 DEF Turns, ResetTimeDependentHierarchyData
  <2> QED BY <1>b, <1>8, <2>3, <2>4 DEF CInv, ResetTimeDependentHierarchyData
<1>9. CASE UNCHANGED vars
  BY <1>a, <1>b, <1>c, <1>9 DEF CInv, TypeOK, Turns, vars, configuration, clock
<1> QED BY <1>1, <1>2, <1>3, <1>4, <1>5, <1>6, <1>7, <1>8, <1>9 DEF Next

LEMMA CyclesInvariance == Spec => []CInv
  BY InitCInv, NextCInv, PTL DEF Spec

\* The variables of FluidTransport keep their types; no solver does more
\* cycles in a step than getNumberOfCycles says.
THEOREM TypeCorrect == Spec => []TypeOK
<1>1. CInv => TypeOK
  BY DEF CInv
<1> QED BY <1>1, CyclesInvariance, PTL

\* When postprocessIntegrateHierarchy is called each solver has done exactly
\* its cycles, also those that the fluid solver runs on behalf of its caller.
THEOREM CyclesComplete ==
  Spec => [](pc = "post" => \A i \in Solvers : cycle[i] = CyclesOf(i))
<1>1. CInv => (pc = "post" => \A i \in Solvers : cycle[i] = CyclesOf(i))
  BY DEF CInv, Turns, Solvers
<1> QED BY <1>1, CyclesInvariance, PTL

-----------------------------------------------------------------------------
(* Operators *)

\* Between steps an operator whose flag is not set fits the grid and, if it
\* has a step size, that of the previous step; within a step all of them fit
\* this one.  Before the first step every flag counts as set.
OperatorsCurrent ==
    /\ DOMAIN built = Operators
    /\ needsInit \subseteq Operators
    /\ pc = "idle" =>
          \A o \in Operators \ needsInit :
              built[o].grid /\ (step > 0 /\ o \in DtDependent => built[o].dt = dtPrevious)
    /\ pc # "idle" =>
          \A o \in Operators : built[o].grid /\ (o \in DtDependent => built[o].dt = dt)

LEMMA InitOperators == Init => OperatorsCurrent
  BY DEF Init, OperatorsCurrent

LEMMA NextOperators == TypeOK /\ OperatorsCurrent /\ [Next]_vars => OperatorsCurrent'
<1> SUFFICES ASSUME TypeOK, OperatorsCurrent, [Next]_vars PROVE OperatorsCurrent'
  OBVIOUS
<1>1. CASE RegridHierarchy \/ Restart
  BY <1>1 DEF OperatorsCurrent, RegridHierarchy, Restart
<1>2. ASSUME NEW d \in DtValues, PreprocessIntegrateHierarchy(d) PROVE OperatorsCurrent'
  <2> DEFINE rebuilt == needsInit \cup (IF DtChanged(d) THEN DtDependent ELSE {})
  <2>1. /\ pc = "idle" /\ pc' # "idle" /\ dt' = d /\ needsInit' = {}
        /\ built' = [o \in Operators |->
                        IF o \in rebuilt THEN [grid |-> TRUE, dt |-> d] ELSE built[o]]
    BY <1>2 DEF PreprocessIntegrateHierarchy
  <2>2. ASSUME NEW o \in Operators, o \notin rebuilt
        PROVE  built[o].grid /\ (o \in DtDependent => built[o].dt = d)
    <3>1. o \notin needsInit /\ built[o].grid
      BY <2>1, <2>2 DEF OperatorsCurrent
    <3>2. CASE o \in DtDependent
      <4>1. d = dtPrevious /\ step # 0
        BY <2>2, <3>2 DEF DtChanged, First
      <4> QED BY <2>1, <3>1, <3>2, <4>1 DEF OperatorsCurrent, TypeOK
    <3> QED BY <3>1, <3>2
  <2>3. \A o \in Operators : built'[o].grid /\ (o \in DtDependent => built'[o].dt = d)
    BY <2>1, <2>2
  <2> QED BY <2>1, <2>3 DEF OperatorsCurrent
<1>3. CASE \/ UpdateAdvectionVelocity \/ SolveTransport \/ SolveFluid \/ SolveTransportAgain
  BY <1>3 DEF OperatorsCurrent, UpdateAdvectionVelocity, SolveTransport, SolveFluid,
              SolveTransportAgain, clock
<1>4. CASE ResetTimeDependentHierarchyData
  BY <1>4 DEF OperatorsCurrent, ResetTimeDependentHierarchyData
<1>5. CASE UNCHANGED vars
  BY <1>5 DEF OperatorsCurrent, vars, clock
<1> QED BY <1>1, <1>2, <1>3, <1>4, <1>5 DEF Next

\* No system is solved by an operator of another grid or step size, for any
\* sequence of step sizes, regrids and restarts.
THEOREM OperatorsFit == Spec => []OperatorsMatchStep
<1>1. Spec => []OperatorsCurrent
  BY InitOperators, NextOperators, TypeCorrect, PTL DEF Spec
<1>2. OperatorsCurrent => OperatorsMatchStep
  BY DEF OperatorsCurrent, OperatorsMatchStep
<1> QED BY <1>1, <1>2, PTL

-----------------------------------------------------------------------------
(* The velocity of the fluid *)

\* Within a step the old velocity is that of the fluid, unless a function
\* prescribes it, and the mean follows every change of the new one.
Advected ==
    /\ DOMAIN u = Times
    /\ pc # "idle" =>
          /\ ~prescribed => u["old"] = {current["fluid"]}
          /\ u["half"] = u["old"] \cup u["new"]

LEMMA NextAdvected == TypeOK /\ Advected /\ [Next]_vars => Advected'
<1> SUFFICES ASSUME TypeOK, Advected, [Next]_vars PROVE Advected'
  OBVIOUS
<1> USE DEF Times
<1>1. CASE RegridHierarchy \/ Restart
  BY <1>1 DEF Advected, RegridHierarchy, Restart
<1>2. ASSUME NEW d \in DtValues, PreprocessIntegrateHierarchy(d) PROVE Advected'
  <2>1. /\ u' = FirstVelocity
        /\ current' = current /\ prescribed' = prescribed
    BY <1>2 DEF PreprocessIntegrateHierarchy, configuration
  <2>2. /\ DOMAIN FirstVelocity = Times
        /\ FirstVelocity["old"] = StartVelocity
        /\ FirstVelocity["half"] = FirstVelocity["old"] \cup FirstVelocity["new"]
    BY DEF FirstVelocity
  <2> QED BY <2>1, <2>2 DEF Advected, StartVelocity
<1>3. CASE UpdateAdvectionVelocity
  BY <1>3 DEF Advected, UpdateAdvectionVelocity, configuration
<1>4. CASE SolveTransport \/ SolveTransportAgain
  BY <1>4 DEF Advected, SolveTransport, SolveTransportAgain, configuration
<1>5. CASE SolveFluid
  BY <1>5 DEF Advected, SolveFluid, configuration
<1>6. CASE ResetTimeDependentHierarchyData
  BY <1>6 DEF Advected, ResetTimeDependentHierarchyData
<1>7. CASE UNCHANGED vars
  BY <1>7 DEF Advected, vars, configuration
<1> QED BY <1>1, <1>2, <1>3, <1>4, <1>5, <1>6, <1>7 DEF Next

\* Every step begins with the velocity of the fluid, projected or read from
\* a restart file as it may be, and the mean velocity belongs to the old and
\* the new one in every cycle.
THEOREM FluidTransports == Spec => []TransportedByTheFluid
<1>1. Init => Advected
  BY DEF Init, Advected, Times
<1>2. Spec => []Advected
  BY <1>1, NextAdvected, TypeCorrect, PTL DEF Spec
<1>3. Advected => TransportedByTheFluid
  BY DEF Advected, TransportedByTheFluid
<1> QED BY <1>2, <1>3, PTL

-----------------------------------------------------------------------------
(* Right-hand sides: adding terms and taking them back *)

RightHandSide(r) == r \in [DOMAIN r -> Int \ {0}]
Halves(r, term) == IF term \in DOMAIN r THEN r[term] ELSE 0

\* The definition of Plus, of which every instance of the module has a copy.
Added(r, h, x, count) ==
    IF h = 0 THEN r
    ELSE [t \in {y \in DOMAIN r \cup {x} : y # x \/ count # 0} |->
             IF t = x THEN count ELSE r[t]]

LEMMA PlusUnfolded ==
  ASSUME NEW r, NEW h, NEW x
  PROVE  Plus(r, h, x) = Added(r, h, x, (IF x \in DOMAIN r THEN r[x] ELSE 0) + h)
<1> DEFINE count == (IF x \in DOMAIN r THEN r[x] ELSE 0) + h
<1>1. Added(r, h, x, count) =
          IF h = 0 THEN r
          ELSE [t \in {y \in DOMAIN r \cup {x} : y # x \/ count # 0} |->
                    IF t = x THEN count ELSE r[t]]
  BY Zenon DEF Added
<1>2. Plus(r, h, x) =
          IF h = 0 THEN r
          ELSE [t \in {y \in DOMAIN r \cup {x} : y # x \/ count # 0} |->
                    IF t = x THEN count ELSE r[t]]
  BY Zenon DEF Plus
<1> HIDE DEF count
<1>3. Plus(r, h, x) = Added(r, h, x, count)
  BY <1>1, <1>2, Zenon
<1> QED BY <1>3 DEF count

LEMMA FluidPlusUnfolded ==
  ASSUME NEW r, NEW h, NEW x
  PROVE  FluidScheme!Plus(r, h, x) = Added(r, h, x, (IF x \in DOMAIN r THEN r[x] ELSE 0) + h)
<1> DEFINE count == (IF x \in DOMAIN r THEN r[x] ELSE 0) + h
<1>1. Added(r, h, x, count) =
          IF h = 0 THEN r
          ELSE [t \in {y \in DOMAIN r \cup {x} : y # x \/ count # 0} |->
                    IF t = x THEN count ELSE r[t]]
  BY Zenon DEF Added
<1>2. FluidScheme!Plus(r, h, x) =
          IF h = 0 THEN r
          ELSE [t \in {y \in DOMAIN r \cup {x} : y # x \/ count # 0} |->
                    IF t = x THEN count ELSE r[t]]
  BY Zenon DEF FluidScheme!Plus
<1> HIDE DEF count
<1>3. FluidScheme!Plus(r, h, x) = Added(r, h, x, count)
  BY <1>1, <1>2, Zenon
<1> QED BY <1>3 DEF count

LEMMA TransportPlusUnfolded ==
  ASSUME NEW r, NEW h, NEW x
  PROVE  TransportScheme!Plus(r, h, x) = Added(r, h, x, (IF x \in DOMAIN r THEN r[x] ELSE 0) + h)
<1> DEFINE count == (IF x \in DOMAIN r THEN r[x] ELSE 0) + h
<1>1. Added(r, h, x, count) =
          IF h = 0 THEN r
          ELSE [t \in {y \in DOMAIN r \cup {x} : y # x \/ count # 0} |->
                    IF t = x THEN count ELSE r[t]]
  BY Zenon DEF Added
<1>2. TransportScheme!Plus(r, h, x) =
          IF h = 0 THEN r
          ELSE [t \in {y \in DOMAIN r \cup {x} : y # x \/ count # 0} |->
                    IF t = x THEN count ELSE r[t]]
  BY Zenon DEF TransportScheme!Plus
<1> HIDE DEF count
<1>3. TransportScheme!Plus(r, h, x) = Added(r, h, x, count)
  BY <1>1, <1>2, Zenon
<1> QED BY <1>3 DEF count

LEMMA PlusZero ==
  ASSUME NEW r, NEW x
  PROVE  Plus(r, 0, x) = r
<1>1. Plus(r, 0, x) = Added(r, 0, x, (IF x \in DOMAIN r THEN r[x] ELSE 0) + 0)
  BY PlusUnfolded, Zenon
<1> QED BY <1>1, Zenon DEF Added

\* Plus changes the halves of one term.
LEMMA PlusHalves ==
  ASSUME NEW r, RightHandSide(r), NEW h \in Int, NEW x
  PROVE  /\ RightHandSide(Plus(r, h, x))
         /\ \A y : Halves(Plus(r, h, x), y) = Halves(r, y) + (IF y = x THEN h ELSE 0)
<1>0. \A y : Halves(r, y) \in Int
  BY DEF RightHandSide, Halves
<1>1. CASE h = 0
  <2>1. Plus(r, h, x) = r
    BY <1>1, PlusZero
  <2> QED BY <1>0, <1>1, <2>1
<1>2. CASE h # 0
  <2> DEFINE count == Halves(r, x) + h
             terms == {t \in DOMAIN r \cup {x} : t # x \/ count # 0}
  <2>1. Plus(r, h, x) = [t \in terms |-> IF t = x THEN count ELSE r[t]]
    <3>1. Plus(r, h, x) = Added(r, h, x, (IF x \in DOMAIN r THEN r[x] ELSE 0) + h)
      BY PlusUnfolded, Zenon
    <3>2. count = (IF x \in DOMAIN r THEN r[x] ELSE 0) + h
      BY DEF Halves
    <3>3. Plus(r, h, x) = Added(r, h, x, count)
      BY <3>1, <3>2, Zenon
    <3> HIDE DEF count
    <3> QED BY <1>2, <3>3, Zenon DEF Added
  <2>2. count \in Int
    BY <1>0
  <2>3. \A t \in terms : (IF t = x THEN count ELSE r[t]) \in Int \ {0}
    BY <2>2 DEF RightHandSide
  <2>4. RightHandSide(Plus(r, h, x))
    <3> HIDE DEF count, terms
    <3> QED BY <2>1, <2>3 DEF RightHandSide
  <2>5. ASSUME NEW y
        PROVE  Halves(Plus(r, h, x), y) = Halves(r, y) + (IF y = x THEN h ELSE 0)
    <3>1. Halves(Plus(r, h, x), y) =
              IF y \in terms THEN (IF y = x THEN count ELSE r[y]) ELSE 0
      BY <2>1 DEF Halves
    <3>2. CASE y = x
      BY <1>0, <2>2, <3>1, <3>2
    <3>3. CASE y # x
      BY <1>0, <3>1, <3>3 DEF Halves
    <3> QED BY <3>2, <3>3
  <2> QED BY <2>4, <2>5
<1> QED BY <1>1, <1>2

\* A right-hand side is determined by the halves of all terms.
LEMMA SameHalves ==
  ASSUME NEW r, RightHandSide(r), NEW s, RightHandSide(s),
         \A y : Halves(r, y) = Halves(s, y)
  PROVE  r = s
<1>1. \A y : (y \in DOMAIN r <=> Halves(r, y) # 0) /\ (y \in DOMAIN s <=> Halves(s, y) # 0)
  BY DEF RightHandSide, Halves
<1>2. DOMAIN r = DOMAIN s
  BY <1>1
<1>3. \A y \in DOMAIN r : r[y] = s[y]
  BY <1>2 DEF Halves
<1> QED BY <1>2, <1>3 DEF RightHandSide

\* What a cycle adds before the solve it takes back afterwards, also when two
\* of the terms are the same.
LEMMA TermsTakenBack ==
  ASSUME NEW r, RightHandSide(r), NEW a \in Int, NEW b \in Int, NEW c \in Int,
         NEW x, NEW y, NEW z
  PROVE  LET full == Plus(Plus(Plus(r, a, x), b, y), c, z) IN
         Plus(Plus(Plus(full, -a, x), -b, y), -c, z) = r
<1> DEFINE r1 == Plus(r, a, x)
           r2 == Plus(r1, b, y)
           r3 == Plus(r2, c, z)
           r4 == Plus(r3, -a, x)
           r5 == Plus(r4, -b, y)
           r6 == Plus(r5, -c, z)
<1>1. RightHandSide(r1) /\ \A t : Halves(r1, t) = Halves(r, t) + (IF t = x THEN a ELSE 0)
  BY PlusHalves
<1> HIDE DEF r1
<1>2. RightHandSide(r2) /\ \A t : Halves(r2, t) = Halves(r1, t) + (IF t = y THEN b ELSE 0)
  BY <1>1, PlusHalves
<1> HIDE DEF r2
<1>3. RightHandSide(r3) /\ \A t : Halves(r3, t) = Halves(r2, t) + (IF t = z THEN c ELSE 0)
  BY <1>2, PlusHalves
<1> HIDE DEF r3
<1>4. RightHandSide(r4) /\ \A t : Halves(r4, t) = Halves(r3, t) + (IF t = x THEN -a ELSE 0)
  <2>1. -a \in Int
    OBVIOUS
  <2> QED BY <1>3, <2>1, PlusHalves
<1> HIDE DEF r4
<1>5. RightHandSide(r5) /\ \A t : Halves(r5, t) = Halves(r4, t) + (IF t = y THEN -b ELSE 0)
  <2>1. -b \in Int
    OBVIOUS
  <2> QED BY <1>4, <2>1, PlusHalves
<1> HIDE DEF r5
<1>6. RightHandSide(r6) /\ \A t : Halves(r6, t) = Halves(r5, t) + (IF t = z THEN -c ELSE 0)
  <2>1. -c \in Int
    OBVIOUS
  <2> QED BY <1>5, <2>1, PlusHalves
<1> HIDE DEF r6
<1>7. ASSUME NEW t PROVE Halves(r6, t) = Halves(r, t)
  <2>1. Halves(r, t) \in Int
    BY DEF RightHandSide, Halves
  <2> QED BY <1>1, <1>2, <1>3, <1>4, <1>5, <1>6, <2>1
<1>8. r6 = r
  BY <1>6, <1>7, SameHalves
<1> QED BY <1>8 DEF r1, r2, r3, r4, r5, r6

-----------------------------------------------------------------------------
(* What the solvers carry from cycle to cycle *)

\* The convective term at the beginning of the step, in N_old and, before the
\* first cycle, in the scratch vector.
Start(i) == Convective(i, "old")

\* Between two cycles the right-hand side has only the terms that stay on it
\* in all cycles; without convection N_old is never set.
Carried(i) ==
    /\ scheme[i].type = "NONE" => oldNew[i] = NoTerm /\ oldCurrent[i] = NoTerm
    /\ pc # "idle" =>
          /\ rhs[i] = Plus(Nothing, FixedHalves(i), Start(i))
          /\ scheme[i].type # "NONE" => oldNew[i] = Start(i)
          /\ cycle[i] = 0 =>
                new[i] = current[i] /\ (scheme[i].type # "NONE" => N[i] = Start(i))

Indexed ==
    /\ DOMAIN current = Solvers /\ DOMAIN new = Solvers
    /\ DOMAIN N = Solvers /\ DOMAIN oldCurrent = Solvers /\ DOMAIN oldNew = Solvers
    /\ DOMAIN rhs = Solvers /\ DOMAIN solved = Solvers

SInv == CInv /\ Indexed /\ \A i \in Solvers : Carried(i)

LEMMA FixedIsInt == \A i : FixedHalves(i) \in Int
  BY DEF FixedHalves

\* The start of the step is the same in all cycles.
LEMMA StartOfFluid == Start("fluid") = Term({current["fluid"]}, {current["fluid"]})
  BY DEF Start, Convective, Velocity, InTime, Times

LEMMA StartOfTransport == Start("transport") = Term(u["old"], {current["transport"]})
  BY DEF Start, Convective, Velocity, InTime, Times

LEMMA StartKept ==
  ASSUME u'["old"] = u["old"], current' = current, NEW i \in Solvers
  PROVE  Start(i)' = Start(i)
<1>1. (Start("fluid") = Term({current["fluid"]}, {current["fluid"]}))'
  BY StartOfFluid, PTL
<1>2. (Start("transport") = Term(u["old"], {current["transport"]}))'
  BY StartOfTransport, PTL
<1> QED BY <1>1, <1>2, StartOfFluid, StartOfTransport DEF Solvers, Term

\* Within a step the type of the first cycle does not change.
LEMMA FixedKept ==
  ASSUME scheme' = scheme, step' = step, NEW i
  PROVE  FixedHalves(i)' = FixedHalves(i)
  BY DEF FixedHalves, Type, First

LEMMA NothingIsRightHandSide ==
  ASSUME NEW i
  PROVE  RightHandSide(Plus(Nothing, FixedHalves(i), Start(i)))
<1>1. RightHandSide(Nothing)
  BY DEF RightHandSide, Nothing
<1> QED BY <1>1, FixedIsInt, PlusHalves

\* The terms of a cycle are off the right-hand side again after it.
LEMMA SolveTakesBack ==
  ASSUME SInv, pc # "idle", NEW i \in Solvers, Solve(i)
  PROVE  DOMAIN rhs' = Solvers /\ \A j \in Solvers : rhs'[j] = rhs[j]
<1> DEFINE h == CycleHalves(i)
           s == IF scheme[i].sources THEN 2 ELSE 0
           f == Forcing(Iterate(step + 1, cycle[i]))
           source == SourceTerm(InTime(current[i], new[i])["half"])
           full == Plus(Plus(Plus(rhs[i], h, CycleTerm(i)), 2, f), s, source)
<1>1. RightHandSide(rhs[i])
  BY NothingIsRightHandSide DEF SInv, Carried
<1>2. h \in Int /\ s \in Int /\ 2 \in Int
  BY DEF CycleHalves
<1>3. rhs' = [rhs EXCEPT ![i] = Plus(Plus(Plus(full, -h, CycleTerm(i)), -2, f), -s, source)]
  BY DEF Solve
<1> HIDE DEF h, s, f, source
<1>4. Plus(Plus(Plus(full, -h, CycleTerm(i)), -2, f), -s, source) = rhs[i]
  BY <1>1, <1>2, TermsTakenBack
<1> QED BY <1>3, <1>4 DEF SInv, Indexed

\* A step that keeps what is carried keeps the invariant of a solver.
LEMMA CarriedOn ==
  ASSUME NEW i \in Solvers, Carried(i), pc # "idle", scheme' = scheme, step' = step,
         u'["old"] = u["old"], current' = current, oldNew' = oldNew,
         oldCurrent' = oldCurrent, rhs'[i] = rhs[i],
         cycle'[i] = 0 => cycle[i] = 0 /\ new'[i] = new[i] /\ N'[i] = N[i]
  PROVE  Carried(i)'
<1>1. Start(i)' = Start(i) /\ FixedHalves(i)' = FixedHalves(i)
  BY StartKept, FixedKept
<1>2. Plus(Nothing, FixedHalves(i), Start(i))' = Plus(Nothing, FixedHalves(i), Start(i))
  BY <1>1
<1> QED BY <1>1, <1>2 DEF Carried

LEMMA SolveCarries ==
  ASSUME SInv, pc # "idle", NEW i \in Solvers, Solve(i), cycle[i] \in Nat,
         scheme' = scheme, step' = step, u'["old"] = u["old"], current' = current,
         oldNew' = oldNew, oldCurrent' = oldCurrent
  PROVE  Indexed' /\ \A j \in Solvers : Carried(j)'
<1>1. DOMAIN rhs' = Solvers /\ \A j \in Solvers : rhs'[j] = rhs[j]
  BY SolveTakesBack
<1>2. /\ DOMAIN N' = Solvers /\ DOMAIN new' = Solvers /\ DOMAIN solved' = Solvers
      /\ \A j \in Solvers \ {i} : N'[j] = N[j] /\ new'[j] = new[j] /\ cycle'[j] = cycle[j]
      /\ cycle'[i] = cycle[i] + 1
  BY DEF Solve, SInv, Indexed, CInv, TypeOK
<1>3. ASSUME NEW j \in Solvers PROVE Carried(j)'
  <2>1. cycle'[j] = 0 => cycle[j] = 0 /\ new'[j] = new[j] /\ N'[j] = N[j]
    BY <1>2
  <2> QED BY <1>1, <2>1, CarriedOn DEF SInv
<1> QED BY <1>1, <1>2, <1>3 DEF SInv, Indexed

LEMMA InitSInv == Init => SInv
<1> SUFFICES ASSUME Init PROVE SInv
  OBVIOUS
<1>1. CInv
  BY InitCInv
<1>2. Indexed /\ \A i \in Solvers : Carried(i)
  BY DEF Init, Indexed, Carried, NoTerms
<1> QED BY <1>1, <1>2 DEF SInv

LEMMA PreprocessCarries ==
  ASSUME SInv, NEW d \in DtValues, PreprocessIntegrateHierarchy(d)
  PROVE  Indexed' /\ \A i \in Solvers : Carried(i)'
<1>1. /\ scheme' = scheme /\ prescribed' = prescribed /\ step' = step
      /\ current' = current /\ new' = current /\ oldCurrent' = oldCurrent
      /\ solved' = solved /\ pc' = "velocity" /\ u' = FirstVelocity
  BY DEF PreprocessIntegrateHierarchy, configuration
<1>2. /\ DOMAIN N' = Solvers /\ DOMAIN oldNew' = Solvers /\ DOMAIN rhs' = Solvers
      /\ \A i \in Solvers : rhs'[i] = Plus(Nothing, FixedHalves(i), N'[i])
      /\ \A i \in Solvers : scheme[i].type # "NONE" => oldNew'[i] = N'[i]
      /\ \A i \in Solvers : scheme[i].type = "NONE" => oldNew'[i] = oldNew[i]
  BY DEF PreprocessIntegrateHierarchy
<1>3. \A i \in Solvers : scheme[i].type # "NONE" =>
          N'[i] = Term(IF i = "fluid" THEN {current[i]} ELSE StartVelocity, {current[i]})
  BY DEF PreprocessIntegrateHierarchy
<1>4. u'["old"] = StartVelocity
  BY <1>1 DEF FirstVelocity, Times
<1>5. Start("fluid")' = Term({current["fluid"]}, {current["fluid"]})
  <2>1. (Start("fluid") = Term({current["fluid"]}, {current["fluid"]}))'
    BY StartOfFluid, PTL
  <2> QED BY <1>1, <2>1 DEF Term
<1>6. Start("transport")' = Term(StartVelocity, {current["transport"]})
  <2>1. (Start("transport") = Term(u["old"], {current["transport"]}))'
    BY StartOfTransport, PTL
  <2> QED BY <1>1, <1>4, <2>1 DEF Term
<1>7. \A i \in Solvers : scheme[i].type # "NONE" => N'[i] = Start(i)'
  BY <1>3, <1>5, <1>6 DEF Solvers
<1>8. ASSUME NEW i \in Solvers PROVE Carried(i)'
  <2>1. FixedHalves(i)' = FixedHalves(i)
    BY <1>1, FixedKept
  <2>2. scheme[i].type = "NONE" => FixedHalves(i) = 0
    BY DEF FixedHalves, Type, Effective, Multistep
  <2>3. rhs'[i] = Plus(Nothing, FixedHalves(i), Start(i))'
    <3>1. \A t : Plus(Nothing, 0, t) = Nothing
      BY PlusZero
    <3>2. CASE scheme[i].type = "NONE"
      <4>1. FixedHalves(i) = 0 /\ FixedHalves(i)' = 0
        BY <2>1, <2>2, <3>2
      <4> QED BY <1>2, <3>1, <4>1
    <3>3. CASE scheme[i].type # "NONE"
      <4>1. rhs'[i] = Plus(Nothing, FixedHalves(i), N'[i]) /\ N'[i] = Start(i)'
        BY <1>2, <1>7, <3>3
      <4> QED BY <2>1, <4>1
    <3> QED BY <3>2, <3>3
  <2> QED BY <1>1, <1>2, <1>7, <2>3 DEF Carried, SInv
<1> QED BY <1>1, <1>2, <1>8 DEF Indexed, SInv

LEMMA NextSInv == SInv /\ [Next]_vars => SInv'
<1> SUFFICES ASSUME SInv, [Next]_vars PROVE SInv'
  OBVIOUS
<1>0. CInv'
  BY NextCInv DEF SInv
<1> SUFFICES Indexed' /\ \A i \in Solvers : Carried(i)'
  BY <1>0 DEF SInv
<1>a. DOMAIN u = Times /\ "old" \in Times /\ cycle["fluid"] \in Int /\ cycle["transport"] \in Int
  BY DEF SInv, CInv, TypeOK, Times, Solvers
<1>1. CASE RegridHierarchy \/ Restart
  <2>1. /\ pc' = "idle" /\ scheme' = scheme /\ oldCurrent' = oldCurrent /\ oldNew' = oldNew
        /\ DOMAIN current' = Solvers
        /\ new' = new /\ N' = N /\ rhs' = rhs /\ solved' = solved
    BY <1>1 DEF RegridHierarchy, Restart, FileN, configuration, SInv, Indexed
  <2> QED BY <2>1 DEF SInv, Indexed, Carried
<1>2. ASSUME NEW d \in DtValues, PreprocessIntegrateHierarchy(d)
      PROVE  Indexed' /\ \A i \in Solvers : Carried(i)'
  BY <1>2, PreprocessCarries
<1>3. CASE UpdateAdvectionVelocity
  <2>1. /\ pc # "idle" /\ UNCHANGED <<configuration, clock, cycle, current, new, N, oldCurrent,
                                      oldNew, rhs, solved>>
        /\ u'["old"] = u["old"]
    BY <1>3, <1>a DEF UpdateAdvectionVelocity, Times
  <2>2. \A i \in Solvers : Carried(i)'
    BY <2>1, CarriedOn DEF SInv, configuration, clock
  <2> QED BY <2>1, <2>2 DEF SInv, Indexed
<1>4. CASE SolveTransport \/ SolveTransportAgain
  <2>1. /\ pc # "idle" /\ Solve("transport") /\ scheme' = scheme /\ step' = step /\ u' = u
        /\ current' = current /\ oldNew' = oldNew /\ oldCurrent' = oldCurrent
    BY <1>4 DEF SolveTransport, SolveTransportAgain, configuration, clock
  <2>2. cycle["transport"] \in Nat
    BY <1>4, <1>a DEF SolveTransport, SolveTransportAgain, SInv, CInv, Turns
  <2> QED BY <2>1, <2>2, SolveCarries DEF Solvers
<1>5. CASE SolveFluid
  <2>1. /\ pc # "idle" /\ Solve("fluid") /\ scheme' = scheme /\ step' = step
        /\ u'["old"] = u["old"]
        /\ current' = current /\ oldNew' = oldNew /\ oldCurrent' = oldCurrent
    BY <1>5, <1>a DEF SolveFluid, configuration, clock, Times
  <2>2. cycle["fluid"] \in Nat
    BY <1>5, <1>a DEF SolveFluid, SInv, CInv, Turns
  <2> QED BY <2>1, <2>2, SolveCarries DEF Solvers
<1>6. CASE ResetTimeDependentHierarchyData
  <2>1. /\ pc' = "idle" /\ scheme' = scheme /\ current' = new /\ new' = new
        /\ oldCurrent' = oldNew /\ N' = NoTerms /\ oldNew' = NoTerms
        /\ rhs' = [i \in Solvers |-> Nothing] /\ solved' = rhs'
    BY <1>6 DEF ResetTimeDependentHierarchyData, NewOld, configuration
  <2> QED BY <2>1 DEF SInv, Indexed, Carried, NoTerms
<1>7. CASE UNCHANGED vars
  <2>1. CASE pc = "idle"
    BY <1>7, <2>1 DEF vars, configuration, SInv, Indexed, Carried
  <2>2. CASE pc # "idle"
    <3>1. \A i \in Solvers : Carried(i)'
      BY <1>7, <2>2, CarriedOn DEF vars, configuration, clock, SInv
    <3> QED BY <1>7, <3>1 DEF vars, SInv, Indexed
  <2> QED BY <2>1, <2>2
<1> QED BY <1>1, <1>2, <1>3, <1>4, <1>5, <1>6, <1>7 DEF Next

LEMMA SInvariance == Spec => []SInv
  BY InitSInv, NextSInv, PTL DEF Spec

-----------------------------------------------------------------------------
(* Refinement: the systems that are solved are those of ConvectiveScheme *)

\* The convective terms that belong on the right-hand side in the next cycle,
\* as ConvectiveScheme has them.
Recent(i, t) == Convective(i, IF cycle[i] = 0 THEN "old" ELSE t)
Wanted(i) ==
    LET type == Type(i, cycle[i]) IN
    CASE type = "NONE" -> Nothing
      [] type = "FORWARD_EULER" -> Plus(Nothing, -2, Start(i))
      [] type = "MIDPOINT_RULE" -> Plus(Nothing, -2, Recent(i, "half"))
      [] type = "TRAPEZOIDAL_RULE" ->
             Plus(Plus(Nothing, -1, Start(i)), -1, Recent(i, "new"))
      [] type = "ADAMS_BASHFORTH" ->
             Plus(Nothing, -2, Extrapolated(Start(i), oldCurrent[i], dt, dtPrevious))

\* How the type of a later cycle is related to that of the first one.
LEMMA TypesOfStep ==
  ASSUME scheme \in [Solvers -> Schemes], NEW i \in Solvers, NEW k \in Nat
  PROVE  /\ Type(i, k) \in Types
         /\ Type(i, k) \in {"NONE", "FORWARD_EULER", "TRAPEZOIDAL_RULE"} =>
                Type(i, 0) = Type(i, k)
         /\ Type(i, k) = "MIDPOINT_RULE" => Type(i, 0) \in {"MIDPOINT_RULE", "ADAMS_BASHFORTH"}
         /\ Type(i, k) = "ADAMS_BASHFORTH" => k = 0
         /\ Type(i, k) # "NONE" => scheme[i].type # "NONE"
<1>1. scheme[i].type \in Types /\ scheme[i].init \in OneStepTypes
  BY DEF Schemes
<1> QED BY <1>1 DEF Type, Effective, Multistep, Types, OneStepTypes

\* The terms a cycle adds complete those that stayed on the right-hand side.
LEMMA TermsWanted ==
  ASSUME SInv, pc # "idle", NEW i \in Solvers, cycle[i] \in Nat
  PROVE  Plus(rhs[i], CycleHalves(i), CycleTerm(i)) = Wanted(i)
<1> DEFINE type == Type(i, cycle[i])
<1>1. /\ type \in Types
      /\ type \in {"NONE", "FORWARD_EULER", "TRAPEZOIDAL_RULE"} => Type(i, 0) = type
      /\ type = "MIDPOINT_RULE" => Type(i, 0) \in {"MIDPOINT_RULE", "ADAMS_BASHFORTH"}
      /\ type = "ADAMS_BASHFORTH" => cycle[i] = 0
      /\ type # "NONE" => scheme[i].type # "NONE"
  BY TypesOfStep DEF SInv, CInv, TypeOK
<1>2. /\ rhs[i] = Plus(Nothing, FixedHalves(i), Start(i))
      /\ type # "NONE" /\ cycle[i] = 0 => N[i] = Start(i)
  BY <1>1 DEF SInv, Carried
<1>3. CASE type = "NONE"
  <2>1. FixedHalves(i) = 0 /\ CycleHalves(i) = 0
    BY <1>1, <1>3 DEF FixedHalves, CycleHalves
  <2>2. Wanted(i) = Nothing
    BY <1>3 DEF Wanted
  <2> QED BY <1>2, <2>1, <2>2, PlusZero
<1>4. CASE type = "FORWARD_EULER"
  <2>1. FixedHalves(i) = -2 /\ CycleHalves(i) = 0
    BY <1>1, <1>4 DEF FixedHalves, CycleHalves
  <2>2. Wanted(i) = Plus(Nothing, -2, Start(i))
    BY <1>4 DEF Wanted
  <2> QED BY <1>2, <2>1, <2>2, PlusZero
<1>5. CASE type = "MIDPOINT_RULE"
  <2>1. FixedHalves(i) = 0 /\ CycleHalves(i) = -2
    BY <1>1, <1>5 DEF FixedHalves, CycleHalves
  <2>2. Wanted(i) = Plus(Nothing, -2, Recent(i, "half"))
    BY <1>5 DEF Wanted
  <2>3. CycleTerm(i) = Recent(i, "half")
    BY <1>2, <1>5 DEF CycleTerm, Recomputed, Recent, Start
  <2> QED BY <1>2, <2>1, <2>2, <2>3, PlusZero
<1>6. CASE type = "TRAPEZOIDAL_RULE"
  <2>1. FixedHalves(i) = -1 /\ CycleHalves(i) = -1
    BY <1>1, <1>6 DEF FixedHalves, CycleHalves
  <2>2. Wanted(i) = Plus(Plus(Nothing, -1, Start(i)), -1, Recent(i, "new"))
    BY <1>6 DEF Wanted
  <2>3. CycleTerm(i) = Recent(i, "new")
    BY <1>2, <1>6 DEF CycleTerm, Recomputed, Recent, Start
  <2> QED BY <1>2, <2>1, <2>2, <2>3
<1>7. CASE type = "ADAMS_BASHFORTH"
  <2>1. FixedHalves(i) = 0 /\ CycleHalves(i) = -2
    BY <1>1, <1>7 DEF FixedHalves, CycleHalves
  <2>2. Wanted(i) = Plus(Nothing, -2, Extrapolated(Start(i), oldCurrent[i], dt, dtPrevious))
    BY <1>7 DEF Wanted
  <2>3. CycleTerm(i) = Extrapolated(Start(i), oldCurrent[i], dt, dtPrevious)
    BY <1>1, <1>2, <1>7 DEF CycleTerm, Recomputed
  <2> QED BY <1>2, <2>1, <2>2, <2>3, PlusZero
<1> QED BY <1>1, <1>3, <1>4, <1>5, <1>6, <1>7 DEF Types, OneStepTypes

\* A cycle solves the system that is wanted, and no other solver notices.
LEMMA SolveFollows ==
  ASSUME SInv, pc # "idle", NEW i \in Solvers, cycle[i] \in Nat, Solve(i)
  PROVE  /\ solved'[i] =
                LET forced == Plus(Wanted(i), 2, Forcing(Iterate(step + 1, cycle[i]))) IN
                IF scheme[i].sources
                THEN Plus(forced, 2, SourceTerm({current[i], new[i]})) ELSE forced
         /\ new'[i] = Iterate(step + 1, cycle[i])
         /\ cycle'[i] = cycle[i] + 1
         /\ \A j \in Solvers \ {i} :
                solved'[j] = solved[j] /\ new'[j] = new[j] /\ cycle'[j] = cycle[j]
<1>1. DOMAIN solved = Solvers /\ DOMAIN new = Solvers /\ DOMAIN cycle = Solvers
  BY DEF SInv, Indexed, CInv, TypeOK
<1>2. InTime(current[i], new[i])["half"] = {current[i], new[i]}
  BY DEF InTime, Times
<1>3. Plus(rhs[i], CycleHalves(i), CycleTerm(i)) = Wanted(i)
  BY TermsWanted
<1> DEFINE forced == Plus(Wanted(i), 2, Forcing(Iterate(step + 1, cycle[i])))
<1>4. solved' = [solved EXCEPT ![i] =
          Plus(forced, IF scheme[i].sources THEN 2 ELSE 0, SourceTerm({current[i], new[i]}))]
  BY <1>2, <1>3 DEF Solve
<1>5. new' = [new EXCEPT ![i] = Iterate(step + 1, cycle[i])]
      /\ cycle' = [cycle EXCEPT ![i] = @ + 1]
  BY DEF Solve
<1> HIDE DEF forced
<1>6. solved'[i] =
          IF scheme[i].sources THEN Plus(forced, 2, SourceTerm({current[i], new[i]})) ELSE forced
  <2>1. CASE scheme[i].sources
    BY <1>1, <1>4, <2>1
  <2>2. CASE ~scheme[i].sources
    BY <1>1, <1>4, <2>2, PlusZero
  <2> QED BY <2>1, <2>2
<1> QED BY <1>1, <1>4, <1>5, <1>6 DEF forced

\* The rules of FluidScheme are those of this module.
LEMMA FluidRules ==
  /\ \A r, h, x : FluidScheme!Plus(r, h, x) = Plus(r, h, x)
  /\ \A v, x : FluidScheme!Term(v, x) = Term(v, x)
  /\ \A x, y : FluidScheme!InTime(x, y) = InTime(x, y)
  /\ \A x, y, d, e : FluidScheme!Extrapolated(x, y, d, e) = Extrapolated(x, y, d, e)
  /\ \A x : FluidScheme!Forcing(x) = Forcing(x) /\ FluidScheme!SourceTerm(x) = SourceTerm(x)
  /\ \A m, k : FluidScheme!Iterate(m, k) = Iterate(m, k)
  /\ \A x : FluidScheme!Projected(x) = Projected(x)
  /\ \A s, b, k : FluidScheme!Effective(s, b, k) = Effective(s, b, k)
  /\ \A s, b : FluidScheme!NumberOfCycles(s, b) = NumberOfCycles(s, b)
  /\ FluidScheme!Nothing = Nothing
<1>1. \A r, h, x : FluidScheme!Plus(r, h, x) = Plus(r, h, x)
  BY PlusUnfolded, FluidPlusUnfolded
<1>2. \A v, x : FluidScheme!Term(v, x) = Term(v, x)
  BY Zenon DEF FluidScheme!Term, Term
<1>3. \A x, y : FluidScheme!InTime(x, y) = InTime(x, y)
  BY Zenon DEF FluidScheme!InTime, InTime, FluidScheme!Times, Times
<1>4. \A x, y, d, e : FluidScheme!Extrapolated(x, y, d, e) = Extrapolated(x, y, d, e)
  BY Zenon DEF FluidScheme!Extrapolated, Extrapolated
<1>5. \A x : FluidScheme!Forcing(x) = Forcing(x) /\ FluidScheme!SourceTerm(x) = SourceTerm(x)
  BY Zenon DEF FluidScheme!Forcing, Forcing, FluidScheme!SourceTerm, SourceTerm
<1>6. \A m, k : FluidScheme!Iterate(m, k) = Iterate(m, k)
  BY Zenon DEF FluidScheme!Iterate, Iterate
<1>7. \A x : FluidScheme!Projected(x) = Projected(x)
  BY Zenon DEF FluidScheme!Projected, Projected
<1>8. \A s, b, k : FluidScheme!Effective(s, b, k) = Effective(s, b, k)
  BY Zenon DEF FluidScheme!Effective, Effective, FluidScheme!Multistep, Multistep
<1>9. \A s, b : FluidScheme!NumberOfCycles(s, b) = NumberOfCycles(s, b)
  BY Zenon DEF FluidScheme!NumberOfCycles, NumberOfCycles, FluidScheme!Multistep, Multistep
<1>10. FluidScheme!Nothing = Nothing
  BY Zenon DEF FluidScheme!Nothing, Nothing
<1> QED BY <1>1, <1>2, <1>3, <1>4, <1>5, <1>6, <1>7, <1>8, <1>9, <1>10, Zenon

LEMMA FluidConvection == \A t : FluidScheme!Convection(t) = Convective("fluid", t)
  BY FluidRules, Zenon DEF FluidScheme!Convection, Convective

LEMMA FluidWanted ==
  ASSUME SInv, cycle["fluid"] \in Nat
  PROVE  FluidScheme!ConvectiveTermsOf(cycle["fluid"]) = Wanted("fluid")
<1> DEFINE k == cycle["fluid"]
           type == Type("fluid", k)
<1>1. type \in Types
  BY TypesOfStep DEF SInv, CInv, TypeOK, Solvers
<1>2. FluidScheme!Effective(scheme["fluid"], step = 0, k) = type
  BY FluidRules DEF Type, First
<1>3. FluidScheme!Convection("old") = Start("fluid")
  BY FluidConvection DEF Start
<1>4. \A t : FluidScheme!Convection(IF k = 0 THEN "old" ELSE t) = Recent("fluid", t)
  BY FluidConvection DEF Recent
<1>5. CASE type = "NONE"
  BY <1>2, <1>5, FluidRules DEF FluidScheme!ConvectiveTermsOf, Wanted
<1>6. CASE type = "FORWARD_EULER"
  BY <1>2, <1>3, <1>6, FluidRules DEF FluidScheme!ConvectiveTermsOf, Wanted
<1>7. CASE type = "MIDPOINT_RULE"
  BY <1>2, <1>4, <1>7, FluidRules DEF FluidScheme!ConvectiveTermsOf, Wanted
<1>8. CASE type = "TRAPEZOIDAL_RULE"
  BY <1>2, <1>3, <1>4, <1>8, FluidRules DEF FluidScheme!ConvectiveTermsOf, Wanted
<1>9. CASE type = "ADAMS_BASHFORTH"
  BY <1>2, <1>3, <1>9, FluidRules DEF FluidScheme!ConvectiveTermsOf, Wanted
<1> QED BY <1>1, <1>5, <1>6, <1>7, <1>8, <1>9 DEF Types, OneStepTypes

\* How the steps of the program look to the fluid solver.
LEMMA FluidCycles ==
  ASSUME SInv, SolveFluid
  PROVE  FluidScheme!Cycle
<1> DEFINE k == cycle["fluid"]
<1>1. /\ pc = "fluid" /\ Solve("fluid") /\ scheme' = scheme /\ step' = step /\ dt' = dt
      /\ dtPrevious' = dtPrevious /\ current' = current /\ oldCurrent' = oldCurrent
  BY DEF SolveFluid, configuration, clock
<1>2. k \in Nat /\ CyclesOf("fluid") \in Nat /\ k < CyclesOf("fluid")
  BY <1>1, CyclesType DEF SInv, CInv, TypeOK, Turns, Solvers
<1>3. k \in 0..(FluidScheme!NumberOfCycles(scheme["fluid"], step = 0) - 1)
  BY <1>2, FluidRules DEF CyclesOf, First
<1>4. /\ solved'["fluid"] =
             LET forced == Plus(Wanted("fluid"), 2, Forcing(Iterate(step + 1, k))) IN
             IF scheme["fluid"].sources
             THEN Plus(forced, 2, SourceTerm({current["fluid"], new["fluid"]})) ELSE forced
      /\ new'["fluid"] = Iterate(step + 1, k)
      /\ cycle'["fluid"] = k + 1
  BY <1>1, <1>2, SolveFollows DEF Solvers
<1>5. FluidScheme!ConvectiveTermsOf(k) = Wanted("fluid")
  BY <1>2, FluidWanted
<1> QED BY <1>1, <1>3, <1>4, <1>5, FluidRules DEF FluidScheme!Cycle

LEMMA FluidEnds ==
  ASSUME SInv, ResetTimeDependentHierarchyData
  PROVE  FluidScheme!End
<1>1. /\ pc = "post" /\ scheme' = scheme /\ step' = step + 1 /\ dtPrevious' = dt
      /\ current'["fluid"] = new["fluid"] /\ oldCurrent'["fluid"] = oldNew["fluid"]
      /\ cycle'["fluid"] = -1 /\ solved'["fluid"] = Nothing
  BY DEF ResetTimeDependentHierarchyData, NewOld, configuration, Solvers
<1>2. cycle["fluid"] = FluidScheme!NumberOfCycles(scheme["fluid"], step = 0)
  BY <1>1, FluidRules DEF SInv, CInv, Turns, CyclesOf, First
<1>3. oldNew["fluid"] = IF scheme["fluid"].type = "NONE" THEN oldCurrent["fluid"]
                        ELSE FluidScheme!Convection("old")
  BY <1>1, FluidConvection DEF SInv, Carried, Start, Solvers
<1> QED BY <1>1, <1>2, <1>3, FluidRules DEF FluidScheme!End

LEMMA FluidStep == SInv /\ [Next]_vars => [FluidScheme!SNext]_(FluidScheme!sVars)
<1> SUFFICES ASSUME SInv, [Next]_vars PROVE FluidScheme!SNext \/ UNCHANGED FluidScheme!sVars
  OBVIOUS
<1>1. CASE RegridHierarchy \/ Restart
  <2>1. /\ pc = "idle" /\ scheme' = scheme /\ step' = step /\ dtPrevious' = dtPrevious
        /\ cycle' = cycle /\ oldCurrent' = oldCurrent /\ solved' = solved
        /\ current'["fluid"] \in {current["fluid"], Projected(current["fluid"])}
    BY <1>1 DEF RegridHierarchy, Restart, FileN, configuration, clock, SInv, Indexed, Solvers
  <2>2. cycle["fluid"] = -1
    BY <2>1 DEF SInv, CInv, Turns
  <2>3. FluidScheme!Between
    BY <2>1, <2>2, FluidRules DEF FluidScheme!Between
  <2> QED BY <2>3 DEF FluidScheme!SNext
<1>2. ASSUME NEW d \in DtValues, PreprocessIntegrateHierarchy(d)
      PROVE  FluidScheme!SNext
  <2>1. /\ pc = "idle" /\ scheme' = scheme /\ step' = step /\ dtPrevious' = dtPrevious
        /\ cycle'["fluid"] = 0 /\ current' = current /\ new' = current
        /\ oldCurrent' = oldCurrent /\ solved' = solved
    BY <1>2 DEF PreprocessIntegrateHierarchy, configuration, Solvers
  <2>2. cycle["fluid"] = -1
    BY <2>1 DEF SInv, CInv, Turns
  <2>3. FluidScheme!Begin
    BY <2>1, <2>2 DEF FluidScheme!Begin
  <2> QED BY <2>3 DEF FluidScheme!SNext
<1>3. CASE UpdateAdvectionVelocity
  BY <1>3 DEF UpdateAdvectionVelocity, configuration, clock, FluidScheme!sVars
<1>4. CASE SolveTransport \/ SolveTransportAgain
  <2>1. /\ pc # "idle" /\ Solve("transport")
        /\ UNCHANGED <<configuration, clock, current, oldCurrent>>
    BY <1>4 DEF SolveTransport, SolveTransportAgain
  <2>2. cycle["transport"] \in Nat
    BY <1>4 DEF SolveTransport, SolveTransportAgain, SInv, CInv, TypeOK, Turns, Solvers
  <2>3. /\ solved'["fluid"] = solved["fluid"] /\ new'["fluid"] = new["fluid"]
        /\ cycle'["fluid"] = cycle["fluid"]
    BY <2>1, <2>2, SolveFollows DEF Solvers
  <2> QED BY <2>1, <2>3 DEF configuration, clock, FluidScheme!sVars
<1>5. CASE SolveFluid
  BY <1>5, FluidCycles DEF FluidScheme!SNext
<1>6. CASE ResetTimeDependentHierarchyData
  BY <1>6, FluidEnds DEF FluidScheme!SNext
<1>7. CASE UNCHANGED vars
  BY <1>7 DEF vars, configuration, clock, FluidScheme!sVars
<1> QED BY <1>1, <1>2, <1>3, <1>4, <1>5, <1>6, <1>7 DEF Next

\* The fluid solver solves exactly the systems of its time stepping scheme:
\* the right-hand side that is kept over the cycles, the scratch term and N_old
\* have the terms that the scheme says, in every cycle of every step, whatever
\* step sizes, regrids and restarts came before (ImplementsFluidScheme).
THEOREM FluidSchemeImplemented == Spec => ImplementsFluidScheme
<1>1. Init => FluidScheme!SInit
  BY FluidRules DEF Init, FluidScheme!SInit, Solvers
<1> QED BY <1>1, FluidStep, SInvariance, PTL DEF Spec, ImplementsFluidScheme, FluidScheme!SSpec
\* The rules of TransportScheme are those of this module.
LEMMA TransportRules ==
  /\ \A r, h, x : TransportScheme!Plus(r, h, x) = Plus(r, h, x)
  /\ \A v, x : TransportScheme!Term(v, x) = Term(v, x)
  /\ \A x, y : TransportScheme!InTime(x, y) = InTime(x, y)
  /\ \A x, y, d, e : TransportScheme!Extrapolated(x, y, d, e) = Extrapolated(x, y, d, e)
  /\ \A x : TransportScheme!Forcing(x) = Forcing(x) /\ TransportScheme!SourceTerm(x) = SourceTerm(x)
  /\ \A m, k : TransportScheme!Iterate(m, k) = Iterate(m, k)
  /\ \A x : TransportScheme!Projected(x) = Projected(x)
  /\ \A s, b, k : TransportScheme!Effective(s, b, k) = Effective(s, b, k)
  /\ \A s, b : TransportScheme!NumberOfCycles(s, b) = NumberOfCycles(s, b)
  /\ TransportScheme!Nothing = Nothing
<1>1. \A r, h, x : TransportScheme!Plus(r, h, x) = Plus(r, h, x)
  BY PlusUnfolded, TransportPlusUnfolded
<1>2. \A v, x : TransportScheme!Term(v, x) = Term(v, x)
  BY Zenon DEF TransportScheme!Term, Term
<1>3. \A x, y : TransportScheme!InTime(x, y) = InTime(x, y)
  BY Zenon DEF TransportScheme!InTime, InTime, TransportScheme!Times, Times
<1>4. \A x, y, d, e : TransportScheme!Extrapolated(x, y, d, e) = Extrapolated(x, y, d, e)
  BY Zenon DEF TransportScheme!Extrapolated, Extrapolated
<1>5. \A x : /\ TransportScheme!Forcing(x) = Forcing(x)
             /\ TransportScheme!SourceTerm(x) = SourceTerm(x)
  BY Zenon DEF TransportScheme!Forcing, Forcing, TransportScheme!SourceTerm, SourceTerm
<1>6. \A m, k : TransportScheme!Iterate(m, k) = Iterate(m, k)
  BY Zenon DEF TransportScheme!Iterate, Iterate
<1>7. \A x : TransportScheme!Projected(x) = Projected(x)
  BY Zenon DEF TransportScheme!Projected, Projected
<1>8. \A s, b, k : TransportScheme!Effective(s, b, k) = Effective(s, b, k)
  BY Zenon DEF TransportScheme!Effective, Effective, TransportScheme!Multistep, Multistep
<1>9. \A s, b : TransportScheme!NumberOfCycles(s, b) = NumberOfCycles(s, b)
  BY Zenon DEF TransportScheme!NumberOfCycles, NumberOfCycles, TransportScheme!Multistep, Multistep
<1>10. TransportScheme!Nothing = Nothing
  BY Zenon DEF TransportScheme!Nothing, Nothing
<1> QED BY <1>1, <1>2, <1>3, <1>4, <1>5, <1>6, <1>7, <1>8, <1>9, <1>10, Zenon

LEMMA TransportConvection == \A t : TransportScheme!Convection(t) = Convective("transport", t)
  BY TransportRules, Zenon DEF TransportScheme!Convection, Convective, Velocity

LEMMA TransportWanted ==
  ASSUME SInv, cycle["transport"] \in Nat
  PROVE  TransportScheme!ConvectiveTermsOf(cycle["transport"]) = Wanted("transport")
<1> DEFINE k == cycle["transport"]
           type == Type("transport", k)
<1>1. type \in Types
  BY TypesOfStep DEF SInv, CInv, TypeOK, Solvers
<1>2. TransportScheme!Effective(scheme["transport"], step = 0, k) = type
  BY TransportRules DEF Type, First
<1>3. TransportScheme!Convection("old") = Start("transport")
  BY TransportConvection DEF Start
<1>4. \A t : TransportScheme!Convection(IF k = 0 THEN "old" ELSE t) = Recent("transport", t)
  BY TransportConvection DEF Recent
<1>5. CASE type = "NONE"
  BY <1>2, <1>5, TransportRules DEF TransportScheme!ConvectiveTermsOf, Wanted
<1>6. CASE type = "FORWARD_EULER"
  BY <1>2, <1>3, <1>6, TransportRules DEF TransportScheme!ConvectiveTermsOf, Wanted
<1>7. CASE type = "MIDPOINT_RULE"
  BY <1>2, <1>4, <1>7, TransportRules DEF TransportScheme!ConvectiveTermsOf, Wanted
<1>8. CASE type = "TRAPEZOIDAL_RULE"
  BY <1>2, <1>3, <1>4, <1>8, TransportRules DEF TransportScheme!ConvectiveTermsOf, Wanted
<1>9. CASE type = "ADAMS_BASHFORTH"
  BY <1>2, <1>3, <1>9, TransportRules DEF TransportScheme!ConvectiveTermsOf, Wanted
<1> QED BY <1>1, <1>5, <1>6, <1>7, <1>8, <1>9 DEF Types, OneStepTypes

\* How the steps of the program look to the advection-diffusion solver.
LEMMA TransportCycles ==
  ASSUME SInv, SolveTransport \/ SolveTransportAgain
  PROVE  TransportScheme!Cycle
<1> DEFINE k == cycle["transport"]
<1>1. /\ pc \in {"transport", "rest"} /\ Solve("transport")
      /\ scheme' = scheme /\ step' = step /\ dt' = dt
      /\ dtPrevious' = dtPrevious /\ current' = current /\ oldCurrent' = oldCurrent
  BY DEF SolveTransport, SolveTransportAgain, configuration, clock
<1>2. k \in Nat /\ CyclesOf("transport") \in Nat /\ k < CyclesOf("transport")
  BY <1>1, CyclesType DEF SInv, CInv, TypeOK, Turns, Solvers
<1>3. k \in 0..(TransportScheme!NumberOfCycles(scheme["transport"], step = 0) - 1)
  BY <1>2, TransportRules DEF CyclesOf, First
<1>4. /\ solved'["transport"] =
             LET forced == Plus(Wanted("transport"), 2, Forcing(Iterate(step + 1, k))) IN
             IF scheme["transport"].sources
             THEN Plus(forced, 2, SourceTerm({current["transport"], new["transport"]})) ELSE forced
      /\ new'["transport"] = Iterate(step + 1, k)
      /\ cycle'["transport"] = k + 1
  BY <1>1, <1>2, SolveFollows DEF Solvers
<1>5. TransportScheme!ConvectiveTermsOf(k) = Wanted("transport")
  BY <1>2, TransportWanted
<1> QED BY <1>1, <1>3, <1>4, <1>5, TransportRules DEF TransportScheme!Cycle

LEMMA TransportEnds ==
  ASSUME SInv, ResetTimeDependentHierarchyData
  PROVE  TransportScheme!End
<1>1. /\ pc = "post" /\ scheme' = scheme /\ step' = step + 1 /\ dtPrevious' = dt
      /\ current'["transport"] = new["transport"] /\ oldCurrent'["transport"] = oldNew["transport"]
      /\ cycle'["transport"] = -1 /\ solved'["transport"] = Nothing
  BY DEF ResetTimeDependentHierarchyData, NewOld, configuration, Solvers
<1>2. cycle["transport"] = TransportScheme!NumberOfCycles(scheme["transport"], step = 0)
  BY <1>1, TransportRules DEF SInv, CInv, Turns, CyclesOf, First
<1>3. oldNew["transport"] = IF scheme["transport"].type = "NONE" THEN oldCurrent["transport"]
                        ELSE TransportScheme!Convection("old")
  BY <1>1, TransportConvection DEF SInv, Carried, Start, Solvers
<1> QED BY <1>1, <1>2, <1>3, TransportRules DEF TransportScheme!End

LEMMA TransportStep == SInv /\ [Next]_vars => [TransportScheme!SNext]_(TransportScheme!sVars)
<1> SUFFICES ASSUME SInv, [Next]_vars PROVE TransportScheme!SNext \/ UNCHANGED TransportScheme!sVars
  OBVIOUS
<1>1. CASE RegridHierarchy \/ Restart
  <2>1. /\ pc = "idle" /\ scheme' = scheme /\ step' = step /\ dtPrevious' = dtPrevious
        /\ cycle' = cycle /\ oldCurrent' = oldCurrent /\ solved' = solved
        /\ current'["transport"] \in {current["transport"], Projected(current["transport"])}
    BY <1>1 DEF RegridHierarchy, Restart, FileN, configuration, clock, SInv, Indexed, Solvers
  <2>2. cycle["transport"] = -1
    BY <2>1 DEF SInv, CInv, Turns
  <2>3. TransportScheme!Between
    BY <2>1, <2>2, TransportRules DEF TransportScheme!Between
  <2> QED BY <2>3 DEF TransportScheme!SNext
<1>2. ASSUME NEW d \in DtValues, PreprocessIntegrateHierarchy(d)
      PROVE  TransportScheme!SNext
  <2>1. /\ pc = "idle" /\ scheme' = scheme /\ step' = step /\ dtPrevious' = dtPrevious
        /\ cycle'["transport"] = 0 /\ current' = current /\ new' = current
        /\ oldCurrent' = oldCurrent /\ solved' = solved
    BY <1>2 DEF PreprocessIntegrateHierarchy, configuration, Solvers
  <2>2. cycle["transport"] = -1
    BY <2>1 DEF SInv, CInv, Turns
  <2>3. TransportScheme!Begin
    BY <2>1, <2>2 DEF TransportScheme!Begin
  <2> QED BY <2>3 DEF TransportScheme!SNext
<1>3. CASE UpdateAdvectionVelocity
  BY <1>3 DEF UpdateAdvectionVelocity, configuration, clock, TransportScheme!sVars
<1>4. CASE SolveFluid
  <2>1. /\ pc # "idle" /\ Solve("fluid")
        /\ UNCHANGED <<configuration, clock, current, oldCurrent>>
    BY <1>4 DEF SolveFluid
  <2>2. cycle["fluid"] \in Nat
    BY <1>4 DEF SolveFluid, SInv, CInv, TypeOK, Turns, Solvers
  <2>3. /\ solved'["transport"] = solved["transport"] /\ new'["transport"] = new["transport"]
        /\ cycle'["transport"] = cycle["transport"]
    BY <2>1, <2>2, SolveFollows DEF Solvers
  <2> QED BY <2>1, <2>3 DEF configuration, clock, TransportScheme!sVars
<1>5. CASE SolveTransport \/ SolveTransportAgain
  BY <1>5, TransportCycles DEF TransportScheme!SNext
<1>6. CASE ResetTimeDependentHierarchyData
  BY <1>6, TransportEnds DEF TransportScheme!SNext
<1>7. CASE UNCHANGED vars
  BY <1>7 DEF vars, configuration, clock, TransportScheme!sVars
<1> QED BY <1>1, <1>2, <1>3, <1>4, <1>5, <1>6, <1>7 DEF Next

\* So does the solver for the transported quantity, with the velocity that its
\* face variable has at the time, and also in the cycles that follow after the
\* only one of the fluid solver (ImplementsTransportScheme).
THEOREM TransportSchemeImplemented == Spec => ImplementsTransportScheme
<1>1. Init => TransportScheme!SInit
  BY TransportRules DEF Init, TransportScheme!SInit, Solvers
<1> QED BY <1>1, TransportStep, SInvariance, PTL
        DEF Spec, ImplementsTransportScheme, TransportScheme!SSpec

=============================================================================
