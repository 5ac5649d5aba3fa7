----------------------- MODULE FACPreconditioner_proofs -----------------------
(***************************************************************************)
(* Proofs about FACPreconditioner for every number of levels, every        *)
(* right-hand side and every choice of cycle and sweeps.                   *)
(***************************************************************************)
EXTENDS FACPreconditioner, TLAPS

\* What a call of a cycle function puts on the stack is a frame.
LEMMA FrameType ==
    ASSUME NEW cycle \in {"V0", "V", "W", "F"}, NEW l \in Level
    PROVE  /\ Frame(cycle, l) \in Frames
           /\ Frame(cycle, l).level = l /\ Frame(cycle, l).at = "begin"
BY DEF Frame, Calls, Frames

\* The innermost call.
LEMMA TopFrame ==
    ASSUME TypeOK, stack # <<>>
    PROVE  /\ 1 \in 1 .. Len(stack) /\ Top = stack[1] /\ Top \in Frames
           /\ Top.level \in Level
           /\ Top.at # "begin" => Top.level > 0 /\ Top.level - 1 \in Level
<1>1. 1 \in 1 .. Len(stack) /\ Top = stack[1] /\ stack[1] \in Frames
  BY DEF TypeOK, Top
<1>2. Top.level \in Level /\ (Top.at # "begin" => Top.level > 0)
  BY <1>1 DEF TypeOK, Nested, Frames
<1> QED BY <1>1, <1>2, LevelAssumption DEF Level

\* Leaving a call keeps the stack well-formed.
LEMMA ReturnNested ==
    ASSUME TypeOK, stack # <<>>, Return, UNCHANGED finest
    PROVE  stack' \in Seq(Frames) /\ Nested'
<1>1. stack' \in Seq(Frames) /\ Len(stack') = Len(stack) - 1
  BY DEF TypeOK, Return
<1>2. \A i \in 1 .. Len(stack') : stack'[i] = stack[i + 1] /\ i + 1 \in 1 .. Len(stack)
  BY <1>1 DEF TypeOK, Return
<1>3. Nested /\ finest \in Int /\ Len(stack) \in Nat
  BY LevelAssumption DEF TypeOK, Level
<1> QED BY <1>1, <1>2, <1>3 DEF Nested

\* Going on within a call of a level above the coarsest keeps it well-formed.
LEMMA GotoNested ==
    ASSUME TypeOK, stack # <<>>, Top.level > 0, UNCHANGED finest,
           NEW place \in {"restrict", "call", "smooth"}, Goto(place)
    PROVE  stack' \in Seq(Frames) /\ Nested'
<1>1. 1 \in 1 .. Len(stack) /\ Top = stack[1] /\ stack[1] \in Frames
  BY DEF TypeOK, Top
<1>2. /\ [stack[1] EXCEPT !.at = place] \in Frames
      /\ [stack[1] EXCEPT !.at = place].level = stack[1].level
  BY <1>1 DEF Frames
<1>3. /\ stack' = [stack EXCEPT ![1] = [stack[1] EXCEPT !.at = place]]
      /\ stack' \in Seq(Frames) /\ Len(stack') = Len(stack)
  BY <1>1, <1>2 DEF TypeOK, Goto
<1>4. \A i \in 1 .. Len(stack) :
        /\ stack'[i].level = stack[i].level
        /\ i > 1 => stack'[i] = stack[i]
  BY <1>1, <1>2, <1>3 DEF TypeOK
<1>5. Nested
  BY DEF TypeOK
<1> QED BY <1>1, <1>3, <1>4, <1>5 DEF Nested

\* A call of the next coarser level keeps the stack well-formed.
LEMMA CallNested ==
    ASSUME TypeOK, CallNextCoarserLevel
    PROVE  stack' \in Seq(Frames) /\ Nested'
<1>1. /\ 1 \in 1 .. Len(stack) /\ Top = stack[1] /\ stack[1] \in Frames
      /\ Top.at = "call" /\ Top.calls # <<>> /\ Top.level > 0
  BY DEF TypeOK, Nested, CallNextCoarserLevel, AtPlace, Top
<1> DEFINE inner == Frame(Head(Top.calls), NextCoarser)
           caller == [Top EXCEPT !.calls = Tail(@)]
<1>2. inner \in Frames /\ inner.level = Top.level - 1 /\ inner.at = "begin"
  <2>1. Head(Top.calls) \in {"V0", "V", "W", "F"}
    BY <1>1 DEF Frames
  <2>2. NextCoarser \in Level /\ NextCoarser = Top.level - 1
    BY <1>1, LevelAssumption DEF Frames, Level, NextCoarser
  <2> QED BY <2>1, <2>2, FrameType
<1>3. caller \in Frames /\ caller.level = Top.level /\ caller.at = Top.at
  <2>1. /\ Tail(<<"V0">>) = <<>> /\ Tail(<<"V">>) = <<>> /\ Tail(<<"W">>) = <<>>
        /\ Tail(<<"W", "W">>) = <<"W">> /\ Tail(<<"W", "V">>) = <<"V">>
    OBVIOUS
  <2>2. Top.calls \in {<<"V0">>, <<"V">>, <<"W">>, <<"W", "W">>, <<"W", "V">>}
    BY <1>1 DEF Frames
  <2>3. Tail(Top.calls) \in {<<>>, <<"V">>, <<"W">>}
    BY <2>1, <2>2
  <2> QED BY <1>1, <2>3 DEF Frames
<1>4. stack' = <<inner, caller>> \o Tail(stack) /\ finest' = finest
  BY DEF CallNextCoarserLevel, settings
<1>5. /\ stack' \in Seq(Frames) /\ Len(stack') = Len(stack) + 1
      /\ stack'[1] = inner /\ stack'[2] = caller
      /\ \A i \in 3 .. Len(stack') : stack'[i] = stack[i - 1] /\ i - 1 \in 1 .. Len(stack)
  <2> HIDE DEF inner, caller
  <2>1. Tail(stack) \in Seq(Frames) /\ Len(Tail(stack)) = Len(stack) - 1
    BY <1>1 DEF TypeOK
  <2>2. \A i \in 1 .. Len(Tail(stack)) : Tail(stack)[i] = stack[i + 1]
    BY <1>1 DEF TypeOK
  <2>3. <<inner, caller>> \in Seq(Frames) /\ Len(<<inner, caller>>) = 2
    BY <1>2, <1>3
  <2> QED BY <1>1, <1>4, <2>1, <2>2, <2>3 DEF TypeOK
<1>6. Nested /\ finest \in Int /\ Len(stack) \in Nat
  BY LevelAssumption DEF TypeOK, Level
<1> QED
  <2> HIDE DEF inner, caller
  <2>1. Top.level = finest - Len(stack) + 1
    BY <1>1, <1>6 DEF Nested
  <2> SUFFICES ASSUME NEW i \in 1 .. Len(stack')
      PROVE  /\ stack'[i].level = finest - Len(stack') + i
             /\ i > 1 \/ stack'[i].at # "begin" => stack'[i].level > 0
    BY <1>4, <1>5 DEF Nested
  <2>2. CASE i = 1
    BY <1>2, <1>5, <1>6, <2>1, <2>2
  <2>3. CASE i = 2
    BY <1>1, <1>3, <1>5, <1>6, <2>1, <2>3
  <2>4. CASE i \in 3 .. Len(stack')
    BY <1>5, <1>6, <2>4 DEF Nested
  <2> QED BY <1>5, <1>6, <2>2, <2>3, <2>4

LEMMA InitType == Init => TypeOK
<1> SUFFICES ASSUME Init PROVE TypeOK
  OBVIOUS
<1>1. 0 \in Level /\ Zero \in [Level -> Int]
  BY LevelAssumption DEF Level, Zero
<1> QED BY <1>1 DEF Init, TypeOK, Nested

\* A relaxation keeps the solution a function of the levels.
LEMMA SmoothType ==
    ASSUME TypeOK, NEW l, NEW sweeps, SmoothError(l, sweeps)
    PROVE  u' \in [Level -> Int]
BY ValueAssumption DEF TypeOK, SmoothError

LEMMA NextType == TypeOK /\ [Next]_vars => TypeOK'
<1> SUFFICES ASSUME TypeOK, [Next]_vars PROVE TypeOK'
  OBVIOUS
<1>0. /\ 0 \in Level /\ Level \subseteq Int /\ grid.finest \in Level /\ grid.top \in Level
      /\ \A l \in Level : l > 0 => l - 1 \in Level
      /\ Zero \in [Level -> Int]
  BY LevelAssumption DEF TypeOK, Level, Grid, Zero
<1>1. CASE InitializeSolverState
  BY <1>0, <1>1 DEF TypeOK, Nested, InitializeSolverState, Idle
<1>2. CASE DeallocateSolverState
  BY <1>2 DEF TypeOK, Nested, DeallocateSolverState
<1>3. CASE Regrid
  BY <1>3 DEF TypeOK, Nested, Regrid
<1>4. ASSUME NEW f \in [Level -> Value], SolveSystem(f) PROVE TypeOK'
  <2>1. /\ f \in [Level -> Int]
        /\ option'.cycle \in {"V0", "V", "W", "F"}
    BY <1>4, ValueAssumption, OptionAssumption DEF TypeOK, SolveSystem
  <2>2. \E c \in {"V0", "V", "W", "F"} : stack' = <<Frame(c, finest')>>
    BY <1>4, <2>1 DEF SolveSystem
  <2>3. stack' \in Seq(Frames) /\ Nested'
    <3>1. finest' \in Level /\ finest' \in Int
      BY <1>0, <1>4 DEF SolveSystem
    <3> QED BY <2>2, <3>1, FrameType DEF Nested
  <2>4. u' \in [Level -> Int] /\ rhs' \in [Level -> Int] /\ given' \in [Level -> Int]
    BY <1>0, <1>4, <2>1 DEF SolveSystem
  <2>5. work' \in [Level -> Int]
    BY <1>4, <2>1 DEF TypeOK, SolveSystem
  <2>6. /\ option' \in Option /\ grid' \in Grid /\ finest' \in Level
        /\ solves' \in Nat
    BY <1>0, <1>4 DEF TypeOK, SolveSystem
  <2>7. /\ initialized' \in BOOLEAN /\ after' \in BOOLEAN /\ recompute' \in BOOLEAN
        /\ solving' /\ solving' \in BOOLEAN
    BY <1>4, Zenon DEF TypeOK, SolveSystem
  <2> QED BY <2>3, <2>4, <2>5, <2>6, <2>7 DEF TypeOK
<1>5. CASE SolveSystemReturns
  BY <1>5 DEF TypeOK, Nested, SolveSystemReturns
<1>6. CASE SolveCoarsestLevel
  <2>1. stack' \in Seq(Frames) /\ Nested'
    BY <1>6, ReturnNested DEF SolveCoarsestLevel, AtPlace, settings
  <2>2. u' \in [Level -> Int]
    BY <1>6 DEF TypeOK, SolveCoarsestLevel, Rhs
  <2> QED BY <1>6, <2>1, <2>2 DEF TypeOK, SolveCoarsestLevel, AtPlace, settings
<1>7. CASE PreSmooth
  <2>1. stack' \in Seq(Frames) /\ Nested'
    BY <1>7, GotoNested DEF PreSmooth, AtPlace, settings
  <2>2. u' \in [Level -> Int]
    BY <1>7, SmoothType DEF PreSmooth
  <2> QED BY <1>7, <2>1, <2>2 DEF TypeOK, PreSmooth, AfterPreSmoothing, AtPlace, settings
<1>8. CASE RestrictResidual
  <2>1. Top.level \in Level /\ Top.level > 0 /\ Top.at = "restrict"
    BY <1>8, TopFrame DEF RestrictResidual, AtPlace
  <2>2. stack' \in Seq(Frames) /\ Nested'
    BY <1>8, <2>1, GotoNested DEF RestrictResidual, AtPlace, settings
  <2> DEFINE l == Top.level
             v == IF recompute THEN Synchronized(l) ELSE u
             r == [k \in Level |-> Rhs[k] - v[k]]
  <2>3. v \in [Level -> Int] /\ Rhs \in [Level -> Int]
    BY <1>0, <2>1 DEF TypeOK, Synchronized, Rhs
  <2>4. r \in [Level -> Int]
    BY <2>3
  <2>5. \A q \in [Level -> Int] : Restricted(q, Rhs, l) \in [Level -> Int]
    BY <1>0, <2>1, <2>3 DEF Restricted
  <2>6. u' = v /\ SetRhs(Restricted(IF recompute THEN r ELSE Rhs, Rhs, l))
    BY <1>8 DEF RestrictResidual
  <2>7. rhs' \in [Level -> Int] /\ work' \in [Level -> Int]
    BY <2>3, <2>4, <2>5, <2>6 DEF SetRhs, TypeOK
  <2> QED BY <1>8, <2>2, <2>3, <2>6, <2>7 DEF TypeOK, RestrictResidual, AtPlace, settings
<1>9. CASE CallNextCoarserLevel
  BY <1>9, CallNested DEF TypeOK, CallNextCoarserLevel, settings
<1>10. CASE ProlongError
  <2>1. Top.level \in Level /\ Top.level > 0 /\ Top.level - 1 \in Level
    BY <1>10, TopFrame DEF ProlongError, AtPlace
  <2>2. stack' \in Seq(Frames) /\ Nested'
    BY <1>10, <2>1, GotoNested DEF ProlongError, AtPlace, settings
  <2>3. u' \in [Level -> Int]
    <3>1. Corrected(Top.level) \in Int
      <4>1. u[Top.level] \in Int /\ u[Top.level - 1] \in Int
        BY <2>1 DEF TypeOK
      <4> QED BY <4>1 DEF Corrected
    <3> QED BY <1>10, <3>1 DEF TypeOK, ProlongError
  <2> QED BY <1>10, <2>2, <2>3 DEF TypeOK, ProlongError, AtPlace, settings
<1>11. CASE PostSmooth
  <2>1. stack' \in Seq(Frames) /\ Nested'
    BY <1>11, ReturnNested DEF PostSmooth, AtPlace, settings
  <2>2. u' \in [Level -> Int]
    BY <1>11, SmoothType DEF PostSmooth
  <2> QED BY <1>11, <2>1, <2>2 DEF TypeOK, PostSmooth, AtPlace, settings
<1>12. CASE UNCHANGED vars
  BY <1>12 DEF vars, TypeOK, Nested
<1> QED
  BY <1>1, <1>2, <1>3, <1>4, <1>5, <1>6, <1>7, <1>8, <1>9, <1>10, <1>11, <1>12
     DEF Next, Cycle

\* The variables keep their types, the recursion is for successive levels and
\* never goes below the coarsest one (TypeOK).
THEOREM TypeCorrect == Spec => []TypeOK
  BY InitType, NextType, PTL DEF Spec

-----------------------------------------------------------------------------
(* The residual flag *)

LEMMA NextFlag == TypeOK /\ ResidualFlag /\ [Next]_vars => ResidualFlag'
<1> SUFFICES ASSUME TypeOK, ResidualFlag, [Next]_vars PROVE ResidualFlag'
  OBVIOUS
<1>1. CASE InitializeSolverState \/ DeallocateSolverState \/ Regrid \/ SolveSystemReturns
  BY <1>1 DEF ResidualFlag, InitializeSolverState, DeallocateSolverState, Regrid,
     SolveSystemReturns, Idle, InPlace
<1>2. ASSUME NEW f \in [Level -> Value], SolveSystem(f) PROVE ResidualFlag'
  BY <1>2 DEF ResidualFlag, SolveSystem
<1>3. CASE SolveCoarsestLevel
  BY <1>3 DEF ResidualFlag, SolveCoarsestLevel, InPlace, settings, TypeOK
<1>4. CASE PreSmooth
  <2>1. option.pre > 0 \/ u' = u
    BY <1>4 DEF PreSmooth, SmoothError
  <2> QED BY <1>4, <2>1 DEF ResidualFlag, PreSmooth, AfterPreSmoothing, InPlace, settings, TypeOK
<1>5. CASE RestrictResidual
  BY <1>5 DEF ResidualFlag, RestrictResidual, InPlace, settings
<1>6. CASE CallNextCoarserLevel
  BY <1>6 DEF ResidualFlag, CallNextCoarserLevel, InPlace, settings
<1>7. CASE ProlongError
  \* Until the flag is set there is only zero to add.
  <2>1. Top.level \in Level /\ Top.level - 1 \in Level
    BY <1>7, TopFrame DEF ProlongError, AtPlace
  <2> SUFFICES ASSUME solving, ~InPlace, ~recompute PROVE u' = Zero
    BY <1>7 DEF ResidualFlag, ProlongError, InPlace, settings
  <2>2. u = Zero
    BY DEF ResidualFlag
  <2> QED BY <1>7, <2>1, <2>2 DEF ProlongError, Corrected, Zero
<1>8. CASE PostSmooth
  <2>1. option.post > 0 \/ u' = u
    BY <1>8 DEF PostSmooth, SmoothError
  <2> QED BY <1>8, <2>1 DEF ResidualFlag, PostSmooth, InPlace, settings, TypeOK
<1>9. CASE UNCHANGED vars
  BY <1>9 DEF vars, ResidualFlag, InPlace
<1> QED
  BY <1>1, <1>2, <1>3, <1>4, <1>5, <1>6, <1>7, <1>8, <1>9 DEF Next, Cycle

\* Whenever the computation of the residual is skipped the right-hand side is the
\* residual (ResidualFlag).
THEOREM ResidualFlagHonest == Spec => []ResidualFlag
<1>1. Init => ResidualFlag
  BY DEF Init, ResidualFlag
<1> QED
  BY <1>1, NextFlag, TypeCorrect, PTL DEF Spec

-----------------------------------------------------------------------------
(***************************************************************************)
(* V-cycles solve the model problem.  The invariant says what each pending *)
(* call knows: the right-hand side of the next coarser level is the        *)
(* residual of its own equation, so the error that comes back is the one   *)
(* that is missing.                                                        *)
(***************************************************************************)

\* The shape of the stack of V-cycles: the outer calls wait for their only
\* recursive call, the innermost one has made it or not.
VFrames ==
    \A i \in 1 .. Len(stack) :
        /\ stack[i].cycle = (IF InPlace THEN "V0" ELSE "V")
        /\ stack[i].at \in {"begin", "restrict"} => stack[i].calls = <<stack[i].cycle>>
        /\ stack[i].at = "call" => stack[i].calls \in {<<>>, <<stack[i].cycle>>}
        /\ i > 1 => stack[i].at = "call" /\ stack[i].calls = <<>>

\* The call for level m has found the solution of its equation at the point.
Solved(m) == LET k == IF m <= grid.top THEN m ELSE grid.top IN u[k] = Rhs[k]

\* The equation of the next coarser level is the one for the error of level l.
ErrorEquation(l) ==
    l <= grid.top => Rhs[l - 1] = (IF InPlace THEN Rhs[l] ELSE Rhs[l] - u[l])

BeforeCall(fr) == fr.at \in {"begin", "restrict"} \/ (fr.at = "call" /\ fr.calls # <<>>)

\* The call for level m is the last one that has returned, or all but relaxed.
Returned(m) ==
    IF stack = <<>> THEN m = finest
    ELSE \/ Top.at = "call" /\ Top.calls = <<>> /\ m = Top.level - 1
         \/ Top.at = "smooth" /\ m = Top.level

VValues ==
    /\ finest = grid.finest
    /\ InPlace => ~recompute
    /\ Rhs[grid.top] = given[grid.top]
    /\ \A i \in 1 .. Len(stack), l \in Level :
        stack[i].at = "call" /\ stack[i].level = l => ErrorEquation(l)
    /\ \A m \in Level : Returned(m) => Solved(m)
    /\ stack # <<>> /\ BeforeCall(Top) /\ Top.level > grid.top => u[grid.top] = 0

VInv == option.cycle = "V" /\ (solving => VFrames /\ VValues)

\* The two cases of Solved.
LEMMA SolvedCases ==
    ASSUME TypeOK, NEW m \in Level, Solved(m)
    PROVE  /\ m <= grid.top => u[m] = Rhs[m]
           /\ ~(m < grid.top) => u[grid.top] = Rhs[grid.top]
<1>1. m \in Int /\ grid.top \in Int
  BY LevelAssumption DEF TypeOK, Grid, Level
<1>2. CASE m <= grid.top
  <2>1. u[m] = Rhs[m]
    BY <1>2 DEF Solved
  <2>2. ~(m < grid.top) => m = grid.top
    BY <1>1, <1>2
  <2> QED BY <2>1, <2>2
<1>3. CASE ~(m <= grid.top)
  BY <1>3 DEF Solved
<1> QED BY <1>2, <1>3

\* The right-hand sides of the cycles are integers.
LEMMA RhsType ==
    ASSUME TypeOK
    PROVE  /\ Rhs \in [Level -> Int] /\ u \in [Level -> Int]
           /\ grid.top \in Level /\ Level \subseteq Int
<1>1. Rhs \in [Level -> Int]
  BY DEF TypeOK, Rhs
<1>2. u \in [Level -> Int] /\ grid.top \in Level
  BY DEF TypeOK, Grid
<1>3. Level \subseteq Int
  BY LevelAssumption DEF Level
<1> QED BY <1>1, <1>2, <1>3

\* The stack after a call has returned.
LEMMA AfterReturn ==
    ASSUME TypeOK, VFrames, stack # <<>>, Return, UNCHANGED option
    PROVE  /\ \A i \in 1 .. Len(stack') : stack'[i] = stack[i + 1] /\ i + 1 \in 2 .. Len(stack)
           /\ VFrames'
           /\ stack' = <<>> => Top.level = finest
           /\ stack' # <<>> =>
                /\ Top'.at = "call" /\ Top'.calls = <<>>
                /\ Top'.level - 1 = Top.level
<1>1. stack' \in Seq(Frames) /\ Len(stack') = Len(stack) - 1 /\ 1 \in 1 .. Len(stack)
  BY DEF TypeOK, Return
<1>2. \A i \in 1 .. Len(stack') : stack'[i] = stack[i + 1] /\ i + 1 \in 2 .. Len(stack)
  BY <1>1 DEF TypeOK, Return
<1>3. VFrames'
  BY <1>1, <1>2, SMTT(30) DEF VFrames, InPlace
<1>4. ASSUME stack' = <<>> PROVE Top.level = finest
  <2>1. Len(stack) = 1
    BY <1>1, <1>4 DEF TypeOK
  <2>2. stack[1].level = finest
    BY <1>1, <2>1, LevelAssumption DEF TypeOK, Nested, Level
  <2> QED BY <2>2, TopFrame
<1>5. ASSUME stack' # <<>>
      PROVE  Top'.at = "call" /\ Top'.calls = <<>> /\ Top'.level - 1 = Top.level
  <2>1. 1 \in 1 .. Len(stack') /\ Top' = stack'[1] /\ 2 \in 1 .. Len(stack) /\ Len(stack) # 1
    BY <1>1, <1>5 DEF Top
  <2>2. Top' = stack[2]
    BY <1>2, <2>1
  <2>3. stack[2] \in Frames
    BY <2>1 DEF TypeOK
  <2>4. stack[2].at = "call" /\ stack[2].calls = <<>>
    BY <2>1 DEF VFrames
  <2>5. stack[1].level = stack[2].level - 1
    BY <1>1, <2>1, LevelAssumption DEF TypeOK, Nested, Level
  <2> QED BY <2>2, <2>4, <2>5, TopFrame
<1> QED BY <1>2, <1>3, <1>4, <1>5

\* The stack when the innermost call has gone on.
LEMMA AfterGoto ==
    ASSUME TypeOK, stack # <<>>, NEW place \in {"restrict", "call", "smooth"}, Goto(place)
    PROVE  /\ stack' # <<>> /\ Len(stack') = Len(stack)
           /\ Top' = stack'[1] /\ Top' = [Top EXCEPT !.at = place]
           /\ Top'.at = place /\ Top'.level = Top.level /\ Top'.calls = Top.calls
           /\ Top'.cycle = Top.cycle
           /\ \A i \in 2 .. Len(stack) : stack'[i] = stack[i]
<1>1. 1 \in 1 .. Len(stack) /\ Top = stack[1] /\ Top \in Frames
  BY TopFrame
<1>2. stack' = [stack EXCEPT ![1] = [Top EXCEPT !.at = place]]
  BY <1>1 DEF Goto
<1>3. [Top EXCEPT !.at = place] \in Frames
  BY <1>1 DEF Frames
<1>4. /\ stack' \in Seq(Frames) /\ Len(stack') = Len(stack)
      /\ stack'[1] = [Top EXCEPT !.at = place]
      /\ \A i \in 2 .. Len(stack) : stack'[i] = stack[i]
  <2>1. stack' \in Seq(Frames) /\ Len(stack') = Len(stack)
    BY <1>1, <1>2, <1>3 DEF TypeOK
  <2>2. \A i \in 1 .. Len(stack) :
          stack'[i] = IF i = 1 THEN [Top EXCEPT !.at = place] ELSE stack[i]
    BY <1>1, <1>2, <1>3 DEF TypeOK
  <2> QED BY <1>1, <2>1, <2>2
<1>5. stack' # <<>> /\ Top' = stack'[1]
  BY <1>1, <1>4 DEF Top
<1> QED BY <1>1, <1>4, <1>5 DEF Frames

\* The stack when the innermost call has made its recursive call.
LEMMA AfterCall ==
    ASSUME TypeOK, VFrames, CallNextCoarserLevel, UNCHANGED option
    PROVE  /\ VFrames'
           /\ stack' # <<>> /\ Top'.at = "begin" /\ Top'.level = Top.level - 1
           /\ Len(stack') = Len(stack) + 1
           /\ stack'[1] = Top'
           /\ stack'[2].at = "call" /\ stack'[2].level = Top.level
           /\ \A i \in 3 .. Len(stack') : stack'[i] = stack[i - 1] /\ i - 1 \in 2 .. Len(stack)
<1> DEFINE inner == Frame(Head(Top.calls), NextCoarser)
           caller == [Top EXCEPT !.calls = Tail(@)]
<1>1. /\ 1 \in 1 .. Len(stack) /\ Top = stack[1] /\ Top \in Frames
      /\ Top.at = "call" /\ Top.calls # <<>> /\ Top.level - 1 \in Level
  BY TopFrame DEF CallNextCoarserLevel, AtPlace
<1>2. Top.cycle \in {"V0", "V"} /\ Top.calls = <<Top.cycle>>
  BY <1>1 DEF VFrames
<1>3. Head(Top.calls) = Top.cycle /\ Tail(Top.calls) = <<>>
  BY <1>2
<1>4. /\ inner \in Frames /\ inner.level = Top.level - 1 /\ inner.at = "begin"
      /\ inner.cycle = Top.cycle /\ inner.calls = <<inner.cycle>>
  BY <1>1, <1>2, <1>3, FrameType DEF NextCoarser, Frame, Calls
<1>5. /\ caller \in Frames /\ caller.level = Top.level /\ caller.at = "call"
      /\ caller.cycle = Top.cycle /\ caller.calls = <<>>
  BY <1>1, <1>3 DEF Frames
<1>6. stack' = <<inner, caller>> \o Tail(stack)
  BY DEF CallNextCoarserLevel
<1> HIDE DEF inner, caller
<1>7. /\ Len(stack') = Len(stack) + 1 /\ stack' # <<>>
      /\ stack'[1] = inner /\ stack'[2] = caller
      /\ \A i \in 3 .. Len(stack') : stack'[i] = stack[i - 1] /\ i - 1 \in 2 .. Len(stack)
  <2>1. Tail(stack) \in Seq(Frames) /\ Len(Tail(stack)) = Len(stack) - 1
    BY <1>1 DEF TypeOK
  <2>2. \A i \in 1 .. Len(Tail(stack)) : Tail(stack)[i] = stack[i + 1]
    BY <1>1 DEF TypeOK
  <2>3. <<inner, caller>> \in Seq(Frames) /\ Len(<<inner, caller>>) = 2
    BY <1>4, <1>5
  <2> QED BY <1>1, <1>6, <2>1, <2>2, <2>3 DEF TypeOK
<1>8. Top' = inner
  BY <1>4, <1>6, <1>7 DEF Top
<1>9. VFrames'
  <2>1. Top.cycle = (IF InPlace THEN "V0" ELSE "V") /\ (InPlace' <=> InPlace)
    BY <1>1 DEF VFrames, InPlace
  <2> SUFFICES ASSUME NEW i \in 1 .. Len(stack')
      PROVE  /\ stack'[i].cycle = (IF InPlace THEN "V0" ELSE "V")
             /\ stack'[i].at \in {"begin", "restrict"} => stack'[i].calls = <<stack'[i].cycle>>
             /\ stack'[i].at = "call" => stack'[i].calls \in {<<>>, <<stack'[i].cycle>>}
             /\ i > 1 => stack'[i].at = "call" /\ stack'[i].calls = <<>>
    BY <2>1 DEF VFrames
  <2>2. CASE i = 1
    BY <1>4, <1>7, <2>1, <2>2
  <2>3. CASE i = 2
    BY <1>5, <1>7, <2>1, <2>3
  <2>4. CASE i \in 3 .. Len(stack')
    BY <1>7, <2>4 DEF VFrames
  <2> QED BY <1>7, <2>2, <2>3, <2>4
<1> QED BY <1>4, <1>5, <1>7, <1>8, <1>9

\* Outer calls are for finer levels.
LEMMA OuterFiner ==
    ASSUME TypeOK, NEW i \in 2 .. Len(stack)
    PROVE  /\ i \in 1 .. Len(stack) /\ stack # <<>>
           /\ stack[i].level \in Level /\ stack[i].level - 1 \in Level
           /\ stack[i].level > Top.level
<1>1. i \in 1 .. Len(stack) /\ 1 \in 1 .. Len(stack) /\ stack # <<>>
  BY DEF TypeOK
<1>2. stack[i] \in Frames /\ Top = stack[1]
  BY <1>1 DEF TypeOK, Top
<1>3. finest \in Int /\ Len(stack) \in Nat
  BY LevelAssumption DEF TypeOK, Level
<1>4. /\ stack[i].level = finest - Len(stack) + i /\ stack[i].level > 0
      /\ stack[1].level = finest - Len(stack) + 1
  BY <1>1 DEF TypeOK, Nested
<1>5. stack[i].level \in Level
  BY <1>2 DEF Frames
<1> QED BY <1>1, <1>2, <1>3, <1>4, <1>5, LevelAssumption DEF Level

LEMMA GotoFrames ==
    ASSUME TypeOK, VFrames, stack # <<>>, NEW place \in {"restrict", "call", "smooth"},
           Goto(place), UNCHANGED option,
           place \in {"restrict", "call"} => Top.at \in {"begin", "restrict"}
    PROVE  VFrames'
<1>1. /\ Len(stack') = Len(stack) /\ Top' = stack'[1] /\ Top'.at = place
      /\ Top'.calls = Top.calls /\ Top'.cycle = Top.cycle
      /\ \A i \in 2 .. Len(stack) : stack'[i] = stack[i]
  BY AfterGoto
<1>2. Top = stack[1] /\ 1 \in 1 .. Len(stack) /\ Len(stack) \in Nat
  BY TopFrame DEF TypeOK
<1>3. Top.cycle = (IF InPlace THEN "V0" ELSE "V") /\ (InPlace' <=> InPlace)
  BY <1>2 DEF VFrames, InPlace
<1> SUFFICES ASSUME NEW i \in 1 .. Len(stack')
    PROVE  /\ stack'[i].cycle = (IF InPlace THEN "V0" ELSE "V")
           /\ stack'[i].at \in {"begin", "restrict"} => stack'[i].calls = <<stack'[i].cycle>>
           /\ stack'[i].at = "call" => stack'[i].calls \in {<<>>, <<stack'[i].cycle>>}
           /\ i > 1 => stack'[i].at = "call" /\ stack'[i].calls = <<>>
  BY <1>3 DEF VFrames
<1>4. CASE i = 1
  <2>1. place \in {"restrict", "call"} => Top.calls = <<Top.cycle>>
    BY <1>2 DEF VFrames
  <2>2. /\ stack'[1].at = place /\ stack'[1].calls = Top.calls
        /\ stack'[1].cycle = Top.cycle
    BY <1>1
  <2>3. place = "restrict" => stack'[1].calls = <<stack'[1].cycle>>
    BY <2>1, <2>2
  <2>4. place = "call" => stack'[1].calls \in {<<>>, <<stack'[1].cycle>>}
    BY <2>1, <2>2
  <2> QED BY <1>3, <1>4, <2>2, <2>3, <2>4
<1>5. CASE i \in 2 .. Len(stack)
  BY <1>1, <1>5 DEF VFrames
<1> QED BY <1>1, <1>2, <1>4, <1>5

\* A call returns with the solution of its equation.
LEMMA ReturnValues ==
    ASSUME TypeOK, VFrames, VValues, stack # <<>>, Return,
           UNCHANGED <<option, grid, finest, given>>, Rhs' = Rhs,
           InPlace => ~recompute',
           NEW L \in Level, L = Top.level,
           \A k \in Level : k > L => u'[k] = u[k],
           Solved(L)'
    PROVE  VFrames' /\ VValues'
<1>1. /\ VFrames'
      /\ \A i \in 1 .. Len(stack') : stack'[i] = stack[i + 1] /\ i + 1 \in 2 .. Len(stack)
      /\ stack' = <<>> => L = finest
      /\ stack' # <<>> => Top'.at = "call" /\ Top'.calls = <<>> /\ Top'.level - 1 = L
  BY AfterReturn
<1>2. (InPlace' <=> InPlace) /\ grid.top \in Level /\ Level \subseteq Int
  BY LevelAssumption DEF InPlace, TypeOK, Grid, Level
<1>3. ASSUME NEW i \in 1 .. Len(stack'), NEW l \in Level,
             stack'[i].at = "call", stack'[i].level = l
      PROVE  ErrorEquation(l)'
  <2>1. l > L /\ l - 1 \in Level
    BY <1>1, <1>3, OuterFiner
  <2>2. ErrorEquation(l)
    BY <1>1, <1>3, OuterFiner DEF VValues
  <2> QED BY <1>2, <2>1, <2>2 DEF ErrorEquation
<1>4. ASSUME NEW m \in Level, Returned(m)' PROVE Solved(m)'
  <2>1. m = L
    BY <1>1, <1>4 DEF Returned
  <2> QED BY <2>1
<1>5. stack' # <<>> => ~BeforeCall(Top)'
  BY <1>1 DEF BeforeCall
<1>6. finest' = grid'.finest /\ (InPlace' => ~recompute')
  BY <1>2 DEF VValues
<1>7. Rhs'[grid'.top] = given'[grid'.top]
  BY DEF VValues
<1> QED BY <1>1, <1>3, <1>4, <1>5, <1>6, <1>7 DEF VValues

LEMMA CoarsestV ==
    ASSUME TypeOK, VFrames, VValues, SolveCoarsestLevel PROVE VFrames' /\ VValues'
<1>1. /\ stack # <<>> /\ Return /\ Top.level = 0 /\ 0 \in Level
      /\ UNCHANGED <<option, grid, finest, given, rhs, work>>
      /\ u' = [u EXCEPT ![0] = Rhs[0]] /\ recompute' = (recompute \/ ~InPlace)
  BY LevelAssumption DEF SolveCoarsestLevel, AtPlace, settings, Level
<1>2. Rhs' = Rhs /\ (InPlace => ~recompute')
  BY <1>1 DEF Rhs, InPlace, VValues
<1>3. \A k \in Level : k > 0 => u'[k] = u[k]
  BY <1>1 DEF TypeOK
<1>4. Solved(0)'
  <2>1. u'[0] = Rhs'[0] /\ 0 <= grid'.top
    BY <1>1, <1>2, LevelAssumption DEF TypeOK, Grid, Level
  <2> QED BY <2>1 DEF Solved
<1> QED BY <1>1, <1>2, <1>3, <1>4, ReturnValues

\* A relaxation finds nothing to do when the corrections have done their work.
LEMMA PostSmoothV ==
    ASSUME TypeOK, VFrames, VValues, PostSmooth PROVE VFrames' /\ VValues'
<1>1. /\ stack # <<>> /\ Return /\ Top.at = "smooth"
      /\ UNCHANGED <<option, grid, finest, given, rhs, work>>
      /\ SmoothError(Top.level, option.post)
      /\ recompute' = (recompute \/ (option.post > 0 /\ ~InPlace))
  BY DEF PostSmooth, AtPlace, settings
<1>2. PICK L \in Level : L = Top.level
  BY <1>1, TopFrame
<1>3. Rhs' = Rhs /\ (InPlace => ~recompute')
  BY <1>1 DEF Rhs, InPlace, VValues
<1>4. Solved(L)
  BY <1>1, <1>2 DEF VValues, Returned
<1>5. u' = u
  BY <1>1, <1>2, <1>4 DEF SmoothError, Solved, At
<1>6. Solved(L)'
  BY <1>1, <1>3, <1>4, <1>5 DEF Solved
<1> QED BY <1>1, <1>2, <1>3, <1>5, <1>6, ReturnValues

\* The equations of outer calls do not see what happens on coarser levels.
LEMMA OuterErrors ==
    ASSUME TypeOK, VFrames, VValues, UNCHANGED <<option, grid>>, NEW L \in Level, L = Top.level,
           \A k \in Level : k > L => u'[k] = u[k],
           \A k \in Level : k >= L => Rhs'[k] = Rhs[k],
           NEW i \in 2 .. Len(stack), NEW l \in Level, stack[i].level = l
    PROVE  ErrorEquation(l)'
<1>1. (InPlace' <=> InPlace) /\ Level \subseteq Int
  BY LevelAssumption DEF InPlace, Level
<1>2. /\ i \in 1 .. Len(stack) /\ stack[i].at = "call"
      /\ l > L /\ l - 1 \in Level
  BY OuterFiner DEF VFrames
<1>3. ErrorEquation(l)
  BY <1>2 DEF VValues
<1> QED BY <1>1, <1>2, <1>3 DEF ErrorEquation

LEMMA PreSmoothV ==
    ASSUME TypeOK, VFrames, VValues, PreSmooth PROVE VFrames' /\ VValues'
<1>1. /\ stack # <<>> /\ Goto("restrict") /\ Top.at = "begin"
      /\ UNCHANGED <<option, grid, finest, given, rhs, work>>
      /\ SmoothError(Top.level, option.pre)
      /\ recompute' = (recompute \/ option.pre > 0)
  BY DEF PreSmooth, AtPlace, settings, AfterPreSmoothing
<1>2. PICK L \in Level : L = Top.level
  BY <1>1, TopFrame
<1>3. Rhs' = Rhs /\ (InPlace' <=> InPlace) /\ (InPlace' => ~recompute')
  <2>1. Rhs' = Rhs /\ (InPlace' <=> InPlace) /\ (InPlace => ~recompute)
    BY <1>1 DEF Rhs, InPlace, VValues
  <2>2. InPlace => ~(option.pre > 0)
    BY DEF InPlace
  <2> QED BY ZenonT(30), <1>1, <2>1, <2>2
<1>4. grid.top \in Level /\ Level \subseteq Int /\ u \in [Level -> Int]
  BY LevelAssumption DEF TypeOK, Grid, Level
<1>5. (\A k \in Level : k > L => u'[k] = u[k]) /\ (L > grid.top => u' = u)
  BY <1>1, <1>2, <1>4 DEF SmoothError, At
<1>6. /\ VFrames'
      /\ stack' # <<>> /\ Len(stack') = Len(stack)
      /\ Top'.at = "restrict" /\ Top'.level = L /\ stack'[1] = Top'
      /\ \A i \in 2 .. Len(stack) : stack'[i] = stack[i]
  BY <1>1, <1>2, AfterGoto, GotoFrames
<1>7. ASSUME NEW i \in 1 .. Len(stack'), NEW l \in Level,
             stack'[i].at = "call", stack'[i].level = l
      PROVE  ErrorEquation(l)'
  <2>1. i \in 2 .. Len(stack) /\ stack[i].level = l
    BY <1>6, <1>7
  <2> QED BY <1>1, <1>2, <1>3, <1>5, <2>1, OuterErrors
<1>8. \A m \in Level : ~Returned(m)'
  BY <1>6 DEF Returned
<1>9. BeforeCall(Top)' /\ Top'.level > grid'.top => u'[grid'.top] = 0
  BY <1>1, <1>2, <1>5, <1>6 DEF VValues, BeforeCall
<1>10. finest' = grid'.finest /\ Rhs'[grid'.top] = given'[grid'.top]
  BY <1>1, <1>3 DEF VValues
<1> QED BY <1>3, <1>6, <1>7, <1>8, <1>9, <1>10 DEF VValues

\* The error that comes back solves the equation it was computed for.
LEMMA ProlongV ==
    ASSUME TypeOK, VFrames, VValues, ProlongError PROVE VFrames' /\ VValues'
<1>1. /\ stack # <<>> /\ Goto("smooth") /\ Top.at = "call" /\ Top.calls = <<>>
      /\ UNCHANGED <<option, grid, finest, given, rhs, work, recompute>>
      /\ u' = IF At(Top.level) THEN [u EXCEPT ![Top.level] = Corrected(Top.level)] ELSE u
  BY DEF ProlongError, AtPlace, settings
<1>2. PICK L \in Level : L = Top.level
  BY <1>1, TopFrame
<1>3. Rhs' = Rhs /\ (InPlace' <=> InPlace) /\ (InPlace' => ~recompute')
  BY <1>1 DEF Rhs, InPlace, VValues
<1>4. /\ Rhs \in [Level -> Int] /\ u \in [Level -> Int]
      /\ grid.top \in Level /\ Level \subseteq Int
  BY RhsType
<1>5. (\A k \in Level : k > L => u'[k] = u[k]) /\ L > 0 /\ L - 1 \in Level
  BY <1>1, <1>2, <1>4, TopFrame
<1>6. /\ VFrames'
      /\ stack' # <<>> /\ Len(stack') = Len(stack)
      /\ Top'.at = "smooth" /\ Top'.level = L /\ stack'[1] = Top'
      /\ \A i \in 2 .. Len(stack) : stack'[i] = stack[i]
  BY <1>1, <1>2, AfterGoto, GotoFrames
<1>7. ASSUME NEW i \in 1 .. Len(stack'), NEW l \in Level,
             stack'[i].at = "call", stack'[i].level = l
      PROVE  ErrorEquation(l)'
  <2>1. i \in 2 .. Len(stack) /\ stack[i].level = l
    BY <1>6, <1>7
  <2> QED BY <1>1, <1>2, <1>3, <1>5, <2>1, OuterErrors
<1>8. Solved(L)'
  <2>1. Solved(L - 1)
    BY <1>1, <1>2, <1>5 DEF VValues, Returned
  <2>2. CASE L <= grid.top
    <3>1. ErrorEquation(L)
      BY <1>1, <1>2, TopFrame DEF VValues
    <3>2. u[L - 1] = Rhs[L - 1]
      BY <1>2, <1>4, <1>5, <2>1, <2>2, SolvedCases
    <3>3. Rhs[L - 1] = (IF InPlace THEN Rhs[L] ELSE Rhs[L] - u[L])
      BY <2>2, <3>1 DEF ErrorEquation
    <3>4. Corrected(L) = Rhs[L]
      BY <1>4, <1>5, <3>2, <3>3 DEF Corrected
    <3>5. u'[L] = Rhs'[L]
      BY <1>1, <1>2, <1>3, <1>4, <2>2, <3>4 DEF At
    <3> QED BY <1>1, <2>2, <3>5 DEF Solved
  <2>3. CASE ~(L <= grid.top)
    <3>1. u' = u
      BY <1>1, <1>2, <2>3 DEF At
    <3>2. u[grid.top] = Rhs[grid.top]
      <4>1. ~(L - 1 < grid.top)
        BY <1>2, <1>4, <2>3
      <4> QED BY <1>5, <2>1, <4>1, SolvedCases
    <3> QED BY <1>1, <1>3, <2>3, <3>1, <3>2 DEF Solved
  <2> QED BY <2>2, <2>3
<1>9. \A m \in Level : Returned(m)' => Solved(m)'
  <2> SUFFICES ASSUME NEW m \in Level, Returned(m)' PROVE Solved(m)'
    OBVIOUS
  <2>1. m = L
    BY <1>6 DEF Returned
  <2> QED BY <1>8, <2>1
<1>10. ~BeforeCall(Top)'
  BY <1>6 DEF BeforeCall
<1>11. finest' = grid'.finest /\ Rhs'[grid'.top] = given'[grid'.top]
  BY <1>1, <1>3 DEF VValues
<1> QED BY <1>3, <1>6, <1>7, <1>9, <1>10, <1>11 DEF VValues

\* The residual that goes to the next coarser level is that of the equation of
\* the call, with the solution that is kept.
LEMMA RestrictV ==
    ASSUME TypeOK, ResidualFlag, solving, VFrames, VValues, RestrictResidual
    PROVE  VFrames' /\ VValues'
<1>1. /\ stack # <<>> /\ Goto("call") /\ Top.at = "restrict"
      /\ UNCHANGED <<option, grid, finest, given, recompute>>
  BY DEF RestrictResidual, AtPlace, settings
<1>2. PICK L \in Level : L = Top.level
  BY <1>1, TopFrame
<1> DEFINE v == IF recompute THEN Synchronized(L) ELSE u
           r == [k \in Level |-> Rhs[k] - v[k]]
           f == Restricted(IF recompute THEN r ELSE Rhs, Rhs, L)
<1>3. u' = v /\ SetRhs(f)
  BY <1>2 DEF RestrictResidual
<1>4. /\ Rhs \in [Level -> Int] /\ u \in [Level -> Int]
      /\ grid.top \in Level /\ Level \subseteq Int
  BY RhsType
<1>5. L > 0 /\ L - 1 \in Level
  BY <1>1, <1>2, TopFrame
<1>6. /\ \A k \in Level : k >= L => v[k] = u[k]
      /\ v[grid.top] = u[grid.top]
  BY <1>2, <1>4, <1>5 DEF Synchronized
<1> HIDE DEF v
<1>7. (InPlace' <=> InPlace) /\ Rhs' = f
  BY <1>1, <1>3 DEF InPlace, SetRhs, Rhs
<1>8. \A k \in Level : k # L - 1 => f[k] = Rhs[k]
  BY <1>4 DEF Restricted
<1>9. \A k \in Level : k >= L => Rhs'[k] = Rhs[k] /\ u'[k] = u[k]
  BY <1>2, <1>3, <1>4, <1>6, <1>7, <1>8
<1>10. f[L - 1] = LET q == IF recompute THEN r ELSE Rhs
                  IN  IF L <= grid.top THEN q[L]
                      ELSE IF L - 1 <= grid.top THEN q[L - 1] ELSE Rhs[L - 1]
  BY <1>4, <1>5 DEF Restricted, At
<1>11. ErrorEquation(L)'
  <2> SUFFICES ASSUME L <= grid.top
               PROVE  Rhs'[L - 1] = (IF InPlace THEN Rhs[L] ELSE Rhs[L] - u[L])
    BY <1>1, <1>4, <1>7, <1>9 DEF ErrorEquation
  <2>1. Rhs'[L - 1] = (IF recompute THEN Rhs[L] - u[L] ELSE Rhs[L])
    BY <1>4, <1>6, <1>7, <1>10
  <2>2. InPlace => ~recompute
    BY DEF VValues
  <2>3. ~InPlace /\ ~recompute => u[L] = 0
    BY DEF ResidualFlag, Zero
  <2>4. Rhs[L] \in Int /\ u[L] \in Int
    BY <1>4
  <2>5. CASE InPlace
    BY <2>1, <2>2, <2>5
  <2>6. CASE ~InPlace
    BY <2>1, <2>3, <2>4, <2>6
  <2> QED BY <2>5, <2>6
<1>12. L > grid.top => u[grid.top] = 0
  BY <1>1, <1>2 DEF VValues, BeforeCall
<1>13. Rhs'[grid.top] = Rhs[grid.top]
  <2>1. CASE L <= grid.top
    BY <1>4, <1>9, <2>1
  <2>2. CASE L - 1 = grid.top
    <3>1. ~(L <= grid.top) /\ L - 1 <= grid.top /\ L > grid.top
      BY <1>2, <1>4, <2>2
    <3>2. Rhs'[grid.top] = (IF recompute THEN Rhs[grid.top] - v[grid.top] ELSE Rhs[grid.top])
      BY <1>4, <1>7, <1>10, <2>2, <3>1
    <3>3. v[grid.top] = 0 /\ Rhs[grid.top] \in Int
      BY <1>4, <1>6, <1>12, <3>1
    <3>4. Rhs[grid.top] - v[grid.top] = Rhs[grid.top]
      BY <3>3
    <3> QED BY <3>2, <3>4
  <2>3. CASE L - 1 > grid.top
    BY <1>2, <1>4, <1>7, <1>8, <2>3
  <2> QED BY <1>2, <1>4, <2>1, <2>2, <2>3
<1>14. /\ VFrames'
       /\ stack' # <<>> /\ Len(stack') = Len(stack)
       /\ Top'.at = "call" /\ Top'.level = L /\ Top'.calls = Top.calls
       /\ stack'[1] = Top'
       /\ \A i \in 2 .. Len(stack) : stack'[i] = stack[i]
  BY <1>1, <1>2, AfterGoto, GotoFrames
<1>15. ASSUME NEW i \in 1 .. Len(stack'), NEW l \in Level,
              stack'[i].at = "call", stack'[i].level = l
       PROVE  ErrorEquation(l)'
  <2>1. CASE i = 1
    <3>1. l = L
      BY <1>14, <1>15, <2>1
    <3> QED BY <1>11, <3>1
  <2>2. CASE i # 1
    <3>1. i \in 2 .. Len(stack) /\ stack[i].level = l
      BY <1>14, <1>15, <2>2
    <3>2. \A k \in Level : k > L => u'[k] = u[k]
      BY <1>4, <1>9
    <3>3. \A k \in Level : k >= L => Rhs'[k] = Rhs[k]
      BY <1>9
    <3> QED BY <1>1, <1>2, <3>1, <3>2, <3>3, OuterErrors
  <2> QED BY <2>1, <2>2
<1>16. \A m \in Level : ~Returned(m)'
  <2>1. Top'.calls # <<>>
    <3>1. Top = stack[1] /\ 1 \in 1 .. Len(stack)
      BY <1>1, TopFrame
    <3>2. Top.calls = <<Top.cycle>>
      BY <1>1, <3>1 DEF VFrames
    <3> QED BY <1>14, <3>2
  <2> QED BY <1>14, <2>1 DEF Returned
<1>17. BeforeCall(Top)' /\ Top'.level > grid'.top => u'[grid'.top] = 0
  BY <1>1, <1>3, <1>6, <1>12, <1>14
<1>18. /\ finest' = grid'.finest /\ Rhs'[grid'.top] = given'[grid'.top]
       /\ InPlace' => ~recompute'
  BY <1>1, <1>7, <1>13 DEF VValues
<1> QED BY <1>14, <1>15, <1>16, <1>17, <1>18 DEF VValues

LEMMA CallV ==
    ASSUME TypeOK, VFrames, VValues, CallNextCoarserLevel PROVE VFrames' /\ VValues'
<1>1. /\ stack # <<>> /\ Top.at = "call" /\ Top.calls # <<>>
      /\ UNCHANGED <<option, grid, finest, given, u, rhs, work, recompute>>
  BY DEF CallNextCoarserLevel, AtPlace, settings
<1>2. PICK L \in Level : L = Top.level
  BY <1>1, TopFrame
<1>3. /\ VFrames'
      /\ stack' # <<>> /\ Top'.at = "begin" /\ Top'.level = L - 1
      /\ Len(stack') = Len(stack) + 1 /\ stack'[1] = Top'
      /\ stack'[2].at = "call" /\ stack'[2].level = L
      /\ \A i \in 3 .. Len(stack') : stack'[i] = stack[i - 1] /\ i - 1 \in 2 .. Len(stack)
  BY <1>1, <1>2, AfterCall
<1>4. Rhs' = Rhs /\ (InPlace' <=> InPlace)
  BY <1>1 DEF Rhs, InPlace
<1>5. \A l \in Level : ErrorEquation(l) => ErrorEquation(l)'
  BY <1>1, <1>4 DEF ErrorEquation
<1>6. ASSUME NEW i \in 1 .. Len(stack'), NEW l \in Level,
             stack'[i].at = "call", stack'[i].level = l
      PROVE  ErrorEquation(l)
  <2>1. i # 1
    BY <1>3, <1>6
  <2>2. CASE i = 2
    <3>1. Top = stack[1] /\ 1 \in 1 .. Len(stack) /\ Top.level = l
      BY <1>1, <1>2, <1>3, <1>6, <2>2, TopFrame
    <3> QED BY <1>1, <3>1 DEF VValues
  <2>3. CASE i \in 3 .. Len(stack')
    <3>1. i - 1 \in 1 .. Len(stack) /\ stack[i - 1].at = "call" /\ stack[i - 1].level = l
      BY <1>3, <1>6, <2>3
    <3> QED BY <3>1 DEF VValues
  <2> QED BY <2>1, <2>2, <2>3
<1>7. \A m \in Level : ~Returned(m)'
  BY <1>3 DEF Returned
<1>8. Top'.level > grid.top => u[grid.top] = 0
  <2>1. L - 1 > grid.top => L > grid.top
    BY <1>2, RhsType
  <2>2. L > grid.top => u[grid.top] = 0
    BY <1>1, <1>2 DEF VValues, BeforeCall
  <2> QED BY <1>3, <2>1, <2>2
<1>9. finest' = grid'.finest /\ Rhs'[grid'.top] = given'[grid'.top] /\ (InPlace' => ~recompute')
  BY <1>1, <1>4 DEF VValues
<1> QED BY <1>1, <1>3, <1>5, <1>6, <1>7, <1>8, <1>9 DEF VValues

\* A solve starts from zero with the right-hand side of the caller.
LEMMA SolveV ==
    ASSUME TypeOK, option.cycle = "V", NEW f \in [Level -> Value], SolveSystem(f)
    PROVE  VFrames' /\ VValues'
<1> DEFINE fr == Frame(IF InPlace THEN "V0" ELSE option.cycle, finest')
<1>1. /\ stack' = <<fr>> /\ finest' = grid.finest /\ UNCHANGED <<option, grid>>
      /\ u' = Zero /\ recompute' = FALSE /\ rhs' = f /\ given' = f
      /\ work' = IF InPlace THEN work ELSE f
  BY DEF SolveSystem
<1>2. (InPlace' <=> InPlace) /\ Rhs' = f
  BY <1>1 DEF InPlace, Rhs
<1>3. /\ fr.cycle = (IF InPlace THEN "V0" ELSE "V") /\ fr.at = "begin"
      /\ fr.calls = <<fr.cycle>>
  BY DEF Frame, Calls
<1> HIDE DEF fr
<1>4. Len(stack') = 1 /\ stack'[1] = fr /\ Top' = fr /\ stack' # <<>>
  BY <1>1 DEF Top
<1>5. VFrames'
  BY <1>2, <1>3, <1>4 DEF VFrames
<1>6. \A m \in Level : ~Returned(m)'
  BY <1>3, <1>4 DEF Returned
<1>7. \A i \in 1 .. Len(stack') : stack'[i].at # "call"
  BY <1>3, <1>4
<1>8. u'[grid'.top] = 0
  BY <1>1, RhsType DEF Zero
<1> QED BY <1>1, <1>2, <1>5, <1>6, <1>7, <1>8 DEF VValues

LEMMA NextV == TypeOK /\ ResidualFlag /\ VInv /\ [Next]_vars => VInv'
<1> SUFFICES ASSUME TypeOK, ResidualFlag, VInv, [Next]_vars PROVE VInv'
  OBVIOUS
<1>1. option.cycle = "V" /\ option' = option
  BY DEF VInv, Next, Cycle, vars, settings, InitializeSolverState, DeallocateSolverState,
     Regrid, SolveSystem, SolveSystemReturns, SolveCoarsestLevel, PreSmooth,
     RestrictResidual, CallNextCoarserLevel, ProlongError, PostSmooth
<1>2. CASE InitializeSolverState \/ DeallocateSolverState \/ Regrid \/ SolveSystemReturns
  BY <1>1, <1>2 DEF VInv, InitializeSolverState, DeallocateSolverState, Regrid,
     SolveSystemReturns, Idle
<1>3. ASSUME NEW f \in [Level -> Value], SolveSystem(f) PROVE VInv'
  BY <1>1, <1>3, SolveV DEF VInv
<1>4. ASSUME Cycle PROVE VInv'
  <2>1. solving
    BY <1>4 DEF Cycle, AtPlace, SolveCoarsestLevel, PreSmooth, RestrictResidual,
       CallNextCoarserLevel, ProlongError, PostSmooth
  <2>2. VFrames /\ VValues
    BY <2>1 DEF VInv
  <2>3. VFrames' /\ VValues'
    BY <1>4, <2>1, <2>2, CoarsestV, PreSmoothV, RestrictV, CallV, ProlongV, PostSmoothV
       DEF Cycle
  <2> QED BY <1>1, <2>3 DEF VInv
<1>5. CASE UNCHANGED vars
  BY <1>1, <1>5 DEF vars, VInv, VFrames, VValues, InPlace, Rhs, ErrorEquation, Returned,
     Solved, BeforeCall, Top
<1> QED BY <1>2, <1>3, <1>4, <1>5 DEF Next

\* V-cycles, with presmoothing or without, solve the model problem exactly
\* (CycleSolves) however many levels there are, wherever the point lies and
\* whatever the relaxations do.
THEOREM VCycleSolves == Spec /\ option.cycle = "V" => []CycleSolves
<1>1. Init /\ option.cycle = "V" => VInv
  BY DEF Init, VInv
<1>2. TypeOK /\ VInv => CycleSolves
  <2> SUFFICES ASSUME TypeOK, VInv, solving, stack = <<>>
               PROVE  u[grid.top] = given[grid.top]
    BY DEF CycleSolves
  <2>1. VValues
    BY DEF VInv
  <2>2. finest \in Level /\ ~(finest < grid.top)
    BY <2>1, LevelAssumption DEF VValues, TypeOK, Grid, Level
  <2>3. Solved(finest)
    BY <2>1, <2>2 DEF VValues, Returned
  <2>4. PICK m \in Level : m = finest
    BY <2>2
  <2>5. u[grid.top] = Rhs[grid.top]
    BY <2>2, <2>3, <2>4, SolvedCases
  <2> QED BY <2>1, <2>5 DEF VValues
<1> QED
  BY <1>1, <1>2, NextV, NextFlag, TypeCorrect, ResidualFlagHonest, PTL DEF Spec
=============================================================================
