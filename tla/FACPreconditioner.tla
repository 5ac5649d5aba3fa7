--------------------------- MODULE FACPreconditioner ---------------------------
(***************************************************************************)
(* The multigrid cycles of FACPreconditioner with the grid transfers of    *)
(* PoissonFACPreconditionerStrategy and the residual of                    *)
(* CCPoissonPointRelaxationFACOperator.                                    *)
(*                                                                         *)
(* The model follows one point of the domain that the levels 0 .. top      *)
(* cover, in a hierarchy of the levels 0 .. finest, and the model problem  *)
(* u = f: transfers copy the value at the point, the coarsest solve is     *)
(* exact and a relaxation changes u by any amount unless its residual is   *)
(* zero.  Whether the cycles keep the residuals, errors and corrections of *)
(* the levels consistent does not depend on more than that.                *)
(***************************************************************************)
EXTENDS Integers, Sequences

CONSTANTS
    MaxLevel,     \* bound: finest level of any hierarchy
    Value,        \* bound: values of the right-hand side
    Change,       \* bound: what a relaxation may add
    Option,       \* settings: [cycle |-> "V", "W" or "F", pre, post |-> numbers of sweeps]
    MaxSolves     \* bound: number of solves

ASSUME LevelAssumption == MaxLevel \in Nat
ASSUME ValueAssumption == Value \subseteq Int /\ Change \subseteq Int
ASSUME OptionAssumption == Option \subseteq [cycle : {"V", "W", "F"}, pre : Nat, post : Nat]

VARIABLES
    option,       \* d_cycle_type, d_num_pre_sweeps and d_num_post_sweeps
    grid,         \* the hierarchy: its finest level, and the finest at the point
    initialized,  \* d_is_initialized
    finest,       \* d_finest_ln
    after,        \* deallocate_after_solve
    solving,      \* in solveSystem
    stack,        \* the calls of the cycle functions, innermost first
    u,            \* u[l]: the solution on level l at the point
    rhs,          \* rhs[l]: the right-hand side of the caller
    work,         \* work[l]: d_f, a copy of it
    recompute,    \* d_recompute_residual
    given,        \* history: rhs at the start of the solve
    solves        \* number of solves so far (for the bound only)

vars == <<option, grid, initialized, finest, after, solving, stack, u, rhs, work,
          recompute, given, solves>>
settings == <<option, grid, initialized, finest, after, given, solves>>

Level == 0 .. MaxLevel
Zero == [l \in Level |-> 0]
Grid == {g \in [finest : Level, top : Level] : g.top <= g.finest}

\* Level l has cells at the point; the cell of level l is covered by a finer one.
At(l) == l <= grid.top
Covered(l) == l < grid.top

(***************************************************************************)
(* The four functions differ in what they call on the next coarser level.  *)
(* "V0" is FACVCycleNoPreSmoothing.                                        *)
(***************************************************************************)
Calls(cycle) ==
    CASE cycle = "V0" -> <<"V0">>
      [] cycle = "V" -> <<"V">>
      [] cycle = "W" -> <<"W", "W">>
      [] cycle = "F" -> <<"W", "V">>

Frame(cycle, l) == [cycle |-> cycle, level |-> l, at |-> "begin", calls |-> Calls(cycle)]

\* V-cycles without presmoothing work on the vector of the caller.
InPlace == option.cycle = "V" /\ option.pre = 0
Rhs == IF InPlace THEN rhs ELSE work
SetRhs(f) == IF InPlace THEN rhs' = f /\ UNCHANGED work ELSE work' = f /\ UNCHANGED rhs

Top == Head(stack)
AtPlace(place) == solving /\ stack # <<>> /\ Top.at = place
Goto(place) == stack' = [stack EXCEPT ![1].at = place]
Return == stack' = Tail(stack)

(***************************************************************************)
(* Setting up.  The owners of a solver deallocate or initialize its state  *)
(* again when the hierarchy changes.                                       *)
(***************************************************************************)
Idle == ~solving
InitializeSolverState ==
    /\ Idle
    /\ initialized' = TRUE
    /\ finest' = grid.finest
    /\ UNCHANGED <<option, grid, after, solving, stack, u, rhs, work, recompute, given, solves>>

DeallocateSolverState ==
    /\ Idle /\ initialized
    /\ initialized' = FALSE
    /\ UNCHANGED <<option, grid, finest, after, solving, stack, u, rhs, work, recompute,
                   given, solves>>

Regrid ==
    /\ Idle /\ ~initialized
    /\ grid' \in Grid
    /\ UNCHANGED <<option, initialized, finest, after, solving, stack, u, rhs, work,
                   recompute, given, solves>>

\* The right-hand side on covered cells is whatever the caller left there.
SolveSystem(f) ==
    /\ Idle /\ solves < MaxSolves
    /\ solves' = solves + 1
    /\ after' = ~initialized
    /\ initialized' = TRUE
    /\ finest' = grid.finest
    /\ solving' = TRUE
    /\ rhs' = f /\ given' = f
    /\ u' = Zero
    /\ recompute' = FALSE
    /\ work' = IF InPlace THEN work ELSE f
    /\ stack' = <<Frame(IF InPlace THEN "V0" ELSE option.cycle, finest')>>
    /\ UNCHANGED <<option, grid>>

SolveSystemReturns ==
    /\ solving /\ stack = <<>>
    /\ solving' = FALSE
    /\ initialized' = ~after
    /\ UNCHANGED <<option, grid, finest, after, stack, u, rhs, work, recompute, given, solves>>

(***************************************************************************)
(* One call of a cycle function.                                           *)
(***************************************************************************)
SolveCoarsestLevel ==
    /\ AtPlace("begin") /\ Top.level = 0
    /\ u' = [u EXCEPT ![0] = Rhs[0]]
    /\ recompute' = (recompute \/ ~InPlace)
    /\ Return
    /\ UNCHANGED <<settings, solving, rhs, work>>

\* smoothError: a relaxation keeps a solution that it finds.
SmoothError(l, sweeps) ==
    IF sweeps > 0 /\ At(l) /\ u[l] # Rhs[l]
    THEN \E c \in Change : u' = [u EXCEPT ![l] = @ + c]
    ELSE UNCHANGED u

ForgetPreSmoothing == recompute                                      \* mutant
AfterPreSmoothing == recompute \/ option.pre > 0

PreSmooth ==
    /\ AtPlace("begin") /\ Top.level > 0
    /\ SmoothError(Top.level, option.pre)
    /\ recompute' = AfterPreSmoothing
    /\ Goto("restrict")
    /\ UNCHANGED <<settings, solving, rhs, work>>

\* fillData, which computeResidual calls on the levels l - 1 and l, first
\* replaces the solution on covered cells by that of the next finer level.
Synchronized(l) ==
    [k \in Level |-> IF k \in {l - 2, l - 1} /\ k < grid.top
                     THEN u[IF l <= grid.top THEN l ELSE l - 1] ELSE u[k]]

\* The whole level l - 1 is copied first when the residual is another vector.
Restricted(r, f, l) ==
    [f EXCEPT ![l - 1] = IF At(l) THEN r[l] ELSE IF At(l - 1) THEN r[l - 1] ELSE @]

RestrictResidual ==
    /\ AtPlace("restrict")
    /\ LET l == Top.level
           v == IF recompute THEN Synchronized(l) ELSE u
           r == [k \in Level |-> Rhs[k] - v[k]]
       IN /\ u' = v
          /\ SetRhs(Restricted(IF recompute THEN r ELSE Rhs, Rhs, l))
    /\ Goto("call")
    /\ UNCHANGED <<settings, solving, recompute>>

SameLevel == Top.level                                               \* mutant
NextCoarser == Top.level - 1

CallNextCoarserLevel ==
    /\ AtPlace("call") /\ Top.calls # <<>>
    /\ stack' = <<Frame(Head(Top.calls), NextCoarser), [Top EXCEPT !.calls = Tail(@)]>>
                \o Tail(stack)
    /\ UNCHANGED <<settings, solving, u, rhs, work, recompute>>

\* prolongError replaces the solution, prolongErrorAndCorrect adds to it.
ReplacedByError(l) == u[l - 1]                                       \* mutant
Corrected(l) == IF InPlace THEN u[l - 1] ELSE u[l] + u[l - 1]

ProlongError ==
    /\ AtPlace("call") /\ Top.calls = <<>>
    /\ u' = IF At(Top.level) THEN [u EXCEPT ![Top.level] = Corrected(Top.level)] ELSE u
    /\ Goto("smooth")
    /\ UNCHANGED <<settings, solving, rhs, work, recompute>>

PostSmooth ==
    /\ AtPlace("smooth")
    /\ SmoothError(Top.level, option.post)
    /\ recompute' = (recompute \/ (option.post > 0 /\ ~InPlace))
    /\ Return
    /\ UNCHANGED <<settings, solving, rhs, work>>

(***************************************************************************)
Init ==
    /\ option \in Option /\ grid \in Grid
    /\ initialized = FALSE /\ finest = 0 /\ after = FALSE
    /\ solving = FALSE /\ stack = <<>>
    /\ u = Zero /\ rhs = Zero /\ work = Zero /\ given = Zero
    /\ recompute = FALSE /\ solves = 0

Cycle == \/ SolveCoarsestLevel \/ PreSmooth \/ RestrictResidual
         \/ CallNextCoarserLevel \/ ProlongError \/ PostSmooth

Next == \/ InitializeSolverState \/ DeallocateSolverState \/ Regrid
        \/ \E f \in [Level -> Value] : SolveSystem(f)
        \/ Cycle
        \/ SolveSystemReturns

Spec == Init /\ [][Next]_vars

(***************************************************************************)
(* Properties.                                                             *)
(***************************************************************************)

\* The type invariant: the calls on the stack are for successive levels, the
\* outermost one for the finest level of the solver, and only the coarsest level
\* is solved without going further (the recursion ends, and never below level 0).
Frames ==
    [cycle : {"V0", "V", "W", "F"}, level : Level, at : {"begin", "restrict", "call", "smooth"},
     calls : {<<>>, <<"V0">>, <<"V">>, <<"W">>, <<"W", "W">>, <<"W", "V">>}]

Nested ==
    \A i \in 1 .. Len(stack) :
        /\ stack[i].level = finest - Len(stack) + i
        /\ i > 1 \/ stack[i].at # "begin" => stack[i].level > 0

TypeOK ==
    /\ option \in Option /\ grid \in Grid /\ finest \in Level /\ solves \in Nat
    /\ initialized \in BOOLEAN /\ after \in BOOLEAN
    /\ solving \in BOOLEAN /\ recompute \in BOOLEAN
    /\ u \in [Level -> Int] /\ rhs \in [Level -> Int]
    /\ work \in [Level -> Int] /\ given \in [Level -> Int]
    /\ stack \in Seq(Frames)
    /\ Nested
    /\ solving \/ stack = <<>>

\* "We only need to recompute the residual once we start modifying the solution
\* vector u": while d_recompute_residual is not set the right-hand side is the
\* residual, because u is still zero.  (V-cycles without presmoothing change u
\* and never ask.)
ResidualFlag == solving /\ ~InPlace /\ ~recompute => u = Zero

\* Levels that the recursive calls solve at most once per visit of the next
\* finer one: W- and F-cycles visit the others again, with the residual of the
\* last visit as right-hand side and without adding to its solution.
SolvedOnce == option.cycle = "V" \/ grid.top + 1 >= grid.finest

\* A cycle whose coarsest solve is exact solves the model problem, whatever the
\* relaxations did: restricted residuals, corrections and the residual flag fit
\* together (FACVCycle, FACWCycle, FACFCycle, FACVCycleNoPreSmoothing).
CycleSolves ==
    solving /\ stack = <<>> /\ SolvedOnce => u[grid.top] = given[grid.top]
=============================================================================
