--------------------------- MODULE ConvectiveTerms ---------------------------
(***************************************************************************)
(* Symbolic values of the fluid and the advection-diffusion solvers.       *)
(*                                                                         *)
(* An iterate names a solution: step and cycle that computed it, and        *)
(* whether it was projected after a regrid.  A field is the set of one or  *)
(* two iterates it is the mean of.  A right-hand side counts, in halves,   *)
(* the terms that were added to it.                                        *)
(***************************************************************************)
EXTENDS Integers

Iterate(n, k) == [step |-> n, cycle |-> k, projected |-> FALSE]
Projected(x) == [x EXCEPT !.projected = TRUE]

Times == {"old", "half", "new"}

\* A solution at the beginning, in the middle and at the end of a time step.
InTime(start, latest) ==
    [t \in Times |-> CASE t = "old" -> {start}
                       [] t = "half" -> {start, latest}
                       [] t = "new" -> {latest}]

\* N(v, x): the field x is advected by the velocity v.
Term(v, x) == [by |-> v, of |-> x]

NoTerm == Term({}, {})

\* Linear extrapolation from the term of the previous step, which took before.
Extrapolated(term, previous, dt, before) ==
    [now |-> term, previous |-> previous, ratio |-> <<dt, before>>]

Forcing(x) == [force |-> x]
SourceTerm(x) == [source |-> x]

Nothing == [term \in {} |-> 0]

\* The right-hand side plus halves/2 times a term.
Plus(side, halves, term) ==
    LET count == (IF term \in DOMAIN side THEN side[term] ELSE 0) + halves IN
    IF halves = 0 THEN side
    ELSE [t \in {other \in DOMAIN side \cup {term} : other # term \/ count # 0} |->
             IF t = term THEN count ELSE side[t]]

-----------------------------------------------------------------------------
(* Time stepping types of the convective term; NONE without such a term *)

OneStepTypes == {"FORWARD_EULER", "MIDPOINT_RULE", "TRAPEZOIDAL_RULE"}
Types == OneStepTypes \cup {"ADAMS_BASHFORTH", "NONE"}

\* type, type of the first step (for a multistep type), number of cycles, and
\* whether there are internal fluid sources.
Schemes == [type : Types, init : OneStepTypes, cycles : Nat \ {0}, sources : BOOLEAN]

\* is_multistep_time_stepping_type
Multistep(scheme) == scheme.type = "ADAMS_BASHFORTH"

\* The type that applies in cycle k of a step.
Effective(scheme, firstStep, k) ==
    IF ~Multistep(scheme) THEN scheme.type
    ELSE IF firstStep THEN scheme.init
    ELSE IF k > 0 THEN "MIDPOINT_RULE" ELSE scheme.type

\* getNumberOfCycles
NumberOfCycles(scheme, firstStep) ==
    IF firstStep /\ Multistep(scheme) /\ scheme.init # "FORWARD_EULER" /\ scheme.cycles < 2
    THEN 2 ELSE scheme.cycles
=============================================================================
