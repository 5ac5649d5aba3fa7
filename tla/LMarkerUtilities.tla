---------------------------- MODULE LMarkerUtilities ----------------------------
(***************************************************************************)
(* Lagrangian markers on a hierarchy of levels (LMarkerUtilities with the  *)
(* coarsen and refine operators of marker sets), as IBHierarchyIntegrator  *)
(* drives them: markers are read from a file, placed on level 0 and        *)
(* refined to the finer levels; before a regrid they are collected on      *)
(* level 0, where they are assigned to cells again, then the new levels    *)
(* are filled and copies below finer levels are pruned.  Between regrids   *)
(* the positions follow the flow and the cells stay.                       *)
(*                                                                         *)
(* One dimension between two walls.  A position counts halves of a cell of *)
(* the finest level; the refinement ratio is 2.  A level is the set of the *)
(* boxes of its patches, a hierarchy a sequence of levels.  What a patch   *)
(* holds is the content of its interior: ghost cells are filled anew       *)
(* before they are read.                                                   *)
(***************************************************************************)
EXTENDS Integers, FiniteSets, Sequences, Bags, Functions

CONSTANTS
    Marker,
    Hierarchies,     \* the hierarchies regridding may produce
    MaxLevels,       \* most levels of a hierarchy
    Ghosts,          \* ghost cell width of the marker data
    Displacements,   \* possible displacements of a marker by the flow in a step
    InitPosns,       \* the positions a marker may have in the input file
    MaxMoves,        \* bound: steps between two regrids
    MaxRegrids       \* bound: regrids

Finest(h) == Len(h) - 1
Level(h, ln) == h[ln + 1]
Cells(box) == box[1] .. box[2]
Region(h, ln) == UNION {Cells(box) : box \in Level(h, ln)}

\* The refinement ratio between levels that are n apart, the width of a cell in
\* units of position, and the cell a position is in.
Ratio[n \in 0 .. MaxLevels - 1] == IF n = 0 THEN 1 ELSE 2 * Ratio[n - 1]
Width(ln) == 2 * Ratio[MaxLevels - 1 - ln]
CellIndex(x, ln) == x \div Width(ln)

Coarsened(cell) == cell \div 2

\* The ends of the domain, in units of position: level 0 covers it.
DomainCells == UNION {Region(h, 0) : h \in Hierarchies}
XUpper == Cardinality(DomainCells) * Width(0)

\* The coarsest level is never regridded, levels are nested and refine whole
\* cells, and markers between two regrids stay within the ghost cells of the
\* coarsest level.
ASSUME BoundsAssumption ==
    /\ IsFiniteSet(Marker)
    /\ MaxLevels \in Nat \ {0} /\ Ghosts \in Nat
    /\ MaxMoves \in Nat /\ MaxRegrids \in Nat
ASSUME HierarchyAssumption ==
    /\ \A h \in Hierarchies :
           h \in Seq(SUBSET (Int \X Int)) /\ Len(h) \in 1 .. MaxLevels
    /\ \A h, g \in Hierarchies : Level(h, 0) = Level(g, 0)
    /\ IsFiniteSet(DomainCells) /\ DomainCells = 0 .. Cardinality(DomainCells) - 1
    /\ \A h \in Hierarchies : \A ln \in 1 .. Finest(h) : \A c \in Region(h, ln) :
           /\ Coarsened(c) \in Region(h, ln - 1)
           /\ \A d \in {2 * Coarsened(c), 2 * Coarsened(c) + 1} : d \in Region(h, ln)
ASSUME ReachAssumption ==
    /\ Displacements \subseteq Int
    /\ \A d \in Displacements : d * MaxMoves \in -(Ghosts * Width(0)) .. Ghosts * Width(0)
ASSUME FileAssumption == InitPosns \subseteq 1 .. XUpper - 1

VARIABLES
    hierarchy,   \* the levels
    marks,       \* the bag of markers in the cells of all patches
    moves,       \* steps since the last regrid
    regrids,     \* number of regrids
    pc           \* "start", "initialized", "running" or "aborted" (TBOX_ERROR)

vars == <<hierarchy, marks, moves, regrids, pc>>

Mark(ln, c, m, x) == [level |-> ln, cell |-> c, idx |-> m, x |-> x]

\* The number of marks, and of those of a marker.
Count(bag) == SumFunctionOnSet(bag, BagToSet(bag))
Copies(bag, m) == SumFunctionOnSet(bag, {e \in BagToSet(bag) : e.idx = m})

\* The bag of the images of the marks of a bag.
Mapped(bag, image) ==
    [e \in Range(image) |-> SumFunctionOnSet(bag, {d \in BagToSet(bag) : image[d] = e})]

(***************************************************************************)
(* initializeMarkersOnLevel.  Level 0 takes the positions of the file; for *)
(* a finer level n the levels 1 .. n are refined from the next coarser one *)
(* in turn, and LMarkerRefine appends to what a cell holds already.        *)
(***************************************************************************)
InitialMarks(posns) == SetToBag({Mark(0, CellIndex(posns[m], 0), m, posns[m]) : m \in Marker})

\* What LMarkerRefine adds to level ln.
Refined(h, ln, bag) ==
    LET covered == {e \in BagToSet(bag) :
                       /\ e.level = ln - 1
                       /\ CellIndex(e.x, ln) \in Region(h, ln)
                       /\ Coarsened(CellIndex(e.x, ln)) = e.cell}
    IN  Mapped(Restrict(bag, covered),
               [e \in covered |-> Mark(ln, CellIndex(e.x, ln), e.idx, e.x)])

InitializeMarkersOnLevel(h, n, bag) ==
    LET filled[ln \in 0 .. n] ==
            IF ln = 0 THEN bag ELSE filled[ln - 1] (+) Refined(h, ln, filled[ln - 1])
    IN filled[n]

FilledTwice(h, bag) ==                                               \* mutant
    LET again[n \in 0 .. 2 * Finest(h)] ==
            IF n = 0 THEN bag
            ELSE InitializeMarkersOnLevel(h, (n + 1) \div 2, again[n - 1])
    IN again[2 * Finest(h)]
InitializeLevels(h, bag) ==
    LET initialized[n \in 0 .. Finest(h)] ==
            IF n = 0 THEN bag ELSE InitializeMarkersOnLevel(h, n, initialized[n - 1])
    IN initialized[Finest(h)]

InitializePatchHierarchy(h, posns) ==
    /\ pc = "start"
    /\ hierarchy' = h
    /\ marks' = InitializeLevels(h, InitialMarks(posns))
    /\ pc' = "initialized"
    /\ UNCHANGED <<moves, regrids>>

(***************************************************************************)
(* collectMarkersOnPatchHierarchy.  Coarsening keeps the assignment to     *)
(* cells, also of markers that have left theirs; then each patch of level  *)
(* 0 keeps the markers of its ghost box that lie in the patch.             *)
(***************************************************************************)
CoarsenData(bag) ==
    Mapped(bag, [e \in BagToSet(bag) |->
                    [e EXCEPT !.level = 0, !.cell = @ \div Ratio[e.level]]])

PatchBox(box) == Cells(box)                                          \* mutant
GhostBox(box) == box[1] - Ghosts .. box[2] + Ghosts

ResetCells(h, bag) ==
    LET found == {e \in BagToSet(bag) : \E box \in Level(h, 0) :
                     CellIndex(e.x, 0) \in Cells(box) /\ e.cell \in GhostBox(box)}
    IN  Mapped(Restrict(bag, found), [e \in found |-> [e EXCEPT !.cell = CellIndex(e.x, 0)]])

Collected == ResetCells(hierarchy, CoarsenData(marks))

(***************************************************************************)
(* pruneInvalidMarkers: markers in cells below the next finer level.       *)
(***************************************************************************)
Invalid(h, e) ==
    /\ e.level < Finest(h)
    /\ \E c \in Region(h, e.level + 1) : Coarsened(c) = e.cell

NothingPruned(h, bag) == bag                                         \* mutant
Pruned(h, bag) == Restrict(bag, {e \in BagToSet(bag) : ~ Invalid(h, e)})

(***************************************************************************)
(* IBHierarchyIntegrator::regridHierarchy: collect, replace the levels     *)
(* finer than 0 by new ones without data, fill these, prune.  At the       *)
(* initial time a regrid precedes the first step.  If the number of        *)
(* markers changes while they are collected, TBOX_ERROR ends the program.  *)
(***************************************************************************)
RegridHierarchy(h) ==
    /\ pc \in {"initialized", "running"} /\ regrids < MaxRegrids
    /\ IF Count(Collected) = Count(marks)
       THEN /\ hierarchy' = h
            /\ marks' = Pruned(h, InitializeLevels(h, Collected))
            /\ moves' = 0
            /\ regrids' = regrids + 1
            /\ pc' = "running"
       ELSE pc' = "aborted" /\ UNCHANGED <<hierarchy, marks, moves, regrids>>

(***************************************************************************)
(* eulerStep, midpointStep and trapezoidalStep.  A marker is advected by   *)
(* the patch that holds its cell, with data of the patch interior: where   *)
(* it lies outside of the patch the interpolated velocity is left zero.    *)
(***************************************************************************)
InPatch(e, x) ==
    \E box \in Level(hierarchy, e.level) : e.cell \in Cells(box) /\ CellIndex(x, e.level) \in Cells(box)

\* The displacement that interpolation at x yields for a flow of displacement d.
Interpolated(e, x, d) == IF InPatch(e, x) THEN d ELSE 0

EscapeAllowed(x) == x                                                \* mutant
PreventMarkerEscape(x) == IF x < 1 THEN 1 ELSE IF x > XUpper - 1 THEN XUpper - 1 ELSE x

EulerStep(e, d) == PreventMarkerEscape(e.x + Interpolated(e, e.x, d))
MidpointStep(e, d) ==
    PreventMarkerEscape(e.x + Interpolated(e, (e.x + EulerStep(e, d)) \div 2, d))
TrapezoidalStep(e, d) ==
    PreventMarkerEscape(e.x + (Interpolated(e, e.x, d) + Interpolated(e, EulerStep(e, d), d)) \div 2)

\* A step of the program: the new positions become current.
Steps == {"euler", "midpoint", "trapezoidal"}
NewPosition(step, e, d) ==
    CASE step = "euler" -> EulerStep(e, d)
      [] step = "midpoint" -> MidpointStep(e, d)
      [] step = "trapezoidal" -> TrapezoidalStep(e, d)

Advect(step, d) ==
    /\ pc = "running" /\ moves < MaxMoves
    /\ marks' = Mapped(marks, [e \in BagToSet(marks) |->
                                  [e EXCEPT !.x = NewPosition(step, e, d)]])
    /\ moves' = moves + 1
    /\ UNCHANGED <<hierarchy, regrids, pc>>

Init ==
    /\ hierarchy = <<>>
    /\ marks = EmptyBag
    /\ moves = 0
    /\ regrids = 0
    /\ pc = "start"

\* The program has ended, or the bounds are reached.
Stopped ==
    /\ pc = "aborted" \/ (pc = "running" /\ regrids = MaxRegrids)
    /\ UNCHANGED vars

Next ==
    \/ \E h \in Hierarchies, posns \in [Marker -> InitPosns] : InitializePatchHierarchy(h, posns)
    \/ \E h \in Hierarchies : RegridHierarchy(h)
    \/ \E step \in Steps, d \in Displacements : Advect(step, d)
    \/ Stopped

Spec == Init /\ [][Next]_vars

(***************************************************************************)
(* Properties.                                                             *)
(***************************************************************************)
TypeOK ==
    /\ hierarchy \in Hierarchies \cup {<<>>}
    /\ IsABag(marks)
    /\ \A e \in BagToSet(marks) :
           /\ e.level \in 0 .. Finest(hierarchy) /\ e.cell \in Region(hierarchy, e.level)
           /\ e.idx \in Marker /\ e.x \in 1 .. XUpper - 1
    /\ moves \in 0 .. MaxMoves
    /\ regrids \in 0 .. MaxRegrids
    /\ pc \in {"start", "initialized", "running", "aborted"}

\* Markers that stay in reach of the ghost cells of level 0 are never lost:
\* the collection finds each of them again, whichever level, patch or wall it
\* has left, so the check of their number does not stop the program.
NoMarkerLost == pc # "aborted" /\ \A m \in Marker : pc # "start" => Copies(marks, m) > 0

\* Where regridding leaves a marker: in the cell that contains it, on the
\* finest level that covers it.
BelongsHere(e) ==
    /\ e.cell = CellIndex(e.x, e.level)
    /\ \A ln \in e.level + 1 .. Finest(hierarchy) : CellIndex(e.x, ln) \notin Region(hierarchy, ln)
FinestCellAfterRegrid ==
    pc = "running" /\ moves = 0 => \A e \in BagToSet(marks) : BelongsHere(e)

\* Regridding to at most two levels neither loses nor multiplies the copies
\* of a marker: a copy is coarsened, moved, refined and pruned as a whole.
RegridKeepsCopies ==
    [][regrids' # regrids /\ Len(hierarchy') <= 2 =>
         \A m \in Marker : Copies(marks', m) = Copies(marks, m)]_vars

\* "Prune any duplicated markers" (IBHierarchyIntegrator::regridHierarchy):
\* after a regrid the hierarchy holds each marker once.
EachMarkerOnce == pc = "running" => \A m \in Marker : Copies(marks, m) = 1

=============================================================================
