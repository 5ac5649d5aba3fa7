--------------------------- MODULE MCLDataManager ---------------------------
(* Instances of LDataManager for TLC: levels of a few cells. *)
EXTENDS LDataManager

Box(lo, hi, proc) == [lo |-> lo, hi |-> hi, proc |-> proc]

\* One process or two, a level that covers the domain or a part of it, and
\* neighbouring patches of the same process.
SeveralPatches ==
    {<<Box(0, 2, 0), Box(3, 5, 1)>>,
     <<Box(0, 0, 1), Box(1, 3, 0), Box(4, 5, 0)>>,
     <<Box(0, 1, 1), Box(2, 4, 0)>>,
     <<Box(1, 5, 1)>>}

\* Patches so short that no ghost region holds a cell of a periodic domain of
\* eight cells twice.
ShortPatches ==
    {<<Box(0, 3, 0), Box(4, 7, 1)>>, <<Box(0, 1, 1), Box(2, 4, 0), Box(5, 7, 0)>>}

\* A single patch, on either process.
SinglePatch == {<<Box(0, 5, 0)>>, <<Box(0, 5, 1)>>}

\* Displacements beyond the reach of the ghost cells, or not.
Shifts == {-2, 3}

Walls == [cells |-> 6, periodic |-> FALSE,
          layouts |-> SeveralPatches \cup SinglePatch, displaceOn |-> SinglePatch]
Wide == [cells |-> 8, periodic |-> TRUE, layouts |-> ShortPatches, displaceOn |-> {}]
WallsAndPeriodic == {Walls, Wide}
=============================================================================
