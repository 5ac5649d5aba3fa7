------------------------ MODULE MCLMarkerUtilities ------------------------
(* Instances of LMarkerUtilities for TLC: four cells on the coarsest level. *)
EXTENDS LMarkerUtilities

Coarse == {<<0, 1>>, <<2, 3>>}

\* One to three levels; the fine patches end inside the domain or at a wall,
\* inside a coarse patch or across two.
OneToThreeLevels ==
    {<<Coarse>>,
     <<Coarse, {<<2, 5>>}>>,
     <<Coarse, {<<0, 1>>, <<4, 7>>}>>,
     <<Coarse, {<<2, 7>>}, {<<6, 9>>}>>}
TwoLevels == {<<Coarse, {<<2, 5>>}>>}

\* A cell of the finest level to either side.
CellToEitherSide == {-2, 2}

\* Next to the walls, to the ends of patches, and inside.
Posns == {1, 7, 8, 15, 19, 31}
=============================================================================
