--------------------------- MODULE LagrangianMesh ---------------------------
(***************************************************************************)
(* What LDataManager keeps, seen by the physics: every Lagrangian node has *)
(* a position and data of its own.  Where a node is stored is of no        *)
(* importance here: redistributing the nodes changes nothing, except that  *)
(* it brings nodes back that left the computational domain.                *)
(***************************************************************************)
EXTENDS Integers

CONSTANTS
    Nodes,          \* Lagrangian indices
    Displacements,  \* dX of displaceLagrangianStructure, in cells
    Structures      \* the sets of nodes that form a structure

VARIABLES
    posn,           \* cell of each node
    data,           \* data of each node
    domain          \* number of its cells, whether it is periodic or has walls

\* beginDataRedistribution: back across the periodic boundary, or to the wall.
Confined(c) ==
    IF domain.periodic THEN c % domain.cells
    ELSE IF c < 0 THEN 0 ELSE IF c >= domain.cells THEN domain.cells - 1 ELSE c

MInit ==
    /\ posn \in [Nodes -> 0..(domain.cells - 1)]
    /\ data = [l \in Nodes |-> l]

\* A time step moves every node by at most one cell.
Move ==
    /\ \E d \in [Nodes -> -1..1] : posn' = [l \in Nodes |-> posn[l] + d[l]]
    /\ UNCHANGED <<data, domain>>

Displace ==
    /\ \E S \in Structures, dX \in Displacements :
          posn' = [l \in Nodes |-> IF l \in S THEN posn[l] + dX ELSE posn[l]]
    /\ UNCHANGED <<data, domain>>

Confine ==
    /\ posn' = [l \in Nodes |-> Confined(posn[l])]
    /\ UNCHANGED <<data, domain>>

MNext == Move \/ Displace \/ Confine

MSpec == MInit /\ [][MNext]_<<posn, data, domain>>
=============================================================================
