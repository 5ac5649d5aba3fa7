---------------------------- MODULE LDataManager ----------------------------
(***************************************************************************)
(* Redistribution of the Lagrangian nodes of one patch level among the     *)
(* processors (IBTK::LDataManager).                                        *)
(*                                                                         *)
(* The nodes live in two places.  The patch data d_lag_node_index_current  *)
(* (idx) lists, cell by cell, the LNode objects in the interior and in the *)
(* ghost cells of every patch.  The values of a node (X, and everything    *)
(* else, here data) live in distributed PETSc vectors, at a global index   *)
(* that the application ordering d_ao (ao) gives for the Lagrangian index. *)
(* Nodes move freely between two redistributions.  A redistribution sorts  *)
(* the nodes into the cells they moved to, possibly replaces the patches,  *)
(* numbers the nodes anew and scatters every vector to its new ordering.   *)
(*                                                                         *)
(* The index space has one dimension: a box is an interval of cells.  The  *)
(* position of a node is the cell it is in, which may be outside of the    *)
(* domain until the next redistribution.  The MPI processes run the same   *)
(* collective operations, so each of these is one step.                    *)
(***************************************************************************)
EXTENDS Integers, Sequences, FiniteSets, SequencesExt

CONSTANTS
    Nodes,          \* Lagrangian indices
    Ranks,          \* number of MPI processes, 0..Ranks-1
    Levels,         \* the domains, and what the level may be in each: records
                    \* of the number of cells of the domain, whether it is
                    \* periodic (or has walls), the layouts of patches, and
                    \* those on which the program displaces structures
    GhostWidth,     \* ghost cell width of the index data
    CflWidth,       \* CFL_WIDTH
    TagBuffer,      \* cells around a tagged cell that are refined with it
    MaxMoves,       \* bound on the time steps between two regrids
    Structures,     \* the sets of nodes that form a structure
    Displacements,  \* dX of displaceLagrangianStructure, in cells
    MaxShift        \* bound on the distance nodes travel around the domain

Procs == 0..(Ranks - 1)
Interior(box) == box.lo..box.hi
Grown(box, width) == (box.lo - width)..(box.hi + width)
GhostBox(box) == Grown(box, GhostWidth)

ASSUME NodesAssumption == IsFiniteSet(Nodes) /\ Nodes \subseteq Nat
\* A layout is a sequence of records [lo |-> lower cell, hi |-> upper cell,
\* proc |-> owner].
ASSUME LevelsAssumption ==
    \A any \in Levels :
        /\ any.cells \in Nat \ {0} /\ any.periodic \in BOOLEAN
        /\ any.displaceOn \subseteq any.layouts
        /\ \A layout \in any.layouts :
              /\ layout \in Seq([lo : Nat, hi : Nat, proc : Procs])
              /\ \A k \in DOMAIN layout : layout[k].lo <= layout[k].hi /\ layout[k].hi < any.cells
              /\ \A j, k \in DOMAIN layout : j < k => layout[j].hi < layout[k].lo
\* Structures are displaced where no ghost cell stands for a cell of a patch.
ASSUME CopiesAssumption ==
    \A any \in Levels : \A layout \in any.displaceOn : \A j, k \in DOMAIN layout :
        \A c \in GhostBox(layout[k]) \ Interior(layout[k]) :
            (IF any.periodic THEN c % any.cells ELSE c) \notin Interior(layout[j])
\* "Assume max(U)dt/dx <= 2": the nodes stay in reach, and on the level.
ASSUME ReachAssumption ==
    /\ {GhostWidth, CflWidth, TagBuffer, MaxMoves} \subseteq Nat
    /\ MaxMoves <= CflWidth /\ CflWidth <= GhostWidth /\ MaxMoves <= TagBuffer
ASSUME DisplacementsAssumption ==
    Ranks \in Nat /\ Displacements \subseteq Int /\ Structures \subseteq SUBSET Nodes

VARIABLES
    level,          \* one of Levels, never changed
    phase,          \* one of Phases
    patches,        \* the patches of the level
    idx,            \* d_lag_node_index_current of every patch, cell by cell
    ao,             \* d_ao: Lagrangian index -> global PETSc index
    localLag,       \* d_local_lag_indices of every process
    nonlocalPetsc,  \* d_nonlocal_petsc_indices of every process
    X, data,        \* the managed vectors, by global PETSc index
    displaced,      \* d_displaced_strct_lnode_idxs and _posns of every process
    moves,          \* time steps since the level was last regridded
    wrapped         \* distance each node was shifted periodically (history)

\* A level is initialized, then synched until the next redistribution, which
\* may be preceded by a displacement; corrupt when a node got lost.
Phases == {"initialized", "synched", "displaced", "begun", "regridded", "corrupt"}

vars == <<level, phase, patches, idx, ao, localLag, nonlocalPetsc, X, data, displaced, moves,
          wrapped>>

NumCells == level.cells
Domain == 0..(NumCells - 1)

-----------------------------------------------------------------------------
(* Indices *)

\* computeNodeOffsets
NodeOffset(lag, p) ==
    LET offset[q \in 0..Ranks] == IF q = 0 THEN 0 ELSE offset[q - 1] + Len(lag[q - 1])
    IN  offset[p]

NumNodes(lag) == NodeOffset(lag, Ranks)

\* The entry of the global vector that local index loc of process p stands for.
GlobalIndex(p, loc) ==
    IF loc < Len(localLag[p]) THEN NodeOffset(localLag, p) + loc
    ELSE nonlocalPetsc[p][loc - Len(localLag[p]) + 1]

\* Position of a node listed on a patch, read from the ghosted local vector.
Position(k, node) == X[GlobalIndex(patches[k].proc, node.loc)]

\* The nodes of the cells lo..hi, in the order of the cells.
NodesIn(lo, hi, item) == FlattenSeq([i \in 1..(hi - lo + 1) |-> item[lo + i - 1]])

\* The nodes in the patch interiors of process p, patch by patch.
LocalNodes(layout, d, p) ==
    FlattenSeq([k \in DOMAIN layout |->
        IF layout[k].proc = p THEN NodesIn(layout[k].lo, layout[k].hi, d[k]) ELSE <<>>])

GhostNodes(layout, d, p) ==
    FlattenSeq([k \in DOMAIN layout |->
        IF layout[k].proc = p
        THEN NodesIn(layout[k].lo - GhostWidth, layout[k].lo - 1, d[k])
                 \o NodesIn(layout[k].hi + 1, layout[k].hi + GhostWidth, d[k])
        ELSE <<>>])

Lags(nodes) == [i \in DOMAIN nodes |-> nodes[i].lag]

\* The nonlocal nodes of process p, at their first occurrence.
Nonlocal(local, ghosts) ==
    FlattenSeq([i \in DOMAIN ghosts |->
        IF ghosts[i] \in ToSet(local) \cup {ghosts[j] : j \in 1..(i - 1)}
        THEN <<>> ELSE <<ghosts[i]>>])

IndexIn(s, l) == CHOOSE i \in DOMAIN s : s[i] = l

\* Those of the nodes that are in S.
Among(nodes, S) ==
    FlattenSeq([i \in DOMAIN nodes |-> IF nodes[i].lag \in S THEN <<nodes[i]>> ELSE <<>>])

\* The Lagrangian indices in S, sorted: the i-th has i - 1 smaller ones.
InOrder(S) ==
    [i \in 1..Cardinality(S) |-> CHOOSE l \in S : Cardinality({m \in S : m < l}) = i - 1]

-----------------------------------------------------------------------------
(* Moving the nodes *)

\* The time integration moves every node by at most one cell.
Move ==
    /\ phase = "synched"
    /\ moves < MaxMoves
    /\ moves' = moves + 1
    /\ \E d \in [Nodes -> -1..1] :
          X' = [g \in DOMAIN X |-> X[g] + d[CHOOSE l \in Nodes : ao[l] = g]]
    /\ \A l \in Nodes : X'[ao[l]] - wrapped[l] \in -MaxShift..(NumCells + MaxShift)
    /\ UNCHANGED <<level, phase, patches, idx, ao, localLag, nonlocalPetsc, data, displaced, wrapped>>

\* displaceLagrangianStructure, to be followed by a regridding operation.  The
\* nodes of structure S leave the patch interiors for a list of their own.
DisplaceLagrangianStructure(S, dX) ==
    LET taken == [p \in Procs |-> Among(LocalNodes(patches, idx, p), S)]
        moved == UNION {{GlobalIndex(p, taken[p][i].loc) : i \in DOMAIN taken[p]} : p \in Procs}
    IN  /\ phase = "synched"
        /\ patches \in level.displaceOn
        /\ \A g \in moved : X[g] + dX \in Domain
        /\ phase' = "displaced"
        /\ X' = [g \in DOMAIN X |-> IF g \in moved THEN X[g] + dX ELSE X[g]]
        /\ displaced' = [p \in Procs |-> [i \in DOMAIN taken[p] |->
               [node |-> taken[p][i], cell |-> X'[GlobalIndex(p, taken[p][i].loc)]]]]
        /\ idx' = [k \in DOMAIN patches |-> [c \in GhostBox(patches[k]) |->
               IF c \in Interior(patches[k]) THEN Among(idx[k][c], Nodes \ S) ELSE idx[k][c]]]
        /\ UNCHANGED <<level, patches, ao, localLag, nonlocalPetsc, data, moves, wrapped>>

-----------------------------------------------------------------------------
(* beginDataRedistribution *)

\* Back across the periodic boundary, or to the wall.
Confined(c) ==
    IF level.periodic THEN c % NumCells
    ELSE IF c < 0 THEN 0 ELSE IF c >= NumCells THEN NumCells - 1 ELSE c

\* The distance that position c is shifted across the periodic boundary.
PeriodicOffset(c) == IF level.periodic THEN Confined(c) - c ELSE 0

\* The cells in which patch k finds a node that moved to its cell c.
FoundIn(k, c, l) ==
    {old \in Grown(patches[k], CflWidth) \cap GhostBox(patches[k]) :
        \E i \in DOMAIN idx[k][old] :
            /\ idx[k][old][i].lag = l
            /\ Confined(Position(k, idx[k][old][i])) = c}

\* Faulty variant of Registrations: only the former owner registers a shift.
RegistrationsOfOwned(k, node, found) ==
    IF node.loc < Len(localLag[patches[k].proc]) THEN Cardinality(found) ELSE 0

\* registerPeriodicShift, called once for every cell a node is found in.  On
\* the process that owns a node all these cells share one LNode object; the
\* objects received from another process are separate.
Registrations(k, node, found) ==
    IF node.loc < Len(localLag[patches[k].proc]) THEN Cardinality(found) ELSE 1

\* What patch k keeps of node l, found in the given cells.
Kept(k, l, found) ==
    LET old == idx[k][CHOOSE o \in found : TRUE]
        node == old[CHOOSE i \in DOMAIN old : old[i].lag = l]
    IN  [node EXCEPT !.shift = @ + Registrations(k, node, found)
                                   * PeriodicOffset(Position(k, node))]

\* Faulty variant of Rebinned: nodes are only searched in the patch interior.
RebinnedFromInterior(k, c) ==
    LET Found(l) == FoundIn(k, c, l) \cap Interior(patches[k])
        lags == InOrder({l \in Nodes : Found(l) # {}})
    IN  [i \in DOMAIN lags |-> Kept(k, lags[i], Found(lags[i]))]

\* The nodes that moved to cell c of patch k, sorted, each of them once.
Rebinned(k, c) ==
    LET lags == InOrder({l \in Nodes : FoundIn(k, c, l) # {}}) IN
    [i \in DOMAIN lags |-> Kept(k, lags[i], FoundIn(k, c, lags[i]))]

BeginDataRedistribution ==
    /\ phase \in {"initialized", "synched", "displaced"}
    /\ phase' = "begun"
    /\ X' = [g \in DOMAIN X |-> Confined(X[g])]
    /\ wrapped' = [l \in Nodes |-> wrapped[l] + PeriodicOffset(X[ao[l]])]
    /\ idx' = [k \in DOMAIN patches |-> [c \in GhostBox(patches[k]) |->
                  IF c \in Interior(patches[k]) THEN Rebinned(k, c) ELSE <<>>]]
    /\ UNCHANGED <<level, patches, ao, localLag, nonlocalPetsc, data, displaced, moves>>

-----------------------------------------------------------------------------
(* The new level *)

\* What a schedule copies to cell c: the nodes of the cell of the domain it
\* stands for, from the interior of the patch that has it.
Copied(layout, d, c) ==
    IF Confined(c) # c /\ ~level.periodic THEN <<>>
    ELSE LET owners == {k \in DOMAIN layout : Confined(c) \in Interior(layout[k])}
         IN  IF owners = {} THEN <<>> ELSE d[CHOOSE k \in owners : TRUE][Confined(c)]

\* applyGradientDetector tags the cells of the nodes and of displaced
\* structures.
Tagged ==
    {c \in Domain : \E k \in DOMAIN patches : c \in Interior(patches[k]) /\ idx[k][c] # <<>>}
        \cup UNION {{displaced[p][i].cell : i \in DOMAIN displaced[p]} : p \in Procs}

\* Faulty variant of Covers: no buffer.
CoversTagged(layout, tagged) ==
    \A t \in tagged : \E k \in DOMAIN layout : t \in Interior(layout[k])

\* The gridding algorithm refines a buffer around the tagged cells.
Covers(layout, tagged) ==
    \A t \in tagged, w \in -TagBuffer..TagBuffer :
        \E k \in DOMAIN layout : Confined(t + w) \in Interior(layout[k])

\* Faulty variant of Regrid: the new patches get no ghost cells.
RegridInteriors(layout) ==
    /\ phase = "begun"
    /\ Covers(layout, Tagged)
    /\ phase' = "regridded"
    /\ patches' = layout
    /\ idx' = [k \in DOMAIN layout |->
                  [c \in Interior(layout[k]) |-> Copied(patches, idx, c)]]
    /\ UNCHANGED <<level, ao, localLag, nonlocalPetsc, X, data, displaced, moves, wrapped>>

\* initializeLevelData with an old level: its nodes are copied to the new one.
Regrid(layout) ==
    /\ phase = "begun"
    /\ Covers(layout, Tagged)
    /\ phase' = "regridded"
    /\ patches' = layout
    /\ idx' = [k \in DOMAIN layout |->
                  [c \in GhostBox(layout[k]) |-> Copied(patches, idx, c)]]
    /\ UNCHANGED <<level, ao, localLag, nonlocalPetsc, X, data, displaced, moves, wrapped>>

-----------------------------------------------------------------------------
(* endDataRedistribution *)

\* The displaced nodes are sent to the process, then put into the patch, that
\* has their cell.
WithDisplaced ==
    LET all == FlattenSeq([i \in 1..Ranks |-> displaced[i - 1]])
        To(c) == FlattenSeq([i \in DOMAIN all |->
                                IF all[i].cell = c THEN <<all[i].node>> ELSE <<>>])
    IN  [k \in DOMAIN patches |-> [c \in GhostBox(patches[k]) |->
            IF c \in Interior(patches[k]) THEN idx[k][c] \o To(c) ELSE idx[k][c]]]

FillGhosts(d) ==
    [k \in DOMAIN patches |-> [c \in GhostBox(patches[k]) |->
        IF c \in Interior(patches[k]) THEN d[k][c] ELSE Copied(patches, d, c)]]

\* computeNodeDistribution: the numbers of the nodes on every process.
NewLocalLag(d) == [p \in Procs |-> Lags(LocalNodes(patches, d, p))]

NewNonlocalLag(d) ==
    [p \in Procs |-> Nonlocal(Lags(LocalNodes(patches, d, p)), Lags(GhostNodes(patches, d, p)))]

\* AOCreateMapping
NewAO(lag) ==
    [l \in Nodes |->
        LET p == CHOOSE q \in Procs : Contains(lag[q], l)
        IN  NodeOffset(lag, p) + IndexIn(lag[p], l) - 1]

\* Faulty variant of Renumbered: the global index is the old one.
RenumberedLocally(nodes, local, nonlocal, newAO) ==
    [i \in DOMAIN nodes |->
        [nodes[i] EXCEPT !.loc = IndexIn(local \o nonlocal, nodes[i].lag) - 1]]

\* setLocalPETScIndex and setGlobalPETScIndex of the nodes of process p.
Renumbered(nodes, local, nonlocal, newAO) ==
    [i \in DOMAIN nodes |->
        [nodes[i] EXCEPT !.loc = IndexIn(local \o nonlocal, nodes[i].lag) - 1,
                         !.glob = newAO[nodes[i].lag]]]

\* Faulty variant of Scattered: the ordering is taken to be unchanged.
ScatteredInPlace(v, newAO) == v

\* The vector v scattered from the old ordering to the new one.
Scattered(v, newAO) ==
    [g \in 0..(Cardinality(Nodes) - 1) |-> v[ao[CHOOSE l \in Nodes : newAO[l] = g]]]

\* Every node has been found exactly once.
Complete(lag) ==
    /\ NumNodes(lag) = Cardinality(Nodes)
    /\ \A l \in Nodes : \E p \in Procs : Contains(lag[p], l)

EndDataRedistribution ==
    LET filled == FillGhosts(WithDisplaced)
        lag == NewLocalLag(filled)
        nonlocal == NewNonlocalLag(filled)
        newAO == NewAO(lag)
    IN  /\ phase \in {"begun", "regridded"}
        /\ displaced # [p \in Procs |-> <<>>] => phase = "regridded"
        /\ displaced' = [p \in Procs |-> <<>>]
        /\ moves' = IF phase = "regridded" THEN 0 ELSE moves
        /\ localLag' = lag
        /\ IF Complete(lag)
           THEN /\ phase' = "synched"
                /\ ao' = newAO
                /\ nonlocalPetsc' = [p \in Procs |->
                       [i \in DOMAIN nonlocal[p] |-> newAO[nonlocal[p][i]]]]
                /\ X' = Scattered(X, newAO)
                /\ data' = Scattered(data, newAO)
                /\ idx' = [k \in DOMAIN patches |-> [c \in GhostBox(patches[k]) |->
                       Renumbered(filled[k][c], lag[patches[k].proc],
                                  nonlocal[patches[k].proc], newAO)]]
           ELSE \* the vectors have a new size, or a node no index
                /\ phase' = "corrupt"
                /\ idx' = filled
                /\ UNCHANGED <<ao, nonlocalPetsc, X, data>>
        /\ UNCHANGED <<level, patches, wrapped>>

-----------------------------------------------------------------------------
(* Specification *)

\* initializeLevelData at the initial time: the nodes in the patch interiors,
\* numbered patch by patch; a redistribution follows at once.
Init ==
    /\ level \in Levels
    /\ phase = "initialized"
    /\ patches \in level.layouts
    /\ \E at \in [Nodes -> Domain] :
          /\ Covers(patches, {at[l] : l \in Nodes})
          /\ LET bare == [k \in DOMAIN patches |-> [c \in GhostBox(patches[k]) |->
                     IF c \in Interior(patches[k])
                     THEN LET lags == InOrder({l \in Nodes : at[l] = c}) IN
                          [i \in DOMAIN lags |-> [lag |-> lags[i], loc |-> 0, glob |-> 0, shift |-> 0]]
                     ELSE <<>>]]
             IN  /\ localLag = NewLocalLag(bare)
                 /\ ao = NewAO(localLag)
                 /\ idx = [k \in DOMAIN patches |-> [c \in GhostBox(patches[k]) |->
                        Renumbered(bare[k][c], localLag[patches[k].proc], <<>>, ao)]]
                 /\ X = [g \in 0..(Cardinality(Nodes) - 1) |-> at[CHOOSE l \in Nodes : ao[l] = g]]
    /\ nonlocalPetsc = [p \in Procs |-> <<>>]
    /\ data = [g \in DOMAIN X |-> CHOOSE l \in Nodes : ao[l] = g]
    /\ displaced = [p \in Procs |-> <<>>]
    /\ moves = 0
    /\ wrapped = [l \in Nodes |-> 0]

Next ==
    \/ Move
    \/ \E S \in Structures, dX \in Displacements : DisplaceLagrangianStructure(S, dX)
    \/ BeginDataRedistribution
    \/ \E layout \in level.layouts : Regrid(layout)
    \/ EndDataRedistribution

Spec == Init /\ [][Next]_vars

-----------------------------------------------------------------------------
(* Properties *)

\* The members keep their types; the local vectors and the ordering fit.
TypeOK ==
    LET indices == 0..(Cardinality(Nodes) - 1) IN
    /\ level \in Levels
    /\ phase \in Phases
    /\ patches \in level.layouts
    /\ ao \in [Nodes -> indices]
    /\ X \in [indices -> Int]
    /\ data \in [indices -> Nodes]
    /\ DOMAIN idx = DOMAIN patches
    /\ \A k \in DOMAIN patches : DOMAIN idx[k] = GhostBox(patches[k])
    /\ \A p \in Procs : localLag[p] \in Seq(Nodes) /\ nonlocalPetsc[p] \in Seq(indices)
    /\ moves \in 0..MaxMoves

\* Where the patch interiors list node l.
Places(l) ==
    {place \in (DOMAIN patches) \X Domain \X (1..Cardinality(Nodes) + 1) :
        LET k == place[1]
            c == place[2]
            i == place[3]
        IN  c \in Interior(patches[k]) /\ i \in DOMAIN idx[k][c] /\ idx[k][c][i].lag = l}

\* A redistribution neither loses nor duplicates a node: exactly one patch
\* lists it in its interior, at first in the cell where the node is, and the
\* ordering counts it once, also after a structure was displaced
\* (beginDataRedistribution keeps what a patch will own, whatever the old
\* owner did; endDataRedistribution adds displaced nodes; d_num_nodes is "the
\* total number of nodes for all processors").
EachNodeOnce ==
    /\ NumNodes(localLag) = Cardinality(Nodes)
    /\ phase \in {"synched", "corrupt"} =>
        \A l \in Nodes :
            /\ Cardinality(Places(l)) = 1
            /\ moves = 0 => \A place \in Places(l) : place[2] = X[ao[l]]

\* Local, global and Lagrangian indices agree: what a process reads from its
\* ghosted local vector for a node it lists, also for one that another
\* process owns, is the value of that node (computeNodeDistribution).
IndicesAgree ==
    phase \in {"synched", "displaced"} =>
        \A k \in DOMAIN patches : \A c \in GhostBox(patches[k]) :
            \A i \in DOMAIN idx[k][c] :
                LET node == idx[k][c][i] IN
                /\ node.glob = ao[node.lag]
                /\ GlobalIndex(patches[k].proc, node.loc) = ao[node.lag]

\* Between redistributions every node stays on the level, and the patch it
\* moved to lists it among the cells that the next redistribution searches:
\* the ghost cells and the tag buffer are as wide as nodes can travel.
InReach ==
    phase = "synched" =>
        \A l \in Nodes : \E k \in DOMAIN patches :
            /\ Confined(X[ao[l]]) \in Interior(patches[k])
            /\ FoundIn(k, Confined(X[ao[l]]), l) # {}

\* The periodic displacement recorded in the node object is the distance the
\* node was shifted by (registerPeriodicShift).
ShiftRecorded ==
    phase = "synched" =>
        \A k \in DOMAIN patches : \A c \in Interior(patches[k]) :
            \A i \in DOMAIN idx[k][c] : idx[k][c][i].shift = wrapped[idx[k][c][i].lag]

\* Redistribution is invisible: seen through the ordering, every node keeps
\* its position and its data through every scatter (LagrangianMesh).
Mesh == INSTANCE LagrangianMesh
    WITH posn <- [l \in Nodes |-> X[ao[l]]], data <- [l \in Nodes |-> data[ao[l]]],
         domain <- level

ImplementsMesh == Mesh!MSpec
=============================================================================
