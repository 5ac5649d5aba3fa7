-------------------------- MODULE LDataManager_proofs --------------------------
(***************************************************************************)
(* Proofs about LDataManager, for any set of nodes, any number of          *)
(* processes, any levels and any widths that meet the assumptions: a       *)
(* redistribution finds every node once, numbers it consistently and keeps *)
(* its values.  One of the results needs more of the levels, which its     *)
(* theorem says.                                                           *)
(***************************************************************************)
EXTENDS LDataManager, FiniteSetTheorems, WellFoundedInduction, SequenceTheorems, TLAPS

-----------------------------------------------------------------------------
(* Induction *)

\* The induction rules are stated for sets: the set of what a claim holds of.

\* A set of numbers that is not empty has a least element.
LEMMA LeastElement ==
  ASSUME NEW T \in SUBSET Nat, T # {}
  PROVE  \E m \in T : \A k \in T : m <= k
<1> DEFINE R == OpToRel(<, Nat)
<1>1. IsWellFoundedOn(R, Nat)
  BY NatLessThanWellFounded
<1> HIDE DEF R
<1>2. PICK m \in T : \A k \in T : ~ (<<k, m>> \in R)
  BY <1>1, WFMin
<1>3. \A j, k \in Nat : j < k => <<j, k>> \in R
  BY DEF R, OpToRel
<1>4. ASSUME NEW k \in T PROVE m <= k
  <2>1. m \in Nat /\ k \in Nat /\ ~ (k < m)
    BY <1>2, <1>3
  <2> QED BY <2>1
<1> QED BY <1>4

\* A set of numbers that contains zero and with each number the next one
\* contains them all.
LEMMA SetInduction ==
  ASSUME NEW S \in SUBSET Nat, 0 \in S, \A n \in S : n + 1 \in S
  PROVE  S = Nat
<1> SUFFICES ASSUME Nat \ S # {} PROVE FALSE
  OBVIOUS
<1>1. PICK m \in Nat \ S : \A k \in Nat \ S : m <= k
  BY LeastElement
<1>2. m - 1 \in Nat /\ m = (m - 1) + 1
  OBVIOUS
<1>3. m - 1 \in S
  BY <1>1, <1>2
<1> QED BY <1>2, <1>3

-----------------------------------------------------------------------------
(* The invariant *)

Node == [lag : Nodes, loc : Int, glob : Int, shift : Int]

\* The sequence s lists the nodes of T, each of them once.
Lists(s, T) ==
    /\ s \in Seq(Node)
    /\ \A i \in DOMAIN s : s[i].lag \in T
    /\ \A i, j \in DOMAIN s : s[i].lag = s[j].lag => i = j
    /\ \A l \in T : \E i \in DOMAIN s : s[i].lag = l

\* Every cell is in the interior of at most one patch; those that are in one.
CoveredBy(layout) == {c \in Domain : \E k \in DOMAIN layout : c \in Interior(layout[k])}

\* The cells that stand for a cell of the domain.
Real(c) == level.periodic \/ c \in Domain

\* The nodes whose home is the cell that c stands for.
At(home, c) == {l \in Nodes : Real(c) /\ home[l] = Confined(c)}

\* The nodes that have left the patches for the list of the displaced ones.
Gone == UNION {{displaced[p][i].node.lag : i \in DOMAIN displaced[p]} : p \in Procs}

\* Where a node was found, and how far it may have moved from there.
Travelled == IF phase \in {"begun", "regridded"} THEN 0 ELSE moves

\* The patch interiors list the nodes that are not gone by their home cells;
\* the ghost cells hold copies while the level is synched, and otherwise
\* nothing that a search could find.
Sorted(home) ==
    /\ \A l \in Nodes \ Gone :
          /\ X[ao[l]] - home[l] \in -Travelled..Travelled
          /\ home[l] \in CoveredBy(patches)
    /\ \A k \in DOMAIN patches : \A c \in Interior(patches[k]) :
          Lists(idx[k][c], {l \in Nodes \ Gone : home[l] = c})
    /\ phase \in {"initialized", "synched", "displaced"} =>
          \A k \in DOMAIN patches : \A c \in GhostBox(patches[k]) \ Interior(patches[k]) :
              Lists(idx[k][c], IF phase = "synched" THEN At(home, c) ELSE {})

\* The displaced nodes are listed once, with the cells they were moved to.
DisplacedOnce ==
    /\ displaced \in [Procs -> Seq([node : Node, cell : Domain])]
    /\ \A p, q \in Procs : \A i \in DOMAIN displaced[p], j \in DOMAIN displaced[q] :
          displaced[p][i].node.lag = displaced[q][j].node.lag => p = q /\ i = j
    /\ \A p \in Procs : \A i \in DOMAIN displaced[p] :
          displaced[p][i].cell = X[ao[displaced[p][i].node.lag]]
    /\ phase \in {"initialized", "synched"} => Gone = {}

\* A node has not moved further from a cell than the time steps since the last
\* regrid allow, and the patches cover the buffer around that cell.
Buffered(l, b) ==
    /\ level.periodic \/ b \in Domain
    /\ \A w \in -TagBuffer..TagBuffer : Confined(b + w) \in CoveredBy(patches)
    /\ LET m == IF phase = "regridded" THEN 0 ELSE moves IN X[ao[l]] - b \in -m..m

InBuffer ==
    \A l \in IF phase = "regridded" THEN Nodes ELSE Nodes \ Gone :
        \E b \in Int : Buffered(l, b)

\* The processes number every node once, one after the other.
Numbered(lag, order) ==
    /\ lag \in [Procs -> Seq(Nodes)]
    /\ NumNodes(lag) = Cardinality(Nodes)
    /\ \A l \in Nodes : \E p \in Procs : \E i \in DOMAIN lag[p] : lag[p][i] = l
    /\ \A p, q \in Procs : \A i \in DOMAIN lag[p], j \in DOMAIN lag[q] :
          lag[p][i] = lag[q][j] => p = q /\ i = j
    /\ order \in [Nodes -> 0..(Cardinality(Nodes) - 1)]
    /\ \A p \in Procs : \A i \in DOMAIN lag[p] :
          order[lag[p][i]] = NodeOffset(lag, p) + i - 1

IndicesRight ==
    phase \in {"initialized", "synched", "displaced"} =>
        \A k \in DOMAIN patches : \A c \in GhostBox(patches[k]) :
            \A i \in DOMAIN idx[k][c] :
                /\ idx[k][c][i].glob = ao[idx[k][c][i].lag]
                /\ GlobalIndex(patches[k].proc, idx[k][c][i].loc) = ao[idx[k][c][i].lag]

IInv ==
    /\ TypeOK /\ phase # "corrupt" /\ wrapped \in [Nodes -> Int]
    /\ phase = "displaced" => patches \in level.displaceOn
    /\ phase \in {"begun", "regridded"} => \A l \in Nodes : X[ao[l]] \in Domain
    /\ phase = "initialized" => moves = 0
    /\ Numbered(localLag, ao)
    /\ IndicesRight
    /\ DisplacedOnce
    /\ \E home \in [Nodes -> Domain] : Sorted(home)
    /\ InBuffer

-----------------------------------------------------------------------------
(* Parts of a sequence, and where each begins *)

\* off[k] is the length of the first k of n parts.
Offsets(n, len, off) ==
    /\ off \in [0 .. n -> Nat]
    /\ off[0] = 0
    /\ \A k \in 1 .. n : off[k] = off[k - 1] + len[k] /\ len[k] \in Nat

OffsetTable(off, n, len) == off = [k \in 0 .. n |-> IF k = 0 THEN 0 ELSE off[k - 1] + len[k]]

LEMMA OffsetTableExists ==
  ASSUME NEW len, NEW n \in Nat
  PROVE  \E off : OffsetTable(off, n, len)
<1> DEFINE Good == {m \in Nat : \E off : OffsetTable(off, m, len)}
<1>1. 0 \in Good
  <2>1. OffsetTable([k \in 0 .. 0 |-> 0], 0, len)
    BY DEF OffsetTable
  <2> QED BY <2>1
<1>2. ASSUME NEW m \in Good PROVE m + 1 \in Good
  <2>1. PICK off : OffsetTable(off, m, len)
    OBVIOUS
  <2>2. m \in Nat
    OBVIOUS
  <2> DEFINE next == [k \in 0 .. m + 1 |-> IF k = 0 THEN 0 ELSE off[k - 1] + len[k]]
  <2>3. \A k \in 0 .. m : next[k] = off[k]
    BY <2>1 DEF OffsetTable
  <2>4. ASSUME NEW k \in 0 .. m + 1, k # 0 PROVE next[k - 1] = off[k - 1]
    <3>1. k - 1 \in 0 .. m
      BY <2>2, <2>4
    <3> HIDE DEF next
    <3> QED BY <2>3, <3>1
  <2>5. next = [k \in 0 .. m + 1 |-> IF k = 0 THEN 0 ELSE next[k - 1] + len[k]]
    BY <2>4
  <2> HIDE DEF next
  <2> QED BY <2>2, <2>5 DEF OffsetTable
<1>3. Good = Nat
  <2> HIDE DEF Good
  <2>1. Good \in SUBSET Nat
    BY DEF Good
  <2> QED BY <1>1, <1>2, <2>1, SetInduction
<1> QED BY <1>3

LEMMA OffsetsOfTable ==
  ASSUME NEW n \in Nat, NEW len, \A k \in 1 .. n : len[k] \in Nat,
         NEW off, OffsetTable(off, n, len)
  PROVE  Offsets(n, len, off)
<1>1. \A k \in 0 .. n : off[k] = IF k = 0 THEN 0 ELSE off[k - 1] + len[k]
  BY DEF OffsetTable
<1>2. off[0] = 0 /\ \A k \in 1 .. n : off[k] = off[k - 1] + len[k]
  BY <1>1
<1> DEFINE S == {k \in Nat : k <= n => off[k] \in Nat}
<1>3. 0 \in S
  BY <1>2
<1>4. ASSUME NEW k \in S PROVE k + 1 \in S
  <2> SUFFICES ASSUME k + 1 <= n PROVE off[k + 1] \in Nat
    OBVIOUS
  <2>1. k \in Nat /\ k + 1 \in 1 .. n /\ (k + 1) - 1 = k /\ off[k] \in Nat
    OBVIOUS
  <2>2. off[k + 1] = off[k] + len[k + 1] /\ len[k + 1] \in Nat
    BY <1>2, <2>1
  <2> QED BY <2>1, <2>2
<1>5. S = Nat
  <2> HIDE DEF S
  <2>1. S \in SUBSET Nat
    BY DEF S
  <2> QED BY <1>3, <1>4, <2>1, SetInduction
<1>6. off \in [0 .. n -> Nat]
  <2>1. \A k \in 0 .. n : off[k] \in Nat
    BY <1>5
  <2> QED BY <2>1 DEF OffsetTable
<1> QED BY <1>2, <1>6 DEF Offsets

LEMMA OffsetsMonotonic ==
  ASSUME NEW n \in Nat, NEW len, NEW off, Offsets(n, len, off), NEW j \in 0 .. n, NEW k \in j .. n
  PROVE  off[j] <= off[k]
<1> DEFINE S == {m \in Nat : j + m <= n => off[j] <= off[j + m]}
<1>1. off[j] \in Nat
  BY DEF Offsets
<1>2. 0 \in S
  BY <1>1
<1>3. ASSUME NEW m \in S PROVE m + 1 \in S
  <2> SUFFICES ASSUME j + (m + 1) <= n PROVE off[j] <= off[j + (m + 1)]
    OBVIOUS
  <2> DEFINE a == j + m
             b == j + (m + 1)
  <2>1. a \in 0 .. n /\ b \in 1 .. n /\ b - 1 = a
    OBVIOUS
  <2>2. off[j] <= off[a]
    OBVIOUS
  <2> HIDE DEF a, b
  <2>3. off[b] = off[a] + len[b] /\ len[b] \in Nat /\ off[a] \in Nat
    BY <2>1 DEF Offsets
  <2>4. off[j] <= off[b]
    BY <1>1, <2>2, <2>3
  <2> QED BY <2>4 DEF b
<1>4. S = Nat
  <2> HIDE DEF S
  <2>1. S \in SUBSET Nat
    BY DEF S
  <2> QED BY <1>2, <1>3, <2>1, SetInduction
<1>5. k - j \in Nat /\ j + (k - j) = k /\ k <= n
  OBVIOUS
<1> QED BY <1>4, <1>5

\* Every entry of the whole is an entry of one part.
LEMMA OffsetsReach ==
  ASSUME NEW n \in Nat, NEW len, NEW off, Offsets(n, len, off), NEW g \in 1 .. off[n]
  PROVE  \E k \in 1 .. n : g - off[k - 1] \in 1 .. len[k]
<1> DEFINE T == {k \in Nat : k <= n /\ g <= off[k]}
<1>1. off[n] \in Nat /\ off[0] = 0 /\ g \in Nat /\ g >= 1 /\ g <= off[n]
  BY DEF Offsets
<1>2. n \in T
  BY <1>1
<1>3. PICK k \in T : \A m \in T : k <= m
  <2> HIDE DEF T
  <2>1. T # {} /\ T \in SUBSET Nat
    BY <1>2 DEF T
  <2> QED BY <2>1, LeastElement
<1>4. k \in 1 .. n
  <2>1. k # 0
    BY <1>1
  <2> QED BY <2>1
<1>5. k - 1 \in Nat /\ k - 1 \notin T /\ k - 1 <= n /\ k - 1 \in 0 .. n
  <2>1. k \in Nat /\ k - 1 \in Nat /\ ~ (k <= k - 1)
    BY <1>4
  <2>2. k - 1 \notin T
    BY <1>3, <2>1
  <2> QED BY <1>4, <2>1, <2>2
<1>6. off[k - 1] \in Nat /\ ~ (g <= off[k - 1])
  BY <1>5 DEF Offsets
<1>7. off[k] = off[k - 1] + len[k] /\ len[k] \in Nat /\ g <= off[k]
  BY <1>4 DEF Offsets
<1> DEFINE i == g - off[k - 1]
<1>8. i \in 1 .. len[k]
  BY <1>1, <1>6, <1>7
<1> QED BY <1>4, <1>8

\* ... and of no other, nor another entry of it.
LEMMA OffsetsApart ==
  ASSUME NEW n \in Nat, NEW len, NEW off, Offsets(n, len, off),
         NEW j \in 1 .. n, NEW k \in 1 .. n, NEW i \in 1 .. len[j], NEW h \in 1 .. len[k],
         off[j - 1] + i = off[k - 1] + h
  PROVE  j = k /\ i = h
<1>1. ASSUME NEW a \in 1 .. n, NEW b \in 1 .. n, a < b,
             NEW x \in 1 .. len[a], NEW y \in 1 .. len[b]
      PROVE  off[a - 1] + x < off[b - 1] + y
  <2>1. a \in 0 .. n /\ b - 1 \in a .. n /\ a - 1 \in 0 .. n /\ b - 1 \in 0 .. n
    BY <1>1
  <2>2. off[a] <= off[b - 1]
    BY <2>1, OffsetsMonotonic
  <2>3. off[a] = off[a - 1] + len[a] /\ off[a - 1] \in Nat /\ off[b - 1] \in Nat /\ len[a] \in Nat
    BY <2>1 DEF Offsets
  <2>4. len[b] \in Nat
    BY DEF Offsets
  <2> QED BY <2>2, <2>3, <2>4
<1>2. j - 1 \in 0 .. n /\ k - 1 \in 0 .. n /\ len[j] \in Nat /\ len[k] \in Nat
  BY DEF Offsets
<1>3. off[j - 1] \in Nat /\ off[k - 1] \in Nat
  BY <1>2 DEF Offsets
<1>4. ~ (j < k)
  <2> SUFFICES ASSUME j < k PROVE FALSE
    OBVIOUS
  <2>1. off[j - 1] + i < off[k - 1] + h
    BY <1>1
  <2> QED BY <1>2, <1>3, <2>1
<1>5. ~ (k < j)
  <2> SUFFICES ASSUME k < j PROVE FALSE
    OBVIOUS
  <2>1. off[k - 1] + h < off[j - 1] + i
    BY <1>1
  <2> QED BY <1>2, <1>3, <2>1
<1>6. j = k
  BY <1>4, <1>5
<1> QED BY <1>2, <1>3, <1>6

\* The offsets of the processes.
LEMMA NodeOffsets ==
  ASSUME NEW lag, \A p \in Procs : Len(lag[p]) \in Nat
  PROVE  LET len == [q \in 1 .. Ranks |-> Len(lag[q - 1])]
             off == [q \in 0 .. Ranks |-> NodeOffset(lag, q)]
         IN  Offsets(Ranks, len, off)
<1> DEFINE len == [q \in 1 .. Ranks |-> Len(lag[q - 1])]
           off == [q \in 0 .. Ranks |-> NodeOffset(lag, q)]
           Table(t) == t = [q \in 0 .. Ranks |-> IF q = 0 THEN 0 ELSE t[q - 1] + Len(lag[q - 1])]
           t == CHOOSE s : Table(s)
<1>1. Ranks \in Nat /\ \A q \in 1 .. Ranks : q - 1 \in Procs
  BY DisplacementsAssumption DEF Procs
<1>2. \A q \in 1 .. Ranks : len[q] \in Nat
  BY <1>1
<1>3. \A s : OffsetTable(s, Ranks, len) <=> Table(s)
  <2> TAKE s
  <2>1. ASSUME NEW q \in 0 .. Ranks
        PROVE  (IF q = 0 THEN 0 ELSE s[q - 1] + len[q])
                   = (IF q = 0 THEN 0 ELSE s[q - 1] + Len(lag[q - 1]))
    <3>1. q # 0 => q \in 1 .. Ranks
      BY <1>1
    <3> QED BY <3>1
  <2>2. [q \in 0 .. Ranks |-> IF q = 0 THEN 0 ELSE s[q - 1] + len[q]]
            = [q \in 0 .. Ranks |-> IF q = 0 THEN 0 ELSE s[q - 1] + Len(lag[q - 1])]
    BY <2>1, Zenon
  <2> HIDE DEF len
  <2> QED BY <2>2, Zenon DEF OffsetTable
<1>4. Table(t)
  <2> HIDE DEF len, Table
  <2>1. \E s : Table(s)
    BY <1>1, <1>3, OffsetTableExists
  <2> QED BY <2>1
<1>5. \A q \in 0 .. Ranks : NodeOffset(lag, q) = t[q]
  BY Zenon DEF NodeOffset
<1> HIDE DEF t
<1>6. off = t
  BY <1>4, <1>5
<1>7. OffsetTable(off, Ranks, len)
  <2> HIDE DEF len, Table, off
  <2> QED BY <1>3, <1>4, <1>6
<1>8. Offsets(Ranks, len, off)
  <2> HIDE DEF len, off
  <2> QED BY <1>1, <1>2, <1>7, OffsetsOfTable
<1> QED BY <1>8, Zenon

-----------------------------------------------------------------------------
(* Flattened sequences *)

FlattenTable(f, s, n) == f = [i \in 1 .. n |-> IF i = 1 THEN s[i] ELSE f[i - 1] \o s[i]]

LEMMA FlattenTableExists ==
  ASSUME NEW s, NEW n \in Nat
  PROVE  \E f : FlattenTable(f, s, n)
<1> DEFINE Good == {m \in Nat : \E f : FlattenTable(f, s, m)}
<1>1. 0 \in Good
  <2>1. FlattenTable([i \in 1 .. 0 |-> <<>>], s, 0)
    BY DEF FlattenTable
  <2> QED BY <2>1
<1>2. ASSUME NEW m \in Good PROVE m + 1 \in Good
  <2>1. PICK f : FlattenTable(f, s, m)
    OBVIOUS
  <2>2. m \in Nat
    OBVIOUS
  <2> DEFINE next == [i \in 1 .. m + 1 |-> IF i = 1 THEN s[i] ELSE f[i - 1] \o s[i]]
  <2>3. ASSUME NEW i \in 1 .. m PROVE next[i] = f[i]
    <3>1. i \in 1 .. m + 1
      BY <2>2
    <3>2. f[i] = IF i = 1 THEN s[i] ELSE f[i - 1] \o s[i]
      BY <2>1, Zenon DEF FlattenTable
    <3> QED BY <3>1, <3>2, Zenon
  <2>4. ASSUME NEW i \in 1 .. m + 1, i # 1 PROVE next[i - 1] = f[i - 1]
    <3>1. i - 1 \in 1 .. m
      BY <2>2, <2>4
    <3> HIDE DEF next
    <3> QED BY <2>3, <3>1
  <2>5. next = [i \in 1 .. m + 1 |-> IF i = 1 THEN s[i] ELSE next[i - 1] \o s[i]]
    BY <2>4
  <2>6. FlattenTable(next, s, m + 1)
    <3> HIDE DEF next
    <3> QED BY <2>5, Zenon DEF FlattenTable
  <2> QED BY <2>2, <2>6
<1>3. Good = Nat
  <2> HIDE DEF Good
  <2>1. Good \in SUBSET Nat
    BY DEF Good
  <2> QED BY <1>1, <1>2, <2>1, SetInduction
<1> QED BY <1>3

\* What joining two sequences does.
LEMMA JoinedFacts ==
  ASSUME NEW S, NEW u \in Seq(S), NEW v \in Seq(S), NEW w, w = u \o v
  PROVE  /\ w \in Seq(S) /\ Len(w) = Len(u) + Len(v)
         /\ \A i \in 1 .. Len(u) : w[i] = u[i]
         /\ \A i \in 1 .. Len(v) : w[Len(u) + i] = v[i]
<1>1. Len(u) \in Nat /\ Len(v) \in Nat
  BY LenProperties
<1>2. /\ w \in Seq(S) /\ Len(w) = Len(u) + Len(v)
      /\ \A i \in 1 .. Len(u) + Len(v) : w[i] = IF i <= Len(u) THEN u[i] ELSE v[i - Len(u)]
  BY ConcatProperties
<1>3. ASSUME NEW i \in 1 .. Len(u) PROVE w[i] = u[i]
  <2>1. i \in 1 .. Len(u) + Len(v) /\ i <= Len(u)
    BY <1>1
  <2> QED BY <1>2, <2>1
<1>4. ASSUME NEW i \in 1 .. Len(v) PROVE w[Len(u) + i] = v[i]
  <2>1. Len(u) + i \in 1 .. Len(u) + Len(v) /\ ~ (Len(u) + i <= Len(u)) /\ (Len(u) + i) - Len(u) = i
    BY <1>1
  <2> QED BY <1>2, <2>1
<1> QED BY <1>2, <1>3, <1>4

PartLengths(s, len) == \A k \in 1 .. Len(s) : len[k] = Len(s[k])

\* Where the parts are in the table of the partial concatenations.
LEMMA FlattenTableFacts ==
  ASSUME NEW S, NEW s \in Seq(Seq(S)), NEW f, FlattenTable(f, s, Len(s)),
         NEW len, PartLengths(s, len),
         NEW off, Offsets(Len(s), len, off), NEW m \in 1 .. Len(s)
  PROVE  /\ f[m] \in Seq(S) /\ Len(f[m]) = off[m]
         /\ \A k \in 1 .. m : \A i \in 1 .. len[k] : f[m][off[k - 1] + i] = s[k][i]
<1> DEFINE n == Len(s)
           Right(h) ==
             /\ f[h] \in Seq(S) /\ Len(f[h]) = off[h]
             /\ \A k \in 1 .. h : \A i \in 1 .. len[k] : f[h][off[k - 1] + i] = s[k][i]
           Good == {h \in Nat : h + 1 <= n => Right(h + 1)}
<1>1. n \in Nat /\ \A k \in 1 .. n : s[k] \in Seq(S) /\ len[k] = Len(s[k]) /\ len[k] \in Nat
  <2>1. n \in Nat
    BY LenProperties
  <2>2. \A k \in 1 .. n : s[k] \in Seq(S)
    BY ElementOfSeq
  <2> QED BY <2>1, <2>2, LenProperties DEF PartLengths
<1>2. \A i \in 1 .. n : f[i] = IF i = 1 THEN s[i] ELSE f[i - 1] \o s[i]
  BY DEF FlattenTable
<1>3. /\ \A k \in 0 .. n : off[k] \in Nat
      /\ off[0] = 0 /\ \A k \in 1 .. n : off[k] = off[k - 1] + len[k]
  BY DEF Offsets
<1> HIDE DEF n
<1>4. 0 \in Good
  <2> SUFFICES ASSUME 1 <= n PROVE Right(1)
    OBVIOUS
  <2>1. 1 \in 1 .. n /\ 1 - 1 = 0
    BY <1>1
  <2>2. f[1] = s[1] /\ off[1] = len[1]
    BY <1>1, <1>2, <1>3, <2>1
  <2>3. \A k \in 1 .. 1 : k = 1 /\ off[k - 1] = 0
    BY <1>3
  <2>4. ASSUME NEW k \in 1 .. 1, NEW i \in 1 .. len[k] PROVE f[1][off[k - 1] + i] = s[k][i]
    BY <2>2, <2>3
  <2> QED BY <1>1, <2>1, <2>2, <2>4
<1>5. ASSUME NEW h \in Good PROVE h + 1 \in Good
  <2> DEFINE a == h + 1
             b == a + 1
  <2> SUFFICES ASSUME b <= n PROVE Right(b)
    OBVIOUS
  <2>1. a \in Nat /\ a \in 1 .. n /\ b \in 1 .. n /\ b # 1 /\ b - 1 = a /\ b = a + 1
    BY <1>1
  <2>2. Right(a)
    BY <2>1
  <2>8. f[a] \in Seq(S) /\ Len(f[a]) = off[a] /\ s[b] \in Seq(S) /\ Len(s[b]) = len[b]
    BY <1>1, <2>1, <2>2
  <2> HIDE DEF a, b, Right, Good
  <2>3. f[b] = f[a] \o s[b]
    BY <1>2, <2>1
  <2>4. /\ f[b] \in Seq(S) /\ Len(f[b]) = Len(f[a]) + Len(s[b])
        /\ \A i \in 1 .. Len(f[a]) : f[b][i] = f[a][i]
        /\ \A i \in 1 .. Len(s[b]) : f[b][Len(f[a]) + i] = s[b][i]
    <3> DEFINE u == f[a]
               v == s[b]
               w == f[b]
    <3>1. u \in Seq(S) /\ v \in Seq(S) /\ w = u \o v
      BY <2>3, <2>8
    <3> HIDE DEF u, v, w
    <3>2. /\ w \in Seq(S) /\ Len(w) = Len(u) + Len(v)
          /\ \A i \in 1 .. Len(u) : w[i] = u[i]
          /\ \A i \in 1 .. Len(v) : w[Len(u) + i] = v[i]
      BY <3>1, JoinedFacts
    <3> QED BY <3>2 DEF u, v, w
  <2>5. off[b] = off[a] + len[b] /\ off[a] \in Nat /\ len[b] \in Nat
    <3>1. off[b] = off[b - 1] + len[b] /\ len[b] \in Nat
      BY <1>1, <1>3, <2>1
    <3>2. a \in 0 .. n
      BY <1>1, <2>1
    <3> QED BY <1>3, <2>1, <3>1, <3>2
  <2>6. ASSUME NEW k \in 1 .. b, NEW i \in 1 .. len[k]
        PROVE  f[b][off[k - 1] + i] = s[k][i]
    <3>1. CASE k = b
      <4>1. off[k - 1] = Len(f[a]) /\ i \in 1 .. Len(s[b])
        BY <2>1, <2>8, <3>1
      <4> QED BY <2>4, <3>1, <4>1
    <3>2. CASE k # b
      <4>1. k \in 1 .. a /\ k \in 1 .. n /\ k - 1 \in 0 .. n /\ k \in 0 .. n /\ a \in k .. n
        BY <1>1, <2>1, <3>2
      <4>2. f[a][off[k - 1] + i] = s[k][i]
        BY <2>2, <4>1 DEF Right
      <4>3. off[k] <= off[a]
        <5>1. a \in 0 .. n
          BY <1>1, <2>1
        <5> QED BY <1>1, <4>1, <5>1, OffsetsMonotonic DEF n
      <4>4. off[k] = off[k - 1] + len[k] /\ off[k - 1] \in Nat /\ len[k] \in Nat
        BY <1>1, <1>3, <4>1
      <4> DEFINE g == off[k - 1] + i
      <4>5. g \in 1 .. Len(f[a])
        <5> DEFINE x == off[k - 1]
                   y == off[k]
                   z == off[a]
                   c == len[k]
        <5>1. i \in 1 .. c /\ y = x + c /\ x \in Nat /\ c \in Nat /\ y <= z /\ z \in Nat
          BY <2>5, <4>3, <4>4
        <5> HIDE DEF x, y, z, c
        <5>2. x + i \in 1 .. z
          BY <5>1
        <5> QED BY <2>8, <5>2 DEF x, z
      <4> HIDE DEF g
      <4>6. f[b][g] = f[a][g]
        BY <2>4, <4>5
      <4> QED BY <4>2, <4>6 DEF g
    <3> QED BY <3>1, <3>2
  <2>7. Len(f[b]) = off[b]
    BY <2>4, <2>5, <2>8
  <2> QED BY <2>4, <2>6, <2>7 DEF Right
<1>6. Good = Nat
  <2> HIDE DEF Good
  <2>1. Good \in SUBSET Nat
    BY DEF Good
  <2> QED BY <1>4, <1>5, <2>1, SetInduction
<1>7. m - 1 \in Good /\ (m - 1) + 1 = m /\ m <= n
  <2>1. m \in 1 .. n
    BY DEF n
  <2>2. m - 1 \in Nat /\ (m - 1) + 1 = m /\ m <= n
    BY <1>1, <2>1
  <2> HIDE DEF Good
  <2> QED BY <1>6, <2>2
<1>8. Right(m)
  BY <1>7
<1> QED BY <1>8

\* The entries of whole are the entries of the parts s, each of them once:
\* entry j of it is entry place[j][2] of part place[j][1].
Enumerates(whole, s, place) ==
    /\ \A j \in DOMAIN whole :
          /\ place[j][1] \in DOMAIN s
          /\ place[j][2] \in DOMAIN s[place[j][1]]
          /\ whole[j] = s[place[j][1]][place[j][2]]
    /\ \A i, j \in DOMAIN whole :
          place[i][1] = place[j][1] /\ place[i][2] = place[j][2] => i = j
    /\ \A k \in DOMAIN s : \A i \in DOMAIN s[k] :
          \E j \in DOMAIN whole : place[j][1] = k /\ place[j][2] = i

\* A flattened sequence enumerates its parts.
LEMMA FlattenPlaces ==
  ASSUME NEW S, NEW s \in Seq(Seq(S))
  PROVE  /\ FlattenSeq(s) \in Seq(S)
         /\ \E place : Enumerates(FlattenSeq(s), s, place)
<1> DEFINE n == Len(s)
           whole == FlattenSeq(s)
           len == [k \in 1 .. n |-> Len(s[k])]
           off == CHOOSE t : OffsetTable(t, n, len)
<1>1. n \in Nat /\ DOMAIN s = 1 .. n
  BY LenProperties
<1>2. ASSUME NEW k \in 1 .. n
      PROVE  /\ s[k] \in Seq(S) /\ len[k] = Len(s[k]) /\ len[k] \in Nat
             /\ DOMAIN s[k] = 1 .. len[k]
  <2>1. s[k] \in Seq(S) /\ len[k] = Len(s[k])
    BY ElementOfSeq
  <2> QED BY <2>1, LenProperties
<1>3. Offsets(n, len, off)
  <2>1. OffsetTable(off, n, len)
    <3> HIDE DEF len, n
    <3> QED BY <1>1, OffsetTableExists
  <2> HIDE DEF len, off, n
  <2> QED BY <1>1, <1>2, <2>1, OffsetsOfTable
<1> HIDE DEF off, len
<1>4. /\ whole \in Seq(S) /\ Len(whole) = off[n]
      /\ \A k \in 1 .. n : \A i \in 1 .. len[k] : whole[off[k - 1] + i] = s[k][i]
  <2>1. CASE n = 0
    <3>1. whole = s /\ s = <<>>
      BY <2>1, <1>1, EmptySeq DEF FlattenSeq
    <3>2. off[0] = 0 /\ \A k \in 1 .. n : FALSE
      BY <1>1, <1>3, <2>1 DEF Offsets
    <3>3. whole \in Seq(S) /\ Len(whole) = 0
      BY <3>1
    <3> QED BY <2>1, <3>2, <3>3
  <2>2. CASE n # 0
    <3> DEFINE f == CHOOSE t : FlattenTable(t, s, n)
    <3>1. FlattenTable(f, s, n)
      <4> HIDE DEF n
      <4> QED BY <1>1, FlattenTableExists
    <3>2. whole = f[n]
      BY <2>2, Zenon DEF FlattenSeq, FlattenTable
    <3> HIDE DEF f
    <3>3. n \in 1 .. n
      BY <1>1, <2>2
    <3>4. PartLengths(s, len)
      BY <1>2 DEF PartLengths
    <3>5. /\ f[n] \in Seq(S) /\ Len(f[n]) = off[n]
          /\ \A k \in 1 .. n : \A i \in 1 .. len[k] : f[n][off[k - 1] + i] = s[k][i]
      BY <1>3, <3>1, <3>3, <3>4, FlattenTableFacts
    <3> HIDE DEF n, whole
    <3> QED BY <3>2, <3>5
  <2> QED BY <2>1, <2>2
<1> HIDE DEF n, whole
<1>5. DOMAIN whole = 1 .. off[n] /\ \A k \in 1 .. n : len[k] \in Nat
  BY <1>2, <1>4, LenProperties
<1> DEFINE Stands(j, p) == /\ p \in (1 .. n) \X Nat
                           /\ p[2] \in 1 .. len[p[1]]
                           /\ j = off[p[1] - 1] + p[2]
           place == [j \in DOMAIN whole |-> CHOOSE p : Stands(j, p)]
<1>6. ASSUME NEW j \in DOMAIN whole PROVE Stands(j, place[j])
  <2>0. j \in 1 .. off[n]
    BY <1>5
  <2>1. PICK k \in 1 .. n : j - off[k - 1] \in 1 .. len[k]
    BY <1>1, <1>3, <2>0, OffsetsReach
  <2> DEFINE i == j - off[k - 1]
  <2>2. off[k - 1] \in Nat /\ off[n] \in Nat /\ len[k] \in Nat
    <3>1. k - 1 \in 0 .. n /\ n \in 0 .. n
      BY <1>1
    <3> QED BY <1>3, <3>1 DEF Offsets
  <2>3. Stands(j, <<k, i>>)
    <3>1. i \in 1 .. len[k] /\ i \in Nat /\ j = off[k - 1] + i
      BY <2>0, <2>1, <2>2
    <3> HIDE DEF i
    <3> QED BY <3>1
  <2> HIDE DEF Stands
  <2> QED BY <2>3
<1>7. ASSUME NEW k \in 1 .. n, NEW i \in 1 .. len[k]
      PROVE  off[k - 1] + i \in DOMAIN whole
  <2>1. k - 1 \in 0 .. n /\ k \in 0 .. n /\ n \in k .. n /\ len[k] \in Nat
    BY <1>1, <1>5
  <2>2. off[k] <= off[n]
    BY <1>1, <1>3, <1>5, <2>1, OffsetsMonotonic
  <2>3. off[k - 1] \in Nat /\ off[k] = off[k - 1] + len[k] /\ off[n] \in Nat
    <3>1. n \in 0 .. n
      BY <1>1
    <3> QED BY <1>3, <2>1, <3>1 DEF Offsets
  <2>4. off[k - 1] + i \in 1 .. off[n]
    BY <2>1, <2>2, <2>3
  <2> QED BY <1>5, <2>4
<1> HIDE DEF place
<1>8. ASSUME NEW j \in DOMAIN whole
      PROVE  /\ place[j][1] \in DOMAIN s
             /\ place[j][2] \in DOMAIN s[place[j][1]]
             /\ whole[j] = s[place[j][1]][place[j][2]]
  BY <1>1, <1>2, <1>4, <1>6
<1>9. ASSUME NEW i \in DOMAIN whole, NEW j \in DOMAIN whole,
             place[i][1] = place[j][1], place[i][2] = place[j][2]
      PROVE  i = j
  BY <1>6, <1>9
<1>10. ASSUME NEW k \in DOMAIN s, NEW i \in DOMAIN s[k]
       PROVE  \E j \in DOMAIN whole : place[j][1] = k /\ place[j][2] = i
  <2> DEFINE j == off[k - 1] + i
  <2>1. k \in 1 .. n /\ i \in 1 .. len[k]
    BY <1>1, <1>2
  <2>2. j \in DOMAIN whole
    BY <1>7, <2>1
  <2>3. Stands(j, place[j])
    BY <1>6, <2>2
  <2> DEFINE a == place[j][1]
             b == place[j][2]
  <2>4. a \in 1 .. n /\ b \in 1 .. len[a] /\ off[k - 1] + i = off[a - 1] + b
    BY <2>3
  <2> HIDE DEF a, b
  <2>5. k = a /\ i = b
    <3>1. \A g, m \in 1 .. n : \A h \in 1 .. len[g], t \in 1 .. len[m] :
              off[g - 1] + h = off[m - 1] + t => g = m /\ h = t
      BY <1>1, <1>3, OffsetsApart
    <3> QED BY <2>1, <2>4, <3>1
  <2> QED BY <2>2, <2>5 DEF a, b
<1>11. whole \in Seq(S)
  BY <1>4
<1> HIDE DEF Stands
<1>12. Enumerates(whole, s, place)
  BY <1>8, <1>9, <1>10 DEF Enumerates
<1> QED BY <1>11, <1>12 DEF whole

-----------------------------------------------------------------------------
(* Lists of nodes *)

\* The parts of s list the sets of T, which have no node in common.
PartsList(s, T) ==
    /\ s \in Seq(Seq(Node))
    /\ \A k \in DOMAIN s : Lists(s[k], T[k])
    /\ \A j, k \in DOMAIN s : j # k => T[j] \cap T[k] = {}

\* The flattened sequence has the entries of its parts and no others.
SameEntries(whole, s) ==
    /\ \A j \in DOMAIN whole : \E k \in DOMAIN s : \E i \in DOMAIN s[k] : whole[j] = s[k][i]
    /\ \A k \in DOMAIN s : \A i \in DOMAIN s[k] : \E j \in DOMAIN whole : whole[j] = s[k][i]

LEMMA FlattenEntries ==
  ASSUME NEW S, NEW s \in Seq(Seq(S))
  PROVE  FlattenSeq(s) \in Seq(S) /\ SameEntries(FlattenSeq(s), s)
<1> DEFINE whole == FlattenSeq(s)
<1>1. whole \in Seq(S) /\ \E p : Enumerates(whole, s, p)
  BY FlattenPlaces
<1>2. PICK place : Enumerates(whole, s, place)
  BY <1>1
<1> HIDE DEF whole
<1>3. ASSUME NEW j \in DOMAIN whole
      PROVE  \E k \in DOMAIN s : \E i \in DOMAIN s[k] : whole[j] = s[k][i]
  <2> DEFINE k == place[j][1]
             i == place[j][2]
  <2>1. k \in DOMAIN s /\ i \in DOMAIN s[k] /\ whole[j] = s[k][i]
    BY <1>2 DEF Enumerates
  <2> HIDE DEF k, i
  <2> QED BY <2>1
<1>4. ASSUME NEW k \in DOMAIN s, NEW i \in DOMAIN s[k]
      PROVE  \E j \in DOMAIN whole : whole[j] = s[k][i]
  <2>1. PICK j \in DOMAIN whole : place[j][1] = k /\ place[j][2] = i
    BY <1>2 DEF Enumerates
  <2>2. whole[j] = s[place[j][1]][place[j][2]]
    BY <1>2 DEF Enumerates
  <2> QED BY <2>1, <2>2
<1> QED BY <1>1, <1>3, <1>4 DEF SameEntries, whole

LEMMA FlattenLists ==
  ASSUME NEW s, NEW T, PartsList(s, T)
  PROVE  Lists(FlattenSeq(s), UNION {T[k] : k \in DOMAIN s})
<1> DEFINE whole == FlattenSeq(s)
           all == UNION {T[k] : k \in DOMAIN s}
<1>1. s \in Seq(Seq(Node))
  BY DEF PartsList
<1>2. whole \in Seq(Node) /\ \E p : Enumerates(whole, s, p)
  BY <1>1, FlattenPlaces
<1>3. PICK place : Enumerates(whole, s, place)
  BY <1>2
<1> HIDE DEF whole
<1>4. ASSUME NEW j \in DOMAIN whole
      PROVE  /\ place[j][1] \in DOMAIN s
             /\ place[j][2] \in DOMAIN s[place[j][1]]
             /\ whole[j] = s[place[j][1]][place[j][2]]
             /\ whole[j].lag \in T[place[j][1]]
  <2>1. /\ place[j][1] \in DOMAIN s
        /\ place[j][2] \in DOMAIN s[place[j][1]]
        /\ whole[j] = s[place[j][1]][place[j][2]]
    BY <1>3 DEF Enumerates
  <2>2. Lists(s[place[j][1]], T[place[j][1]])
    BY <2>1 DEF PartsList
  <2> QED BY <2>1, <2>2 DEF Lists
<1>5. \A j \in DOMAIN whole : whole[j].lag \in all
  BY <1>4
<1>6. ASSUME NEW i \in DOMAIN whole, NEW j \in DOMAIN whole, whole[i].lag = whole[j].lag
      PROVE  i = j
  <2> DEFINE a == place[i][1]
             b == place[j][1]
             x == place[i][2]
             y == place[j][2]
  <2>1. /\ a \in DOMAIN s /\ x \in DOMAIN s[a] /\ whole[i] = s[a][x] /\ whole[i].lag \in T[a]
        /\ b \in DOMAIN s /\ y \in DOMAIN s[b] /\ whole[j] = s[b][y] /\ whole[j].lag \in T[b]
    BY <1>4
  <2>2. a = b /\ x = y => i = j
    BY <1>3 DEF Enumerates
  <2> HIDE DEF a, b, x, y
  <2>3. a = b
    BY <1>6, <2>1 DEF PartsList
  <2>4. Lists(s[a], T[a])
    BY <2>1 DEF PartsList
  <2>5. x = y
    BY <1>6, <2>1, <2>3, <2>4 DEF Lists
  <2> QED BY <2>2, <2>3, <2>5
<1>7. ASSUME NEW l \in all PROVE \E j \in DOMAIN whole : whole[j].lag = l
  <2>1. PICK k \in DOMAIN s : l \in T[k]
    OBVIOUS
  <2>2. Lists(s[k], T[k])
    BY DEF PartsList
  <2>3. PICK i \in DOMAIN s[k] : s[k][i].lag = l
    BY <2>1, <2>2 DEF Lists
  <2>4. PICK j \in DOMAIN whole : place[j][1] = k /\ place[j][2] = i
    BY <1>3 DEF Enumerates
  <2>5. whole[j] = s[k][i]
    BY <1>4, <2>4
  <2> QED BY <2>3, <2>5
<1>8. Lists(whole, all)
  <2> HIDE DEF all
  <2> QED BY <1>2, <1>5, <1>6, <1>7 DEF Lists
<1> QED BY <1>8 DEF whole

LEMMA JoinedLists ==
  ASSUME NEW s, NEW S, Lists(s, S), NEW t, NEW T, Lists(t, T), S \cap T = {}
  PROVE  /\ Lists(s \o t, S \cup T)
         /\ \A j \in DOMAIN (s \o t) :
               \/ \E i \in DOMAIN s : (s \o t)[j] = s[i]
               \/ \E i \in DOMAIN t : (s \o t)[j] = t[i]
<1> DEFINE w == s \o t
<1>1. s \in Seq(Node) /\ t \in Seq(Node)
  BY DEF Lists
<1>2. /\ Len(s) \in Nat /\ Len(t) \in Nat
      /\ DOMAIN s = 1 .. Len(s) /\ DOMAIN t = 1 .. Len(t)
  BY <1>1, LenProperties
<1>3. /\ w \in Seq(Node) /\ Len(w) = Len(s) + Len(t)
      /\ \A i \in 1 .. Len(s) : w[i] = s[i]
      /\ \A i \in 1 .. Len(t) : w[Len(s) + i] = t[i]
  BY <1>1, JoinedFacts
<1> HIDE DEF w
<1>4. DOMAIN w = 1 .. Len(s) + Len(t)
  BY <1>3, LenProperties
<1>5. ASSUME NEW j \in DOMAIN w
      PROVE  \/ j \in DOMAIN s /\ w[j] = s[j] /\ w[j].lag \in S
             \/ /\ j - Len(s) \in DOMAIN t /\ w[j] = t[j - Len(s)] /\ w[j].lag \in T
                /\ j = Len(s) + (j - Len(s))
  <2>1. j \in 1 .. Len(s) \/ (j - Len(s) \in 1 .. Len(t) /\ j = Len(s) + (j - Len(s)))
    BY <1>2, <1>4
  <2>2. CASE j \in 1 .. Len(s)
    <3>1. w[j] = s[j] /\ j \in DOMAIN s
      BY <1>2, <1>3, <2>2
    <3> QED BY <3>1 DEF Lists
  <2>3. CASE j - Len(s) \in 1 .. Len(t) /\ j = Len(s) + (j - Len(s))
    <3>1. w[j] = t[j - Len(s)] /\ j - Len(s) \in DOMAIN t
      BY <1>2, <1>3, <2>3
    <3> QED BY <2>3, <3>1 DEF Lists
  <2> QED BY <2>1, <2>2, <2>3
<1>6. ASSUME NEW i \in DOMAIN w, NEW j \in DOMAIN w, w[i].lag = w[j].lag PROVE i = j
  <2>1. CASE i \in DOMAIN s /\ w[i] = s[i] /\ w[i].lag \in S
    <3>1. j \in DOMAIN s /\ w[j] = s[j]
      BY <1>5, <1>6, <2>1
    <3> QED BY <1>6, <2>1, <3>1 DEF Lists
  <2>2. CASE /\ i - Len(s) \in DOMAIN t /\ w[i] = t[i - Len(s)] /\ w[i].lag \in T
             /\ i = Len(s) + (i - Len(s))
    <3>1. j - Len(s) \in DOMAIN t /\ w[j] = t[j - Len(s)] /\ j = Len(s) + (j - Len(s))
      BY <1>5, <1>6, <2>2
    <3>2. i - Len(s) = j - Len(s)
      BY <1>6, <2>2, <3>1 DEF Lists
    <3> QED BY <2>2, <3>1, <3>2
  <2> QED BY <1>5, <2>1, <2>2
<1>7. ASSUME NEW l \in S \cup T PROVE \E j \in DOMAIN w : w[j].lag = l
  <2>1. CASE l \in S
    <3>1. PICK i \in DOMAIN s : s[i].lag = l
      BY <2>1 DEF Lists
    <3>2. i \in DOMAIN w /\ w[i] = s[i]
      BY <1>2, <1>3, <1>4
    <3> QED BY <3>1, <3>2
  <2>2. CASE l \in T
    <3>1. PICK i \in DOMAIN t : t[i].lag = l
      BY <2>2 DEF Lists
    <3>2. Len(s) + i \in DOMAIN w /\ w[Len(s) + i] = t[i]
      BY <1>2, <1>3, <1>4
    <3> QED BY <3>1, <3>2
  <2> QED BY <2>1, <2>2
<1>8. Lists(w, S \cup T)
  BY <1>3, <1>5, <1>6, <1>7 DEF Lists
<1>9. \A j \in DOMAIN w : \/ \E i \in DOMAIN s : w[j] = s[i]
                          \/ \E i \in DOMAIN t : w[j] = t[i]
  BY <1>5
<1> QED BY <1>8, <1>9 DEF w

\* The sorted sequence of a set of nodes has each of them once.
LEMMA InOrderFacts ==
  ASSUME NEW S \in SUBSET Nodes
  PROVE  /\ InOrder(S) \in Seq(S)
         /\ \A i, j \in DOMAIN InOrder(S) : InOrder(S)[i] = InOrder(S)[j] => i = j
         /\ \A l \in S : \E i \in DOMAIN InOrder(S) : InOrder(S)[i] = l
<1> DEFINE n == Cardinality(S)
           below(l) == {m \in S : m < l}
           rank == [l \in S |-> Cardinality(below(l))]
<1>1. IsFiniteSet(S) /\ n \in Nat /\ S \subseteq Nat
  BY NodesAssumption, FS_Subset, FS_CardinalityType
<1>2. ASSUME NEW l \in S
      PROVE  rank[l] \in 0 .. n - 1
  <2>1. below(l) \in SUBSET S /\ l \notin below(l)
    BY <1>1
  <2>2. Cardinality(below(l)) <= n /\ Cardinality(below(l)) # n /\ IsFiniteSet(below(l))
    BY <1>1, <2>1, FS_Subset
  <2>3. Cardinality(below(l)) \in Nat
    BY <2>2, FS_CardinalityType
  <2> DEFINE c == Cardinality(below(l))
  <2>4. c \in Nat /\ c <= n /\ c # n /\ rank[l] = c
    BY <2>2, <2>3
  <2> HIDE DEF c, n, rank
  <2> QED BY <1>1, <2>4
<1>3. ASSUME NEW l \in S, NEW m \in S, l < m PROVE rank[l] # rank[m]
  <2>1. below(l) \in SUBSET below(m) /\ l \in below(m) /\ l \notin below(l) /\ below(m) \in SUBSET S
    <3>1. l \in Nat /\ m \in Nat /\ \A x \in S : x \in Nat
      BY <1>1
    <3>2. \A x \in S : x < l => x < m
      BY <1>3, <3>1
    <3>3. ~ (l < l)
      BY <3>1
    <3> QED BY <1>3, <3>2, <3>3
  <2>2. IsFiniteSet(below(m))
    BY <1>1, <2>1, FS_Subset
  <2>3. Cardinality(below(l)) # Cardinality(below(m))
    <3> HIDE DEF below
    <3> QED BY <2>1, <2>2, FS_Subset
  <2> QED BY <2>3
<1>4. \A l, m \in S : rank[l] = rank[m] => l = m
  <2> SUFFICES ASSUME NEW l \in S, NEW m \in S, rank[l] = rank[m], l # m PROVE FALSE
    OBVIOUS
  <2>1. l < m \/ m < l
    BY <1>1
  <2> HIDE DEF rank
  <2> QED BY <1>3, <2>1
<1>5. IsFiniteSet(0 .. n - 1) /\ Cardinality(0 .. n - 1) = n
  <2> HIDE DEF n
  <2>1. n - 1 \in Int /\ 0 \in Int
    BY <1>1
  <2>2. (IF 0 > n - 1 THEN 0 ELSE (n - 1) - 0 + 1) = n
    BY <1>1
  <2> QED BY <2>1, <2>2, FS_Interval
<1>6. rank \in Injection(S, 0 .. n - 1)
  <2>1. rank \in [S -> 0 .. n - 1]
    BY <1>2
  <2> HIDE DEF rank, n
  <2> QED BY <1>4, <2>1 DEF Injection, IsInjective
<1>7. rank \in Surjection(S, 0 .. n - 1)
  <2>1. Cardinality(S) = Cardinality(0 .. n - 1)
    BY <1>5
  <2> HIDE DEF rank, n
  <2> QED BY <1>5, <1>6, <2>1, FS_Injection
<1>8. ASSUME NEW i \in 1 .. n
      PROVE  InOrder(S)[i] \in S /\ rank[InOrder(S)[i]] = i - 1
  <2>1. i - 1 \in 0 .. n - 1
    BY <1>1
  <2>2. PICK l \in S : rank[l] = i - 1
    <3> HIDE DEF rank, n
    <3> QED BY <1>7, <2>1 DEF Surjection
  <2>3. Cardinality({m \in S : m < l}) = i - 1
    BY <2>2
  <2>4. InOrder(S)[i] = CHOOSE k \in S : Cardinality({m \in S : m < k}) = i - 1
    BY DEF InOrder
  <2> DEFINE k0 == InOrder(S)[i]
  <2>5. k0 \in S /\ Cardinality({m \in S : m < k0}) = i - 1
    BY <2>3, <2>4
  <2> QED BY <2>5
<1>9. DOMAIN InOrder(S) = 1 .. n
  BY DEF InOrder
<1>10. InOrder(S) \in Seq(S)
  <2>1. InOrder(S) = [i \in 1 .. n |-> InOrder(S)[i]]
    BY DEF InOrder
  <2>2. InOrder(S) \in [1 .. n -> S]
    BY <1>8, <2>1
  <2> HIDE DEF n
  <2> QED BY <1>1, <2>2, SeqDef
<1>11. \A i, j \in 1 .. n : InOrder(S)[i] = InOrder(S)[j] => i = j
  <2> SUFFICES ASSUME NEW i \in 1 .. n, NEW j \in 1 .. n, InOrder(S)[i] = InOrder(S)[j]
               PROVE  i = j
    OBVIOUS
  <2>1. i - 1 = j - 1
    BY <1>8
  <2> QED BY <1>1, <2>1
<1>12. ASSUME NEW l \in S PROVE \E i \in 1 .. n : InOrder(S)[i] = l
  <2> DEFINE i == rank[l] + 1
  <2>1. i \in 1 .. n /\ rank[l] = i - 1
    <3>1. rank[l] \in 0 .. n - 1
      BY <1>2
    <3> HIDE DEF rank, n
    <3> QED BY <1>1, <3>1
  <2>2. InOrder(S)[i] \in S /\ rank[InOrder(S)[i]] = rank[l]
    <3> HIDE DEF rank, n, i
    <3> QED BY <1>8, <2>1
  <2>3. InOrder(S)[i] = l
    <3> HIDE DEF rank, i
    <3> QED BY <1>4, <2>2
  <2> HIDE DEF i, n
  <2> QED BY <2>1, <2>3
<1> HIDE DEF n
<1> QED BY <1>9, <1>10, <1>11, <1>12

-----------------------------------------------------------------------------
(* Remainders *)

LEMMA ModFacts ==
  ASSUME NEW n \in Int, n > 0, NEW x \in Int
  PROVE  x % n \in 0 .. n - 1 /\ \E q \in Int : x = n * q + (x % n)
<1>1. x % n \in 0 .. n - 1
  OBVIOUS
<1>2. x = n * (x \div n) + (x % n)
  BY SMT
<1>3. x \div n \in Int
  BY SMTT(20)
<1> DEFINE q == x \div n
<1>4. q \in Int /\ x = n * q + (x % n)
  BY <1>2, <1>3, Zenon
<1> HIDE DEF q
<1> QED BY <1>1, <1>4, Zenon

LEMMA ModUnique ==
  ASSUME NEW n \in Int, n > 0, NEW x \in Int, NEW y \in 0 .. n - 1, NEW q \in Int, x = n * q + y
  PROVE  x % n = y
BY SMT

LEMMA ModShift ==
  ASSUME NEW n \in Int, n > 0, NEW x \in Int, NEW q \in Int
  PROVE  (x + n * q) % n = x % n
<1>1. PICK a \in Int : x = n * a + (x % n)
  BY ModFacts
<1> DEFINE y == x % n
<1>2. y \in 0 .. n - 1
  BY ModFacts
<1>3. x = n * a + y
  BY <1>1, Zenon
<1> HIDE DEF y
<1>4. x + n * q = n * (a + q) + y
  BY <1>2, <1>3
<1> DEFINE z == x + n * q
           b == a + q
<1>5. z \in Int /\ b \in Int /\ z = n * b + y
  BY <1>4, SMT
<1> HIDE DEF z, b
<1>6. z % n = y
  BY <1>2, <1>5, ModUnique
<1> QED BY <1>6 DEF y, z

-----------------------------------------------------------------------------
(* Cells and patches *)

LEMMA LevelFacts ==
  ASSUME level \in Levels
  PROVE  /\ NumCells \in Int /\ NumCells > 0 /\ level.periodic \in BOOLEAN
         /\ Domain = 0 .. NumCells - 1 /\ 0 \in Domain
         /\ level.displaceOn \subseteq level.layouts
         /\ {GhostWidth, CflWidth, TagBuffer, MaxMoves, Ranks} \subseteq Nat
         /\ MaxMoves <= CflWidth /\ CflWidth <= GhostWidth /\ MaxMoves <= TagBuffer
<1>1. level.cells \in Nat \ {0} /\ level.periodic \in BOOLEAN
      /\ level.displaceOn \subseteq level.layouts
  BY LevelsAssumption
<1> QED BY <1>1, ReachAssumption, DisplacementsAssumption DEF NumCells, Domain

LEMMA LayoutFacts ==
  ASSUME level \in Levels, NEW layout \in level.layouts
  PROVE  /\ layout \in Seq([lo : Nat, hi : Nat, proc : Procs])
         /\ Len(layout) \in Nat /\ DOMAIN layout = 1 .. Len(layout)
         /\ \A k \in DOMAIN layout :
               /\ layout[k].lo \in Nat /\ layout[k].hi \in Nat /\ layout[k].proc \in Procs
               /\ layout[k].lo <= layout[k].hi /\ layout[k].hi < NumCells
               /\ Interior(layout[k]) \subseteq Domain
               /\ Interior(layout[k]) \subseteq GhostBox(layout[k])
               /\ GhostBox(layout[k]) \subseteq Int
         /\ \A j, k \in DOMAIN layout : \A c \in Interior(layout[j]) :
               c \in Interior(layout[k]) => j = k
<1> DEFINE box == [lo : Nat, hi : Nat, proc : Procs]
<1>1. /\ layout \in Seq(box)
      /\ \A k \in DOMAIN layout : layout[k].lo <= layout[k].hi /\ layout[k].hi < NumCells
      /\ \A j, k \in DOMAIN layout : j < k => layout[j].hi < layout[k].lo
  BY LevelsAssumption DEF NumCells
<1>2. Len(layout) \in Nat /\ DOMAIN layout = 1 .. Len(layout)
  BY <1>1, LenProperties
<1>3. ASSUME NEW k \in DOMAIN layout
      PROVE  layout[k].lo \in Nat /\ layout[k].hi \in Nat /\ layout[k].proc \in Procs
  <2>1. layout[k] \in box
    BY <1>1, <1>2, ElementOfSeq
  <2> QED BY <2>1
<1>4. ASSUME NEW k \in DOMAIN layout
      PROVE  /\ Interior(layout[k]) \subseteq Domain
             /\ Interior(layout[k]) \subseteq GhostBox(layout[k])
             /\ GhostBox(layout[k]) \subseteq Int
  <2>1. /\ Interior(layout[k]) = layout[k].lo .. layout[k].hi
        /\ GhostBox(layout[k]) = (layout[k].lo - GhostWidth) .. (layout[k].hi + GhostWidth)
    BY DEF Interior, GhostBox, Grown
  <2>2. GhostWidth \in Nat /\ Domain = 0 .. NumCells - 1 /\ NumCells \in Int
    BY LevelFacts
  <2>3. layout[k].hi < NumCells
    BY <1>1
  <2>4. GhostBox(layout[k]) \subseteq Int
    BY <1>3, <2>1, <2>2
  <2>5. Interior(layout[k]) \subseteq Domain
    BY <1>3, <2>1, <2>2, <2>3
  <2>6. Interior(layout[k]) \subseteq GhostBox(layout[k])
    BY <1>3, <2>1, <2>2
  <2> QED BY <2>4, <2>5, <2>6
<1>5. ASSUME NEW j \in DOMAIN layout, NEW k \in DOMAIN layout,
             NEW c \in Interior(layout[j]), c \in Interior(layout[k])
      PROVE  j = k
  <2>1. j \in Nat /\ k \in Nat
    BY <1>2
  <2>2. ~ (j < k) /\ ~ (k < j)
    BY <1>1, <1>3, <1>5, SMTT(30) DEF Interior
  <2> QED BY <2>1, <2>2
<1> QED BY <1>1, <1>2, <1>3, <1>4, <1>5

LEMMA ConfinedFacts ==
  ASSUME level \in Levels
  PROVE  /\ \A x \in Int : Confined(x) \in Domain /\ PeriodicOffset(x) \in Int
         /\ \A x \in Domain : Confined(x) = x /\ Real(x) /\ x \in Int
         /\ \A x : Real(x) => level.periodic \/ x \in Domain
<1> USE LevelFacts
<1>1. ASSUME NEW x \in Int PROVE Confined(x) \in Domain
  <2>1. CASE level.periodic
    BY <2>1, ModFacts DEF Confined
  <2>2. CASE ~ level.periodic
    BY <2>2 DEF Confined
  <2> QED BY <2>1, <2>2
<1>2. ASSUME NEW x \in Int PROVE PeriodicOffset(x) \in Int
  <2>1. Confined(x) \in Int
    BY <1>1
  <2> QED BY <2>1 DEF PeriodicOffset
<1>3. ASSUME NEW x \in Domain PROVE Confined(x) = x
  <2>1. CASE level.periodic
    <3>1. x \in Int /\ 0 \in Int /\ x = NumCells * 0 + x /\ x \in 0 .. NumCells - 1
      OBVIOUS
    <3>2. x % NumCells = x
      BY <3>1, ModUnique
    <3> QED BY <2>1, <3>2 DEF Confined
  <2>2. CASE ~ level.periodic
    BY <2>2 DEF Confined
  <2> QED BY <2>1, <2>2
<1>4. \A x \in Domain : Real(x) /\ x \in Int
  BY DEF Real
<1>5. \A x : Real(x) => level.periodic \/ x \in Domain
  BY DEF Real
<1> QED BY <1>1, <1>2, <1>3, <1>4, <1>5

\* Across a periodic boundary a cell is shifted by whole domains.
LEMMA ConfinedShift ==
  ASSUME level \in Levels, level.periodic, NEW x \in Int, NEW y \in Int
  PROVE  Confined(y + (Confined(x) - x)) = Confined(y)
<1>1. PICK q \in Int : x = NumCells * q + (x % NumCells)
  BY LevelFacts, ModFacts
<1> DEFINE r == x % NumCells
<1>2. r \in Int /\ x = NumCells * q + r /\ Confined(x) = r
  <2>1. r \in 0 .. NumCells - 1
    BY LevelFacts, ModFacts
  <2>2. x = NumCells * q + r
    BY <1>1, Zenon
  <2>3. Confined(x) = r
    BY DEF Confined
  <2> HIDE DEF r
  <2> QED BY <2>1, <2>2, <2>3
<1> HIDE DEF r
<1> DEFINE m == 0 - q
<1>3. m \in Int /\ Confined(x) - x = NumCells * m
  BY <1>2, LevelFacts, SMTT(30)
<1> HIDE DEF m
<1>4. (y + NumCells * m) % NumCells = y % NumCells
  BY <1>3, LevelFacts, ModShift
<1>5. Confined(y + NumCells * m) = Confined(y)
  BY <1>4 DEF Confined
<1> QED BY <1>3, <1>5

\* A node that moved from cell h of the domain to x is found by a search
\* around the cell where it belongs now, at most as far away as it moved.
LEMMA SearchFrom ==
  ASSUME level \in Levels, NEW x \in Int, NEW h \in Domain
  PROVE  \E old \in Int :
            /\ Real(old) /\ Confined(old) = h
            /\ \A m \in Nat : x - h \in -m .. m => old - Confined(x) \in -m .. m
<1>1. Confined(x) \in Domain /\ Confined(x) \in Int /\ h \in Int /\ Confined(h) = h
  BY ConfinedFacts
<1>2. CASE level.periodic
  <2> DEFINE old == h + (Confined(x) - x)
  <2>1. Confined(old) = h
    BY <1>1, <1>2, ConfinedShift
  <2>2. old \in Int /\ old - Confined(x) = h - x
    <3> DEFINE c == Confined(x)
    <3>1. c \in Int
      BY <1>1
    <3> HIDE DEF c
    <3>2. h + (c - x) \in Int /\ (h + (c - x)) - c = h - x
      BY <1>1, <3>1
    <3> QED BY <3>2 DEF c
  <2>3. ASSUME NEW m \in Nat, x - h \in -m .. m PROVE h - x \in -m .. m
    BY <1>1, <2>3
  <2>4. Real(old)
    BY <1>2 DEF Real
  <2> HIDE DEF old
  <2> QED BY <2>1, <2>2, <2>3, <2>4
<1>3. CASE ~ level.periodic
  <2>1. ASSUME NEW m \in Nat, x - h \in -m .. m PROVE h - Confined(x) \in -m .. m
    BY <1>1, <1>3, <2>1, LevelFacts DEF Confined
  <2> QED BY <1>1, <2>1, ConfinedFacts
<1> QED BY <1>2, <1>3

\* When a node is brought back to the domain, so is the cell it started from.
LEMMA BufferMoves ==
  ASSUME level \in Levels, NEW x \in Int, NEW b \in Int, Real(b)
  PROVE  \E c \in Int :
            /\ Real(c) /\ \A w \in Int : Confined(c + w) = Confined(b + w)
            /\ \A m \in Nat : x - b \in -m .. m => Confined(x) - c \in -m .. m
<1>1. Confined(x) \in Domain /\ Confined(x) \in Int
  BY ConfinedFacts
<1>2. CASE level.periodic
  <2> DEFINE c == b + (Confined(x) - x)
  <2>1. c \in Int /\ Confined(x) - c = x - b
    <3> DEFINE d == Confined(x)
    <3>1. d \in Int
      BY <1>1
    <3> HIDE DEF d
    <3>2. b + (d - x) \in Int /\ d - (b + (d - x)) = x - b
      BY <3>1
    <3> QED BY <3>2 DEF d
  <2>2. ASSUME NEW w \in Int PROVE Confined(c + w) = Confined(b + w)
    <3>1. b + w \in Int /\ c + w = (b + w) + (Confined(x) - x)
      BY <1>1
    <3> HIDE DEF c
    <3> QED BY <1>2, <3>1, ConfinedShift
  <2>3. Real(c)
    BY <1>2 DEF Real
  <2> HIDE DEF c
  <2> QED BY <2>1, <2>2, <2>3
<1>3. CASE ~ level.periodic
  <2>1. b \in Domain
    BY <1>3 DEF Real
  <2>2. ASSUME NEW m \in Nat, x - b \in -m .. m PROVE Confined(x) - b \in -m .. m
    BY <1>1, <1>3, <2>1, <2>2, LevelFacts DEF Confined
  <2> QED BY <2>2
<1> QED BY <1>2, <1>3

-----------------------------------------------------------------------------
(* The nodes of cells, of patches and of processes *)

LEMMA FlattenToSet ==
  ASSUME NEW S, NEW s \in Seq(Seq(S))
  PROVE  /\ FlattenSeq(s) \in Seq(S)
         /\ \A x : x \in ToSet(FlattenSeq(s)) <=> \E k \in DOMAIN s : x \in ToSet(s[k])
<1> DEFINE whole == FlattenSeq(s)
<1>1. whole \in Seq(S) /\ SameEntries(whole, s)
  BY FlattenEntries
<1> HIDE DEF whole
<1>2. ASSUME NEW x, x \in ToSet(whole) PROVE \E k \in DOMAIN s : x \in ToSet(s[k])
  <2>1. PICK j \in DOMAIN whole : x = whole[j]
    BY <1>2 DEF ToSet
  <2>2. PICK k \in DOMAIN s : \E i \in DOMAIN s[k] : whole[j] = s[k][i]
    BY <1>1 DEF SameEntries
  <2> QED BY <2>1, <2>2 DEF ToSet
<1>3. ASSUME NEW x, NEW k \in DOMAIN s, x \in ToSet(s[k]) PROVE x \in ToSet(whole)
  <2>1. PICK i \in DOMAIN s[k] : x = s[k][i]
    BY <1>3 DEF ToSet
  <2>2. PICK j \in DOMAIN whole : whole[j] = s[k][i]
    BY <1>1 DEF SameEntries
  <2> QED BY <2>1, <2>2 DEF ToSet
<1>4. \A x : x \in ToSet(whole) <=> \E k \in DOMAIN s : x \in ToSet(s[k])
  BY <1>2, <1>3
<1> QED BY <1>1, <1>4 DEF whole

\* Cell c, and only this one, lists the nodes of T[c].
CellsList(lo, hi, item, T) ==
    /\ \A c \in lo .. hi : Lists(item[c], T[c])
    /\ \A c, d \in lo .. hi : c # d => T[c] \cap T[d] = {}

LEMMA NodesInFacts ==
  ASSUME NEW lo \in Int, NEW hi \in Int, hi - lo + 1 \in Nat, NEW item,
         \A c \in lo .. hi : item[c] \in Seq(Node)
  PROVE  /\ NodesIn(lo, hi, item) \in Seq(Node)
         /\ \A x : x \in ToSet(NodesIn(lo, hi, item)) <=> \E c \in lo .. hi : x \in ToSet(item[c])
<1> DEFINE n == hi - lo + 1
           parts == [i \in 1 .. n |-> item[lo + i - 1]]
           whole == NodesIn(lo, hi, item)
<1>0. n \in Nat
  OBVIOUS
<1>1. whole = FlattenSeq(parts)
  BY DEF NodesIn
<1>2. \A i \in 1 .. n : lo + i - 1 \in lo .. hi
  OBVIOUS
<1>3. \A c \in lo .. hi : c - lo + 1 \in 1 .. n /\ lo + (c - lo + 1) - 1 = c
  OBVIOUS
<1>4. parts \in Seq(Seq(Node)) /\ DOMAIN parts = 1 .. n
  <2>1. parts \in [1 .. n -> Seq(Node)]
    BY <1>2
  <2> HIDE DEF parts, n
  <2> QED BY <1>0, <2>1, SeqDef
<1>5. /\ whole \in Seq(Node)
      /\ \A x : x \in ToSet(whole) <=> \E k \in 1 .. n : x \in ToSet(parts[k])
  <2> HIDE DEF parts, whole, n
  <2> QED BY <1>1, <1>4, FlattenToSet
<1>6. \A k \in 1 .. n : parts[k] = item[lo + k - 1]
  OBVIOUS
<1> HIDE DEF parts, whole, n
<1>7. ASSUME NEW x, NEW c \in lo .. hi, x \in ToSet(item[c]) PROVE x \in ToSet(whole)
  <2> DEFINE k == c - lo + 1
  <2>1. k \in 1 .. n /\ lo + k - 1 = c
    BY <1>3
  <2> HIDE DEF k
  <2>2. parts[k] = item[c]
    BY <1>6, <2>1
  <2> QED BY <1>5, <1>7, <2>1, <2>2
<1>8. ASSUME NEW x, x \in ToSet(whole) PROVE \E c \in lo .. hi : x \in ToSet(item[c])
  <2>1. PICK k \in 1 .. n : x \in ToSet(parts[k])
    BY <1>5, <1>8
  <2> DEFINE c == lo + k - 1
  <2>2. c \in lo .. hi /\ parts[k] = item[c]
    BY <1>2, <1>6
  <2> HIDE DEF c
  <2> QED BY <2>1, <2>2
<1> QED BY <1>5, <1>7, <1>8 DEF whole

LEMMA NodesInLists ==
  ASSUME NEW lo \in Int, NEW hi \in Int, hi - lo + 1 \in Nat, NEW item, NEW T,
         CellsList(lo, hi, item, T)
  PROVE  Lists(NodesIn(lo, hi, item), UNION {T[c] : c \in lo .. hi})
<1> DEFINE n == hi - lo + 1
           parts == [i \in 1 .. n |-> item[lo + i - 1]]
           sets == [i \in 1 .. n |-> T[lo + i - 1]]
           whole == NodesIn(lo, hi, item)
<1>0. n \in Nat
  OBVIOUS
<1>1. whole = FlattenSeq(parts)
  BY DEF NodesIn
<1>2. \A i \in 1 .. n : lo + i - 1 \in lo .. hi
  OBVIOUS
<1>3. \A c \in lo .. hi : c - lo + 1 \in 1 .. n /\ lo + (c - lo + 1) - 1 = c
  OBVIOUS
<1>4. \A c \in lo .. hi : Lists(item[c], T[c]) /\ item[c] \in Seq(Node)
  BY DEF CellsList, Lists
<1>5. parts \in Seq(Seq(Node)) /\ DOMAIN parts = 1 .. n
  <2>1. parts \in [1 .. n -> Seq(Node)]
    BY <1>2, <1>4
  <2> HIDE DEF parts, n
  <2> QED BY <1>0, <2>1, SeqDef
<1>6. \A k \in 1 .. n : parts[k] = item[lo + k - 1] /\ sets[k] = T[lo + k - 1]
  OBVIOUS
<1> HIDE DEF parts
<1>7. ASSUME NEW j \in 1 .. n, NEW k \in 1 .. n, j # k PROVE sets[j] \cap sets[k] = {}
  <2> DEFINE c == lo + j - 1
             d == lo + k - 1
  <2>1. c \in lo .. hi /\ d \in lo .. hi /\ c # d /\ sets[j] = T[c] /\ sets[k] = T[d]
    BY <1>2, <1>7
  <2> HIDE DEF c, d, sets
  <2> QED BY <2>1 DEF CellsList
<1>8. PartsList(parts, sets)
  <2>1. ASSUME NEW k \in 1 .. n PROVE Lists(parts[k], sets[k])
    <3> DEFINE c == lo + k - 1
    <3>1. c \in lo .. hi /\ parts[k] = item[c] /\ sets[k] = T[c]
      BY <1>2, <1>6
    <3> HIDE DEF c, sets
    <3> QED BY <1>4, <3>1
  <2> HIDE DEF sets, n
  <2> QED BY <1>5, <1>7, <2>1 DEF PartsList
<1>9. Lists(whole, UNION {sets[k] : k \in DOMAIN parts})
  <2> HIDE DEF sets, whole, n
  <2> QED BY <1>1, <1>8, FlattenLists
<1>10. UNION {sets[k] : k \in 1 .. n} = UNION {T[c] : c \in lo .. hi}
  <2>1. ASSUME NEW k \in 1 .. n PROVE \E c \in lo .. hi : sets[k] = T[c]
    BY <1>2
  <2>2. ASSUME NEW c \in lo .. hi PROVE \E k \in 1 .. n : sets[k] = T[c]
    <3> DEFINE k == c - lo + 1
    <3>1. k \in 1 .. n /\ lo + k - 1 = c
      BY <1>3
    <3>2. sets[k] = T[lo + k - 1]
      BY <3>1
    <3> HIDE DEF k, sets
    <3> QED BY <3>1, <3>2
  <2> HIDE DEF sets, n
  <2> QED BY <2>1, <2>2
<1> HIDE DEF sets, n
<1> QED BY <1>5, <1>9, <1>10 DEF whole

LEMMA AmongLists ==
  ASSUME NEW nodes, NEW T, Lists(nodes, T), NEW S
  PROVE  /\ Lists(Among(nodes, S), T \cap S)
         /\ \A x : x \in ToSet(Among(nodes, S)) <=> x \in ToSet(nodes) /\ x.lag \in S
<1> DEFINE parts == [i \in DOMAIN nodes |-> IF nodes[i].lag \in S THEN <<nodes[i]>> ELSE <<>>]
           sets == [i \in DOMAIN nodes |-> IF nodes[i].lag \in S THEN {nodes[i].lag} ELSE {}]
           whole == Among(nodes, S)
<1>1. whole = FlattenSeq(parts)
  BY DEF Among
<1>2. nodes \in Seq(Node) /\ Len(nodes) \in Nat /\ DOMAIN nodes = 1 .. Len(nodes)
  BY LenProperties DEF Lists
<1>3. ASSUME NEW i \in DOMAIN nodes
      PROVE  nodes[i] \in Node /\ parts[i] \in Seq(Node) /\ Lists(parts[i], sets[i])
             /\ \A x : x \in ToSet(parts[i]) <=> x = nodes[i] /\ x.lag \in S
  <2>1. nodes[i] \in Node
    BY <1>2, ElementOfSeq
  <2>2. CASE nodes[i].lag \in S
    <3>1. parts[i] = <<nodes[i]>> /\ sets[i] = {nodes[i].lag}
      BY <2>2
    <3> DEFINE x == nodes[i]
    <3>2. parts[i] = <<x>> /\ sets[i] = {x.lag} /\ x \in Node
      BY <2>1, <3>1
    <3> HIDE DEF x
    <3>3. <<x>> \in Seq(Node) /\ DOMAIN <<x>> = {1} /\ <<x>>[1] = x
      BY <2>1, <3>2
    <3>4. Lists(<<x>>, {x.lag})
      BY <3>3 DEF Lists
    <3>5. \A y : y \in ToSet(<<x>>) <=> y = x
      BY <3>3 DEF ToSet
    <3> HIDE DEF parts, sets
    <3> QED BY <2>1, <2>2, <3>2, <3>3, <3>4, <3>5 DEF x
  <2>3. CASE nodes[i].lag \notin S
    <3>1. parts[i] = <<>> /\ sets[i] = {}
      BY <2>3
    <3>2. <<>> \in Seq(Node) /\ Lists(<<>>, {}) /\ ToSet(<<>>) = {}
      <4>1. DOMAIN <<>> = {} /\ <<>> \in Seq(Node)
        OBVIOUS
      <4> QED BY <4>1 DEF Lists, ToSet
    <3> HIDE DEF parts, sets
    <3> QED BY <2>1, <2>3, <3>1, <3>2
  <2> QED BY <2>2, <2>3
<1>4. parts \in Seq(Seq(Node)) /\ DOMAIN parts = DOMAIN nodes
  <2>1. parts \in [1 .. Len(nodes) -> Seq(Node)]
    BY <1>2, <1>3
  <2> HIDE DEF parts
  <2> QED BY <1>2, <2>1, SeqDef
<1>5. PartsList(parts, sets)
  <2>1. ASSUME NEW j \in DOMAIN nodes, NEW k \in DOMAIN nodes, j # k PROVE sets[j] \cap sets[k] = {}
    <3>1. nodes[j].lag # nodes[k].lag
      BY <2>1 DEF Lists
    <3> QED BY <3>1
  <2> HIDE DEF parts, sets
  <2> QED BY <1>3, <1>4, <2>1 DEF PartsList
<1>6. Lists(whole, UNION {sets[k] : k \in DOMAIN parts})
  <2> HIDE DEF sets, parts, whole
  <2> QED BY <1>1, <1>5, FlattenLists
<1>7. UNION {sets[k] : k \in DOMAIN nodes} = T \cap S
  <2>1. \A l \in T : \E i \in DOMAIN nodes : nodes[i].lag = l
    BY DEF Lists
  <2>2. \A i \in DOMAIN nodes : nodes[i].lag \in T
    BY DEF Lists
  <2> QED BY <2>1, <2>2
<1>8. \A x : x \in ToSet(whole) <=> \E k \in DOMAIN nodes : x \in ToSet(parts[k])
  <2> HIDE DEF parts, whole
  <2> QED BY <1>1, <1>4, FlattenToSet
<1> HIDE DEF parts, sets, whole
<1>9. \A x : x \in ToSet(whole) <=> x \in ToSet(nodes) /\ x.lag \in S
  <2> TAKE x
  <2>1. (\E k \in DOMAIN nodes : x \in ToSet(parts[k])) <=> \E k \in DOMAIN nodes : x = nodes[k] /\ x.lag \in S
    BY <1>3
  <2>2. x \in ToSet(nodes) <=> \E k \in DOMAIN nodes : x = nodes[k]
    BY DEF ToSet
  <2> QED BY <1>8, <2>1, <2>2
<1>10. Lists(whole, T \cap S)
  BY <1>4, <1>6, <1>7
<1> QED BY <1>9, <1>10 DEF whole

LEMMA JoinedToSet ==
  ASSUME NEW S, NEW s \in Seq(S), NEW t \in Seq(S)
  PROVE  /\ s \o t \in Seq(S)
         /\ \A x : x \in ToSet(s \o t) <=> x \in ToSet(s) \/ x \in ToSet(t)
<1> DEFINE w == s \o t
<1>1. /\ Len(s) \in Nat /\ Len(t) \in Nat
      /\ DOMAIN s = 1 .. Len(s) /\ DOMAIN t = 1 .. Len(t)
  BY LenProperties
<1>2. /\ w \in Seq(S) /\ Len(w) = Len(s) + Len(t)
      /\ \A i \in 1 .. Len(s) : w[i] = s[i]
      /\ \A i \in 1 .. Len(t) : w[Len(s) + i] = t[i]
  BY JoinedFacts
<1> HIDE DEF w
<1>3. DOMAIN w = 1 .. Len(s) + Len(t)
  BY <1>2, LenProperties
<1>4. \A x \in ToSet(s) : x \in ToSet(w)
  <2> SUFFICES ASSUME NEW i \in DOMAIN s PROVE \E j \in DOMAIN w : w[j] = s[i]
    BY DEF ToSet
  <2>1. i \in DOMAIN w /\ w[i] = s[i]
    BY <1>1, <1>2, <1>3
  <2> QED BY <2>1
<1>5. \A x \in ToSet(t) : x \in ToSet(w)
  <2> SUFFICES ASSUME NEW i \in DOMAIN t PROVE \E j \in DOMAIN w : w[j] = t[i]
    BY DEF ToSet
  <2>1. Len(s) + i \in DOMAIN w /\ w[Len(s) + i] = t[i]
    BY <1>1, <1>2, <1>3
  <2> QED BY <2>1
<1>6. \A x \in ToSet(w) : x \in ToSet(s) \/ x \in ToSet(t)
  <2> SUFFICES ASSUME NEW j \in DOMAIN w PROVE w[j] \in ToSet(s) \/ w[j] \in ToSet(t)
    BY DEF ToSet
  <2>1. j \in 1 .. Len(s) \/ (j - Len(s) \in 1 .. Len(t) /\ Len(s) + (j - Len(s)) = j)
    BY <1>1, <1>3
  <2>2. CASE j \in 1 .. Len(s)
    BY <1>1, <1>2, <2>2 DEF ToSet
  <2>3. CASE j - Len(s) \in 1 .. Len(t) /\ Len(s) + (j - Len(s)) = j
    <3>1. w[j] = t[j - Len(s)] /\ j - Len(s) \in DOMAIN t
      BY <1>1, <1>2, <2>3
    <3> QED BY <3>1 DEF ToSet
  <2> QED BY <2>1, <2>2, <2>3
<1> QED BY <1>2, <1>4, <1>5, <1>6 DEF w

\* All cells of the patches hold sequences of nodes.
NodeCells(layout, d) ==
    \A k \in DOMAIN layout : \A c \in GhostBox(layout[k]) : d[k][c] \in Seq(Node)

\* The nodes of L are listed in their home cells.
HomeCells(layout, d, L, home) ==
    \A k \in DOMAIN layout : \A c \in Interior(layout[k]) :
        Lists(d[k][c], {l \in L : home[l] = c})

LEMMA LocalNodesFacts ==
  ASSUME level \in Levels, NEW layout \in level.layouts, NEW d, NodeCells(layout, d), NEW p
  PROVE  /\ LocalNodes(layout, d, p) \in Seq(Node)
         /\ \A x : x \in ToSet(LocalNodes(layout, d, p)) <=>
               \E k \in DOMAIN layout : layout[k].proc = p /\
                   \E c \in Interior(layout[k]) : x \in ToSet(d[k][c])
<1> DEFINE parts == [k \in DOMAIN layout |->
               IF layout[k].proc = p THEN NodesIn(layout[k].lo, layout[k].hi, d[k]) ELSE <<>>]
           whole == LocalNodes(layout, d, p)
<1>1. whole = FlattenSeq(parts)
  BY DEF LocalNodes
<1>2. ASSUME NEW k \in DOMAIN layout
      PROVE  /\ parts[k] \in Seq(Node)
             /\ \A x : x \in ToSet(parts[k]) <=>
                   layout[k].proc = p /\ \E c \in Interior(layout[k]) : x \in ToSet(d[k][c])
  <2>1. CASE layout[k].proc = p
    <3> DEFINE lo == layout[k].lo
               hi == layout[k].hi
    <3>1. /\ lo \in Int /\ hi \in Int /\ hi - lo + 1 \in Nat /\ Interior(layout[k]) = lo .. hi
      <4>1. /\ lo \in Nat /\ hi \in Nat /\ lo <= hi
        BY LayoutFacts
      <4> QED BY <4>1 DEF Interior
    <3>2. \A c \in lo .. hi : d[k][c] \in Seq(Node)
      BY <3>1, LayoutFacts DEF NodeCells
    <3>3. parts[k] = NodesIn(lo, hi, d[k])
      BY <2>1
    <3> HIDE DEF parts, lo, hi
    <3>4. /\ parts[k] \in Seq(Node)
          /\ \A x : x \in ToSet(parts[k]) <=> \E c \in lo .. hi : x \in ToSet(d[k][c])
      BY <3>1, <3>2, <3>3, NodesInFacts
    <3> QED BY <2>1, <3>1, <3>4
  <2>2. CASE layout[k].proc # p
    <3>1. parts[k] = <<>>
      BY <2>2
    <3>2. <<>> \in Seq(Node) /\ ToSet(<<>>) = {}
      <4>1. DOMAIN <<>> = {} /\ <<>> \in Seq(Node)
        OBVIOUS
      <4> QED BY <4>1 DEF ToSet
    <3> HIDE DEF parts
    <3> QED BY <2>2, <3>1, <3>2
  <2> QED BY <2>1, <2>2
<1>3. parts \in Seq(Seq(Node)) /\ DOMAIN parts = DOMAIN layout
  <2>1. Len(layout) \in Nat /\ DOMAIN layout = 1 .. Len(layout)
    BY LayoutFacts
  <2>2. parts \in [1 .. Len(layout) -> Seq(Node)]
    BY <1>2, <2>1
  <2> HIDE DEF parts
  <2> QED BY <2>1, <2>2, SeqDef
<1> HIDE DEF parts, whole
<1>4. /\ whole \in Seq(Node)
      /\ \A x : x \in ToSet(whole) <=> \E k \in DOMAIN layout : x \in ToSet(parts[k])
  BY <1>1, <1>3, FlattenToSet
<1> DEFINE Has(k, x) == layout[k].proc = p /\ \E c \in Interior(layout[k]) : x \in ToSet(d[k][c])
<1>5. \A k \in DOMAIN layout : \A x : x \in ToSet(parts[k]) <=> Has(k, x)
  BY <1>2
<1> HIDE DEF Has
<1>6. \A x : x \in ToSet(whole) <=> \E k \in DOMAIN layout : Has(k, x)
  BY <1>4, <1>5
<1> QED BY <1>4, <1>6 DEF whole, Has

LEMMA GhostNodesFacts ==
  ASSUME level \in Levels, NEW layout \in level.layouts, NEW d, NodeCells(layout, d), NEW p
  PROVE  /\ GhostNodes(layout, d, p) \in Seq(Node)
         /\ \A x : x \in ToSet(GhostNodes(layout, d, p)) <=>
               \E k \in DOMAIN layout : layout[k].proc = p /\
                   \E c \in GhostBox(layout[k]) \ Interior(layout[k]) : x \in ToSet(d[k][c])
<1> DEFINE parts == [k \in DOMAIN layout |->
               IF layout[k].proc = p
               THEN NodesIn(layout[k].lo - GhostWidth, layout[k].lo - 1, d[k])
                        \o NodesIn(layout[k].hi + 1, layout[k].hi + GhostWidth, d[k])
               ELSE <<>>]
           whole == GhostNodes(layout, d, p)
<1>1. whole = FlattenSeq(parts)
  BY DEF GhostNodes
<1>2. ASSUME NEW k \in DOMAIN layout
      PROVE  /\ parts[k] \in Seq(Node)
             /\ \A x : x \in ToSet(parts[k]) <=>
                   /\ layout[k].proc = p
                   /\ \E c \in GhostBox(layout[k]) \ Interior(layout[k]) : x \in ToSet(d[k][c])
  <2>1. CASE layout[k].proc = p
    <3> DEFINE lo == layout[k].lo
               hi == layout[k].hi
               left == NodesIn(lo - GhostWidth, lo - 1, d[k])
               right == NodesIn(hi + 1, hi + GhostWidth, d[k])
    <3>1. /\ lo \in Nat /\ hi \in Nat /\ lo <= hi /\ GhostWidth \in Nat
          /\ Interior(layout[k]) = lo .. hi /\ GhostBox(layout[k]) = (lo - GhostWidth) .. (hi + GhostWidth)
      BY LayoutFacts, LevelFacts DEF Interior, GhostBox, Grown
    <3> DEFINE a == lo - GhostWidth
               b == lo - 1
               e == hi + 1
               f == hi + GhostWidth
    <3>2. parts[k] = left \o right
      BY <2>1
    <3> HIDE DEF lo, hi, parts
    <3>3. /\ a \in Int /\ b \in Int /\ e \in Int /\ f \in Int
          /\ b - a + 1 \in Nat /\ f - e + 1 \in Nat
          /\ \A c : c \in GhostBox(layout[k]) \ Interior(layout[k]) <=> c \in a .. b \/ c \in e .. f
      <4>1. a \in Int /\ b \in Int /\ e \in Int /\ f \in Int /\ b - a + 1 \in Nat /\ f - e + 1 \in Nat
        BY <3>1
      <4>2. \A c : c \in a .. b \/ c \in e .. f => c \in ((lo - GhostWidth) .. (hi + GhostWidth)) \ (lo .. hi)
        BY <3>1
      <4>3. \A c \in ((lo - GhostWidth) .. (hi + GhostWidth)) \ (lo .. hi) : c \in a .. b \/ c \in e .. f
        BY <3>1
      <4> HIDE DEF a, b, e, f
      <4> QED BY <3>1, <4>1, <4>2, <4>3
    <3>4. \A c \in a .. b : d[k][c] \in Seq(Node)
      BY <3>3 DEF NodeCells
    <3>5. \A c \in e .. f : d[k][c] \in Seq(Node)
      BY <3>3 DEF NodeCells
    <3>6. left = NodesIn(a, b, d[k]) /\ right = NodesIn(e, f, d[k])
      OBVIOUS
    <3> HIDE DEF a, b, e, f, left, right
    <3>7. /\ left \in Seq(Node)
          /\ \A x : x \in ToSet(left) <=> \E c \in a .. b : x \in ToSet(d[k][c])
      BY <3>3, <3>4, <3>6, NodesInFacts
    <3>8. /\ right \in Seq(Node)
          /\ \A x : x \in ToSet(right) <=> \E c \in e .. f : x \in ToSet(d[k][c])
      BY <3>3, <3>5, <3>6, NodesInFacts
    <3>9. /\ parts[k] \in Seq(Node)
          /\ \A x : x \in ToSet(parts[k]) <=> x \in ToSet(left) \/ x \in ToSet(right)
      BY <3>2, <3>7, <3>8, JoinedToSet
    <3> QED BY <2>1, <3>3, <3>7, <3>8, <3>9
  <2>2. CASE layout[k].proc # p
    <3>1. parts[k] = <<>>
      BY <2>2
    <3>2. <<>> \in Seq(Node) /\ ToSet(<<>>) = {}
      <4>1. DOMAIN <<>> = {} /\ <<>> \in Seq(Node)
        OBVIOUS
      <4> QED BY <4>1 DEF ToSet
    <3> HIDE DEF parts
    <3> QED BY <2>2, <3>1, <3>2
  <2> QED BY <2>1, <2>2
<1>3. parts \in Seq(Seq(Node)) /\ DOMAIN parts = DOMAIN layout
  <2>1. Len(layout) \in Nat /\ DOMAIN layout = 1 .. Len(layout)
    BY LayoutFacts
  <2>2. parts \in [1 .. Len(layout) -> Seq(Node)]
    <3> HIDE DEF parts
    <3>1. \A k \in 1 .. Len(layout) : parts[k] \in Seq(Node)
      BY <1>2, <2>1
    <3>2. parts = [k \in 1 .. Len(layout) |-> parts[k]]
      BY <2>1 DEF parts
    <3> QED BY <3>1, <3>2
  <2>3. DOMAIN parts = DOMAIN layout
    OBVIOUS
  <2> HIDE DEF parts
  <2> QED BY <2>1, <2>2, <2>3, SeqDef
<1> HIDE DEF parts, whole
<1>4. /\ whole \in Seq(Node)
      /\ \A x : x \in ToSet(whole) <=> \E k \in DOMAIN layout : x \in ToSet(parts[k])
  BY <1>1, <1>3, FlattenToSet
<1> DEFINE Has(k, x) == /\ layout[k].proc = p
                        /\ \E c \in GhostBox(layout[k]) \ Interior(layout[k]) : x \in ToSet(d[k][c])
<1>5. \A k \in DOMAIN layout : \A x : x \in ToSet(parts[k]) <=> Has(k, x)
  BY <1>2
<1> HIDE DEF Has
<1>6. \A x : x \in ToSet(whole) <=> \E k \in DOMAIN layout : Has(k, x)
  BY <1>4, <1>5
<1> QED BY <1>4, <1>6 DEF whole, Has

\* The nodes at home in the interiors of the patches of process p.
Owned(layout, L, home, p) ==
    {l \in L : \E k \in DOMAIN layout : layout[k].proc = p /\ home[l] \in Interior(layout[k])}

LEMMA LocalNodesList ==
  ASSUME level \in Levels, NEW layout \in level.layouts, NEW d, NEW L, NEW home,
         HomeCells(layout, d, L, home), NEW p
  PROVE  Lists(LocalNodes(layout, d, p), Owned(layout, L, home, p))
<1> DEFINE parts == [k \in DOMAIN layout |->
               IF layout[k].proc = p THEN NodesIn(layout[k].lo, layout[k].hi, d[k]) ELSE <<>>]
           sets == [k \in DOMAIN layout |->
               {l \in L : layout[k].proc = p /\ home[l] \in Interior(layout[k])}]
           whole == LocalNodes(layout, d, p)
<1>1. whole = FlattenSeq(parts)
  BY DEF LocalNodes
<1>2. ASSUME NEW k \in DOMAIN layout PROVE Lists(parts[k], sets[k])
  <2>1. CASE layout[k].proc = p
    <3> DEFINE lo == layout[k].lo
               hi == layout[k].hi
               T == [c \in lo .. hi |-> {l \in L : home[l] = c}]
    <3>1. /\ lo \in Int /\ hi \in Int /\ hi - lo + 1 \in Nat /\ Interior(layout[k]) = lo .. hi
      <4>1. /\ lo \in Nat /\ hi \in Nat /\ lo <= hi
        BY LayoutFacts
      <4> QED BY <4>1 DEF Interior
    <3>2. parts[k] = NodesIn(lo, hi, d[k])
      BY <2>1
    <3>3. CellsList(lo, hi, d[k], T)
      <4>1. \A c \in lo .. hi : Lists(d[k][c], {l \in L : home[l] = c})
        BY <3>1 DEF HomeCells
      <4>2. \A c, e \in lo .. hi : c # e => T[c] \cap T[e] = {}
        OBVIOUS
      <4>3. \A c \in lo .. hi : T[c] = {l \in L : home[l] = c}
        OBVIOUS
      <4> HIDE DEF T
      <4> QED BY <4>1, <4>2, <4>3 DEF CellsList
    <3>4. UNION {T[c] : c \in lo .. hi} = sets[k]
      <4>1. sets[k] = {l \in L : home[l] \in lo .. hi}
        BY <2>1, <3>1
      <4>2. \A l : l \in UNION {T[c] : c \in lo .. hi} <=> l \in L /\ home[l] \in lo .. hi
        <5>1. \A c \in lo .. hi : \A l : l \in T[c] <=> l \in L /\ home[l] = c
          OBVIOUS
        <5>2. \A l : l \in UNION {T[c] : c \in lo .. hi} <=> \E c \in lo .. hi : l \in T[c]
          OBVIOUS
        <5> HIDE DEF T, lo, hi
        <5> QED BY <5>1, <5>2
      <4> HIDE DEF sets, T, lo, hi
      <4> QED BY <4>1, <4>2
    <3> HIDE DEF parts, sets, lo, hi, T
    <3>5. Lists(NodesIn(lo, hi, d[k]), UNION {T[c] : c \in lo .. hi})
      BY <3>1, <3>3, NodesInLists
    <3> QED BY <3>2, <3>4, <3>5
  <2>2. CASE layout[k].proc # p
    <3>1. parts[k] = <<>> /\ sets[k] = {}
      BY <2>2
    <3>2. Lists(<<>>, {})
      <4>1. DOMAIN <<>> = {} /\ <<>> \in Seq(Node)
        OBVIOUS
      <4> QED BY <4>1 DEF Lists
    <3> HIDE DEF parts, sets
    <3> QED BY <3>1, <3>2
  <2> QED BY <2>1, <2>2
<1>3. DOMAIN parts = DOMAIN layout
  OBVIOUS
<1>4. parts \in Seq(Seq(Node))
  <2>1. Len(layout) \in Nat /\ DOMAIN layout = 1 .. Len(layout)
    BY LayoutFacts
  <2>2. parts = [k \in 1 .. Len(layout) |-> parts[k]]
    BY <2>1
  <2> HIDE DEF parts, sets
  <2>3. \A k \in 1 .. Len(layout) : parts[k] \in Seq(Node)
    BY <1>2, <2>1 DEF Lists
  <2>4. parts \in [1 .. Len(layout) -> Seq(Node)]
    BY <2>2, <2>3
  <2> QED BY <2>1, <2>4, SeqDef
<1>5. ASSUME NEW j \in DOMAIN layout, NEW k \in DOMAIN layout, j # k
      PROVE  sets[j] \cap sets[k] = {}
  <2> SUFFICES ASSUME NEW l \in sets[j], l \in sets[k] PROVE FALSE
    OBVIOUS
  <2>1. home[l] \in Interior(layout[j]) /\ home[l] \in Interior(layout[k])
    OBVIOUS
  <2> HIDE DEF sets
  <2> QED BY <1>5, <2>1, LayoutFacts
<1>6. UNION {sets[k] : k \in DOMAIN layout} = Owned(layout, L, home, p)
  BY DEF Owned
<1> HIDE DEF parts, sets, whole
<1>7. PartsList(parts, sets)
  BY <1>2, <1>3, <1>4, <1>5 DEF PartsList
<1>8. Lists(whole, UNION {sets[k] : k \in DOMAIN parts})
  BY <1>1, <1>7, FlattenLists
<1> QED BY <1>3, <1>6, <1>8 DEF whole

-----------------------------------------------------------------------------
(* The numbers of the nodes *)

\* The processes have every node once.
Once(lag) ==
    /\ lag \in [Procs -> Seq(Nodes)]
    /\ \A l \in Nodes : \E p \in Procs : \E i \in DOMAIN lag[p] : lag[p][i] = l
    /\ \A p, q \in Procs : \A i \in DOMAIN lag[p], j \in DOMAIN lag[q] :
          lag[p][i] = lag[q][j] => p = q /\ i = j

\* The number of the i-th node of process p, from zero.
Number(lag, p, i) == NodeOffset(lag, p) + i - 1

LEMMA NumberFacts ==
  ASSUME NEW lag, Once(lag)
  PROVE  /\ NumNodes(lag) = Cardinality(Nodes)
         /\ \A p \in Procs : NodeOffset(lag, p) \in Nat /\ Len(lag[p]) \in Nat
                                /\ DOMAIN lag[p] = 1 .. Len(lag[p])
         /\ \A p \in Procs : \A i \in DOMAIN lag[p] :
               Number(lag, p, i) \in 0 .. Cardinality(Nodes) - 1
         /\ \A p, q \in Procs : \A i \in DOMAIN lag[p], j \in DOMAIN lag[q] :
               Number(lag, p, i) = Number(lag, q, j) => p = q /\ i = j
         /\ \A g \in 0 .. Cardinality(Nodes) - 1 :
               \E p \in Procs : \E i \in DOMAIN lag[p] : g = Number(lag, p, i)
<1> DEFINE len == [q \in 1 .. Ranks |-> Len(lag[q - 1])]
           off == [q \in 0 .. Ranks |-> NodeOffset(lag, q)]
           T == off[Ranks]
<1>1. Ranks \in Nat /\ Procs = 0 .. Ranks - 1
  BY DisplacementsAssumption DEF Procs
<1>2. ASSUME NEW p \in Procs
      PROVE  /\ Len(lag[p]) \in Nat /\ DOMAIN lag[p] = 1 .. Len(lag[p])
             /\ p + 1 \in 1 .. Ranks /\ p \in 0 .. Ranks /\ (p + 1) - 1 = p
             /\ off[p] = NodeOffset(lag, p) /\ len[p + 1] = Len(lag[p])
  <2>1. lag[p] \in Seq(Nodes)
    BY DEF Once
  <2>2. Len(lag[p]) \in Nat /\ DOMAIN lag[p] = 1 .. Len(lag[p])
    BY <2>1, LenProperties
  <2>3. p + 1 \in 1 .. Ranks /\ p \in 0 .. Ranks /\ (p + 1) - 1 = p
    BY <1>1
  <2> QED BY <2>2, <2>3
<1>3. Offsets(Ranks, len, off)
  <2>1. \A p \in Procs : Len(lag[p]) \in Nat
    BY <1>2
  <2> HIDE DEF len, off
  <2> QED BY <2>1, NodeOffsets DEF len, off
<1>4. T = NumNodes(lag)
  <2>1. Ranks \in 0 .. Ranks
    BY <1>1
  <2> QED BY <2>1 DEF NumNodes
<1> HIDE DEF len, off
<1>5. T \in Nat /\ \A p \in Procs : off[p] \in Nat
  <2>1. Ranks \in 0 .. Ranks
    BY <1>1
  <2> QED BY <1>2, <1>3, <2>1 DEF Offsets
<1>6. ASSUME NEW p \in Procs, NEW i \in DOMAIN lag[p] PROVE off[p] + i \in 1 .. T
  <2>1. p + 1 \in 1 .. Ranks /\ p + 1 \in 0 .. Ranks /\ Ranks \in (p + 1) .. Ranks
    BY <1>1, <1>2
  <2>2. off[p + 1] <= off[Ranks]
    BY <1>1, <1>3, <2>1, OffsetsMonotonic
  <2>3. off[p + 1] = off[p] + Len(lag[p])
    BY <1>2, <1>3 DEF Offsets
  <2> QED BY <1>2, <1>5, <2>2, <2>3
<1>7. ASSUME NEW p \in Procs, NEW q \in Procs, NEW i \in DOMAIN lag[p], NEW j \in DOMAIN lag[q],
             off[p] + i = off[q] + j
      PROVE  p = q /\ i = j
  <2> DEFINE a == p + 1
             b == q + 1
  <2>1. /\ a \in 1 .. Ranks /\ b \in 1 .. Ranks /\ i \in 1 .. len[a] /\ j \in 1 .. len[b]
        /\ off[a - 1] + i = off[b - 1] + j
    BY <1>2, <1>7
  <2>2. p = a - 1 /\ q = b - 1
    BY <1>2
  <2> HIDE DEF a, b
  <2>3. a = b /\ i = j
    BY <1>1, <1>3, <2>1, OffsetsApart
  <2> QED BY <2>2, <2>3
<1>8. ASSUME NEW g \in 1 .. T
      PROVE  \E p \in Procs : \E i \in DOMAIN lag[p] : g = off[p] + i
  <2>1. PICK k \in 1 .. Ranks : g - off[k - 1] \in 1 .. len[k]
    BY <1>1, <1>3, OffsetsReach
  <2> DEFINE p == k - 1
             i == g - off[p]
  <2>2. p \in Procs /\ k = p + 1
    BY <1>1
  <2>3. i \in 1 .. len[k]
    BY <2>1
  <2>4. len[k] = Len(lag[p]) /\ off[p] \in Nat
    <3> HIDE DEF p
    <3> QED BY <1>2, <1>5, <2>2
  <2>5. g = off[p] + i
    <3> HIDE DEF p
    <3> QED BY <1>5, <2>4
  <2>6. i \in DOMAIN lag[p]
    <3> HIDE DEF p, i
    <3> QED BY <1>2, <2>2, <2>3, <2>4
  <2> HIDE DEF p, i
  <2> QED BY <2>2, <2>5, <2>6
<1> DEFINE Stands(g, l) == \E p \in Procs : \E i \in DOMAIN lag[p] : g = off[p] + i /\ lag[p][i] = l
           f == [g \in 1 .. T |-> CHOOSE l \in Nodes : Stands(g, l)]
<1>9. ASSUME NEW g \in 1 .. T PROVE f[g] \in Nodes /\ Stands(g, f[g])
  <2>1a. PICK p \in Procs : \E i \in DOMAIN lag[p] : g = off[p] + i
    BY <1>8
  <2>1. PICK i \in DOMAIN lag[p] : g = off[p] + i
    BY <2>1a
  <2> DEFINE l == lag[p][i]
  <2>2. l \in Nodes
    <3>1. lag[p] \in Seq(Nodes)
      BY DEF Once
    <3>2. i \in 1 .. Len(lag[p])
      BY <1>2
    <3> QED BY <3>1, <3>2, ElementOfSeq
  <2>3. Stands(g, l)
    BY <2>1
  <2> HIDE DEF Stands, l, T
  <2> QED BY <2>2, <2>3
<1> HIDE DEF T
<1>10. f \in Bijection(1 .. T, Nodes)
  <2>1. f \in [1 .. T -> Nodes]
    BY <1>9
  <2> HIDE DEF f
  <2>2. ASSUME NEW g \in 1 .. T, NEW h \in 1 .. T, f[g] = f[h] PROVE g = h
    <3>1a. PICK p \in Procs : \E i \in DOMAIN lag[p] : g = off[p] + i /\ lag[p][i] = f[g]
      BY <1>9
    <3>1. PICK i \in DOMAIN lag[p] : g = off[p] + i /\ lag[p][i] = f[g]
      BY <3>1a
    <3>2a. PICK q \in Procs : \E j \in DOMAIN lag[q] : h = off[q] + j /\ lag[q][j] = f[h]
      BY <1>9
    <3>2. PICK j \in DOMAIN lag[q] : h = off[q] + j /\ lag[q][j] = f[h]
      BY <3>2a
    <3>3. p = q /\ i = j
      BY <2>2, <3>1, <3>2 DEF Once
    <3> QED BY <3>1, <3>2, <3>3
  <2>3. ASSUME NEW l \in Nodes PROVE \E g \in 1 .. T : f[g] = l
    <3>1a. PICK p \in Procs : \E i \in DOMAIN lag[p] : lag[p][i] = l
      BY DEF Once
    <3>1. PICK i \in DOMAIN lag[p] : lag[p][i] = l
      BY <3>1a
    <3> DEFINE g == off[p] + i
    <3>2. g \in 1 .. T
      BY <1>6
    <3>3a. PICK q \in Procs : \E j \in DOMAIN lag[q] : g = off[q] + j /\ lag[q][j] = f[g]
      BY <1>9, <3>2
    <3>3. PICK j \in DOMAIN lag[q] : g = off[q] + j /\ lag[q][j] = f[g]
      BY <3>3a
    <3>4. p = q /\ i = j
      BY <1>7, <3>3
    <3> HIDE DEF g
    <3> QED BY <3>1, <3>2, <3>3, <3>4
  <2> QED BY <2>1, <2>2, <2>3 DEF Bijection, Injection, Surjection, IsInjective
<1>11. Cardinality(Nodes) = T
  <2> HIDE DEF f
  <2>1. ExistsBijection(1 .. T, Nodes)
    BY <1>10 DEF ExistsBijection
  <2> QED BY <1>5, <2>1, FS_CountingElements
<1>12. ASSUME NEW p \in Procs, NEW i \in DOMAIN lag[p]
       PROVE  Number(lag, p, i) = off[p] + i - 1 /\ off[p] \in Nat /\ i \in Nat
  BY <1>2, <1>5 DEF Number
<1>13. ASSUME NEW p \in Procs, NEW i \in DOMAIN lag[p]
       PROVE  Number(lag, p, i) \in 0 .. Cardinality(Nodes) - 1
  BY <1>5, <1>6, <1>11, <1>12
<1>14. ASSUME NEW p \in Procs, NEW q \in Procs, NEW i \in DOMAIN lag[p], NEW j \in DOMAIN lag[q],
              Number(lag, p, i) = Number(lag, q, j)
       PROVE  p = q /\ i = j
  <2>1. off[p] + i = off[q] + j
    BY <1>12, <1>14
  <2> QED BY <1>7, <2>1
<1>15. ASSUME NEW g \in 0 .. Cardinality(Nodes) - 1
       PROVE  \E p \in Procs : \E i \in DOMAIN lag[p] : g = Number(lag, p, i)
  <2>1. g + 1 \in 1 .. T
    BY <1>5, <1>11
  <2>2a. PICK p \in Procs : \E i \in DOMAIN lag[p] : g + 1 = off[p] + i
    BY <1>8, <2>1
  <2>2. PICK i \in DOMAIN lag[p] : g + 1 = off[p] + i
    BY <2>2a
  <2>3. g = Number(lag, p, i)
    BY <1>12, <2>2
  <2> QED BY <2>3
<1>16. \A p \in Procs : NodeOffset(lag, p) \in Nat
  BY <1>2, <1>5
<1> QED BY <1>2, <1>4, <1>11, <1>13, <1>14, <1>15, <1>16

LEMMA IndexInFacts ==
  ASSUME NEW s, NEW l, l \in ToSet(s)
  PROVE  IndexIn(s, l) \in DOMAIN s /\ s[IndexIn(s, l)] = l
<1>1. \E i \in DOMAIN s : s[i] = l
  BY DEF ToSet
<1> QED BY <1>1 DEF IndexIn

LEMMA NewAOFacts ==
  ASSUME NEW lag, Once(lag)
  PROVE  Numbered(lag, NewAO(lag)) /\ Complete(lag)
<1> DEFINE order == NewAO(lag)
           owner(l) == CHOOSE q \in Procs : Contains(lag[q], l)
<1>1. ASSUME NEW p \in Procs, NEW l
      PROVE  Contains(lag[p], l) <=> \E i \in DOMAIN lag[p] : lag[p][i] = l
  <2>1. DOMAIN lag[p] = 1 .. Len(lag[p])
    BY NumberFacts
  <2> QED BY <2>1 DEF Contains
<1>2. ASSUME NEW p \in Procs, NEW i \in DOMAIN lag[p]
      PROVE  lag[p][i] \in Nodes /\ order[lag[p][i]] = Number(lag, p, i)
  <2> DEFINE l == lag[p][i]
  <2>1. l \in Nodes
    <3>1. lag[p] \in Seq(Nodes) /\ i \in 1 .. Len(lag[p])
      BY NumberFacts DEF Once
    <3> QED BY <3>1, ElementOfSeq
  <2>2. Contains(lag[p], l)
    BY <1>1
  <2> DEFINE q == owner(l)
  <2>3. q \in Procs /\ Contains(lag[q], l)
    BY <2>2
  <2>4. order[l] = NodeOffset(lag, q) + IndexIn(lag[q], l) - 1
    BY <2>1 DEF NewAO
  <2> HIDE DEF q, order
  <2>5. q = p
    BY <1>1, <2>3 DEF Once
  <2>6. l \in ToSet(lag[p])
    BY DEF ToSet
  <2>7. IndexIn(lag[p], l) \in DOMAIN lag[p] /\ lag[p][IndexIn(lag[p], l)] = l
    BY <2>6, IndexInFacts
  <2>8. IndexIn(lag[p], l) = i
    BY <2>7 DEF Once
  <2> QED BY <2>1, <2>4, <2>5, <2>8 DEF Number
<1>3. order \in [Nodes -> 0 .. Cardinality(Nodes) - 1]
  <2>1. ASSUME NEW l \in Nodes PROVE order[l] \in 0 .. Cardinality(Nodes) - 1
    <3>1. PICK p \in Procs : \E i \in DOMAIN lag[p] : lag[p][i] = l
      BY DEF Once
    <3>2. PICK i \in DOMAIN lag[p] : lag[p][i] = l
      BY <3>1
    <3> HIDE DEF order
    <3>3. order[l] = Number(lag, p, i)
      BY <1>2, <3>2
    <3> QED BY <3>3, NumberFacts
  <2>2. order = [l \in Nodes |-> order[l]]
    BY DEF NewAO
  <2> HIDE DEF order
  <2> QED BY <2>1, <2>2
<1> HIDE DEF order
<1>4. Numbered(lag, order)
  <2>1. NumNodes(lag) = Cardinality(Nodes)
    BY NumberFacts
  <2>2. \A p \in Procs : \A i \in DOMAIN lag[p] : order[lag[p][i]] = NodeOffset(lag, p) + i - 1
    BY <1>2 DEF Number
  <2> QED BY <1>3, <2>1, <2>2 DEF Numbered, Once
<1>5. Complete(lag)
  <2>1. NumNodes(lag) = Cardinality(Nodes)
    BY NumberFacts
  <2>2. ASSUME NEW l \in Nodes PROVE \E p \in Procs : Contains(lag[p], l)
    BY <1>1 DEF Once
  <2> QED BY <2>1, <2>2 DEF Complete
<1> QED BY <1>4, <1>5 DEF order

\* The ordering gives every global index to exactly one node.
LEMMA OrderFacts ==
  ASSUME NEW lag, NEW order, Numbered(lag, order)
  PROVE  /\ Once(lag)
         /\ \A l \in Nodes : order[l] \in 0 .. Cardinality(Nodes) - 1
         /\ \A l, m \in Nodes : order[l] = order[m] => l = m
         /\ \A l \in Nodes : (CHOOSE m \in Nodes : order[m] = order[l]) = l
         /\ \A g \in 0 .. Cardinality(Nodes) - 1 :
               /\ (CHOOSE l \in Nodes : order[l] = g) \in Nodes
               /\ order[CHOOSE l \in Nodes : order[l] = g] = g
<1>1. Once(lag)
  BY DEF Numbered, Once
<1>2. order \in [Nodes -> 0 .. Cardinality(Nodes) - 1]
  BY DEF Numbered
<1>3. \A p \in Procs : \A i \in DOMAIN lag[p] : order[lag[p][i]] = Number(lag, p, i)
  BY DEF Numbered, Number
<1>4. ASSUME NEW l \in Nodes, NEW m \in Nodes, order[l] = order[m] PROVE l = m
  <2>1. PICK p \in Procs : \E i \in DOMAIN lag[p] : lag[p][i] = l
    BY <1>1 DEF Once
  <2>2. PICK i \in DOMAIN lag[p] : lag[p][i] = l
    BY <2>1
  <2>3. PICK q \in Procs : \E j \in DOMAIN lag[q] : lag[q][j] = m
    BY <1>1 DEF Once
  <2>4. PICK j \in DOMAIN lag[q] : lag[q][j] = m
    BY <2>3
  <2>5. Number(lag, p, i) = Number(lag, q, j)
    BY <1>3, <1>4, <2>2, <2>4
  <2>6. p = q /\ i = j
    BY <1>1, <2>5, NumberFacts
  <2> QED BY <2>2, <2>4, <2>6
<1>5. ASSUME NEW g \in 0 .. Cardinality(Nodes) - 1 PROVE \E l \in Nodes : order[l] = g
  <2>1. PICK p \in Procs : \E i \in DOMAIN lag[p] : g = Number(lag, p, i)
    BY <1>1, NumberFacts
  <2>2. PICK i \in DOMAIN lag[p] : g = Number(lag, p, i)
    BY <2>1
  <2>3. lag[p][i] \in Nodes
    <3>1. lag[p] \in Seq(Nodes) /\ i \in 1 .. Len(lag[p])
      BY <1>1, NumberFacts DEF Once
    <3> QED BY <3>1, ElementOfSeq
  <2> QED BY <1>3, <2>2, <2>3
<1>6. ASSUME NEW l \in Nodes PROVE (CHOOSE m \in Nodes : order[m] = order[l]) = l
  <2> DEFINE m == CHOOSE n \in Nodes : order[n] = order[l]
  <2>1. m \in Nodes /\ order[m] = order[l]
    OBVIOUS
  <2> HIDE DEF m
  <2>2. m = l
    BY <1>4, <2>1
  <2> QED BY <2>2 DEF m
<1>7. ASSUME NEW g \in 0 .. Cardinality(Nodes) - 1
      PROVE  /\ (CHOOSE l \in Nodes : order[l] = g) \in Nodes
             /\ order[CHOOSE l \in Nodes : order[l] = g] = g
  <2>1. \E l \in Nodes : order[l] = g
    BY <1>5
  <2> QED BY <2>1
<1> QED BY <1>1, <1>2, <1>4, <1>6, <1>7

LEMMA ScatteredValues ==
  ASSUME NEW lag, NEW order, Numbered(lag, order), NEW v, NEW l \in Nodes
  PROVE  Scattered(v, order)[order[l]] = v[ao[l]]
<1>1. order[l] \in 0 .. Cardinality(Nodes) - 1 /\ (CHOOSE m \in Nodes : order[m] = order[l]) = l
  BY OrderFacts
<1> QED BY <1>1 DEF Scattered

LEMMA ScatteredType ==
  ASSUME NEW lag, NEW order, Numbered(lag, order), NEW V,
         NEW v \in [0 .. Cardinality(Nodes) - 1 -> V],
         ao \in [Nodes -> 0 .. Cardinality(Nodes) - 1]
  PROVE  Scattered(v, order) \in [0 .. Cardinality(Nodes) - 1 -> V]
<1> DEFINE indices == 0 .. Cardinality(Nodes) - 1
           at(g) == CHOOSE l \in Nodes : order[l] = g
           w == Scattered(v, order)
<1>1. w = [g \in indices |-> v[ao[at(g)]]]
  BY DEF Scattered
<1>2. \A g \in indices : at(g) \in Nodes
  BY OrderFacts
<1> HIDE DEF w, at, indices
<1>3. \A g \in indices : v[ao[at(g)]] \in V
  BY <1>2 DEF indices
<1>4. w \in [indices -> V]
  BY <1>1, <1>3
<1> QED BY <1>4 DEF w, indices

\* Every node of a ghost cell has a local index: among the local nodes, or at
\* its first occurrence among the others.
LEMMA NonlocalFacts ==
  ASSUME NEW local, NEW ghosts \in Seq(Nodes)
  PROVE  /\ Nonlocal(local, ghosts) \in Seq(Nodes)
         /\ \A l \in ToSet(ghosts) : l \in ToSet(local) \/ l \in ToSet(Nonlocal(local, ghosts))
<1> DEFINE seen(i) == ToSet(local) \cup {ghosts[j] : j \in 1 .. i - 1}
           parts == [i \in DOMAIN ghosts |-> IF ghosts[i] \in seen(i) THEN <<>> ELSE <<ghosts[i]>>]
           whole == Nonlocal(local, ghosts)
<1>1. whole = FlattenSeq(parts)
  BY DEF Nonlocal
<1>2. Len(ghosts) \in Nat /\ DOMAIN ghosts = 1 .. Len(ghosts)
  BY LenProperties
<1>3. ASSUME NEW i \in DOMAIN ghosts
      PROVE  /\ parts[i] = IF ghosts[i] \in seen(i) THEN <<>> ELSE <<ghosts[i]>>
             /\ parts[i] \in Seq(Nodes)
  <2>1. ghosts[i] \in Nodes
    BY <1>2, ElementOfSeq
  <2>2. parts[i] = IF ghosts[i] \in seen(i) THEN <<>> ELSE <<ghosts[i]>>
    OBVIOUS
  <2> HIDE DEF parts, seen
  <2>3. <<>> \in Seq(Nodes) /\ <<ghosts[i]>> \in Seq(Nodes)
    BY <2>1
  <2> QED BY <2>2, <2>3
<1>4. parts \in Seq(Seq(Nodes)) /\ DOMAIN parts = DOMAIN ghosts
  <2>1. parts = [i \in 1 .. Len(ghosts) |-> parts[i]]
    BY <1>2
  <2> HIDE DEF parts
  <2>2. parts \in [1 .. Len(ghosts) -> Seq(Nodes)]
    BY <1>2, <1>3, <2>1
  <2> QED BY <1>2, <2>1, <2>2, SeqDef
<1> HIDE DEF parts, whole
<1>5. /\ whole \in Seq(Nodes)
      /\ \A x : x \in ToSet(whole) <=> \E k \in DOMAIN ghosts : x \in ToSet(parts[k])
  BY <1>1, <1>4, FlattenToSet
<1>6. ASSUME NEW l \in ToSet(ghosts), l \notin ToSet(local) PROVE l \in ToSet(whole)
  <2> DEFINE T == {i \in DOMAIN ghosts : ghosts[i] = l}
  <2>1. T # {}
    BY DEF ToSet
  <2>2. T \in SUBSET Nat
    BY <1>2
  <2>3. PICK i \in T : \A j \in T : i <= j
    <3> HIDE DEF T
    <3> QED BY <2>1, <2>2, LeastElement
  <2>4. i \in DOMAIN ghosts /\ ghosts[i] = l /\ i \in 1 .. Len(ghosts)
    BY <1>2
  <2>5. l \notin seen(i)
    <3> SUFFICES ASSUME NEW j \in 1 .. i - 1, ghosts[j] = l PROVE FALSE
      BY <1>6
    <3>1. j \in DOMAIN ghosts /\ ~ (i <= j)
      BY <1>2, <2>4
    <3>2. j \in T
      BY <3>1
    <3> HIDE DEF T
    <3> QED BY <2>3, <3>1, <3>2
  <2> HIDE DEF seen
  <2>6. parts[i] = <<l>>
    BY <1>3, <2>4, <2>5
  <2>7. l \in ToSet(parts[i])
    BY <2>6 DEF ToSet
  <2> QED BY <1>5, <2>4, <2>7
<1> QED BY <1>5, <1>6 DEF whole

\* The entry of the global vector that a local index of process p stands for.
Global(lag, petsc, p, loc) ==
    IF loc < Len(lag[p]) THEN NodeOffset(lag, p) + loc ELSE petsc[p][loc - Len(lag[p]) + 1]

\* Every node of the list has a local index.
HasIndices(nodes, local, nonlocal) ==
    \A i \in DOMAIN nodes : nodes[i].lag \in ToSet(local) \/ nodes[i].lag \in ToSet(nonlocal)

\* The global indices of the nodes s.
Petsc(s, order) == [i \in DOMAIN s |-> order[s[i]]]

LEMMA RenumberedFacts ==
  ASSUME NEW lag, NEW order, Numbered(lag, order), NEW p \in Procs,
         NEW v \in Seq(Nodes), NEW petsc, petsc[p] = Petsc(v, order),
         NEW nodes \in Seq(Node),
         HasIndices(nodes, lag[p], v),
         NEW new, new = Renumbered(nodes, lag[p], v, order)
  PROVE  /\ new \in Seq(Node) /\ DOMAIN new = DOMAIN nodes
         /\ \A i \in DOMAIN nodes :
               /\ new[i].lag = nodes[i].lag /\ new[i].shift = nodes[i].shift
               /\ new[i].glob = order[new[i].lag]
               /\ Global(lag, petsc, p, new[i].loc) = order[new[i].lag]
<1>1. Len(nodes) \in Nat /\ DOMAIN nodes = 1 .. Len(nodes)
  BY LenProperties
<1>2. DOMAIN new = DOMAIN nodes
  BY DEF Renumbered
<1> DEFINE u == lag[p]
           w == u \o v
<1>3. u \in Seq(Nodes) /\ v \in Seq(Nodes)
  BY DEF Numbered
<1>4. Len(u) \in Nat /\ DOMAIN u = 1 .. Len(u) /\ Len(v) \in Nat /\ DOMAIN v = 1 .. Len(v)
  BY <1>3, LenProperties
<1>5. ASSUME NEW i \in DOMAIN nodes
      PROVE  /\ new[i] \in Node
             /\ new[i].lag = nodes[i].lag /\ new[i].shift = nodes[i].shift
             /\ new[i].glob = order[new[i].lag]
             /\ Global(lag, petsc, p, new[i].loc) = order[new[i].lag]
  <2> DEFINE l == nodes[i].lag
             at == IndexIn(w, l)
             loc == at - 1
  <2>1. nodes[i] \in Node /\ l \in Nodes
    <3>1. nodes[i] \in Node
      BY <1>1, ElementOfSeq
    <3> QED BY <3>1 DEF Node
  <2>2. new[i] = [nodes[i] EXCEPT !.loc = loc, !.glob = order[l]]
    BY DEF Renumbered
  <2>3. l \in ToSet(w)
    <3>1. l \in ToSet(u) \/ l \in ToSet(v)
      BY DEF HasIndices
    <3> HIDE DEF w, u
    <3> QED BY <1>3, <3>1, JoinedToSet DEF w
  <2>4. at \in DOMAIN w /\ w[at] = l
    <3> HIDE DEF w, l
    <3> QED BY <2>3, IndexInFacts DEF at
  <2>5. /\ Len(w) = Len(u) + Len(v) /\ w \in Seq(Nodes)
        /\ \A j \in 1 .. Len(u) : w[j] = u[j]
        /\ \A j \in 1 .. Len(v) : w[Len(u) + j] = v[j]
    <3> HIDE DEF w, u
    <3> QED BY <1>3, JoinedFacts DEF w
  <2>6. at \in 1 .. Len(u) + Len(v)
    <3> HIDE DEF w, u, at, l
    <3> QED BY <2>4, <2>5, LenProperties
  <2>7. order[l] \in Int
    <3>1. order[l] \in 0 .. Cardinality(Nodes) - 1
      BY <2>1, OrderFacts
    <3> QED BY <3>1
  <2> DEFINE n == nodes[i]
             m == new[i]
             o == order[l]
  <2>8. n \in [lag : Nodes, loc : Int, glob : Int, shift : Int] /\ m = [n EXCEPT !.loc = loc, !.glob = o]
        /\ loc \in Int /\ o \in Int
    <3>1. loc \in Int
      <4> HIDE DEF w, u, at, l
      <4> QED BY <1>4, <2>6
    <3> HIDE DEF loc
    <3> QED BY <2>1, <2>2, <2>7, <3>1 DEF Node
  <2> HIDE DEF n, m, o, loc
  <2>9. m \in [lag : Nodes, loc : Int, glob : Int, shift : Int] /\ m.lag = n.lag /\ m.shift = n.shift /\ m.glob = o /\ m.loc = loc
    BY <2>8
  <2>10. Global(lag, petsc, p, loc) = o
    <3> HIDE DEF l, at, w, u
    <3>1. CASE loc < Len(u)
      <4>1. at \in 1 .. Len(u) /\ loc = at - 1
        BY <1>4, <2>6, <3>1 DEF loc
      <4>2. u[at] = l
        BY <2>4, <2>5, <4>1
      <4>3. order[l] = NodeOffset(lag, p) + at - 1
        BY <1>4, <4>1, <4>2 DEF Numbered, u
      <4>4. NodeOffset(lag, p) \in Nat
        BY OrderFacts, NumberFacts
      <4>5. Global(lag, petsc, p, loc) = NodeOffset(lag, p) + loc
        BY <3>1 DEF Global, u
      <4> QED BY <4>1, <4>3, <4>4, <4>5 DEF o
    <3>2. CASE ~ (loc < Len(u))
      <4> DEFINE j == loc - Len(u) + 1
      <4>1. j \in 1 .. Len(v) /\ at = Len(u) + j
        BY <1>4, <2>6, <3>2 DEF loc
      <4>2. Global(lag, petsc, p, loc) = petsc[p][j]
        BY <3>2 DEF Global, u
      <4> HIDE DEF j
      <4>3. v[j] = l
        BY <2>4, <2>5, <4>1
      <4>4. petsc[p][j] = order[v[j]]
        BY <1>4, <4>1 DEF Petsc
      <4> QED BY <4>2, <4>3, <4>4 DEF o
    <3> QED BY <3>1, <3>2
  <2> QED BY <2>9, <2>10 DEF Node, n, m, o
<1>6. new \in Seq(Node)
  <2>1. new = [i \in 1 .. Len(nodes) |-> new[i]]
    BY <1>1 DEF Renumbered
  <2>2. new \in [1 .. Len(nodes) -> Node]
    BY <1>1, <1>5, <2>1
  <2> QED BY <1>1, <2>2, SeqDef
<1> QED BY <1>2, <1>5, <1>6

-----------------------------------------------------------------------------
(* Numbering the nodes of a level *)

LEMMA LagsFacts ==
  ASSUME NEW nodes \in Seq(Node)
  PROVE  /\ Lags(nodes) \in Seq(Nodes) /\ DOMAIN Lags(nodes) = DOMAIN nodes
         /\ \A i \in DOMAIN nodes : Lags(nodes)[i] = nodes[i].lag /\ nodes[i].lag \in ToSet(Lags(nodes))
<1>1. Len(nodes) \in Nat /\ DOMAIN nodes = 1 .. Len(nodes)
  BY LenProperties
<1>2. ASSUME NEW i \in DOMAIN nodes PROVE nodes[i].lag \in Nodes
  <2>1. nodes[i] \in Node
    BY <1>1, ElementOfSeq
  <2> QED BY <2>1 DEF Node
<1> DEFINE s == Lags(nodes)
<1>3. s = [i \in 1 .. Len(nodes) |-> nodes[i].lag]
  BY <1>1 DEF Lags
<1> HIDE DEF s
<1>4. s \in [1 .. Len(nodes) -> Nodes] /\ DOMAIN s = DOMAIN nodes
  BY <1>1, <1>2, <1>3
<1>5. s \in Seq(Nodes)
  BY <1>1, <1>4, SeqDef
<1>6. \A i \in DOMAIN nodes : s[i] = nodes[i].lag /\ nodes[i].lag \in ToSet(s)
  BY <1>1, <1>3 DEF ToSet
<1> QED BY <1>4, <1>5, <1>6 DEF s

LEMMA NewNumbering ==
  ASSUME level \in Levels, patches \in level.layouts, NEW d, NodeCells(patches, d), NEW home,
         HomeCells(patches, d, Nodes, home), \A l \in Nodes : home[l] \in CoveredBy(patches)
  PROVE  /\ Once(NewLocalLag(d))
         /\ \A k \in DOMAIN patches : \A c \in Interior(patches[k]) : \A i \in DOMAIN d[k][c] :
               d[k][c][i].lag \in ToSet(NewLocalLag(d)[patches[k].proc])
<1> DEFINE lag == NewLocalLag(d)
           nodes(p) == LocalNodes(patches, d, p)
           own(p) == Owned(patches, Nodes, home, p)
<1>1. ASSUME NEW p \in Procs
      PROVE  /\ lag[p] = Lags(nodes(p)) /\ Lists(nodes(p), own(p))
             /\ lag[p] \in Seq(Nodes) /\ DOMAIN lag[p] = DOMAIN nodes(p)
             /\ \A i \in DOMAIN nodes(p) : lag[p][i] = nodes(p)[i].lag
                                           /\ nodes(p)[i].lag \in ToSet(lag[p])
  <2>1. lag[p] = Lags(nodes(p))
    BY DEF NewLocalLag
  <2>2. Lists(nodes(p), own(p))
    BY LocalNodesList
  <2> HIDE DEF lag, nodes, own
  <2>3. nodes(p) \in Seq(Node)
    BY <2>2 DEF Lists
  <2> DEFINE s == nodes(p)
  <2>4. s \in Seq(Node) /\ lag[p] = Lags(s)
    BY <2>1, <2>3
  <2> HIDE DEF s
  <2>5. /\ lag[p] \in Seq(Nodes) /\ DOMAIN lag[p] = DOMAIN s
        /\ \A i \in DOMAIN s : lag[p][i] = s[i].lag /\ s[i].lag \in ToSet(lag[p])
    BY <2>4, LagsFacts
  <2> QED BY <2>1, <2>2, <2>5 DEF s
<1>2. lag = [p \in Procs |-> lag[p]]
  BY DEF NewLocalLag
<1> HIDE DEF lag, nodes, own
<1>3. lag \in [Procs -> Seq(Nodes)]
  BY <1>1, <1>2
<1>4. ASSUME NEW l \in Nodes PROVE \E p \in Procs : \E i \in DOMAIN lag[p] : lag[p][i] = l
  <2>1. PICK k \in DOMAIN patches : home[l] \in Interior(patches[k])
    BY DEF CoveredBy
  <2> DEFINE p == patches[k].proc
  <2>2. p \in Procs
    BY LayoutFacts
  <2>3. l \in own(p)
    BY <2>1 DEF own, Owned
  <2> HIDE DEF p
  <2>4. PICK i \in DOMAIN nodes(p) : nodes(p)[i].lag = l
    BY <1>1, <2>2, <2>3 DEF Lists
  <2> QED BY <1>1, <2>2, <2>4
<1>5. ASSUME NEW p \in Procs, NEW q \in Procs, NEW i \in DOMAIN lag[p], NEW j \in DOMAIN lag[q],
             lag[p][i] = lag[q][j]
      PROVE  p = q /\ i = j
  <2> DEFINE l == lag[p][i]
  <2>1. l \in own(p) /\ l \in own(q)
    BY <1>1, <1>5 DEF Lists
  <2> HIDE DEF l
  <2>2. PICK a \in DOMAIN patches : patches[a].proc = p /\ home[l] \in Interior(patches[a])
    BY <2>1 DEF own, Owned
  <2>3. PICK b \in DOMAIN patches : patches[b].proc = q /\ home[l] \in Interior(patches[b])
    BY <2>1 DEF own, Owned
  <2>4. a = b
    BY <2>2, <2>3, LayoutFacts
  <2>5. p = q
    BY <2>2, <2>3, <2>4
  <2>6. i = j
    BY <1>1, <1>5, <2>5 DEF Lists
  <2> QED BY <2>5, <2>6
<1>6. Once(lag)
  BY <1>3, <1>4, <1>5 DEF Once
<1>7. ASSUME NEW k \in DOMAIN patches, NEW c \in Interior(patches[k]), NEW i \in DOMAIN d[k][c]
      PROVE  d[k][c][i].lag \in ToSet(lag[patches[k].proc])
  <2> DEFINE x == d[k][c][i]
             p == patches[k].proc
  <2>1. p \in Procs
    BY LayoutFacts
  <2>2. x \in ToSet(d[k][c])
    BY DEF ToSet
  <2>3. x \in ToSet(nodes(p))
    <3> HIDE DEF x
    <3> QED BY <2>2, LocalNodesFacts DEF nodes
  <2> HIDE DEF x, p
  <2>4. PICK j \in DOMAIN nodes(p) : nodes(p)[j] = x
    BY <2>3 DEF ToSet
  <2>5. x.lag \in ToSet(lag[p])
    BY <1>1, <2>1, <2>4
  <2> QED BY <2>5 DEF x, p
<1> QED BY <1>6, <1>7 DEF lag

LEMMA NewNonlocal ==
  ASSUME level \in Levels, patches \in level.layouts, NEW d, NodeCells(patches, d)
  PROVE  /\ \A p \in Procs : NewNonlocalLag(d)[p] \in Seq(Nodes)
         /\ \A k \in DOMAIN patches : \A c \in GhostBox(patches[k]) \ Interior(patches[k]) :
               \A i \in DOMAIN d[k][c] :
                   \/ d[k][c][i].lag \in ToSet(NewLocalLag(d)[patches[k].proc])
                   \/ d[k][c][i].lag \in ToSet(NewNonlocalLag(d)[patches[k].proc])
<1> DEFINE lag == NewLocalLag(d)
           nonlocal == NewNonlocalLag(d)
           ghosts(p) == GhostNodes(patches, d, p)
<1>1. ASSUME NEW p \in Procs
      PROVE  /\ nonlocal[p] = Nonlocal(lag[p], Lags(ghosts(p)))
             /\ ghosts(p) \in Seq(Node)
  BY GhostNodesFacts DEF NewLocalLag, NewNonlocalLag
<1> HIDE DEF lag, nonlocal
<1>2. ASSUME NEW p \in Procs
      PROVE  /\ nonlocal[p] \in Seq(Nodes)
             /\ \A i \in DOMAIN ghosts(p) :
                   ghosts(p)[i].lag \in ToSet(lag[p]) \/ ghosts(p)[i].lag \in ToSet(nonlocal[p])
  <2> DEFINE s == ghosts(p)
             t == Lags(s)
             u == lag[p]
             v == nonlocal[p]
  <2>1. s \in Seq(Node) /\ v = Nonlocal(u, t)
    BY <1>1
  <2> HIDE DEF s, u, v
  <2>2. t \in Seq(Nodes) /\ \A i \in DOMAIN s : s[i].lag \in ToSet(t)
    BY <2>1, LagsFacts
  <2> HIDE DEF t
  <2>3. v \in Seq(Nodes) /\ \A l \in ToSet(t) : l \in ToSet(u) \/ l \in ToSet(v)
    BY <2>1, <2>2, NonlocalFacts
  <2>4. \A i \in DOMAIN s : s[i].lag \in ToSet(u) \/ s[i].lag \in ToSet(v)
    BY <2>2, <2>3
  <2> QED BY <2>3, <2>4 DEF s, u, v
<1>3. ASSUME NEW k \in DOMAIN patches, NEW c \in GhostBox(patches[k]) \ Interior(patches[k]),
             NEW i \in DOMAIN d[k][c]
      PROVE  \/ d[k][c][i].lag \in ToSet(lag[patches[k].proc])
             \/ d[k][c][i].lag \in ToSet(nonlocal[patches[k].proc])
  <2> DEFINE x == d[k][c][i]
             p == patches[k].proc
  <2>1. p \in Procs
    BY LayoutFacts
  <2>2. x \in ToSet(d[k][c])
    BY DEF ToSet
  <2>3. x \in ToSet(ghosts(p))
    <3> HIDE DEF x
    <3> QED BY <2>2, GhostNodesFacts
  <2> HIDE DEF x, p, ghosts
  <2>4. PICK j \in DOMAIN ghosts(p) : ghosts(p)[j] = x
    BY <2>3 DEF ToSet
  <2>5. x.lag \in ToSet(lag[p]) \/ x.lag \in ToSet(nonlocal[p])
    BY <1>2, <2>1, <2>4
  <2> QED BY <2>5 DEF x, p
<1> QED BY <1>2, <1>3 DEF lag, nonlocal

\* Every node a cell lists has an index on the process of the patch.
Indexed(d, lag, nonlocal) ==
    \A k \in DOMAIN patches : \A c \in GhostBox(patches[k]) : \A i \in DOMAIN d[k][c] :
        \/ d[k][c][i].lag \in ToSet(lag[patches[k].proc])
        \/ d[k][c][i].lag \in ToSet(nonlocal[patches[k].proc])

\* The global indices of the nodes nonlocal, in their order.
PetscOf(petsc, nonlocal, order) ==
    \A p \in Procs : /\ nonlocal[p] \in Seq(Nodes)
                     /\ petsc[p] = Petsc(nonlocal[p], order)

RenumberedCells(d, lag, nonlocal, order) ==
    [k \in DOMAIN patches |-> [c \in GhostBox(patches[k]) |->
        Renumbered(d[k][c], lag[patches[k].proc], nonlocal[patches[k].proc], order)]]

\* What renumbering leaves of the nodes, and what it makes of their indices.
Agreeing(new, d, lag, petsc, order) ==
    \A k \in DOMAIN patches : \A c \in GhostBox(patches[k]) :
        /\ \A T : Lists(d[k][c], T) => Lists(new[k][c], T)
        /\ DOMAIN new[k][c] = DOMAIN d[k][c]
        /\ \A i \in DOMAIN new[k][c] :
              /\ new[k][c][i].lag = d[k][c][i].lag /\ new[k][c][i].shift = d[k][c][i].shift
              /\ new[k][c][i].glob = order[new[k][c][i].lag]
              /\ Global(lag, petsc, patches[k].proc, new[k][c][i].loc) = order[new[k][c][i].lag]

LEMMA RenumberedLevel ==
  ASSUME level \in Levels, patches \in level.layouts, NEW d, NodeCells(patches, d),
         NEW lag, NEW order, Numbered(lag, order), NEW nonlocal, NEW petsc,
         PetscOf(petsc, nonlocal, order), Indexed(d, lag, nonlocal), NEW new,
         new = RenumberedCells(d, lag, nonlocal, order)
  PROVE  Agreeing(new, d, lag, petsc, order)
<1> SUFFICES ASSUME NEW k \in DOMAIN patches, NEW c \in GhostBox(patches[k])
             PROVE  /\ \A T : Lists(d[k][c], T) => Lists(new[k][c], T)
                    /\ DOMAIN new[k][c] = DOMAIN d[k][c]
                    /\ \A i \in DOMAIN new[k][c] :
                          /\ new[k][c][i].lag = d[k][c][i].lag /\ new[k][c][i].shift = d[k][c][i].shift
                          /\ new[k][c][i].glob = order[new[k][c][i].lag]
                          /\ Global(lag, petsc, patches[k].proc, new[k][c][i].loc)
                                 = order[new[k][c][i].lag]
  BY DEF Agreeing
<1> DEFINE p == patches[k].proc
           nodes == d[k][c]
           fresh == new[k][c]
<1>1. p \in Procs /\ nodes \in Seq(Node) /\ fresh = Renumbered(nodes, lag[p], nonlocal[p], order)
  BY LayoutFacts DEF NodeCells, RenumberedCells
<1> DEFINE v == nonlocal[p]
<1>2. v \in Seq(Nodes) /\ petsc[p] = Petsc(v, order)
  BY <1>1 DEF PetscOf
<1>3. HasIndices(nodes, lag[p], v)
  BY DEF Indexed, HasIndices
<1>3a. fresh = Renumbered(nodes, lag[p], v, order)
  BY <1>1
<1> HIDE DEF p, nodes, fresh, v
<1>4. /\ fresh \in Seq(Node) /\ DOMAIN fresh = DOMAIN nodes
      /\ \A i \in DOMAIN nodes :
            /\ fresh[i].lag = nodes[i].lag /\ fresh[i].shift = nodes[i].shift
            /\ fresh[i].glob = order[fresh[i].lag]
            /\ Global(lag, petsc, p, fresh[i].loc) = order[fresh[i].lag]
  BY <1>1, <1>2, <1>3, <1>3a, RenumberedFacts
<1>5. ASSUME NEW T, Lists(nodes, T) PROVE Lists(fresh, T)
  BY <1>4, <1>5 DEF Lists
<1> QED BY <1>4, <1>5 DEF p, nodes, fresh

-----------------------------------------------------------------------------
(* The initial states *)

LEMMA CoversFacts ==
  ASSUME level \in Levels, NEW layout \in level.layouts, NEW tagged, Covers(layout, tagged),
         NEW t \in tagged, t \in Domain
  PROVE  /\ t \in CoveredBy(layout)
         /\ \A w \in -TagBuffer .. TagBuffer : Confined(t + w) \in CoveredBy(layout)
<1>1. TagBuffer \in Nat /\ t \in Int
  BY LevelFacts, ConfinedFacts
<1>2. ASSUME NEW w \in -TagBuffer .. TagBuffer PROVE Confined(t + w) \in CoveredBy(layout)
  <2>1. t + w \in Int
    BY <1>1
  <2>2. Confined(t + w) \in Domain
    BY <2>1, ConfinedFacts
  <2>3. \E k \in DOMAIN layout : Confined(t + w) \in Interior(layout[k])
    BY DEF Covers
  <2> QED BY <2>2, <2>3 DEF CoveredBy
<1>3. 0 \in -TagBuffer .. TagBuffer /\ t + 0 = t
  BY <1>1
<1>4. Confined(t) = t
  BY ConfinedFacts
<1> QED BY <1>2, <1>3, <1>4

LEMMA IndicesFacts ==
  /\ Cardinality(Nodes) \in Nat
  /\ 0 .. Cardinality(Nodes) - 1 \subseteq Int
BY NodesAssumption, FS_CardinalityType

\* A new list of the nodes in S.
LEMMA FreshList ==
  ASSUME NEW S \in SUBSET Nodes
  PROVE  LET lags == InOrder(S) IN
         Lists([i \in DOMAIN lags |-> [lag |-> lags[i], loc |-> 0, glob |-> 0, shift |-> 0]], S)
<1> DEFINE lags == InOrder(S)
           list == [i \in DOMAIN lags |-> [lag |-> lags[i], loc |-> 0, glob |-> 0, shift |-> 0]]
<1>1. /\ lags \in Seq(S)
      /\ \A i, j \in DOMAIN lags : lags[i] = lags[j] => i = j
      /\ \A l \in S : \E i \in DOMAIN lags : lags[i] = l
  BY InOrderFacts
<1> HIDE DEF lags
<1>2. Len(lags) \in Nat /\ DOMAIN lags = 1 .. Len(lags) /\ \A i \in DOMAIN lags : lags[i] \in S
  BY <1>1, LenProperties, ElementOfSeq
<1>3. \A i \in DOMAIN lags : list[i] \in Node /\ list[i].lag = lags[i]
  BY <1>2 DEF Node
<1>4. DOMAIN list = DOMAIN lags /\ list \in Seq(Node)
  <2>1. list = [i \in 1 .. Len(lags) |-> list[i]] /\ DOMAIN list = DOMAIN lags
    BY <1>2
  <2> HIDE DEF list
  <2>2. list \in [1 .. Len(lags) -> Node]
    BY <1>2, <1>3, <2>1
  <2> QED BY <1>2, <2>1, <2>2, SeqDef
<1> HIDE DEF list
<1>5. Lists(list, S)
  BY <1>1, <1>2, <1>3, <1>4 DEF Lists
<1> QED BY <1>5 DEF list, lags

LEMMA EmptyList == Lists(<<>>, {}) /\ <<>> \in Seq(Node) /\ \A S : <<>> \in Seq(S)
<1>1. DOMAIN <<>> = {} /\ \A S : <<>> \in Seq(S)
  OBVIOUS
<1> QED BY <1>1 DEF Lists

LEMMA InitInv == Init => IInv
<1> SUFFICES ASSUME Init PROVE IInv
  OBVIOUS
<1> DEFINE indices == 0 .. Cardinality(Nodes) - 1
           Bare(at) == [k \in DOMAIN patches |-> [c \in GhostBox(patches[k]) |->
                     IF c \in Interior(patches[k])
                     THEN LET lags == InOrder({l \in Nodes : at[l] = c}) IN
                          [i \in DOMAIN lags |-> [lag |-> lags[i], loc |-> 0, glob |-> 0, shift |-> 0]]
                     ELSE <<>>]]
<1>1. /\ level \in Levels /\ phase = "initialized" /\ patches \in level.layouts
      /\ nonlocalPetsc = [p \in Procs |-> <<>>]
      /\ data = [g \in DOMAIN X |-> CHOOSE l \in Nodes : ao[l] = g]
      /\ displaced = [p \in Procs |-> <<>>]
      /\ moves = 0
      /\ wrapped = [l \in Nodes |-> 0]
  BY DEF Init
<1>2. PICK at \in [Nodes -> Domain] :
        /\ Covers(patches, {at[l] : l \in Nodes})
        /\ localLag = NewLocalLag(Bare(at))
        /\ ao = NewAO(localLag)
        /\ idx = [k \in DOMAIN patches |-> [c \in GhostBox(patches[k]) |->
                     Renumbered(Bare(at)[k][c], localLag[patches[k].proc], <<>>, ao)]]
        /\ X = [g \in indices |-> at[CHOOSE l \in Nodes : ao[l] = g]]
  BY Zenon DEF Init
<1> DEFINE bare == Bare(at)
<1>3. ASSUME NEW k \in DOMAIN patches, NEW c \in GhostBox(patches[k])
      PROVE  Lists(bare[k][c], IF c \in Interior(patches[k]) THEN {l \in Nodes : at[l] = c} ELSE {})
  <2>1. CASE c \in Interior(patches[k])
    <3>1. bare[k][c] = LET lags == InOrder({l \in Nodes : at[l] = c}) IN
                       [i \in DOMAIN lags |-> [lag |-> lags[i], loc |-> 0, glob |-> 0, shift |-> 0]]
      BY <2>1
    <3> DEFINE S == {l \in Nodes : at[l] = c}
    <3>2. S \in SUBSET Nodes
      OBVIOUS
    <3> HIDE DEF bare
    <3>3. Lists(bare[k][c], S)
      BY <3>1, <3>2, FreshList
    <3> QED BY <2>1, <3>3
  <2>2. CASE c \notin Interior(patches[k])
    <3>1. bare[k][c] = <<>>
      BY <2>2
    <3> QED BY <2>2, <3>1, EmptyList
  <2> QED BY <2>1, <2>2
<1> HIDE DEF bare, Bare
<1>4. NodeCells(patches, bare)
  BY <1>3 DEF NodeCells, Lists
<1>5. \A k \in DOMAIN patches : \A c \in Interior(patches[k]) : c \in GhostBox(patches[k])
  BY <1>1, LayoutFacts
<1>6. HomeCells(patches, bare, Nodes, at)
  BY <1>3, <1>5 DEF HomeCells
<1>7. ASSUME NEW l \in Nodes
      PROVE  /\ at[l] \in Domain /\ at[l] \in CoveredBy(patches)
             /\ \A w \in -TagBuffer .. TagBuffer : Confined(at[l] + w) \in CoveredBy(patches)
  <2> DEFINE tagged == {at[m] : m \in Nodes}
             t == at[l]
  <2>1. t \in tagged /\ t \in Domain /\ Covers(patches, tagged)
    BY <1>2
  <2> HIDE DEF tagged, t
  <2>2. /\ t \in CoveredBy(patches)
        /\ \A w \in -TagBuffer .. TagBuffer : Confined(t + w) \in CoveredBy(patches)
    BY <1>1, <2>1, CoversFacts
  <2> QED BY <2>1, <2>2 DEF t
<1>8. /\ Once(localLag)
      /\ \A k \in DOMAIN patches : \A c \in Interior(patches[k]) : \A i \in DOMAIN bare[k][c] :
            bare[k][c][i].lag \in ToSet(localLag[patches[k].proc])
  BY <1>1, <1>2, <1>4, <1>6, <1>7, NewNumbering DEF bare
<1>9. Numbered(localLag, ao)
  BY <1>2, <1>8, NewAOFacts
<1> DEFINE none == [p \in Procs |-> <<>>]
<1>10. PetscOf(nonlocalPetsc, none, ao)
  <2>1. ASSUME NEW p \in Procs PROVE none[p] \in Seq(Nodes) /\ nonlocalPetsc[p] = Petsc(none[p], ao)
    <3>1. none[p] = <<>> /\ nonlocalPetsc[p] = <<>>
      BY <1>1
    <3>2. Petsc(<<>>, ao) = <<>> /\ <<>> \in Seq(Nodes)
      BY DEF Petsc
    <3> QED BY <3>1, <3>2
  <2> QED BY <2>1 DEF PetscOf
<1>11. Indexed(bare, localLag, none)
  <2>1. ASSUME NEW k \in DOMAIN patches, NEW c \in GhostBox(patches[k]), NEW i \in DOMAIN bare[k][c]
        PROVE  bare[k][c][i].lag \in ToSet(localLag[patches[k].proc])
    <3>1. c \in Interior(patches[k])
      BY <1>3 DEF Lists
    <3> QED BY <1>8, <3>1
  <2> QED BY <2>1 DEF Indexed
<1>12. idx = RenumberedCells(bare, localLag, none, ao)
  <2>1. \A k \in DOMAIN patches : none[patches[k].proc] = <<>>
    BY <1>1, LayoutFacts
  <2> HIDE DEF none
  <2> QED BY <1>2, <2>1 DEF bare, RenumberedCells
<1> HIDE DEF none
<1>13. Agreeing(idx, bare, localLag, nonlocalPetsc, ao)
  BY <1>1, <1>4, <1>9, <1>10, <1>11, <1>12, RenumberedLevel
<1>14. IndicesRight
  BY <1>13 DEF Agreeing, IndicesRight, Global, GlobalIndex
<1>15. ASSUME NEW k \in DOMAIN patches, NEW c \in GhostBox(patches[k])
       PROVE  Lists(idx[k][c], IF c \in Interior(patches[k]) THEN {l \in Nodes : at[l] = c} ELSE {})
  BY <1>3, <1>13 DEF Agreeing
<1>16. /\ X \in [indices -> Int] /\ data \in [indices -> Nodes]
       /\ \A l \in Nodes : X[ao[l]] = at[l]
  <2>1. \A g \in indices : (CHOOSE l \in Nodes : ao[l] = g) \in Nodes
    BY <1>9, OrderFacts
  <2>2. \A l \in Nodes : ao[l] \in indices /\ (CHOOSE m \in Nodes : ao[m] = ao[l]) = l
    BY <1>9, OrderFacts
  <2>3. DOMAIN X = indices
    BY <1>2
  <2>4. data \in [indices -> Nodes]
    BY <1>1, <2>1, <2>3
  <2>5. \A l \in Nodes : at[l] \in Int
    BY <1>1, ConfinedFacts
  <2>6. X \in [indices -> Int]
    BY <1>2, <2>1, <2>5
  <2>7. \A l \in Nodes : X[ao[l]] = at[l]
    BY <1>2, <2>2
  <2> QED BY <2>4, <2>6, <2>7
<1>17. TypeOK
  <2>1. phase \in Phases /\ moves \in 0 .. MaxMoves
    BY <1>1, LevelFacts DEF Phases
  <2>2. DOMAIN idx = DOMAIN patches /\ \A k \in DOMAIN patches : DOMAIN idx[k] = GhostBox(patches[k])
    BY <1>12 DEF RenumberedCells
  <2>3. \A p \in Procs : localLag[p] \in Seq(Nodes)
    BY <1>8 DEF Once
  <2>4. \A p \in Procs : nonlocalPetsc[p] \in Seq(indices)
    BY <1>1, EmptyList
  <2>5. ao \in [Nodes -> indices]
    BY <1>9 DEF Numbered
  <2> QED BY <1>1, <1>16, <2>1, <2>2, <2>3, <2>4, <2>5 DEF TypeOK
<1>18. Gone = {}
  BY <1>1 DEF Gone
<1>19. DisplacedOnce
  <2>1. displaced \in [Procs -> Seq([node : Node, cell : Domain])]
    BY <1>1, EmptyList
  <2>2. \A p \in Procs : DOMAIN displaced[p] = {}
    BY <1>1
  <2> QED BY <1>18, <2>1, <2>2 DEF DisplacedOnce
<1>20. Sorted(at)
  <2>1. \A l \in Nodes : X[ao[l]] - at[l] \in -Travelled .. Travelled
    <3>1. Travelled = 0
      BY <1>1 DEF Travelled
    <3>2. \A l \in Nodes : at[l] \in Int
      BY <1>1, ConfinedFacts
    <3> QED BY <1>16, <3>1, <3>2
  <2>2. \A k \in DOMAIN patches : \A c \in Interior(patches[k]) :
          Lists(idx[k][c], {l \in Nodes : at[l] = c})
    BY <1>5, <1>15
  <2>3. \A k \in DOMAIN patches : \A c \in GhostBox(patches[k]) \ Interior(patches[k]) :
          Lists(idx[k][c], {})
    BY <1>15
  <2>4. Nodes \ Gone = Nodes /\ phase # "synched"
    BY <1>1, <1>18
  <2> QED BY <1>7, <2>1, <2>2, <2>3, <2>4 DEF Sorted
<1>21. InBuffer
  <2>1. ASSUME NEW l \in Nodes PROVE \E b \in Int : Buffered(l, b)
    <3>1. at[l] \in Int /\ X[ao[l]] - at[l] = 0
      <4>1. at[l] \in Int /\ X[ao[l]] = at[l]
        BY <1>1, <1>16, ConfinedFacts
      <4> QED BY <4>1
    <3>2. Buffered(l, at[l])
      BY <1>1, <1>7, <3>1 DEF Buffered
    <3> QED BY <3>1, <3>2
  <2> QED BY <2>1 DEF InBuffer
<1>22. wrapped \in [Nodes -> Int]
  BY <1>1
<1> QED BY <1>1, <1>2, <1>9, <1>14, <1>17, <1>19, <1>20, <1>21, <1>22 DEF IInv

-----------------------------------------------------------------------------
(* Moving and displacing nodes *)

LEMMA IInvFacts ==
  ASSUME IInv
  PROVE  /\ level \in Levels /\ phase \in Phases \ {"corrupt"} /\ patches \in level.layouts
         /\ X \in [0 .. Cardinality(Nodes) - 1 -> Int]
         /\ data \in [0 .. Cardinality(Nodes) - 1 -> Nodes]
         /\ ao \in [Nodes -> 0 .. Cardinality(Nodes) - 1]
         /\ \A l \in Nodes : X[ao[l]] \in Int
         /\ DOMAIN idx = DOMAIN patches
         /\ \A k \in DOMAIN patches : DOMAIN idx[k] = GhostBox(patches[k])
         /\ \A p \in Procs : localLag[p] \in Seq(Nodes)
                                /\ nonlocalPetsc[p] \in Seq(0 .. Cardinality(Nodes) - 1)
         /\ moves \in 0 .. MaxMoves /\ moves \in Nat
         /\ Numbered(localLag, ao) /\ IndicesRight /\ DisplacedOnce /\ InBuffer
         /\ \E home \in [Nodes -> Domain] : Sorted(home)
<1>1. TypeOK /\ phase # "corrupt"
  BY DEF IInv
<1>2. /\ X \in [0 .. Cardinality(Nodes) - 1 -> Int]
      /\ ao \in [Nodes -> 0 .. Cardinality(Nodes) - 1]
  BY <1>1 DEF TypeOK
<1>3. \A l \in Nodes : X[ao[l]] \in Int
  BY <1>2
<1>4. moves \in 0 .. MaxMoves /\ moves \in Nat
  BY <1>1, ReachAssumption DEF TypeOK
<1> QED BY <1>1, <1>2, <1>3, <1>4 DEF IInv, TypeOK

\* What stays the same as long as the level and its patches do.
LEMMA SamePatches ==
  ASSUME level' = level, patches' = patches
  PROVE  /\ NumCells' = NumCells /\ Domain' = Domain
         /\ \A c : Confined(c)' = Confined(c) /\ (Real(c) <=> Real(c)')
         /\ CoveredBy(patches)' = CoveredBy(patches)
<1>1. NumCells' = NumCells /\ Domain' = Domain
  BY DEF NumCells, Domain
<1>2. \A c : Confined(c)' = Confined(c)
  BY <1>1 DEF Confined
<1>3. \A c : Real(c) <=> Real(c)'
  BY <1>1 DEF Real
<1>4. CoveredBy(patches)' = CoveredBy(patches)
  BY <1>1 DEF CoveredBy
<1> QED BY <1>1, <1>2, <1>3, <1>4

LEMMA GoneFacts ==
  /\ \A l : l \in Gone <=> \E p \in Procs : \E i \in DOMAIN displaced[p] : displaced[p][i].node.lag = l
  /\ Gone = {} <=> \A p \in Procs : DOMAIN displaced[p] = {}
<1>1. \A l : l \in Gone <=> \E p \in Procs : \E i \in DOMAIN displaced[p] : displaced[p][i].node.lag = l
  BY DEF Gone
<1>2. ASSUME Gone = {}, NEW p \in Procs PROVE DOMAIN displaced[p] = {}
  BY <1>1, <1>2
<1>3. ASSUME \A p \in Procs : DOMAIN displaced[p] = {} PROVE Gone = {}
  BY <1>1, <1>3
<1> QED BY <1>1, <1>2, <1>3

LEMMA Further ==
  ASSUME NEW x \in Int, NEW y \in Int, NEW h \in Int, NEW m \in Nat,
         y - x \in -1 .. 1, x - h \in -m .. m
  PROVE  y - h \in -(m + 1) .. (m + 1)
OBVIOUS

LEMMA MoveInv == IInv /\ Move => IInv'
<1> SUFFICES ASSUME IInv, Move PROVE IInv'
  OBVIOUS
<1> DEFINE indices == 0 .. Cardinality(Nodes) - 1
<1>0. /\ X \in [indices -> Int] /\ ao \in [Nodes -> indices] /\ \A l \in Nodes : X[ao[l]] \in Int
      /\ moves \in Nat /\ level \in Levels
      /\ Numbered(localLag, ao) /\ IndicesRight /\ DisplacedOnce /\ InBuffer
  BY IInvFacts
<1>1. /\ phase = "synched" /\ moves < MaxMoves /\ moves' = moves + 1
      /\ level' = level /\ phase' = phase /\ patches' = patches /\ idx' = idx /\ ao' = ao
      /\ localLag' = localLag /\ nonlocalPetsc' = nonlocalPetsc /\ data' = data
      /\ displaced' = displaced /\ wrapped' = wrapped
  BY DEF Move
<1>2. PICK d \in [Nodes -> -1 .. 1] :
        X' = [g \in DOMAIN X |-> X[g] + d[CHOOSE l \in Nodes : ao[l] = g]]
  BY DEF Move
<1>3. X' \in [indices -> Int]
  <2>1. \A g \in indices : (CHOOSE l \in Nodes : ao[l] = g) \in Nodes
    BY <1>0, OrderFacts
  <2>2. ASSUME NEW g \in indices PROVE X[g] + d[CHOOSE l \in Nodes : ao[l] = g] \in Int
    <3>1. X[g] \in Int
      BY <1>0
    <3>2. d[CHOOSE l \in Nodes : ao[l] = g] \in Int
      BY <2>1
    <3> QED BY <3>1, <3>2
  <2> QED BY <1>0, <1>2, <2>2
<1>4. ASSUME NEW l \in Nodes PROVE X'[ao[l]] \in Int /\ X'[ao[l]] - X[ao[l]] \in -1 .. 1
  <2>1. ao[l] \in indices /\ (CHOOSE m \in Nodes : ao[m] = ao[l]) = l
    BY <1>0, OrderFacts
  <2>2. X'[ao[l]] = X[ao[l]] + d[l]
    BY <1>0, <1>2, <2>1
  <2>3. d[l] \in -1 .. 1 /\ X[ao[l]] \in Int
    BY <1>0
  <2> QED BY <2>2, <2>3
<1>5. moves' \in 0 .. MaxMoves /\ moves' \in Nat
  BY <1>0, <1>1, LevelFacts
<1>6. TypeOK'
  BY <1>1, <1>3, <1>5 DEF IInv, TypeOK
<1>7. Numbered(localLag, ao)'
  BY <1>0, <1>1
<1>8. IndicesRight'
  <2>1. \A p, loc : GlobalIndex(p, loc)' = GlobalIndex(p, loc)
    BY <1>1 DEF GlobalIndex
  <2> QED BY <1>0, <1>1, <2>1 DEF IndicesRight
<1>9. Gone' = Gone /\ Gone = {}
  <2>1. Gone = {}
    BY <1>0, <1>1 DEF DisplacedOnce
  <2>2. Gone' = Gone
    BY <1>1 DEF Gone
  <2> QED BY <2>1, <2>2
<1>10. DisplacedOnce'
  <2>1. Domain' = Domain
    BY <1>1, SamePatches
  <2>2. \A p \in Procs : DOMAIN displaced[p] = {}
    BY <1>9, GoneFacts
  <2> QED BY <1>0, <1>1, <1>9, <2>1, <2>2 DEF DisplacedOnce
<1>11. \E home \in [Nodes -> Domain'] : Sorted(home)'
  <2>1. PICK home \in [Nodes -> Domain] : Sorted(home)
    BY IInvFacts
  <2>2. Travelled = moves /\ Travelled' = moves + 1
    BY <1>1 DEF Travelled
  <2>3. ASSUME NEW l \in Nodes PROVE X'[ao[l]] - home[l] \in -(moves + 1) .. (moves + 1)
    <3>1. X[ao[l]] - home[l] \in -moves .. moves
      BY <1>9, <2>1, <2>2 DEF Sorted
    <3>2. home[l] \in Int
      BY <1>0, ConfinedFacts
    <3> QED BY <1>0, <1>4, <3>1, <3>2, Further
  <2>4. \A c : At(home, c)' = At(home, c)
    BY <1>1, SamePatches DEF At
  <2>5. Sorted(home)'
    <3>1. \A l \in Nodes : home[l] \in CoveredBy(patches)'
      BY <1>1, <1>9, <2>1, SamePatches DEF Sorted
    <3>2. \A k \in DOMAIN patches : \A c \in Interior(patches[k]) :
            Lists(idx[k][c], {l \in Nodes \ Gone : home[l] = c})
      BY <2>1 DEF Sorted
    <3>3. \A k \in DOMAIN patches : \A c \in GhostBox(patches[k]) \ Interior(patches[k]) :
            Lists(idx[k][c], At(home, c))
      BY <1>1, <2>1 DEF Sorted
    <3>4. patches' = patches /\ idx' = idx /\ Nodes \ Gone' = Nodes \ Gone
          /\ phase' = "synched" /\ ao' = ao
      BY <1>1, <1>9
    <3>5. \A l \in Nodes \ Gone' :
              /\ X'[ao'[l]] - home[l] \in -Travelled' .. Travelled'
              /\ home[l] \in CoveredBy(patches)'
      BY <2>2, <2>3, <3>1, <3>4
    <3>6. \A k \in DOMAIN patches' : \A c \in Interior(patches'[k]) :
              Lists(idx'[k][c], {l \in Nodes \ Gone' : home[l] = c})
      BY <3>2, <3>4
    <3>7. \A k \in DOMAIN patches' : \A c \in GhostBox(patches'[k]) \ Interior(patches'[k]) :
              Lists(idx'[k][c], IF phase' = "synched" THEN At(home, c)' ELSE {})
      BY <2>4, <3>3, <3>4
    <3> QED BY <3>5, <3>6, <3>7, Zenon DEF Sorted
  <2>6. Domain' = Domain
    BY <1>1, SamePatches
  <2> QED BY <2>5, <2>6
<1>12. InBuffer'
  <2>1. ASSUME NEW l \in Nodes PROVE \E b \in Int : Buffered(l, b)'
    <3>1. PICK b \in Int : Buffered(l, b)
      BY <1>0, <1>1, <1>9 DEF InBuffer
    <3>2. X[ao[l]] - b \in -moves .. moves
      BY <1>1, <3>1 DEF Buffered
    <3>3. X'[ao[l]] - b \in -(moves + 1) .. (moves + 1)
      BY <1>0, <1>4, <3>2, Further
    <3>4. Buffered(l, b)'
      BY <1>1, <3>1, <3>3, SamePatches DEF Buffered
    <3> QED BY <3>4
  <2> QED BY <1>1, <2>1 DEF InBuffer
<1> QED BY <1>1, <1>6, <1>7, <1>8, <1>10, <1>11, <1>12 DEF IInv

LEMMA NoCopies ==
  ASSUME level \in Levels, patches \in level.displaceOn, NEW k \in DOMAIN patches,
         NEW c \in GhostBox(patches[k]) \ Interior(patches[k]), Real(c)
  PROVE  Confined(c) \notin CoveredBy(patches)
<1>1. \A j \in DOMAIN patches :
        (IF level.periodic THEN c % level.cells ELSE c) \notin Interior(patches[j])
  BY CopiesAssumption
<1>2. Confined(c) = IF level.periodic THEN c % level.cells ELSE c
  <2>1. CASE level.periodic
    BY <2>1 DEF Confined, NumCells
  <2>2. CASE ~ level.periodic
    BY <2>2, ConfinedFacts
  <2> QED BY <2>1, <2>2
<1> QED BY <1>1, <1>2 DEF CoveredBy

\* The cells list the nodes of their homes, and some of their copies.
LEMMA SortedCells ==
  ASSUME IInv, phase \in {"initialized", "synched", "displaced"},
         NEW home \in [Nodes -> Domain], Sorted(home)
  PROVE  /\ NodeCells(patches, idx) /\ HomeCells(patches, idx, Nodes \ Gone, home)
<1>1. NodeCells(patches, idx)
  BY DEF NodeCells, Sorted, Lists
<1>2. HomeCells(patches, idx, Nodes \ Gone, home)
  BY DEF HomeCells, Sorted
<1> QED BY <1>1, <1>2

\* The nodes of a structure that every process takes from its patches.
Taken(S) == [p \in Procs |-> Among(LocalNodes(patches, idx, p), S)]

LEMMA TakenFacts ==
  ASSUME IInv, phase = "synched", NEW S \in SUBSET Nodes,
         NEW home \in [Nodes -> Domain], Sorted(home)
  PROVE  LET taken == Taken(S) IN
         /\ \A p \in Procs : Lists(taken[p], Owned(patches, Nodes, home, p) \cap S)
         /\ \A p \in Procs : \A i \in DOMAIN taken[p] :
               /\ taken[p][i] \in Node /\ taken[p][i].lag \in S
               /\ GlobalIndex(p, taken[p][i].loc) = ao[taken[p][i].lag]
               /\ \E k \in DOMAIN patches : \E c \in Interior(patches[k]) :
                     taken[p][i] \in ToSet(idx[k][c])
         /\ \A l \in S : \E p \in Procs : \E i \in DOMAIN taken[p] : taken[p][i].lag = l
         /\ UNION {{GlobalIndex(p, taken[p][i].loc) : i \in DOMAIN taken[p]} : p \in Procs}
               = {ao[l] : l \in S}
<1> DEFINE local(p) == LocalNodes(patches, idx, p)
           taken == Taken(S)
<1>0. level \in Levels /\ patches \in level.layouts /\ IndicesRight
  BY IInvFacts
<1>1. Gone = {} /\ Nodes \ Gone = Nodes
  BY IInvFacts DEF DisplacedOnce
<1>2. NodeCells(patches, idx) /\ HomeCells(patches, idx, Nodes, home)
  BY <1>1, SortedCells
<1>3. ASSUME NEW p \in Procs
      PROVE  /\ Lists(taken[p], Owned(patches, Nodes, home, p) \cap S)
             /\ \A x \in ToSet(taken[p]) :
                   /\ x.lag \in S /\ GlobalIndex(p, x.loc) = ao[x.lag]
                   /\ \E k \in DOMAIN patches : \E c \in Interior(patches[k]) : x \in ToSet(idx[k][c])
  <2>1. Lists(local(p), Owned(patches, Nodes, home, p))
    BY <1>0, <1>2, LocalNodesList
  <2>2. taken[p] = Among(local(p), S)
    BY DEF Taken
  <2>3. \A x : x \in ToSet(local(p)) <=>
               \E k \in DOMAIN patches : patches[k].proc = p /\
                   \E c \in Interior(patches[k]) : x \in ToSet(idx[k][c])
    BY <1>0, <1>2, LocalNodesFacts
  <2> HIDE DEF taken, local
  <2>4. /\ Lists(taken[p], Owned(patches, Nodes, home, p) \cap S)
        /\ \A x : x \in ToSet(taken[p]) <=> x \in ToSet(local(p)) /\ x.lag \in S
    BY <2>1, <2>2, AmongLists
  <2>5. ASSUME NEW x \in ToSet(taken[p])
        PROVE  /\ x.lag \in S /\ GlobalIndex(p, x.loc) = ao[x.lag]
               /\ \E k \in DOMAIN patches : \E c \in Interior(patches[k]) : x \in ToSet(idx[k][c])
    <3>1. x \in ToSet(local(p)) /\ x.lag \in S
      BY <2>4
    <3>2. PICK k \in DOMAIN patches : patches[k].proc = p /\
                   \E c \in Interior(patches[k]) : x \in ToSet(idx[k][c])
      BY <2>3, <3>1
    <3>3. PICK c \in Interior(patches[k]) : x \in ToSet(idx[k][c])
      BY <3>2
    <3>4. PICK i \in DOMAIN idx[k][c] : x = idx[k][c][i]
      BY <3>3 DEF ToSet
    <3>5. c \in GhostBox(patches[k])
      BY <1>0, LayoutFacts
    <3>6. GlobalIndex(p, x.loc) = ao[x.lag]
      BY <1>0, <3>2, <3>4, <3>5 DEF IndicesRight
    <3> QED BY <3>1, <3>3, <3>6
  <2> QED BY <2>4, <2>5
<1> HIDE DEF taken
<1>4. ASSUME NEW l \in S
      PROVE  \E p \in Procs : \E i \in DOMAIN taken[p] : taken[p][i].lag = l
  <2>1. home[l] \in CoveredBy(patches)
    BY <1>1 DEF Sorted
  <2>2. PICK k \in DOMAIN patches : home[l] \in Interior(patches[k])
    BY <2>1 DEF CoveredBy
  <2> DEFINE p == patches[k].proc
  <2>3. p \in Procs
    BY <1>0, LayoutFacts
  <2>4. l \in Owned(patches, Nodes, home, p) \cap S
    BY <2>2 DEF Owned
  <2> HIDE DEF p
  <2>5. \E i \in DOMAIN taken[p] : taken[p][i].lag = l
    BY <1>3, <2>3, <2>4 DEF Lists
  <2> QED BY <2>3, <2>5
<1>5. ASSUME NEW p \in Procs, NEW i \in DOMAIN taken[p]
      PROVE  /\ taken[p][i] \in Node /\ taken[p][i].lag \in S
             /\ GlobalIndex(p, taken[p][i].loc) = ao[taken[p][i].lag]
             /\ \E k \in DOMAIN patches : \E c \in Interior(patches[k]) :
                   taken[p][i] \in ToSet(idx[k][c])
  <2>1. taken[p][i] \in ToSet(taken[p])
    BY DEF ToSet
  <2>2. taken[p] \in Seq(Node)
    BY <1>3 DEF Lists
  <2>3. i \in 1 .. Len(taken[p])
    BY <2>2, LenProperties
  <2>4. taken[p][i] \in Node
    BY <2>2, <2>3, ElementOfSeq
  <2> QED BY <1>3, <2>1, <2>4
<1>6. UNION {{GlobalIndex(p, taken[p][i].loc) : i \in DOMAIN taken[p]} : p \in Procs}
          = {ao[l] : l \in S}
  <2>1. ASSUME NEW p \in Procs, NEW i \in DOMAIN taken[p]
        PROVE  GlobalIndex(p, taken[p][i].loc) \in {ao[l] : l \in S}
    BY <1>5
  <2>2. ASSUME NEW l \in S
        PROVE  \E p \in Procs : \E i \in DOMAIN taken[p] : ao[l] = GlobalIndex(p, taken[p][i].loc)
    <3>1. PICK p \in Procs : \E i \in DOMAIN taken[p] : taken[p][i].lag = l
      BY <1>4
    <3>2. PICK i \in DOMAIN taken[p] : taken[p][i].lag = l
      BY <3>1
    <3> QED BY <1>5, <3>2
  <2> QED BY <2>1, <2>2
<1> QED BY <1>3, <1>4, <1>5, <1>6 DEF taken

\* A displacement moves the nodes of the structure and no other.
LEMMA DisplaceStep ==
  ASSUME NEW S \in Structures, NEW dX \in Displacements,
         IInv, DisplaceLagrangianStructure(S, dX)
  PROVE  /\ phase = "synched" /\ patches \in level.displaceOn /\ phase' = "displaced"
         /\ S \in SUBSET Nodes /\ dX \in Int
         /\ X' \in [0 .. Cardinality(Nodes) - 1 -> Int]
         /\ \A l \in S : X'[ao[l]] = X[ao[l]] + dX /\ X'[ao[l]] \in Domain
         /\ \A l \in Nodes \ S : X'[ao[l]] = X[ao[l]] /\ X'[ao[l]] \in Int
         /\ displaced' = [p \in Procs |-> [i \in DOMAIN Taken(S)[p] |->
                [node |-> Taken(S)[p][i], cell |-> X'[GlobalIndex(p, Taken(S)[p][i].loc)]]]]
         /\ idx' = [k \in DOMAIN patches |-> [c \in GhostBox(patches[k]) |->
                IF c \in Interior(patches[k]) THEN Among(idx[k][c], Nodes \ S) ELSE idx[k][c]]]
         /\ level' = level /\ patches' = patches /\ ao' = ao /\ localLag' = localLag
         /\ nonlocalPetsc' = nonlocalPetsc /\ data' = data /\ moves' = moves /\ wrapped' = wrapped
<1> DEFINE indices == 0 .. Cardinality(Nodes) - 1
           taken == Taken(S)
           moved == UNION {{GlobalIndex(p, taken[p][i].loc) : i \in DOMAIN taken[p]} : p \in Procs}
<1>0. /\ X \in [indices -> Int] /\ ao \in [Nodes -> indices] /\ Numbered(localLag, ao)
      /\ S \in SUBSET Nodes /\ dX \in Int
  BY IInvFacts, DisplacementsAssumption
<1>1. /\ phase = "synched" /\ patches \in level.displaceOn
      /\ \A g \in moved : X[g] + dX \in Domain
      /\ phase' = "displaced"
      /\ X' = [g \in DOMAIN X |-> IF g \in moved THEN X[g] + dX ELSE X[g]]
      /\ displaced' = [p \in Procs |-> [i \in DOMAIN taken[p] |->
             [node |-> taken[p][i], cell |-> X'[GlobalIndex(p, taken[p][i].loc)]]]]
      /\ idx' = [k \in DOMAIN patches |-> [c \in GhostBox(patches[k]) |->
             IF c \in Interior(patches[k]) THEN Among(idx[k][c], Nodes \ S) ELSE idx[k][c]]]
      /\ level' = level /\ patches' = patches /\ ao' = ao /\ localLag' = localLag
      /\ nonlocalPetsc' = nonlocalPetsc /\ data' = data /\ moves' = moves /\ wrapped' = wrapped
  BY DEF DisplaceLagrangianStructure, Taken
<1>2. PICK home \in [Nodes -> Domain] : Sorted(home)
  BY IInvFacts
<1>3. moved = {ao[l] : l \in S}
  BY <1>0, <1>1, <1>2, TakenFacts
<1> HIDE DEF moved, taken
<1>4. ASSUME NEW l \in Nodes
      PROVE  /\ l \in S => X'[ao[l]] = X[ao[l]] + dX /\ X'[ao[l]] \in Domain
             /\ l \notin S => X'[ao[l]] = X[ao[l]]
             /\ X'[ao[l]] \in Int
  <2>1. ao[l] \in moved <=> l \in S
    BY <1>0, <1>3, OrderFacts
  <2>2. ao[l] \in indices
    BY <1>0
  <2>3. X'[ao[l]] = IF l \in S THEN X[ao[l]] + dX ELSE X[ao[l]]
    BY <1>0, <1>1, <2>1, <2>2
  <2> QED BY <1>0, <1>1, <2>1, <2>3
<1>5. X' \in [indices -> Int]
  <2>1. \A g \in indices : X[g] \in Int /\ X[g] + dX \in Int
    BY <1>0
  <2> QED BY <1>0, <1>1, <2>1
<1> QED BY <1>0, <1>1, <1>4, <1>5 DEF taken

LEMMA DisplaceInv ==
  ASSUME NEW S \in Structures, NEW dX \in Displacements,
         IInv, DisplaceLagrangianStructure(S, dX)
  PROVE  IInv'
<1> DEFINE indices == 0 .. Cardinality(Nodes) - 1
           taken == Taken(S)
<1>0. /\ X \in [indices -> Int] /\ ao \in [Nodes -> indices] /\ \A l \in Nodes : X[ao[l]] \in Int
      /\ moves \in Nat /\ level \in Levels /\ patches \in level.layouts
      /\ Numbered(localLag, ao) /\ IndicesRight /\ DisplacedOnce /\ InBuffer
      /\ S \subseteq Nodes /\ dX \in Int
  BY IInvFacts, DisplacementsAssumption
<1>1. /\ phase = "synched" /\ patches \in level.displaceOn
      /\ phase' = "displaced"
      /\ displaced' = [p \in Procs |-> [i \in DOMAIN taken[p] |->
             [node |-> taken[p][i], cell |-> X'[GlobalIndex(p, taken[p][i].loc)]]]]
      /\ idx' = [k \in DOMAIN patches |-> [c \in GhostBox(patches[k]) |->
             IF c \in Interior(patches[k]) THEN Among(idx[k][c], Nodes \ S) ELSE idx[k][c]]]
      /\ level' = level /\ patches' = patches /\ ao' = ao /\ localLag' = localLag
      /\ nonlocalPetsc' = nonlocalPetsc /\ data' = data /\ moves' = moves /\ wrapped' = wrapped
  BY DisplaceStep
<1>2. Gone = {} /\ Nodes \ Gone = Nodes
  BY <1>0, <1>1 DEF DisplacedOnce
<1>3. PICK home \in [Nodes -> Domain] : Sorted(home)
  BY IInvFacts
<1>4. NodeCells(patches, idx) /\ HomeCells(patches, idx, Nodes, home)
  BY <1>1, <1>2, <1>3, SortedCells
<1>4a. /\ \A p \in Procs : Lists(taken[p], Owned(patches, Nodes, home, p) \cap S)
       /\ \A p \in Procs : \A i \in DOMAIN taken[p] :
             /\ taken[p][i] \in Node /\ taken[p][i].lag \in S
             /\ GlobalIndex(p, taken[p][i].loc) = ao[taken[p][i].lag]
             /\ \E k \in DOMAIN patches : \E c \in Interior(patches[k]) :
                   taken[p][i] \in ToSet(idx[k][c])
       /\ \A l \in S : \E p \in Procs : \E i \in DOMAIN taken[p] : taken[p][i].lag = l
       /\ UNION {{GlobalIndex(p, taken[p][i].loc) : i \in DOMAIN taken[p]} : p \in Procs}
             = {ao[l] : l \in S}
  <2>1. S \in SUBSET Nodes
    BY <1>0
  <2> QED BY <1>1, <1>3, <2>1, TakenFacts
<1> HIDE DEF taken
<1>5. \A p \in Procs : Lists(taken[p], Owned(patches, Nodes, home, p) \cap S)
  BY <1>4a
<1>6. \A l \in S : \E p \in Procs : \E i \in DOMAIN taken[p] : taken[p][i].lag = l
  BY <1>4a
<1>7. \A p \in Procs : \A i \in DOMAIN taken[p] :
        /\ taken[p][i] \in Node /\ taken[p][i].lag \in S
        /\ GlobalIndex(p, taken[p][i].loc) = ao[taken[p][i].lag]
  BY <1>4a
<1>9. ASSUME NEW l \in Nodes
      PROVE  /\ l \in S => X'[ao[l]] = X[ao[l]] + dX /\ X'[ao[l]] \in Domain
             /\ l \notin S => X'[ao[l]] = X[ao[l]]
             /\ X'[ao[l]] \in Int
  <2>1. \A c \in Domain : c \in Int
    BY <1>0, ConfinedFacts
  <2> QED BY <2>1, DisplaceStep
<1>10. X' \in [indices -> Int]
  BY DisplaceStep
<1>11. displaced' \in [Procs -> Seq([node : Node, cell : Domain])]
  <2>1. ASSUME NEW p \in Procs
        PROVE  displaced'[p] \in Seq([node : Node, cell : Domain])
    <3>1. taken[p] \in Seq(Node)
      BY <1>5 DEF Lists
    <3>2. Len(taken[p]) \in Nat /\ DOMAIN taken[p] = 1 .. Len(taken[p])
      BY <3>1, LenProperties
    <3>3. ASSUME NEW i \in DOMAIN taken[p]
          PROVE  [node |-> taken[p][i], cell |-> X'[GlobalIndex(p, taken[p][i].loc)]]
                     \in [node : Node, cell : Domain]
      BY <1>0, <1>7, <1>9
    <3>4. displaced'[p] \in [1 .. Len(taken[p]) -> [node : Node, cell : Domain]]
      BY <1>1, <3>2, <3>3
    <3> DEFINE T == [node : Node, cell : Domain]
    <3> HIDE DEF T
    <3>5. \A m \in Nat : [1 .. m -> T] \subseteq Seq(T)
      BY SeqDef
    <3>6. displaced'[p] \in [1 .. Len(taken[p]) -> T]
      BY <3>4 DEF T
    <3>7. displaced'[p] \in Seq(T)
      BY <3>2, <3>5, <3>6
    <3> QED BY <3>7 DEF T
  <2> QED BY <1>1, <2>1
<1>12. \A p \in Procs : /\ DOMAIN displaced'[p] = DOMAIN taken[p]
                        /\ \A i \in DOMAIN taken[p] :
                              /\ displaced'[p][i].node = taken[p][i]
                              /\ displaced'[p][i].cell = X'[ao[taken[p][i].lag]]
  BY <1>1, <1>7
<1>13. Gone' = S
  <2>1. \A l : l \in Gone' <=> \E p \in Procs : \E i \in DOMAIN displaced'[p] : displaced'[p][i].node.lag = l
    BY DEF Gone
  <2>2. \A l \in S : l \in Gone'
    BY <1>6, <1>12, <2>1
  <2>3. \A l \in Gone' : l \in S
    BY <1>7, <1>12, <2>1
  <2> QED BY <2>2, <2>3
<1>14. DisplacedOnce'
  <2>1. ASSUME NEW p \in Procs, NEW q \in Procs, NEW i \in DOMAIN taken[p], NEW j \in DOMAIN taken[q],
               taken[p][i].lag = taken[q][j].lag
        PROVE  p = q /\ i = j
    <3> DEFINE l == taken[p][i].lag
    <3>1. l \in Owned(patches, Nodes, home, p) /\ l \in Owned(patches, Nodes, home, q)
      BY <1>5, <2>1 DEF Lists
    <3> HIDE DEF l
    <3>2. PICK a \in DOMAIN patches : patches[a].proc = p /\ home[l] \in Interior(patches[a])
      BY <3>1 DEF Owned
    <3>3. PICK b \in DOMAIN patches : patches[b].proc = q /\ home[l] \in Interior(patches[b])
      BY <3>1 DEF Owned
    <3>4. p = q
      BY <1>0, <3>2, <3>3, LayoutFacts
    <3> QED BY <1>5, <2>1, <3>4 DEF Lists
  <2>2. Domain' = Domain
    BY <1>1, SamePatches
  <2>3. \A p, q \in Procs : \A i \in DOMAIN displaced'[p], j \in DOMAIN displaced'[q] :
          displaced'[p][i].node.lag = displaced'[q][j].node.lag => p = q /\ i = j
    BY <1>12, <2>1
  <2>4. \A p \in Procs : \A i \in DOMAIN displaced'[p] :
          displaced'[p][i].cell = X'[ao'[displaced'[p][i].node.lag]]
    <3> SUFFICES ASSUME NEW p \in Procs, NEW i \in DOMAIN displaced'[p]
                 PROVE  displaced'[p][i].cell = X'[ao'[displaced'[p][i].node.lag]]
      OBVIOUS
    <3>1. i \in DOMAIN taken[p]
      BY <1>12
    <3>2. displaced'[p][i].node.lag = taken[p][i].lag
          /\ displaced'[p][i].cell = X'[ao[taken[p][i].lag]]
      BY <1>12, <3>1
    <3> QED BY <1>1, <3>2
  <2>5. displaced' \in [Procs -> Seq([node : Node, cell : Domain'])]
    BY <1>11, <2>2
  <2>6. phase' \notin {"initialized", "synched"}
    BY <1>1
  <2> QED BY <2>3, <2>4, <2>5, <2>6, Zenon DEF DisplacedOnce
<1>15. ASSUME NEW k \in DOMAIN patches, NEW c \in Interior(patches[k])
       PROVE  /\ idx'[k][c] = Among(idx[k][c], Nodes \ S)
              /\ Lists(idx'[k][c], {l \in Nodes \ S : home[l] = c})
              /\ \A x \in ToSet(idx'[k][c]) : x \in ToSet(idx[k][c])
  <2>1. c \in GhostBox(patches[k])
    BY <1>0, LayoutFacts
  <2>2. idx'[k][c] = Among(idx[k][c], Nodes \ S)
    BY <1>1, <2>1
  <2> DEFINE T == {l \in Nodes : home[l] = c}
             old == idx[k][c]
             rest == Nodes \ S
  <2>3. Lists(old, T)
    BY <1>4 DEF HomeCells
  <2>5. T \cap rest = {l \in Nodes \ S : home[l] = c}
    OBVIOUS
  <2> HIDE DEF T, old, rest
  <2>4a. /\ Lists(Among(old, rest), T \cap rest)
         /\ \A x : x \in ToSet(Among(old, rest)) <=> x \in ToSet(old) /\ x.lag \in rest
    BY <2>3, AmongLists
  <2>4. /\ Lists(idx'[k][c], T \cap rest)
        /\ \A x : x \in ToSet(idx'[k][c]) => x \in ToSet(idx[k][c])
    BY <2>2, <2>4a DEF old, rest
  <2> QED BY <2>2, <2>4, <2>5
<1>16. ASSUME NEW k \in DOMAIN patches, NEW c \in GhostBox(patches[k]) \ Interior(patches[k])
       PROVE  idx'[k][c] = idx[k][c] /\ Lists(idx'[k][c], {})
  <2>1. idx'[k][c] = idx[k][c]
    BY <1>1
  <2>2. Lists(idx[k][c], At(home, c))
    BY <1>1, <1>3 DEF Sorted
  <2>3. At(home, c) = {}
    <3> SUFFICES ASSUME NEW l \in Nodes, Real(c), home[l] = Confined(c) PROVE FALSE
      BY DEF At
    <3>1. Confined(c) \notin CoveredBy(patches)
      BY <1>0, <1>1, NoCopies
    <3>2. home[l] \in CoveredBy(patches)
      BY <1>2, <1>3 DEF Sorted
    <3> QED BY <3>1, <3>2
  <2> QED BY <2>1, <2>2, <2>3
<1>17. TypeOK'
  <2>1. DOMAIN idx' = DOMAIN patches /\ \A k \in DOMAIN patches : DOMAIN idx'[k] = GhostBox(patches[k])
    BY <1>1
  <2>2. "displaced" \in Phases
    BY DEF Phases
  <2> QED BY <1>1, <1>10, <2>1, <2>2 DEF IInv, TypeOK
<1>18. Numbered(localLag, ao)'
  BY <1>0, <1>1
<1>19. IndicesRight'
  <2>1. \A p, loc : GlobalIndex(p, loc)' = GlobalIndex(p, loc)
    BY <1>1 DEF GlobalIndex
  <2>2. ASSUME NEW k \in DOMAIN patches, NEW c \in GhostBox(patches[k]), NEW i \in DOMAIN idx'[k][c]
        PROVE  /\ idx'[k][c][i].glob = ao[idx'[k][c][i].lag]
               /\ GlobalIndex(patches[k].proc, idx'[k][c][i].loc) = ao[idx'[k][c][i].lag]
    <3> DEFINE x == idx'[k][c][i]
    <3>1. x \in ToSet(idx'[k][c])
      BY DEF ToSet
    <3>2. x \in ToSet(idx[k][c])
      BY <1>15, <1>16, <3>1
    <3> HIDE DEF x
    <3>3. PICK j \in DOMAIN idx[k][c] : x = idx[k][c][j]
      BY <3>2 DEF ToSet
    <3>4. x.glob = ao[x.lag] /\ GlobalIndex(patches[k].proc, x.loc) = ao[x.lag]
      BY <1>0, <1>1, <3>3 DEF IndicesRight
    <3> QED BY <3>4 DEF x
  <2>3. \A k \in DOMAIN patches' : \A c \in GhostBox(patches'[k]) : \A i \in DOMAIN idx'[k][c] :
          /\ idx'[k][c][i].glob = ao'[idx'[k][c][i].lag]
          /\ GlobalIndex(patches[k].proc, idx[k][c][i].loc)' = ao'[idx'[k][c][i].lag]
    <3> SUFFICES ASSUME NEW k \in DOMAIN patches', NEW c \in GhostBox(patches'[k]),
                        NEW i \in DOMAIN idx'[k][c]
                 PROVE  /\ idx'[k][c][i].glob = ao'[idx'[k][c][i].lag]
                        /\ GlobalIndex(patches[k].proc, idx[k][c][i].loc)' = ao'[idx'[k][c][i].lag]
      OBVIOUS
    <3>1. k \in DOMAIN patches /\ c \in GhostBox(patches[k])
      BY <1>1
    <3>2. GlobalIndex(patches[k].proc, idx[k][c][i].loc)'
              = GlobalIndex(patches[k].proc, idx'[k][c][i].loc)
      <4>1. GlobalIndex(patches[k].proc, idx[k][c][i].loc)'
                = GlobalIndex(patches'[k].proc, idx'[k][c][i].loc)
        BY <1>1, Zenon DEF GlobalIndex
      <4> QED BY <1>1, <4>1
    <3>3. /\ idx'[k][c][i].glob = ao[idx'[k][c][i].lag]
          /\ GlobalIndex(patches[k].proc, idx'[k][c][i].loc) = ao[idx'[k][c][i].lag]
      BY <2>2, <3>1
    <3>4. ao' = ao
      BY <1>1
    <3> QED BY <3>2, <3>3, <3>4
  <2> QED BY <2>3, Zenon DEF IndicesRight
<1>20. Sorted(home)'
  <2>1. Travelled = moves /\ Travelled' = moves
    BY <1>1 DEF Travelled
  <2>2. ASSUME NEW l \in Nodes \ S
        PROVE  X'[ao[l]] - home[l] \in -moves .. moves /\ home[l] \in CoveredBy(patches)
    BY <1>2, <1>3, <1>9, <2>1 DEF Sorted
  <2>3. CoveredBy(patches)' = CoveredBy(patches)
    BY <1>1, SamePatches
  <2> QED BY <1>1, <1>13, <1>15, <1>16, <2>1, <2>2, <2>3 DEF Sorted
<1>21. InBuffer'
  <2>1. ASSUME NEW l \in Nodes \ S PROVE \E b \in Int : Buffered(l, b)'
    <3>1. PICK b \in Int : Buffered(l, b)
      BY <1>0, <1>1, <1>2 DEF InBuffer
    <3>2. X'[ao[l]] = X[ao[l]]
      BY <1>9
    <3>3. Buffered(l, b)'
      BY <1>1, <3>1, <3>2, SamePatches DEF Buffered
    <3> QED BY <3>3
  <2> QED BY <1>1, <1>13, <2>1 DEF InBuffer
<1>22. \E h \in [Nodes -> Domain'] : Sorted(h)'
  <2>1. Domain' = Domain
    BY <1>1, SamePatches
  <2> QED BY <1>20, <2>1
<1>23. wrapped' \in [Nodes -> Int]
  BY <1>1 DEF IInv
<1> QED BY <1>1, <1>14, <1>17, <1>18, <1>19, <1>21, <1>22, <1>23 DEF IInv

-----------------------------------------------------------------------------
(* Sorting the nodes into the cells they moved to *)

LEMMA FoundFacts ==
  ASSUME IInv, phase \in {"initialized", "synched", "displaced"},
         NEW home \in [Nodes -> Domain], Sorted(home),
         NEW k \in DOMAIN patches, NEW c \in Interior(patches[k]), NEW l \in Nodes
  PROVE  /\ FoundIn(k, c, l) # {} <=> l \notin Gone /\ Confined(X[ao[l]]) = c
         /\ IsFiniteSet(FoundIn(k, c, l))
         /\ \A old \in FoundIn(k, c, l) :
               /\ old \in GhostBox(patches[k])
               /\ \E i \in DOMAIN idx[k][old] : idx[k][old][i].lag = l
<1> DEFINE x == X[ao[l]]
           found == FoundIn(k, c, l)
<1>0. /\ x \in Int /\ moves \in Nat /\ moves <= CflWidth /\ moves <= GhostWidth /\ CflWidth \in Nat
      /\ level \in Levels /\ patches \in level.layouts /\ IndicesRight
  <2>1. /\ x \in Int /\ moves \in 0 .. MaxMoves /\ moves \in Nat
        /\ level \in Levels /\ patches \in level.layouts /\ IndicesRight
    BY IInvFacts
  <2>2. /\ {GhostWidth, CflWidth, MaxMoves} \subseteq Nat
        /\ MaxMoves <= CflWidth /\ CflWidth <= GhostWidth
    BY <2>1, LevelFacts
  <2> QED BY <2>1, <2>2
<1>1. found = {old \in Grown(patches[k], CflWidth) \cap GhostBox(patches[k]) :
                  \E i \in DOMAIN idx[k][old] :
                      /\ idx[k][old][i].lag = l
                      /\ Confined(Position(k, idx[k][old][i])) = c}
  BY DEF FoundIn
<1>2. /\ patches[k].lo \in Nat /\ patches[k].hi \in Nat /\ GhostWidth \in Nat
      /\ Interior(patches[k]) = patches[k].lo .. patches[k].hi
      /\ GhostBox(patches[k]) = (patches[k].lo - GhostWidth) .. (patches[k].hi + GhostWidth)
      /\ Grown(patches[k], CflWidth) = (patches[k].lo - CflWidth) .. (patches[k].hi + CflWidth)
      /\ Interior(patches[k]) \subseteq Domain /\ Interior(patches[k]) \subseteq GhostBox(patches[k])
  BY <1>0, LayoutFacts, LevelFacts DEF Interior, GhostBox, Grown
<1> HIDE DEF found
<1>3. IsFiniteSet(found)
  <2>1. found \subseteq GhostBox(patches[k])
    BY <1>1
  <2>2. IsFiniteSet(GhostBox(patches[k]))
    <3>1. patches[k].lo - GhostWidth \in Int /\ patches[k].hi + GhostWidth \in Int
      BY <1>2
    <3> QED BY <1>2, <3>1, FS_Interval
  <2> QED BY <2>1, <2>2, FS_Subset
\* What a node listed in a cell of the patch tells of its position.
<1>4. ASSUME NEW old \in GhostBox(patches[k]), NEW i \in DOMAIN idx[k][old], idx[k][old][i].lag = l
      PROVE  Position(k, idx[k][old][i]) = x /\ l \notin Gone
  <2>1. GlobalIndex(patches[k].proc, idx[k][old][i].loc) = ao[l]
    BY <1>0, <1>4 DEF IndicesRight
  <2>2. CASE old \in Interior(patches[k])
    <3>1. Lists(idx[k][old], {m \in Nodes \ Gone : home[m] = old})
      BY <2>2 DEF Sorted
    <3>2. idx[k][old][i].lag \in {m \in Nodes \ Gone : home[m] = old}
      BY <3>1 DEF Lists
    <3> QED BY <1>4, <2>1, <3>2 DEF Position
  <2>3. CASE old \notin Interior(patches[k])
    <3>1. Lists(idx[k][old], IF phase = "synched" THEN At(home, old) ELSE {})
      BY <2>3 DEF Sorted
    <3>2. phase = "synched"
      BY <3>1 DEF Lists
    <3>3. Gone = {}
      BY <3>2, IInvFacts DEF DisplacedOnce
    <3> QED BY <2>1, <3>3 DEF Position
  <2> QED BY <2>2, <2>3
<1>5. ASSUME NEW old \in found
      PROVE  /\ old \in GhostBox(patches[k])
             /\ \E i \in DOMAIN idx[k][old] : idx[k][old][i].lag = l
             /\ l \notin Gone /\ Confined(x) = c
  <2>1. PICK i \in DOMAIN idx[k][old] :
            idx[k][old][i].lag = l /\ Confined(Position(k, idx[k][old][i])) = c
    BY <1>1
  <2>2. old \in GhostBox(patches[k])
    BY <1>1
  <2>3. Position(k, idx[k][old][i]) = x /\ l \notin Gone
    BY <1>4, <2>1, <2>2
  <2> QED BY <2>1, <2>2, <2>3
<1>6. ASSUME l \notin Gone, Confined(x) = c PROVE found # {}
  <2> DEFINE h == home[l]
  <2>1. h \in Domain /\ x - h \in -moves .. moves /\ h \in CoveredBy(patches)
    <3>1. x - h \in -Travelled .. Travelled /\ h \in CoveredBy(patches)
      BY <1>6 DEF Sorted
    <3>2. Travelled = moves
      BY DEF Travelled
    <3> QED BY <3>1, <3>2
  <2> HIDE DEF x, h
  <2>2. PICK old \in Int :
            /\ Real(old) /\ Confined(old) = h
            /\ \A m \in Nat : x - h \in -m .. m => old - Confined(x) \in -m .. m
    BY <1>0, <2>1, SearchFrom
  <2>3. old - c \in -moves .. moves
    BY <1>0, <1>6, <2>1, <2>2
  <2>4. old \in Grown(patches[k], CflWidth) /\ old \in GhostBox(patches[k])
    BY <1>0, <1>2, <2>3, SMTT(30)
  <2>5. \E i \in DOMAIN idx[k][old] : idx[k][old][i].lag = l
    <3>1. CASE old \in Interior(patches[k])
      <4>1. Confined(old) = old
        BY <1>0, <1>2, <3>1, ConfinedFacts
      <4>2. Lists(idx[k][old], {m \in Nodes \ Gone : home[m] = old})
        BY <3>1 DEF Sorted
      <4>3. l \in {m \in Nodes \ Gone : home[m] = old}
        BY <1>6, <2>2, <4>1 DEF h
      <4> QED BY <4>2, <4>3 DEF Lists
    <3>2. CASE old \notin Interior(patches[k])
      <4>1. Lists(idx[k][old], IF phase = "synched" THEN At(home, old) ELSE {})
        BY <2>4, <3>2 DEF Sorted
      <4>2. l \in At(home, old)
        BY <2>2 DEF At, h
      <4>3. phase # "initialized"
        <5> SUFFICES ASSUME phase = "initialized" PROVE FALSE
          OBVIOUS
        <5>1. moves = 0
          BY DEF IInv
        <5>2. old = c
          <6>1. c \in Int
            BY <1>2
          <6> QED BY <2>3, <5>1, <6>1
        <5> QED BY <3>2, <5>2
      <4>4. phase # "displaced"
        <5> SUFFICES ASSUME phase = "displaced" PROVE FALSE
          OBVIOUS
        <5>1. patches \in level.displaceOn
          BY DEF IInv
        <5>2. Confined(old) \notin CoveredBy(patches)
          BY <1>0, <2>2, <2>4, <3>2, <5>1, NoCopies
        <5> QED BY <2>1, <2>2, <5>2
      <4>5. Lists(idx[k][old], At(home, old))
        BY <4>1, <4>3, <4>4
      <4> QED BY <4>2, <4>5 DEF Lists
    <3> QED BY <3>1, <3>2
  <2>6. PICK i \in DOMAIN idx[k][old] : idx[k][old][i].lag = l
    BY <2>5
  <2>7. Position(k, idx[k][old][i]) = x
    BY <1>4, <2>4, <2>6
  <2>8. old \in found
    BY <1>1, <1>6, <2>4, <2>6, <2>7
  <2> QED BY <2>8
<1> QED BY <1>3, <1>5, <1>6 DEF found

LEMMA KeptFacts ==
  ASSUME IInv, phase \in {"initialized", "synched", "displaced"},
         NEW home \in [Nodes -> Domain], Sorted(home),
         NEW k \in DOMAIN patches, NEW c \in Interior(patches[k]), NEW l \in Nodes,
         FoundIn(k, c, l) # {}
  PROVE  /\ Kept(k, l, FoundIn(k, c, l)) \in Node
         /\ Kept(k, l, FoundIn(k, c, l)).lag = l
<1> DEFINE found == FoundIn(k, c, l)
           o == CHOOSE p \in found : TRUE
           old == idx[k][o]
           i == CHOOSE j \in DOMAIN old : old[j].lag = l
           node == old[i]
           n == Registrations(k, node, found) * PeriodicOffset(Position(k, node))
<1>1. IsFiniteSet(found) /\ found # {}
      /\ \A p \in found : p \in GhostBox(patches[k]) /\ \E j \in DOMAIN idx[k][p] : idx[k][p][j].lag = l
  BY FoundFacts
<1> HIDE DEF found
<1>2. o \in found
  BY <1>1
<1> HIDE DEF o
<1>3. o \in GhostBox(patches[k]) /\ i \in DOMAIN old /\ node.lag = l
  BY <1>1, <1>2
<1>4. NodeCells(patches, idx)
  BY SortedCells
<1> HIDE DEF i
<1>5. node \in Node
  <2>1. old \in Seq(Node)
    BY <1>3, <1>4 DEF NodeCells
  <2>2. i \in 1 .. Len(old)
    BY <1>3, <2>1, LenProperties
  <2> QED BY <2>1, <2>2, ElementOfSeq
<1>6. n \in Int
  <2>1. Registrations(k, node, found) \in Int
    <3>1. Cardinality(found) \in Nat
      BY <1>1, FS_CardinalityType
    <3> QED BY <3>1 DEF Registrations
  <2>2. Position(k, node) = X[ao[l]]
    <3>1. IndicesRight
      BY IInvFacts
    <3>2. GlobalIndex(patches[k].proc, node.loc) = ao[l]
      BY <1>3, <3>1 DEF IndicesRight
    <3> QED BY <3>2 DEF Position
  <2>3. PeriodicOffset(Position(k, node)) \in Int
    <3>1. X[ao[l]] \in Int /\ level \in Levels
      BY IInvFacts
    <3> QED BY <2>2, <3>1, ConfinedFacts
  <2> QED BY <2>1, <2>3
<1>7. Kept(k, l, found) = [node EXCEPT !.shift = @ + n]
  BY Zenon DEF Kept, o, i
<1> HIDE DEF node, n
<1>8. [node EXCEPT !.shift = @ + n] \in Node /\ [node EXCEPT !.shift = @ + n].lag = l
  BY <1>3, <1>5, <1>6 DEF Node, node
<1> QED BY <1>7, <1>8 DEF found

LEMMA RebinnedFacts ==
  ASSUME IInv, phase \in {"initialized", "synched", "displaced"},
         NEW home \in [Nodes -> Domain], Sorted(home),
         NEW k \in DOMAIN patches, NEW c \in Interior(patches[k])
  PROVE  Lists(Rebinned(k, c), {l \in Nodes \ Gone : Confined(X[ao[l]]) = c})
<1> DEFINE S == {l \in Nodes : FoundIn(k, c, l) # {}}
           lags == InOrder(S)
           kept(l) == Kept(k, l, FoundIn(k, c, l))
           list == Rebinned(k, c)
<1>1. list = [i \in DOMAIN lags |-> kept(lags[i])]
  BY DEF Rebinned
<1>2. S = {l \in Nodes \ Gone : Confined(X[ao[l]]) = c}
  BY FoundFacts
<1>3. \A l \in S : kept(l) \in Node /\ kept(l).lag = l
  BY KeptFacts
<1>4. S \in SUBSET Nodes
  OBVIOUS
<1> HIDE DEF S, kept, list
<1>5. /\ lags \in Seq(S)
      /\ \A i, j \in DOMAIN lags : lags[i] = lags[j] => i = j
      /\ \A l \in S : \E i \in DOMAIN lags : lags[i] = l
  BY <1>4, InOrderFacts
<1> HIDE DEF lags
<1>6. Len(lags) \in Nat /\ DOMAIN lags = 1 .. Len(lags) /\ \A i \in DOMAIN lags : lags[i] \in S
  BY <1>5, LenProperties, ElementOfSeq
<1>7. \A i \in DOMAIN lags : list[i] \in Node /\ list[i].lag = lags[i]
  BY <1>1, <1>3, <1>6
<1>8. DOMAIN list = DOMAIN lags /\ list \in Seq(Node)
  <2>1. list = [i \in 1 .. Len(lags) |-> list[i]] /\ DOMAIN list = DOMAIN lags
    BY <1>1, <1>6
  <2>2. list \in [1 .. Len(lags) -> Node]
    BY <1>6, <1>7, <2>1
  <2> QED BY <1>6, <2>1, <2>2, SeqDef
<1>9. Lists(list, S)
  BY <1>5, <1>6, <1>7, <1>8 DEF Lists
<1> QED BY <1>2, <1>9 DEF list

LEMMA CoveredNow ==
  ASSUME IInv, phase # "regridded", NEW l \in Nodes \ Gone
  PROVE  Confined(X[ao[l]]) \in CoveredBy(patches)
<1>1. level \in Levels /\ X[ao[l]] \in Int /\ moves \in 0 .. MaxMoves /\ InBuffer
  BY IInvFacts
<1>2. PICK b \in Int : Buffered(l, b)
  BY <1>1 DEF InBuffer
<1>3. X[ao[l]] - b \in -moves .. moves
  BY <1>2 DEF Buffered
<1> DEFINE x == X[ao[l]]
           w == x - b
<1>4. w \in -TagBuffer .. TagBuffer /\ b + w = x
  <2>1. MaxMoves <= TagBuffer /\ MaxMoves \in Nat /\ TagBuffer \in Nat
    BY <1>1, LevelFacts
  <2>2. x \in Int /\ x - b \in -moves .. moves
    BY <1>1, <1>3
  <2> HIDE DEF x
  <2> QED BY <1>1, <2>1, <2>2
<1> HIDE DEF w
<1>5. Confined(b + w) \in CoveredBy(patches)
  BY <1>2, <1>4 DEF Buffered
<1> QED BY <1>4, <1>5

LEMMA BeginInv == IInv /\ BeginDataRedistribution => IInv'
<1> SUFFICES ASSUME IInv, BeginDataRedistribution PROVE IInv'
  OBVIOUS
<1> DEFINE indices == 0 .. Cardinality(Nodes) - 1
<1>0. /\ X \in [indices -> Int] /\ ao \in [Nodes -> indices] /\ \A l \in Nodes : X[ao[l]] \in Int
      /\ moves \in Nat /\ level \in Levels /\ patches \in level.layouts
      /\ Numbered(localLag, ao) /\ DisplacedOnce /\ InBuffer
  BY IInvFacts
<1>1. /\ phase \in {"initialized", "synched", "displaced"} /\ phase' = "begun"
      /\ X' = [g \in DOMAIN X |-> Confined(X[g])]
      /\ wrapped' = [l \in Nodes |-> wrapped[l] + PeriodicOffset(X[ao[l]])]
      /\ idx' = [k \in DOMAIN patches |-> [c \in GhostBox(patches[k]) |->
                    IF c \in Interior(patches[k]) THEN Rebinned(k, c) ELSE <<>>]]
      /\ level' = level /\ patches' = patches /\ ao' = ao /\ localLag' = localLag
      /\ nonlocalPetsc' = nonlocalPetsc /\ data' = data /\ displaced' = displaced /\ moves' = moves
  BY DEF BeginDataRedistribution
<1>2. PICK old \in [Nodes -> Domain] : Sorted(old)
  BY IInvFacts
<1>2a. PICK home \in [Nodes -> Domain] : \A l \in Nodes : home[l] = Confined(X[ao[l]])
  <2>1. [l \in Nodes |-> Confined(X[ao[l]])] \in [Nodes -> Domain]
    BY <1>0, ConfinedFacts
  <2> QED BY <2>1
<1>3. ASSUME NEW l \in Nodes
      PROVE  /\ X'[ao[l]] = home[l] /\ home[l] = Confined(X[ao[l]])
             /\ home[l] \in Domain /\ home[l] \in Int
  <2>1. ao[l] \in indices /\ DOMAIN X = indices
    BY <1>0
  <2> QED BY <1>0, <1>1, <1>2a, <2>1, ConfinedFacts
<1>5. X' \in [indices -> Int] /\ wrapped' \in [Nodes -> Int]
  <2>1. ASSUME NEW g \in indices PROVE Confined(X[g]) \in Int
    <3>1. X[g] \in Int
      BY <1>0
    <3>2. Confined(X[g]) \in Domain
      BY <1>0, <3>1, ConfinedFacts
    <3> QED BY <1>0, <3>2, ConfinedFacts
  <2>2. DOMAIN X = indices
    BY <1>0
  <2>3. X' \in [indices -> Int]
    BY <1>1, <2>1, <2>2
  <2>4. ASSUME NEW l \in Nodes PROVE wrapped[l] + PeriodicOffset(X[ao[l]]) \in Int
    <3>1. wrapped[l] \in Int
      BY DEF IInv
    <3>2. PeriodicOffset(X[ao[l]]) \in Int
      BY <1>0, ConfinedFacts
    <3> QED BY <3>1, <3>2
  <2>5. wrapped' \in [Nodes -> Int]
    BY <1>1, <2>4
  <2> QED BY <2>3, <2>5
<1>6. Gone' = Gone
  BY <1>1 DEF Gone
<1>7. TypeOK'
  <2>1. DOMAIN idx' = DOMAIN patches /\ \A k \in DOMAIN patches : DOMAIN idx'[k] = GhostBox(patches[k])
    BY <1>1
  <2>2. "begun" \in Phases
    BY DEF Phases
  <2> QED BY <1>1, <1>5, <2>1, <2>2 DEF IInv, TypeOK
<1>8. Numbered(localLag, ao)'
  BY <1>0, <1>1
<1>9. IndicesRight'
  BY <1>1 DEF IndicesRight
<1>10. DisplacedOnce'
  <2>1. Domain' = Domain
    BY <1>1, SamePatches
  <2>2. ASSUME NEW p \in Procs, NEW i \in DOMAIN displaced[p]
        PROVE  displaced[p][i].cell = X'[ao[displaced[p][i].node.lag]]
    <3>1. displaced[p] \in Seq([node : Node, cell : Domain])
      BY <1>0 DEF DisplacedOnce
    <3>2. i \in 1 .. Len(displaced[p])
      BY <3>1, LenProperties
    <3>3. displaced[p][i] \in [node : Node, cell : Domain]
      BY <3>1, <3>2, ElementOfSeq
    <3> DEFINE l == displaced[p][i].node.lag
    <3>4. l \in Nodes /\ displaced[p][i].cell \in Domain
      BY <3>3 DEF Node
    <3>5. displaced[p][i].cell = X[ao[l]]
      BY <1>0 DEF DisplacedOnce
    <3> HIDE DEF l
    <3>6. X'[ao[l]] = Confined(X[ao[l]])
      BY <1>3, <3>4
    <3>7. Confined(X[ao[l]]) = X[ao[l]]
      BY <1>0, <3>4, <3>5, ConfinedFacts
    <3> QED BY <3>5, <3>6, <3>7 DEF l
  <2>3. displaced' \in [Procs -> Seq([node : Node, cell : Domain'])]
    BY <1>0, <1>1, <2>1 DEF DisplacedOnce
  <2>4. \A p, q \in Procs : \A i \in DOMAIN displaced'[p], j \in DOMAIN displaced'[q] :
          displaced'[p][i].node.lag = displaced'[q][j].node.lag => p = q /\ i = j
    BY <1>0, <1>1 DEF DisplacedOnce
  <2>5. \A p \in Procs : \A i \in DOMAIN displaced'[p] :
          displaced'[p][i].cell = X'[ao'[displaced'[p][i].node.lag]]
    BY <1>1, <2>2
  <2>6. phase' \notin {"initialized", "synched"}
    BY <1>1
  <2> QED BY <2>3, <2>4, <2>5, <2>6, Zenon DEF DisplacedOnce
<1>11. Sorted(home)'
  <2>1. Travelled' = 0
    BY <1>1 DEF Travelled
  <2>2. ASSUME NEW l \in Nodes \ Gone
        PROVE  X'[ao[l]] - home[l] \in -0 .. 0 /\ home[l] \in CoveredBy(patches)
    <3>1. home[l] \in CoveredBy(patches)
      BY <1>1, <1>3, CoveredNow
    <3> QED BY <1>3, <3>1
  <2>3. ASSUME NEW k \in DOMAIN patches, NEW c \in Interior(patches[k])
        PROVE  Lists(idx'[k][c], {l \in Nodes \ Gone : home[l] = c})
    <3>1. c \in GhostBox(patches[k])
      BY <1>0, LayoutFacts
    <3>2. idx'[k][c] = Rebinned(k, c)
      BY <1>1, <3>1
    <3>3. Lists(Rebinned(k, c), {l \in Nodes \ Gone : Confined(X[ao[l]]) = c})
      BY <1>1, <1>2, RebinnedFacts
    <3>4. {l \in Nodes \ Gone : Confined(X[ao[l]]) = c} = {l \in Nodes \ Gone : home[l] = c}
      BY <1>3
    <3> QED BY <3>2, <3>3, <3>4
  <2>4. CoveredBy(patches)' = CoveredBy(patches)
    BY <1>1, SamePatches
  <2> QED BY <1>1, <1>6, <2>1, <2>2, <2>3, <2>4 DEF Sorted
<1>12. InBuffer'
  <2>1. ASSUME NEW l \in Nodes \ Gone PROVE \E b \in Int : Buffered(l, b)'
    <3>1. PICK b \in Int : Buffered(l, b)
      BY <1>0, <1>1 DEF InBuffer
    <3>2. Real(b) /\ X[ao[l]] - b \in -moves .. moves
      BY <1>1, <3>1 DEF Buffered, Real
    <3>3. PICK c \in Int :
            /\ Real(c) /\ \A w \in Int : Confined(c + w) = Confined(b + w)
            /\ \A m \in Nat : X[ao[l]] - b \in -m .. m => Confined(X[ao[l]]) - c \in -m .. m
      BY <1>0, <3>2, BufferMoves
    <3>4. X'[ao[l]] - c \in -moves .. moves
      BY <1>0, <1>3, <3>2, <3>3
    <3>5. \A w \in -TagBuffer .. TagBuffer : Confined(c + w) \in CoveredBy(patches)
      <4>1. \A w \in -TagBuffer .. TagBuffer : w \in Int
        OBVIOUS
      <4> QED BY <3>1, <3>3, <4>1 DEF Buffered
    <3>6. Buffered(l, c)'
      BY <1>1, <3>3, <3>4, <3>5, SamePatches DEF Buffered, Real
    <3> QED BY <3>6
  <2> QED BY <1>1, <1>6, <2>1 DEF InBuffer
<1>13. \E h \in [Nodes -> Domain'] : Sorted(h)'
  <2>1. Domain' = Domain
    BY <1>1, SamePatches
  <2> QED BY <1>11, <2>1
<1>14. \A l \in Nodes : X'[ao'[l]] \in Domain'
  <2>1. Domain' = Domain
    BY <1>1, SamePatches
  <2> QED BY <1>1, <1>3, <2>1
<1> QED BY <1>1, <1>5, <1>7, <1>8, <1>9, <1>10, <1>12, <1>13, <1>14 DEF IInv

-----------------------------------------------------------------------------
(* The new level *)

LEMMA CopiedFacts ==
  ASSUME level \in Levels, NEW layout \in level.layouts, NEW d, NEW L, NEW home,
         HomeCells(layout, d, L, home), \A l \in L : home[l] \in CoveredBy(layout), NEW c \in Int
  PROVE  Lists(Copied(layout, d, c), {l \in L : Real(c) /\ home[l] = Confined(c)})
<1> DEFINE h == Confined(c)
           owners == {k \in DOMAIN layout : h \in Interior(layout[k])}
           S == {l \in L : Real(c) /\ home[l] = Confined(c)}
<1>1. h \in Domain
  BY ConfinedFacts
<1>2. CASE Confined(c) # c /\ ~ level.periodic
  <2>1. ~ Real(c)
    BY <1>2, ConfinedFacts DEF Real
  <2>2. Copied(layout, d, c) = <<>> /\ S = {}
    BY <1>2, <2>1 DEF Copied
  <2> QED BY <2>2, EmptyList
<1>3. CASE ~ (Confined(c) # c /\ ~ level.periodic)
  <2>1. Real(c)
    BY <1>1, <1>3 DEF Real
  <2>2. S = {l \in L : home[l] = h}
    BY <2>1
  <2>3. CASE owners = {}
    <3>1. Copied(layout, d, c) = <<>>
      BY <1>3, <2>3 DEF Copied
    <3>2. S = {}
      <4>1. h \notin CoveredBy(layout)
        BY <2>3 DEF CoveredBy
      <4> HIDE DEF h
      <4> QED BY <2>2, <4>1
    <3> QED BY <3>1, <3>2, EmptyList
  <2>4. CASE owners # {}
    <3> DEFINE k == CHOOSE j \in owners : TRUE
    <3>1. Copied(layout, d, c) = d[k][h]
      BY <1>3, <2>4 DEF Copied
    <3>2. k \in owners
      BY <2>4
    <3> HIDE DEF k
    <3>3. k \in DOMAIN layout /\ h \in Interior(layout[k])
      BY <3>2
    <3> HIDE DEF h, S
    <3>4. Lists(d[k][h], {l \in L : home[l] = h})
      BY <3>3 DEF HomeCells
    <3> QED BY <2>2, <3>1, <3>4 DEF S
  <2> QED BY <2>3, <2>4
<1> QED BY <1>2, <1>3

LEMMA RegridInv ==
  ASSUME IInv, NEW layout \in level.layouts, Regrid(layout)
  PROVE  IInv'
<1> DEFINE indices == 0 .. Cardinality(Nodes) - 1
<1>0. /\ X \in [indices -> Int] /\ ao \in [Nodes -> indices] /\ \A l \in Nodes : X[ao[l]] \in Int
      /\ moves \in Nat /\ level \in Levels /\ patches \in level.layouts
      /\ Numbered(localLag, ao) /\ DisplacedOnce
  BY IInvFacts
<1>1. /\ phase = "begun" /\ phase' = "regridded" /\ patches' = layout
      /\ Covers(layout, Tagged)
      /\ idx' = [k \in DOMAIN layout |->
                    [c \in GhostBox(layout[k]) |-> Copied(patches, idx, c)]]
      /\ level' = level /\ ao' = ao /\ localLag' = localLag /\ X' = X /\ wrapped' = wrapped
      /\ nonlocalPetsc' = nonlocalPetsc /\ data' = data /\ displaced' = displaced /\ moves' = moves
  BY DEF Regrid
<1>2. PICK home \in [Nodes -> Domain] : Sorted(home)
  BY IInvFacts
<1>3. \A l \in Nodes \ Gone : X[ao[l]] = home[l] /\ home[l] \in CoveredBy(patches)
  <2> SUFFICES ASSUME NEW l \in Nodes \ Gone
               PROVE  X[ao[l]] = home[l] /\ home[l] \in CoveredBy(patches)
    OBVIOUS
  <2>1. Travelled = 0
    BY <1>1 DEF Travelled
  <2>2. X[ao[l]] - home[l] \in -0 .. 0 /\ home[l] \in CoveredBy(patches)
    BY <1>2, <2>1 DEF Sorted
  <2>3. X[ao[l]] \in Int /\ home[l] \in Int
    BY <1>0, ConfinedFacts
  <2> QED BY <2>2, <2>3
<1>4. HomeCells(patches, idx, Nodes \ Gone, home)
  BY <1>2 DEF Sorted, HomeCells
<1>5. \A c : Confined(c)' = Confined(c) /\ (Real(c) <=> Real(c)')
  BY <1>1 DEF Confined, Real, NumCells, Domain
<1>6. Domain' = Domain /\ CoveredBy(patches)' = CoveredBy(layout)
  BY <1>1 DEF NumCells, Domain, CoveredBy
<1>7. Gone' = Gone
  BY <1>1 DEF Gone
\* Every node is in a cell that was tagged.
<1>8. ASSUME NEW l \in Nodes PROVE X[ao[l]] \in Tagged /\ X[ao[l]] \in Domain
  <2>1. X[ao[l]] \in Domain
    BY <1>1 DEF IInv
  <2>2. CASE l \notin Gone
    <3> DEFINE h == home[l]
    <3>1. h \in Domain /\ X[ao[l]] = h /\ h \in CoveredBy(patches)
      BY <1>3, <2>2
    <3>2. PICK k \in DOMAIN patches : h \in Interior(patches[k])
      BY <3>1 DEF CoveredBy
    <3>3. Lists(idx[k][h], {m \in Nodes \ Gone : home[m] = h})
      BY <1>4, <3>2 DEF HomeCells
    <3>4. l \in {m \in Nodes \ Gone : home[m] = h}
      BY <2>2
    <3> HIDE DEF h
    <3>5. \E i \in DOMAIN idx[k][h] : idx[k][h][i].lag = l
      BY <3>3, <3>4 DEF Lists
    <3>6. idx[k][h] # <<>>
      BY <3>5
    <3> QED BY <2>1, <3>1, <3>2, <3>6 DEF Tagged
  <2>3. CASE l \in Gone
    <3>1. PICK p \in Procs : \E i \in DOMAIN displaced[p] : displaced[p][i].node.lag = l
      BY <2>3, GoneFacts
    <3>2. PICK i \in DOMAIN displaced[p] : displaced[p][i].node.lag = l
      BY <3>1
    <3>3. displaced[p][i].cell = X[ao[l]]
      BY <1>0, <3>2 DEF DisplacedOnce
    <3> QED BY <2>1, <3>3 DEF Tagged
  <2> QED BY <2>2, <2>3
<1>9. ASSUME NEW l \in Nodes
      PROVE  /\ X[ao[l]] \in CoveredBy(layout)
             /\ \A w \in -TagBuffer .. TagBuffer : Confined(X[ao[l]] + w) \in CoveredBy(layout)
  <2> DEFINE t == X[ao[l]]
  <2>1. t \in Tagged /\ t \in Domain
    BY <1>8
  <2> HIDE DEF t
  <2> QED BY <1>0, <1>1, <2>1, CoversFacts DEF t
<1>10. TypeOK'
  <2>1. DOMAIN idx' = DOMAIN layout /\ \A k \in DOMAIN layout : DOMAIN idx'[k] = GhostBox(layout[k])
    BY <1>1
  <2>2. "regridded" \in Phases
    BY DEF Phases
  <2> QED BY <1>1, <2>1, <2>2 DEF IInv, TypeOK
<1>11. Numbered(localLag, ao)'
  BY <1>0, <1>1
<1>12. IndicesRight'
  BY <1>1 DEF IndicesRight
<1>13. DisplacedOnce'
  <2>1. displaced' \in [Procs -> Seq([node : Node, cell : Domain'])]
    BY <1>0, <1>1, <1>6 DEF DisplacedOnce
  <2>2. \A p, q \in Procs : \A i \in DOMAIN displaced'[p], j \in DOMAIN displaced'[q] :
          displaced'[p][i].node.lag = displaced'[q][j].node.lag => p = q /\ i = j
    BY <1>0, <1>1 DEF DisplacedOnce
  <2>3. \A p \in Procs : \A i \in DOMAIN displaced'[p] :
          displaced'[p][i].cell = X'[ao'[displaced'[p][i].node.lag]]
    BY <1>0, <1>1 DEF DisplacedOnce
  <2>4. phase' \notin {"initialized", "synched"}
    BY <1>1
  <2> QED BY <2>1, <2>2, <2>3, <2>4, Zenon DEF DisplacedOnce
<1>14. Sorted(home)'
  <2>1. Travelled' = 0
    BY <1>1 DEF Travelled
  <2>2. ASSUME NEW l \in Nodes \ Gone
        PROVE  X[ao[l]] - home[l] \in -0 .. 0 /\ home[l] \in CoveredBy(layout)
    <3>1. X[ao[l]] = home[l] /\ X[ao[l]] \in Int /\ X[ao[l]] \in CoveredBy(layout)
      BY <1>0, <1>3, <1>9
    <3> QED BY <3>1
  <2>3. ASSUME NEW k \in DOMAIN layout, NEW c \in Interior(layout[k])
        PROVE  Lists(idx'[k][c], {l \in Nodes \ Gone : home[l] = c})
    <3>1. c \in GhostBox(layout[k]) /\ c \in Domain
      BY <1>0, LayoutFacts
    <3>2. idx'[k][c] = Copied(patches, idx, c)
      BY <1>1, <3>1
    <3>3. c \in Int /\ Real(c) /\ Confined(c) = c
      BY <1>0, <3>1, ConfinedFacts
    <3> DEFINE L == Nodes \ Gone
    <3>4. HomeCells(patches, idx, L, home) /\ \A l \in L : home[l] \in CoveredBy(patches)
      BY <1>3, <1>4
    <3> HIDE DEF L
    <3>5. Lists(Copied(patches, idx, c), {l \in L : Real(c) /\ home[l] = Confined(c)})
      BY <1>0, <3>3, <3>4, CopiedFacts
    <3>6. {l \in L : Real(c) /\ home[l] = Confined(c)} = {l \in L : home[l] = c}
      BY <3>3
    <3> QED BY <3>2, <3>5, <3>6 DEF L
  <2> QED BY <1>1, <1>6, <1>7, <2>1, <2>2, <2>3 DEF Sorted
<1>15. InBuffer'
  <2>1. ASSUME NEW l \in Nodes PROVE \E b \in Int : Buffered(l, b)'
    <3>1. X[ao[l]] \in Int /\ X[ao[l]] - X[ao[l]] \in -0 .. 0
      BY <1>0
    <3>2. PICK b \in Int : b = X[ao[l]]
      BY <3>1
    <3>3. Buffered(l, b)'
      BY <1>1, <1>5, <1>6, <1>8, <1>9, <3>1, <3>2 DEF Buffered
    <3> QED BY <3>3
  <2> QED BY <1>1, <2>1 DEF InBuffer
<1>16. \E h \in [Nodes -> Domain'] : Sorted(h)'
  BY <1>6, <1>14
<1>17. \A l \in Nodes : X'[ao'[l]] \in Domain'
  BY <1>1, <1>6, <1>8
<1>18. wrapped' \in [Nodes -> Int]
  BY <1>1 DEF IInv
<1> QED BY <1>1, <1>10, <1>11, <1>12, <1>13, <1>15, <1>16, <1>17, <1>18 DEF IInv

-----------------------------------------------------------------------------
(* The displaced nodes come back *)

AllDisplaced == FlattenSeq([i \in 1 .. Ranks |-> displaced[i - 1]])

DisplacedTo(c) ==
    FlattenSeq([i \in DOMAIN AllDisplaced |->
        IF AllDisplaced[i].cell = c THEN <<AllDisplaced[i].node>> ELSE <<>>])

LEMMA AllDisplacedFacts ==
  ASSUME IInv
  PROVE  /\ AllDisplaced \in Seq([node : Node, cell : Domain])
         /\ \A i \in DOMAIN AllDisplaced :
               /\ AllDisplaced[i].node.lag \in Gone
               /\ AllDisplaced[i].cell = X[ao[AllDisplaced[i].node.lag]]
               /\ \E p \in Procs : \E j \in DOMAIN displaced[p] : AllDisplaced[i] = displaced[p][j]
         /\ \A i, j \in DOMAIN AllDisplaced :
               AllDisplaced[i].node.lag = AllDisplaced[j].node.lag => i = j
         /\ \A l \in Gone : \E i \in DOMAIN AllDisplaced : AllDisplaced[i].node.lag = l
<1> DEFINE entry == [node : Node, cell : Domain]
           parts == [i \in 1 .. Ranks |-> displaced[i - 1]]
           all == AllDisplaced
<1>1. /\ displaced \in [Procs -> Seq(entry)]
      /\ \A p, q \in Procs : \A i \in DOMAIN displaced[p], j \in DOMAIN displaced[q] :
            displaced[p][i].node.lag = displaced[q][j].node.lag => p = q /\ i = j
      /\ \A p \in Procs : \A i \in DOMAIN displaced[p] :
            displaced[p][i].cell = X[ao[displaced[p][i].node.lag]]
  BY IInvFacts DEF DisplacedOnce
<1> HIDE DEF entry
<1>2. Ranks \in Nat /\ Procs = 0 .. Ranks - 1
  BY DisplacementsAssumption DEF Procs
<1>3. \A k \in 1 .. Ranks : k - 1 \in Procs /\ parts[k] = displaced[k - 1]
  BY <1>2
<1>4. parts \in Seq(Seq(entry)) /\ DOMAIN parts = 1 .. Ranks
  <2>1. parts \in [1 .. Ranks -> Seq(entry)]
    BY <1>1, <1>3
  <2> HIDE DEF parts
  <2> QED BY <1>2, <2>1, SeqDef
<1>5. all = FlattenSeq(parts)
  BY DEF AllDisplaced
<1> HIDE DEF parts, all
<1>6. all \in Seq(entry) /\ \E p : Enumerates(all, parts, p)
  BY <1>4, <1>5, FlattenPlaces
<1>7. PICK place : Enumerates(all, parts, place)
  BY <1>6
<1>8. ASSUME NEW i \in DOMAIN all
      PROVE  /\ place[i][1] \in 1 .. Ranks /\ place[i][1] - 1 \in Procs
             /\ place[i][2] \in DOMAIN displaced[place[i][1] - 1]
             /\ all[i] = displaced[place[i][1] - 1][place[i][2]]
  <2> DEFINE k == place[i][1]
             j == place[i][2]
  <2>1. k \in DOMAIN parts /\ j \in DOMAIN parts[k] /\ all[i] = parts[k][j]
    BY <1>7 DEF Enumerates
  <2> HIDE DEF k, j
  <2>2. k \in 1 .. Ranks /\ k - 1 \in Procs /\ j \in DOMAIN displaced[k - 1]
        /\ all[i] = displaced[k - 1][j]
    BY <1>3, <1>4, <2>1
  <2> QED BY <2>2 DEF k, j
<1>9. ASSUME NEW i \in DOMAIN all
      PROVE  /\ all[i].node.lag \in Gone /\ all[i].cell = X[ao[all[i].node.lag]]
             /\ \E p \in Procs : \E j \in DOMAIN displaced[p] : all[i] = displaced[p][j]
  <2> DEFINE p == place[i][1] - 1
             j == place[i][2]
  <2>1. p \in Procs /\ j \in DOMAIN displaced[p] /\ all[i] = displaced[p][j]
    BY <1>8
  <2> HIDE DEF p, j
  <2> QED BY <1>1, <2>1, GoneFacts
<1>10. ASSUME NEW i \in DOMAIN all, NEW j \in DOMAIN all, all[i].node.lag = all[j].node.lag
       PROVE  i = j
  <2> DEFINE a == place[i][1]
             b == place[j][1]
             p == a - 1
             q == b - 1
             x == place[i][2]
             y == place[j][2]
  <2>1. /\ p \in Procs /\ x \in DOMAIN displaced[p] /\ all[i] = displaced[p][x] /\ a \in 1 .. Ranks
        /\ q \in Procs /\ y \in DOMAIN displaced[q] /\ all[j] = displaced[q][y] /\ b \in 1 .. Ranks
    BY <1>8
  <2>2. a = b /\ x = y => i = j
    BY <1>7 DEF Enumerates
  <2>3. p = q => a = b
    <3> HIDE DEF a, b
    <3> QED BY <2>1
  <2> HIDE DEF a, b, p, q, x, y
  <2>4. p = q /\ x = y
    BY <1>1, <1>10, <2>1
  <2> QED BY <2>2, <2>3, <2>4
<1>11. ASSUME NEW l \in Gone PROVE \E i \in DOMAIN all : all[i].node.lag = l
  <2>1. PICK p \in Procs : \E j \in DOMAIN displaced[p] : displaced[p][j].node.lag = l
    BY GoneFacts
  <2>2. PICK j \in DOMAIN displaced[p] : displaced[p][j].node.lag = l
    BY <2>1
  <2> DEFINE k == p + 1
  <2>3. k \in 1 .. Ranks /\ k - 1 = p
    BY <1>2
  <2> HIDE DEF k
  <2>4. k \in DOMAIN parts /\ j \in DOMAIN parts[k]
    BY <1>3, <1>4, <2>3
  <2>5. PICK i \in DOMAIN all : place[i][1] = k /\ place[i][2] = j
    BY <1>7, <2>4 DEF Enumerates
  <2>6. all[i] = displaced[p][j]
    BY <1>8, <2>3, <2>5
  <2> QED BY <2>2, <2>6
<1> QED BY <1>6, <1>9, <1>10, <1>11 DEF all, entry

LEMMA DisplacedToLists ==
  ASSUME IInv, NEW c
  PROVE  /\ Lists(DisplacedTo(c), {l \in Gone : X[ao[l]] = c})
         /\ \A h \in DOMAIN DisplacedTo(c) : \E p \in Procs : \E j \in DOMAIN displaced[p] :
               DisplacedTo(c)[h] = displaced[p][j].node
<1> DEFINE all == AllDisplaced
           parts == [i \in DOMAIN all |-> IF all[i].cell = c THEN <<all[i].node>> ELSE <<>>]
           sets == [i \in DOMAIN all |-> IF all[i].cell = c THEN {all[i].node.lag} ELSE {}]
           whole == DisplacedTo(c)
<1>1. whole = FlattenSeq(parts)
  BY DEF DisplacedTo
<1>2. /\ all \in Seq([node : Node, cell : Domain])
      /\ \A i \in DOMAIN all :
            /\ all[i].node.lag \in Gone
            /\ all[i].cell = X[ao[all[i].node.lag]]
            /\ \E p \in Procs : \E j \in DOMAIN displaced[p] : all[i] = displaced[p][j]
      /\ \A i, j \in DOMAIN all : all[i].node.lag = all[j].node.lag => i = j
      /\ \A l \in Gone : \E i \in DOMAIN all : all[i].node.lag = l
  BY AllDisplacedFacts
<1> HIDE DEF all
<1>3. Len(all) \in Nat /\ DOMAIN all = 1 .. Len(all)
  BY <1>2, LenProperties
<1>4. ASSUME NEW i \in DOMAIN all
      PROVE  parts[i] \in Seq(Node) /\ Lists(parts[i], sets[i])
  <2>1. all[i].node \in Node
    <3>1. all[i] \in [node : Node, cell : Domain]
      BY <1>2, <1>3, ElementOfSeq
    <3> QED BY <3>1
  <2>2. CASE all[i].cell = c
    <3> DEFINE x == all[i].node
    <3>1. parts[i] = <<x>> /\ sets[i] = {x.lag} /\ x \in Node
      BY <2>1, <2>2
    <3> HIDE DEF x, parts, sets
    <3>2. <<x>> \in Seq(Node) /\ DOMAIN <<x>> = {1} /\ <<x>>[1] = x
      BY <3>1
    <3>3. Lists(<<x>>, {x.lag})
      BY <3>2 DEF Lists
    <3> QED BY <3>1, <3>2, <3>3
  <2>3. CASE all[i].cell # c
    <3>1. parts[i] = <<>> /\ sets[i] = {}
      BY <2>3
    <3> HIDE DEF parts, sets
    <3> QED BY <3>1, EmptyList
  <2> QED BY <2>2, <2>3
<1>5. parts \in Seq(Seq(Node)) /\ DOMAIN parts = DOMAIN all
  <2>1. parts = [i \in 1 .. Len(all) |-> parts[i]] /\ DOMAIN parts = DOMAIN all
    BY <1>3
  <2> HIDE DEF parts, sets
  <2>2. parts \in [1 .. Len(all) -> Seq(Node)]
    BY <1>3, <1>4, <2>1
  <2> QED BY <1>3, <2>1, <2>2, SeqDef
<1>6. ASSUME NEW j \in DOMAIN all, NEW k \in DOMAIN all, j # k PROVE sets[j] \cap sets[k] = {}
  <2>1. all[j].node.lag # all[k].node.lag
    BY <1>2, <1>6
  <2> QED BY <2>1
<1>7. UNION {sets[k] : k \in DOMAIN all} = {l \in Gone : X[ao[l]] = c}
  <2>1. ASSUME NEW k \in DOMAIN all, NEW l \in sets[k] PROVE l \in Gone /\ X[ao[l]] = c
    <3>1. all[k].cell = c /\ l = all[k].node.lag
      OBVIOUS
    <3> HIDE DEF sets
    <3> QED BY <1>2, <3>1
  <2>2. ASSUME NEW l \in Gone, X[ao[l]] = c PROVE \E k \in DOMAIN all : l \in sets[k]
    <3>1. PICK k \in DOMAIN all : all[k].node.lag = l
      BY <1>2
    <3>2. all[k].cell = c
      BY <1>2, <2>2, <3>1
    <3>3. l \in sets[k]
      BY <3>1, <3>2
    <3> QED BY <3>3
  <2> HIDE DEF sets
  <2> QED BY <2>1, <2>2
<1>7a. ASSUME NEW i \in DOMAIN parts, NEW h \in DOMAIN parts[i] PROVE parts[i][h] = all[i].node
  <2>1. CASE all[i].cell = c
    <3>1. parts[i] = <<all[i].node>>
      BY <2>1
    <3> HIDE DEF parts
    <3> QED BY <3>1
  <2>2. CASE all[i].cell # c
    <3>1. parts[i] = <<>>
      BY <2>2
    <3> HIDE DEF parts
    <3> QED BY <3>1
  <2> QED BY <2>1, <2>2
<1> HIDE DEF parts, sets, whole
<1>7b. ASSUME NEW h \in DOMAIN whole
       PROVE  \E p \in Procs : \E j \in DOMAIN displaced[p] : whole[h] = displaced[p][j].node
  <2>1. SameEntries(whole, parts)
    BY <1>1, <1>5, FlattenEntries
  <2>2. PICK i \in DOMAIN parts : \E g \in DOMAIN parts[i] : whole[h] = parts[i][g]
    BY <2>1 DEF SameEntries
  <2>3. whole[h] = all[i].node /\ i \in DOMAIN all
    BY <1>5, <1>7a, <2>2
  <2> QED BY <1>2, <2>3
<1>8. PartsList(parts, sets)
  BY <1>4, <1>5, <1>6 DEF PartsList
<1>9. Lists(whole, UNION {sets[k] : k \in DOMAIN parts})
  BY <1>1, <1>8, FlattenLists
<1> QED BY <1>5, <1>7, <1>7b, <1>9 DEF whole

\* At the end of a redistribution all nodes are in the cells they are at.
LEMMA FilledFacts ==
  ASSUME IInv, phase \in {"begun", "regridded"},
         displaced # [p \in Procs |-> <<>>] => phase = "regridded",
         NEW home, \A l \in Nodes : home[l] = X[ao[l]]
  PROVE  LET filled == FillGhosts(WithDisplaced) IN
         /\ \A l \in Nodes : home[l] \in Domain /\ home[l] \in CoveredBy(patches)
         /\ HomeCells(patches, filled, Nodes, home)
         /\ \A k \in DOMAIN patches : \A c \in GhostBox(patches[k]) \ Interior(patches[k]) :
               Lists(filled[k][c], At(home, c))
         /\ NodeCells(patches, filled)
<1> DEFINE with == WithDisplaced
           filled == FillGhosts(with)
<1>0. /\ level \in Levels /\ patches \in level.layouts /\ \A l \in Nodes : X[ao[l]] \in Int
      /\ DisplacedOnce /\ InBuffer
  BY IInvFacts
<1>1. with = [k \in DOMAIN patches |-> [c \in GhostBox(patches[k]) |->
                 IF c \in Interior(patches[k]) THEN idx[k][c] \o DisplacedTo(c) ELSE idx[k][c]]]
  BY Zenon DEF WithDisplaced, DisplacedTo, AllDisplaced
<1>2. PICK old \in [Nodes -> Domain] : Sorted(old)
  BY IInvFacts
<1>3. \A l \in Nodes \ Gone : home[l] = old[l] /\ old[l] \in CoveredBy(patches)
  <2> SUFFICES ASSUME NEW l \in Nodes \ Gone
               PROVE  home[l] = old[l] /\ old[l] \in CoveredBy(patches)
    OBVIOUS
  <2>1. Travelled = 0
    BY DEF Travelled
  <2>2. X[ao[l]] - old[l] \in -0 .. 0 /\ old[l] \in CoveredBy(patches)
    BY <1>2, <2>1 DEF Sorted
  <2>3. X[ao[l]] \in Int /\ old[l] \in Int
    BY <1>0, ConfinedFacts
  <2> QED BY <2>2, <2>3
<1>4. ASSUME NEW l \in Nodes PROVE home[l] \in Domain /\ home[l] \in CoveredBy(patches)
  <2>1. home[l] \in Domain
    BY DEF IInv
  <2>2. CASE l \notin Gone
    BY <1>3, <2>1, <2>2
  <2>3. CASE l \in Gone
    <3>1. displaced # [p \in Procs |-> <<>>]
      BY <2>3, GoneFacts
    <3>2. phase = "regridded"
      BY <3>1
    <3>3. PICK b \in Int : Buffered(l, b)
      BY <1>0, <3>2 DEF InBuffer
    <3>4. X[ao[l]] - b \in -0 .. 0
      BY <3>2, <3>3 DEF Buffered
    <3>5. b = home[l] /\ b + 0 = b
      <4>1. X[ao[l]] \in Int
        BY <1>0
      <4> QED BY <3>4, <4>1
    <3>6. 0 \in -TagBuffer .. TagBuffer
      BY <1>0, LevelFacts
    <3>7. Confined(b + 0) \in CoveredBy(patches)
      BY <3>3, <3>6 DEF Buffered
    <3>8. Confined(home[l]) = home[l]
      BY <1>0, <2>1, ConfinedFacts
    <3> QED BY <2>1, <3>5, <3>7, <3>8
  <2> QED BY <2>2, <2>3
<1>5. HomeCells(patches, with, Nodes, home)
  <2> SUFFICES ASSUME NEW k \in DOMAIN patches, NEW c \in Interior(patches[k])
               PROVE  Lists(with[k][c], {l \in Nodes : home[l] = c})
    BY DEF HomeCells
  <2>1. c \in GhostBox(patches[k])
    BY <1>0, LayoutFacts
  <2>2. with[k][c] = idx[k][c] \o DisplacedTo(c)
    BY <1>1, <2>1
  <2> DEFINE S == {l \in Nodes \ Gone : old[l] = c}
             T == {l \in Gone : X[ao[l]] = c}
  <2>3. Lists(idx[k][c], S)
    BY <1>2 DEF Sorted
  <2>4. Lists(DisplacedTo(c), T)
    BY DisplacedToLists
  <2>5. S \cap T = {}
    OBVIOUS
  <2>6. Gone \subseteq Nodes
    <3> SUFFICES ASSUME NEW l \in Gone PROVE l \in Nodes
      OBVIOUS
    <3>1. PICK i \in DOMAIN AllDisplaced : AllDisplaced[i].node.lag = l
      BY AllDisplacedFacts
    <3>2. AllDisplaced \in Seq([node : Node, cell : Domain])
      BY AllDisplacedFacts
    <3>3. i \in 1 .. Len(AllDisplaced)
      BY <3>2, LenProperties
    <3>4. AllDisplaced[i] \in [node : Node, cell : Domain]
      BY <3>2, <3>3, ElementOfSeq
    <3> QED BY <3>1, <3>4 DEF Node
  <2>7. S \cup T = {l \in Nodes : home[l] = c}
    BY <1>3, <2>6
  <2> HIDE DEF S, T
  <2>8. Lists(idx[k][c] \o DisplacedTo(c), S \cup T)
    BY <2>3, <2>4, <2>5, JoinedLists
  <2> QED BY <2>2, <2>7, <2>8
<1> HIDE DEF with
<1>6. filled = [k \in DOMAIN patches |-> [c \in GhostBox(patches[k]) |->
                   IF c \in Interior(patches[k]) THEN with[k][c] ELSE Copied(patches, with, c)]]
  BY DEF FillGhosts
<1> HIDE DEF filled
<1>7. HomeCells(patches, filled, Nodes, home)
  <2> SUFFICES ASSUME NEW k \in DOMAIN patches, NEW c \in Interior(patches[k])
               PROVE  Lists(filled[k][c], {l \in Nodes : home[l] = c})
    BY DEF HomeCells
  <2>1. c \in GhostBox(patches[k])
    BY <1>0, LayoutFacts
  <2>2. filled[k][c] = with[k][c]
    BY <1>6, <2>1
  <2> QED BY <1>5, <2>2 DEF HomeCells
<1>8. ASSUME NEW k \in DOMAIN patches, NEW c \in GhostBox(patches[k]) \ Interior(patches[k])
      PROVE  Lists(filled[k][c], At(home, c))
  <2>1. filled[k][c] = Copied(patches, with, c)
    BY <1>6
  <2>2. c \in Int
    BY <1>0, LayoutFacts
  <2>3. Lists(Copied(patches, with, c), {l \in Nodes : Real(c) /\ home[l] = Confined(c)})
    BY <1>0, <1>4, <1>5, <2>2, CopiedFacts
  <2> QED BY <2>1, <2>3 DEF At
<1>9. NodeCells(patches, filled)
  <2> SUFFICES ASSUME NEW k \in DOMAIN patches, NEW c \in GhostBox(patches[k])
               PROVE  filled[k][c] \in Seq(Node)
    BY DEF NodeCells
  <2>1. CASE c \in Interior(patches[k])
    BY <1>7, <2>1 DEF HomeCells, Lists
  <2>2. CASE c \notin Interior(patches[k])
    BY <1>8, <2>2 DEF Lists
  <2> QED BY <2>1, <2>2
<1> QED BY <1>4, <1>7, <1>8, <1>9 DEF filled, with

LEMMA EndInv == IInv /\ EndDataRedistribution => IInv'
<1> SUFFICES ASSUME IInv, EndDataRedistribution PROVE IInv'
  OBVIOUS
<1> DEFINE indices == 0 .. Cardinality(Nodes) - 1
           none == [p \in Procs |-> <<>>]
           filled == FillGhosts(WithDisplaced)
           lag == NewLocalLag(filled)
           nonlocal == NewNonlocalLag(filled)
           newAO == NewAO(lag)
           petsc == [p \in Procs |-> Petsc(nonlocal[p], newAO)]
<1>0. /\ X \in [indices -> Int] /\ ao \in [Nodes -> indices] /\ \A l \in Nodes : X[ao[l]] \in Int
      /\ data \in [indices -> Nodes]
      /\ moves \in Nat /\ moves \in 0 .. MaxMoves /\ level \in Levels /\ patches \in level.layouts
      /\ DisplacedOnce /\ InBuffer
  BY IInvFacts
<1>1. /\ phase \in {"begun", "regridded"}
      /\ displaced # none => phase = "regridded"
      /\ displaced' = none
      /\ moves' = IF phase = "regridded" THEN 0 ELSE moves
      /\ localLag' = lag
      /\ level' = level /\ patches' = patches /\ wrapped' = wrapped
  BY DEF EndDataRedistribution
<1>2. Complete(lag) =>
        /\ phase' = "synched" /\ ao' = newAO /\ nonlocalPetsc' = petsc
        /\ X' = Scattered(X, newAO) /\ data' = Scattered(data, newAO)
        /\ idx' = RenumberedCells(filled, lag, nonlocal, newAO)
  BY Zenon DEF EndDataRedistribution, RenumberedCells, Petsc
<1>3. PICK home \in [Nodes -> Domain] : \A l \in Nodes : home[l] = X[ao[l]]
  <2> DEFINE h == [l \in Nodes |-> X[ao[l]]]
  <2>1. h \in [Nodes -> Domain] /\ \A l \in Nodes : h[l] = X[ao[l]]
    BY <1>1 DEF IInv
  <2> HIDE DEF h
  <2> QED BY <2>1
<1>4. /\ \A l \in Nodes : home[l] \in Domain /\ home[l] \in CoveredBy(patches)
      /\ HomeCells(patches, filled, Nodes, home)
      /\ \A k \in DOMAIN patches : \A c \in GhostBox(patches[k]) \ Interior(patches[k]) :
            Lists(filled[k][c], At(home, c))
      /\ NodeCells(patches, filled)
  BY <1>1, <1>3, FilledFacts
<1> HIDE DEF filled
<1>5. /\ Once(lag)
      /\ \A k \in DOMAIN patches : \A c \in Interior(patches[k]) : \A i \in DOMAIN filled[k][c] :
            filled[k][c][i].lag \in ToSet(lag[patches[k].proc])
  BY <1>0, <1>4, NewNumbering
<1>6. /\ \A p \in Procs : nonlocal[p] \in Seq(Nodes)
      /\ \A k \in DOMAIN patches : \A c \in GhostBox(patches[k]) \ Interior(patches[k]) :
            \A i \in DOMAIN filled[k][c] :
                \/ filled[k][c][i].lag \in ToSet(lag[patches[k].proc])
                \/ filled[k][c][i].lag \in ToSet(nonlocal[patches[k].proc])
  BY <1>0, <1>4, NewNonlocal
<1> HIDE DEF lag, nonlocal
<1>7. Numbered(lag, newAO) /\ Complete(lag)
  BY <1>5, NewAOFacts
<1> HIDE DEF newAO
<1>8. PetscOf(petsc, nonlocal, newAO)
  BY <1>6 DEF PetscOf
<1>9. Indexed(filled, lag, nonlocal)
  BY <1>5, <1>6 DEF Indexed
<1>10. \A p \in Procs : petsc[p] \in Seq(indices)
  <2> SUFFICES ASSUME NEW p \in Procs PROVE petsc[p] \in Seq(indices)
    OBVIOUS
  <2> DEFINE s == nonlocal[p]
  <2>1. s \in Seq(Nodes) /\ petsc[p] = Petsc(s, newAO)
    BY <1>6
  <2> HIDE DEF s, petsc
  <2>2. Len(s) \in Nat /\ DOMAIN s = 1 .. Len(s) /\ \A i \in 1 .. Len(s) : s[i] \in Nodes
    BY <2>1, LenProperties, ElementOfSeq
  <2>3. petsc[p] = [i \in 1 .. Len(s) |-> newAO[s[i]]]
    BY <2>1, <2>2 DEF Petsc
  <2>4. petsc[p] \in [1 .. Len(s) -> indices]
    BY <1>7, <2>2, <2>3, OrderFacts
  <2> QED BY <2>2, <2>4, SeqDef
<1> HIDE DEF petsc
<1>11. /\ phase' = "synched" /\ ao' = newAO /\ nonlocalPetsc' = petsc
       /\ X' = Scattered(X, newAO) /\ data' = Scattered(data, newAO)
       /\ idx' = RenumberedCells(filled, lag, nonlocal, newAO)
  BY <1>2, <1>7
<1>12. Agreeing(idx', filled, lag, petsc, newAO)
  <2> DEFINE new == RenumberedCells(filled, lag, nonlocal, newAO)
  <2>1. Agreeing(new, filled, lag, petsc, newAO)
    BY <1>0, <1>4, <1>7, <1>8, <1>9, RenumberedLevel
  <2> HIDE DEF new
  <2>2. idx' = new
    BY <1>11 DEF new
  <2> QED BY <2>1, <2>2
<1>13. /\ X' \in [indices -> Int] /\ data' \in [indices -> Nodes]
       /\ \A l \in Nodes : X'[ao'[l]] = home[l]
  <2>1. /\ Scattered(X, newAO) \in [indices -> Int]
        /\ \A l \in Nodes : Scattered(X, newAO)[newAO[l]] = X[ao[l]]
    <3>1. Scattered(X, newAO) \in [indices -> Int]
      BY <1>0, <1>7, ScatteredType
    <3>2. \A l \in Nodes : Scattered(X, newAO)[newAO[l]] = X[ao[l]]
      BY <1>7, ScatteredValues
    <3> QED BY <3>1, <3>2
  <2>2. Scattered(data, newAO) \in [indices -> Nodes]
    BY <1>0, <1>7, ScatteredType
  <2> QED BY <1>3, <1>11, <2>1, <2>2
<1>14. Numbered(localLag, ao)'
  BY <1>1, <1>7, <1>11
<1>15. moves' \in 0 .. MaxMoves /\ moves' \in Nat
  <2>1. MaxMoves \in Nat
    BY <1>0, LevelFacts
  <2> QED BY <1>0, <1>1, <2>1
<1>16. TypeOK'
  <2>1. phase' \in Phases
    BY <1>11 DEF Phases
  <2>2. /\ DOMAIN idx' = DOMAIN patches
        /\ \A k \in DOMAIN patches : DOMAIN idx'[k] = GhostBox(patches[k])
    BY <1>11 DEF RenumberedCells
  <2>3. \A p \in Procs : localLag'[p] \in Seq(Nodes) /\ nonlocalPetsc'[p] \in Seq(indices)
    BY <1>1, <1>5, <1>10, <1>11 DEF Once
  <2>4. ao' \in [Nodes -> indices]
    BY <1>7, <1>11 DEF Numbered
  <2> QED BY <1>0, <1>1, <1>13, <1>15, <2>1, <2>2, <2>3, <2>4 DEF TypeOK
<1>17. Gone' = {}
  BY <1>1 DEF Gone
<1>18. DisplacedOnce'
  <2>1. displaced' \in [Procs -> Seq([node : Node, cell : Domain'])]
    BY <1>1, EmptyList
  <2>2. \A p \in Procs : DOMAIN displaced'[p] = {}
    BY <1>1
  <2>3. \A p, q \in Procs : \A i \in DOMAIN displaced'[p], j \in DOMAIN displaced'[q] :
          displaced'[p][i].node.lag = displaced'[q][j].node.lag => p = q /\ i = j
    BY <2>2
  <2>4. \A p \in Procs : \A i \in DOMAIN displaced'[p] :
          displaced'[p][i].cell = X'[ao'[displaced'[p][i].node.lag]]
    BY <2>2
  <2> QED BY <1>17, <2>1, <2>3, <2>4, Zenon DEF DisplacedOnce
<1>19. \A k \in DOMAIN patches : \A c \in Interior(patches[k]) : c \in GhostBox(patches[k])
  BY <1>0, LayoutFacts
<1>20. Sorted(home)'
  <2>1. Travelled' = moves'
    BY <1>11 DEF Travelled
  <2>2. ASSUME NEW l \in Nodes
        PROVE  X'[ao'[l]] - home[l] \in -moves' .. moves' /\ home[l] \in CoveredBy(patches)
    <3>1. X'[ao'[l]] = home[l] /\ home[l] \in Int /\ home[l] \in CoveredBy(patches)
      BY <1>0, <1>3, <1>4, <1>13
    <3> HIDE DEF indices
    <3> QED BY <1>15, <3>1
  <2>3. ASSUME NEW k \in DOMAIN patches, NEW c \in Interior(patches[k])
        PROVE  Lists(idx'[k][c], {l \in Nodes : home[l] = c})
    BY <1>4, <1>12, <1>19 DEF HomeCells, Agreeing
  <2>4. ASSUME NEW k \in DOMAIN patches, NEW c \in GhostBox(patches[k]) \ Interior(patches[k])
        PROVE  Lists(idx'[k][c], At(home, c))
    BY <1>4, <1>12 DEF Agreeing
  <2>5. \A c : At(home, c)' = At(home, c)
    BY <1>1, SamePatches DEF At
  <2>6. CoveredBy(patches)' = CoveredBy(patches)
    BY <1>1, SamePatches
  <2>7. Nodes \ Gone' = Nodes
    BY <1>17
  <2> QED BY <1>1, <1>11, <2>1, <2>2, <2>3, <2>4, <2>5, <2>6, <2>7 DEF Sorted
<1>21. \E h \in [Nodes -> Domain'] : Sorted(h)'
  <2>1. Domain' = Domain
    BY <1>1, SamePatches
  <2> QED BY <1>20, <2>1
<1>22. InBuffer'
  <2>1. ASSUME NEW l \in Nodes PROVE \E b \in Int : Buffered(l, b)'
    <3>1. phase = "begun" => l \notin Gone
      <4>1. phase = "begun" => displaced = none
        BY <1>1
      <4>2. displaced = none => Gone = {}
        <5>1. displaced = none => \A p \in Procs : DOMAIN displaced[p] = {}
          OBVIOUS
        <5> QED BY <5>1, GoneFacts
      <4> QED BY <4>1, <4>2
    <3>2. PICK b \in Int : Buffered(l, b)
      BY <1>0, <1>1, <3>1 DEF InBuffer
    <3>3. X'[ao'[l]] = X[ao[l]]
      BY <1>3, <1>13
    <3>4. moves' = IF phase = "regridded" THEN 0 ELSE moves
      BY <1>1
    <3>5. /\ level.periodic \/ b \in Domain
          /\ \A w \in -TagBuffer .. TagBuffer : Confined(b + w) \in CoveredBy(patches)
          /\ X[ao[l]] - b \in -moves' .. moves'
      BY <3>2, <3>4, Zenon DEF Buffered
    <3>6. Buffered(l, b)'
      BY <1>1, <1>11, <3>3, <3>5, SamePatches DEF Buffered
    <3> QED BY <3>6
  <2> QED BY <1>11, <1>17, <2>1 DEF InBuffer
<1>23. IndicesRight'
  <2>1. \A p, loc : Global(lag, petsc, p, loc) = GlobalIndex(p, loc)'
    BY <1>1, <1>11 DEF Global, GlobalIndex
  <2>2. \A k \in DOMAIN patches' : \A c \in GhostBox(patches'[k]) : \A i \in DOMAIN idx'[k][c] :
          /\ idx'[k][c][i].glob = ao'[idx'[k][c][i].lag]
          /\ GlobalIndex(patches[k].proc, idx[k][c][i].loc)' = ao'[idx'[k][c][i].lag]
    <3> SUFFICES ASSUME NEW k \in DOMAIN patches', NEW c \in GhostBox(patches'[k]),
                        NEW i \in DOMAIN idx'[k][c]
                 PROVE  /\ idx'[k][c][i].glob = ao'[idx'[k][c][i].lag]
                        /\ GlobalIndex(patches[k].proc, idx[k][c][i].loc)' = ao'[idx'[k][c][i].lag]
      OBVIOUS
    <3>1. k \in DOMAIN patches /\ c \in GhostBox(patches[k])
      BY <1>1
    <3>2. GlobalIndex(patches[k].proc, idx[k][c][i].loc)'
              = Global(lag, petsc, patches[k].proc, idx'[k][c][i].loc)
      <4>1. GlobalIndex(patches[k].proc, idx[k][c][i].loc)'
                = Global(lag, petsc, patches'[k].proc, idx'[k][c][i].loc)
        BY <1>1, <1>11, Zenon DEF Global, GlobalIndex
      <4> QED BY <1>1, <4>1
    <3>3. /\ idx'[k][c][i].glob = newAO[idx'[k][c][i].lag]
          /\ Global(lag, petsc, patches[k].proc, idx'[k][c][i].loc) = newAO[idx'[k][c][i].lag]
      BY <1>12, <3>1 DEF Agreeing
    <3> QED BY <1>11, <3>2, <3>3
  <2> QED BY <2>2, Zenon DEF IndicesRight
<1>24. wrapped' \in [Nodes -> Int]
  BY <1>1 DEF IInv
<1>25. phase' \notin {"begun", "regridded", "displaced", "initialized", "corrupt"}
  BY <1>11
<1> QED BY <1>14, <1>16, <1>18, <1>21, <1>22, <1>23, <1>24, <1>25 DEF IInv

-----------------------------------------------------------------------------
(* The invariant holds *)

LEMMA StutterInv == IInv /\ UNCHANGED vars => IInv'
<1> SUFFICES ASSUME IInv, UNCHANGED vars PROVE IInv'
  OBVIOUS
<1>1. /\ level' = level /\ phase' = phase /\ patches' = patches /\ idx' = idx /\ ao' = ao
      /\ localLag' = localLag /\ nonlocalPetsc' = nonlocalPetsc /\ X' = X /\ data' = data
      /\ displaced' = displaced /\ moves' = moves /\ wrapped' = wrapped
  BY DEF vars
<1>2. TypeOK'
  BY <1>1 DEF IInv, TypeOK
<1>3. Domain' = Domain /\ CoveredBy(patches)' = CoveredBy(patches)
  BY <1>1, SamePatches
<1>4. \A c : Confined(c)' = Confined(c) /\ (Real(c) <=> Real(c)')
  BY <1>1, SamePatches
<1>5. IndicesRight'
  BY <1>1, SMTT(30) DEF IInv, IndicesRight, GlobalIndex
<1>6. Gone' = Gone /\ Travelled' = Travelled
  BY <1>1 DEF Gone, Travelled
<1>7. DisplacedOnce'
  <2>0. DisplacedOnce
    BY DEF IInv
  <2>1. displaced' \in [Procs -> Seq([node : Node, cell : Domain'])]
    BY <1>1, <1>3, <2>0 DEF DisplacedOnce
  <2>2. \A p, q \in Procs : \A i \in DOMAIN displaced'[p], j \in DOMAIN displaced'[q] :
          displaced'[p][i].node.lag = displaced'[q][j].node.lag => p = q /\ i = j
    BY <1>1, <2>0 DEF DisplacedOnce
  <2>3. \A p \in Procs : \A i \in DOMAIN displaced'[p] :
          displaced'[p][i].cell = X'[ao'[displaced'[p][i].node.lag]]
    BY <1>1, <2>0 DEF DisplacedOnce
  <2>4. phase' \in {"initialized", "synched"} => Gone' = {}
    BY <1>1, <1>6, <2>0 DEF DisplacedOnce
  <2> QED BY <2>1, <2>2, <2>3, <2>4, Zenon DEF DisplacedOnce
<1>8. ASSUME NEW home, Sorted(home) PROVE Sorted(home)'
  <2>1. \A c : At(home, c)' = At(home, c)
    BY <1>4 DEF At
  <2>2. patches' = patches /\ idx' = idx /\ Gone' = Gone /\ phase' = phase /\ X' = X /\ ao' = ao
    BY <1>1, <1>6
  <2>3. \A l \in Nodes \ Gone' : /\ X'[ao'[l]] - home[l] \in -Travelled' .. Travelled'
                               /\ home[l] \in CoveredBy(patches)'
    BY <1>3, <1>6, <1>8, <2>2 DEF Sorted
  <2>4. \A k \in DOMAIN patches' : \A c \in Interior(patches'[k]) :
            Lists(idx'[k][c], {l \in Nodes \ Gone' : home[l] = c})
    BY <1>8, <2>2 DEF Sorted
  <2>5. phase' \in {"initialized", "synched", "displaced"} =>
            \A k \in DOMAIN patches' : \A c \in GhostBox(patches'[k]) \ Interior(patches'[k]) :
                Lists(idx'[k][c], IF phase' = "synched" THEN At(home, c)' ELSE {})
    BY <1>8, <2>1, <2>2 DEF Sorted
  <2> QED BY <2>3, <2>4, <2>5, Zenon DEF Sorted
<1>9. ASSUME NEW l, NEW b, Buffered(l, b) PROVE Buffered(l, b)'
  BY <1>1, <1>3, <1>4, <1>9 DEF Buffered
<1>10. InBuffer'
  BY <1>1, <1>6, <1>9 DEF IInv, InBuffer
<1>11. \E home \in [Nodes -> Domain'] : Sorted(home)'
  BY <1>3, <1>8 DEF IInv
<1> QED BY <1>1, <1>2, <1>3, <1>5, <1>7, <1>10, <1>11 DEF IInv

\* No step of a time step, a displacement or a redistribution breaks the
\* invariant; in particular a redistribution never loses a node.
THEOREM Invariant == Spec => []IInv
<1>1. IInv /\ [Next]_vars => IInv'
  <2> SUFFICES ASSUME IInv, [Next]_vars PROVE IInv'
    OBVIOUS
  <2>1. CASE Move
    BY <2>1, MoveInv
  <2>2. ASSUME NEW S \in Structures, NEW dX \in Displacements, DisplaceLagrangianStructure(S, dX)
        PROVE  IInv'
    BY <2>2, DisplaceInv
  <2>3. CASE BeginDataRedistribution
    BY <2>3, BeginInv
  <2>4. ASSUME NEW layout \in level.layouts, Regrid(layout) PROVE IInv'
    BY <2>4, RegridInv
  <2>5. CASE EndDataRedistribution
    BY <2>5, EndInv
  <2>6. CASE UNCHANGED vars
    BY <2>6, StutterInv
  <2> QED BY <2>1, <2>2, <2>3, <2>4, <2>5, <2>6 DEF Next
<1> QED BY <1>1, InitInv, PTL DEF Spec

\* The members keep their types, and the local vectors and the ordering fit.
THEOREM TypeCorrect == Spec => []TypeOK
<1>1. IInv => TypeOK
  BY DEF IInv
<1> QED BY <1>1, Invariant, PTL

\* When the level is synched, one patch lists a node, in its home cell.
LEMMA SynchedHome ==
  ASSUME IInv, phase = "synched", NEW home \in [Nodes -> Domain], Sorted(home), NEW l \in Nodes
  PROVE  \E place : Places(l) = {place} /\ place[2] = home[l]
<1>0. level \in Levels /\ patches \in level.layouts /\ Gone = {}
  BY IInvFacts DEF DisplacedOnce
<1>1. home[l] \in CoveredBy(patches)
  BY <1>0 DEF Sorted
<1>2. PICK k \in DOMAIN patches : home[l] \in Interior(patches[k])
  BY <1>1 DEF CoveredBy
<1>3. ASSUME NEW j \in DOMAIN patches, NEW c \in Interior(patches[j])
      PROVE  Lists(idx[j][c], {m \in Nodes : home[m] = c})
  BY <1>0 DEF Sorted
<1>4. PICK i \in DOMAIN idx[k][home[l]] : idx[k][home[l]][i].lag = l
  BY <1>2, <1>3 DEF Lists
<1> DEFINE s == idx[k][home[l]]
           n == Cardinality(Nodes) + 1
<1>5. Lists(s, {m \in Nodes : home[m] = home[l]})
  BY <1>2, <1>3
<1> HIDE DEF s
<1>6. i \in 1 .. n
  <2>1. s \in Seq(Node) /\ \A a, b \in DOMAIN s : s[a].lag = s[b].lag => a = b
    BY <1>5 DEF Lists
  <2>2. Len(s) \in Nat /\ DOMAIN s = 1 .. Len(s)
    BY <2>1, LenProperties
  <2> DEFINE f == [a \in 1 .. Len(s) |-> s[a].lag]
  <2>3. \A a \in 1 .. Len(s) : s[a].lag \in Nodes
    BY <1>5, <2>2 DEF Lists
  <2>4. f \in Injection(1 .. Len(s), Nodes)
    <3>1. f \in [1 .. Len(s) -> Nodes]
      BY <2>3
    <3>2. \A a, b \in 1 .. Len(s) : f[a] = f[b] => a = b
      BY <2>1, <2>2
    <3> HIDE DEF f
    <3> QED BY <3>1, <3>2 DEF Injection, IsInjective
  <2> HIDE DEF f
  <2>5. Cardinality(1 .. Len(s)) <= Cardinality(Nodes)
    BY <2>4, NodesAssumption, FS_Injection
  <2>6. Cardinality(1 .. Len(s)) = Len(s)
    <3>1. Len(s) \in Int /\ 1 \in Int
      BY <2>2
    <3>2. Cardinality(1 .. Len(s)) = IF 1 > Len(s) THEN 0 ELSE Len(s) - 1 + 1
      BY <3>1, FS_Interval
    <3> QED BY <2>2, <3>2
  <2>7. Cardinality(Nodes) \in Nat
    BY IndicesFacts
  <2>8. i \in 1 .. Len(s)
    BY <1>4, <2>2 DEF s
  <2> QED BY <2>2, <2>5, <2>6, <2>7, <2>8
<1> DEFINE place == <<k, home[l], i>>
<1>7. place \in Places(l)
  BY <1>2, <1>4, <1>6 DEF Places
<1>8. ASSUME NEW other \in Places(l) PROVE other = place
  <2> DEFINE j == other[1]
             c == other[2]
             h == other[3]
  <2>1. /\ other = <<j, c, h>> /\ j \in DOMAIN patches /\ c \in Interior(patches[j])
        /\ h \in DOMAIN idx[j][c] /\ idx[j][c][h].lag = l
    BY DEF Places
  <2> HIDE DEF j, c, h
  <2>2. Lists(idx[j][c], {m \in Nodes : home[m] = c})
    BY <1>3, <2>1
  <2>3. c = home[l]
    BY <2>1, <2>2 DEF Lists
  <2>4. j = k
    BY <1>0, <1>2, <2>1, <2>3, LayoutFacts
  <2>5. h = i
    BY <1>4, <2>1, <2>2, <2>3, <2>4 DEF Lists
  <2> QED BY <2>1, <2>3, <2>4, <2>5
<1>9. Places(l) = {place}
  BY <1>7, <1>8
<1>10. place[2] = home[l]
  OBVIOUS
<1> HIDE DEF place
<1> QED BY <1>9, <1>10

\* A redistribution neither loses nor duplicates a node, whatever the nodes,
\* the processes and the patches before and after it: the ordering counts each
\* of them once, and one patch lists it, at first in the cell where it is
\* (EachNodeOnce).
THEOREM NodesOnce == Spec => []EachNodeOnce
<1>1. IInv => EachNodeOnce
  <2> SUFFICES ASSUME IInv PROVE EachNodeOnce
    OBVIOUS
  <2>1. NumNodes(localLag) = Cardinality(Nodes)
    BY IInvFacts DEF Numbered
  <2>2. phase # "corrupt" /\ level \in Levels /\ \A l \in Nodes : X[ao[l]] \in Int
    BY IInvFacts
  <2>3. ASSUME phase = "synched", NEW l \in Nodes
        PROVE  /\ Cardinality(Places(l)) = 1
               /\ moves = 0 => \A place \in Places(l) : place[2] = X[ao[l]]
    <3>1. PICK home \in [Nodes -> Domain] : Sorted(home)
      BY IInvFacts
    <3>2. PICK place : Places(l) = {place} /\ place[2] = home[l]
      BY <2>3, <3>1, SynchedHome
    <3>3. Cardinality(Places(l)) = 1
      BY <3>2, FS_Singleton
    <3>4. ASSUME moves = 0 PROVE home[l] = X[ao[l]]
      <4>1. Gone = {} /\ Travelled = 0
        BY <2>3, <3>4, IInvFacts DEF DisplacedOnce, Travelled
      <4>2. X[ao[l]] - home[l] \in -0 .. 0
        BY <3>1, <4>1 DEF Sorted
      <4>3. X[ao[l]] \in Int /\ home[l] \in Int
        BY <2>2, ConfinedFacts
      <4> QED BY <4>2, <4>3
    <3> QED BY <3>2, <3>3, <3>4
  <2> QED BY <2>1, <2>2, <2>3 DEF EachNodeOnce
<1> QED BY <1>1, Invariant, PTL

\* What a process reads from its ghosted local vector for a node that it lists
\* is the value of that node, also if another process owns the node
\* (IndicesAgree).
THEOREM IndicesCorrect == Spec => []IndicesAgree
<1>1. IInv => IndicesAgree
  BY IInvFacts, Zenon DEF IndicesRight, IndicesAgree
<1> QED BY <1>1, Invariant, PTL

\* The ghost cells and the tag buffer are as wide as the nodes can travel:
\* between redistributions every node stays on the level, and the next
\* redistribution finds it (InReach).
THEOREM NodesInReach == Spec => []InReach
<1>1. IInv => InReach
  <2> SUFFICES ASSUME IInv, phase = "synched", NEW l \in Nodes
               PROVE  \E k \in DOMAIN patches :
                          /\ Confined(X[ao[l]]) \in Interior(patches[k])
                          /\ FoundIn(k, Confined(X[ao[l]]), l) # {}
    BY DEF InReach
  <2> DEFINE c == Confined(X[ao[l]])
  <2>1. Gone = {}
    BY IInvFacts DEF DisplacedOnce
  <2>2. c \in CoveredBy(patches)
    BY <2>1, CoveredNow
  <2>3. PICK k \in DOMAIN patches : c \in Interior(patches[k])
    BY <2>2 DEF CoveredBy
  <2>4. PICK home \in [Nodes -> Domain] : Sorted(home)
    BY IInvFacts
  <2>5. c = Confined(X[ao[l]])
    OBVIOUS
  <2> HIDE DEF c
  <2>6. FoundIn(k, c, l) # {}
    BY <2>1, <2>3, <2>4, <2>5, FoundFacts
  <2> QED BY <2>3, <2>5, <2>6
<1> QED BY <1>1, Invariant, PTL

-----------------------------------------------------------------------------
(* What the physics sees *)

Posn == [l \in Nodes |-> X[ao[l]]]
Data == [l \in Nodes |-> data[ao[l]]]

\* A step after which every node has the data and the position it had.
LEMMA SameSeen ==
  ASSUME level' = level, \A l \in Nodes : X'[ao'[l]] = X[ao[l]] /\ data'[ao'[l]] = data[ao[l]]
  PROVE  UNCHANGED <<Posn, Data, level>>
<1>1. Posn' = Posn
  BY DEF Posn
<1>2. Data' = Data
  BY DEF Data
<1> QED BY <1>1, <1>2

LEMMA InitMesh == Init => Mesh!MInit
<1> SUFFICES ASSUME Init PROVE Mesh!MInit
  OBVIOUS
<1>1. IInv /\ level \in Levels /\ phase = "initialized"
  BY InitInv DEF Init
<1>2. Numbered(localLag, ao) /\ ao \in [Nodes -> 0 .. Cardinality(Nodes) - 1]
      /\ X \in [0 .. Cardinality(Nodes) - 1 -> Int]
  BY <1>1, IInvFacts
<1>3. data = [g \in DOMAIN X |-> CHOOSE l \in Nodes : ao[l] = g]
  BY DEF Init
<1>4. \A l \in Nodes : data[ao[l]] = l
  BY <1>2, <1>3, OrderFacts
<1>5. PICK at \in [Nodes -> Domain] :
        X = [g \in 0 .. Cardinality(Nodes) - 1 |-> at[CHOOSE l \in Nodes : ao[l] = g]]
  BY Zenon DEF Init
<1>6. \A l \in Nodes : X[ao[l]] = at[l]
  BY <1>2, <1>5, OrderFacts
<1>7. [l \in Nodes |-> X[ao[l]]] \in [Nodes -> 0 .. level.cells - 1]
  BY <1>6 DEF Domain, NumCells
<1> QED BY <1>4, <1>7 DEF Mesh!MInit

LEMMA MoveMesh == IInv /\ Move => Mesh!Move
<1> SUFFICES ASSUME IInv, Move PROVE Mesh!Move
  OBVIOUS
<1>1. level' = level /\ ao' = ao /\ data' = data
  BY DEF Move
<1>2. PICK d \in [Nodes -> -1 .. 1] :
        X' = [g \in DOMAIN X |-> X[g] + d[CHOOSE l \in Nodes : ao[l] = g]]
  BY DEF Move
<1>3. \A l \in Nodes : X'[ao[l]] = X[ao[l]] + d[l]
  <2>1. Numbered(localLag, ao) /\ ao \in [Nodes -> 0 .. Cardinality(Nodes) - 1]
        /\ X \in [0 .. Cardinality(Nodes) - 1 -> Int]
    BY IInvFacts
  <2>2. \A l \in Nodes : ao[l] \in DOMAIN X /\ (CHOOSE m \in Nodes : ao[m] = ao[l]) = l
    BY <2>1, OrderFacts
  <2> QED BY <1>2, <2>2
<1>4. Posn' = [l \in Nodes |-> Posn[l] + d[l]]
  BY <1>1, <1>3 DEF Posn
<1>5. Data' = Data
  BY <1>1 DEF Data
<1> QED BY <1>1, <1>4, <1>5 DEF Mesh!Move, Posn, Data

LEMMA DisplaceMesh ==
  ASSUME NEW S \in Structures, NEW dX \in Displacements,
         IInv, DisplaceLagrangianStructure(S, dX)
  PROVE  Mesh!Displace
<1>1. /\ level' = level /\ ao' = ao /\ data' = data /\ S \subseteq Nodes
      /\ \A l \in S : X'[ao[l]] = X[ao[l]] + dX
      /\ \A l \in Nodes \ S : X'[ao[l]] = X[ao[l]]
  <2>1. S \in SUBSET Nodes /\ level' = level /\ ao' = ao /\ data' = data
    BY DisplaceStep
  <2>2. \A l \in S : X'[ao[l]] = X[ao[l]] + dX
    <3>1. \A l \in S : X'[ao[l]] = X[ao[l]] + dX /\ X'[ao[l]] \in Domain
      BY DisplaceStep, Zenon
    <3> QED BY <3>1, Zenon
  <2>3. \A l \in Nodes \ S : X'[ao[l]] = X[ao[l]]
    BY DisplaceStep
  <2> QED BY <2>1, <2>2, <2>3
<1>2. Posn' = [l \in Nodes |-> IF l \in S THEN Posn[l] + dX ELSE Posn[l]]
  BY <1>1 DEF Posn
<1>3. Data' = Data
  BY <1>1 DEF Data
<1> QED BY <1>1, <1>2, <1>3 DEF Mesh!Displace, Posn, Data

LEMMA BeginMesh == IInv /\ BeginDataRedistribution => Mesh!Confine
<1> SUFFICES ASSUME IInv, BeginDataRedistribution PROVE Mesh!Confine
  OBVIOUS
<1>1. /\ level' = level /\ ao' = ao /\ data' = data
      /\ X' = [g \in DOMAIN X |-> Confined(X[g])]
  BY DEF BeginDataRedistribution
<1>2. \A c : Mesh!Confined(c) = Confined(c)
  BY DEF Mesh!Confined, Confined, NumCells
<1>3. \A l \in Nodes : ao[l] \in DOMAIN X
  BY IInvFacts
<1>4. Posn' = [l \in Nodes |-> Confined(Posn[l])]
  BY <1>1, <1>3 DEF Posn
<1>5. Data' = Data
  BY <1>1 DEF Data
<1> QED BY <1>1, <1>2, <1>4, <1>5 DEF Mesh!Confine, Posn, Data

\* The scatter takes every value from where the old ordering has it to where
\* the new one has it.
LEMMA EndMesh == IInv /\ EndDataRedistribution => UNCHANGED <<Posn, Data, level>>
<1> SUFFICES ASSUME IInv, EndDataRedistribution PROVE UNCHANGED <<Posn, Data, level>>
  OBVIOUS
<1>1. IInv'
  BY EndInv
<1>2. Numbered(localLag', ao')
  <2>1. Numbered(localLag, ao)'
    BY <1>1 DEF IInv
  <2> QED BY <2>1
<1>3. X' = Scattered(X, ao') /\ data' = Scattered(data, ao')
  <2> DEFINE filled == FillGhosts(WithDisplaced)
             lag == NewLocalLag(filled)
  <2>1. ~ Complete(lag) => phase' = "corrupt"
    BY Zenon DEF EndDataRedistribution
  <2>2. Complete(lag)
    BY <1>1, <2>1 DEF IInv
  <2>3. Complete(lag) => /\ ao' = NewAO(lag)
                         /\ X' = Scattered(X, NewAO(lag)) /\ data' = Scattered(data, NewAO(lag))
    BY Zenon DEF EndDataRedistribution
  <2> HIDE DEF lag
  <2> QED BY <2>2, <2>3
<1>4. \A l \in Nodes : X'[ao'[l]] = X[ao[l]]
  BY <1>2, <1>3, ScatteredValues
<1>5. \A l \in Nodes : data'[ao'[l]] = data[ao[l]]
  BY <1>2, <1>3, ScatteredValues
<1>6. level' = level
  BY DEF EndDataRedistribution
<1> QED BY <1>4, <1>5, <1>6, SameSeen

\* Seen through the ordering, every node keeps its position and its data
\* through every redistribution, whatever the patches and the processes: a
\* redistribution only brings nodes back that left the domain
\* (ImplementsMesh).
THEOREM MeshImplemented == Spec => ImplementsMesh
<1>1. IInv /\ [Next]_vars => [Mesh!MNext]_<<Posn, Data, level>>
  <2> SUFFICES ASSUME IInv, [Next]_vars, ~UNCHANGED <<Posn, Data, level>> PROVE Mesh!MNext
    OBVIOUS
  <2>1. CASE Move
    BY <2>1, MoveMesh DEF Mesh!MNext
  <2>2. ASSUME NEW S \in Structures, NEW dX \in Displacements, DisplaceLagrangianStructure(S, dX)
        PROVE  Mesh!MNext
    BY <2>2, DisplaceMesh DEF Mesh!MNext
  <2>3. CASE BeginDataRedistribution
    BY <2>3, BeginMesh DEF Mesh!MNext
  <2>4. ASSUME NEW layout \in level.layouts, Regrid(layout) PROVE Mesh!MNext
    <3>1. level' = level /\ X' = X /\ ao' = ao /\ data' = data
      BY <2>4 DEF Regrid
    <3> QED BY <3>1, SameSeen
  <2>5. CASE EndDataRedistribution
    BY <2>5, EndMesh
  <2>6. CASE UNCHANGED vars
    <3>1. level' = level /\ X' = X /\ ao' = ao /\ data' = data
      BY <2>6 DEF vars
    <3> QED BY <3>1, SameSeen
  <2> QED BY <2>1, <2>2, <2>3, <2>4, <2>5, <2>6 DEF Next
<1>2. IInv /\ [Next]_vars =>
        [Mesh!MNext]_<<[l \in Nodes |-> X[ao[l]]], [l \in Nodes |-> data[ao[l]]], level>>
  BY <1>1 DEF Posn, Data
<1> QED BY <1>2, InitMesh, Invariant, PTL DEF Spec, ImplementsMesh, Mesh!MSpec

-----------------------------------------------------------------------------
(* The shifts that the nodes record *)

\* No patch and the cells searched around it hold a cell of a periodic domain
\* twice.
NoCellTwice ==
    \A any \in Levels : any.periodic =>
        \A layout \in any.layouts : \A k \in DOMAIN layout :
            layout[k].hi - layout[k].lo + 1 + 2 * CflWidth <= any.cells

\* Whatever lists a node has the distance it was shifted by.
Recorded ==
    /\ \A k \in DOMAIN patches : \A c \in GhostBox(patches[k]) : \A i \in DOMAIN idx[k][c] :
          idx[k][c][i].shift = wrapped[idx[k][c][i].lag]
    /\ \A p \in Procs : \A i \in DOMAIN displaced[p] :
          displaced[p][i].node.shift = wrapped[displaced[p][i].node.lag]

LEMMA ModApart ==
  ASSUME NEW n \in Int, n > 0, NEW x \in Int, NEW y \in Int, x % n = y % n, x - y < n, y - x < n
  PROVE  x = y
<1>1. PICK a \in Int : x = n * a + (x % n)
  BY ModFacts
<1>2. PICK b \in Int : y = n * b + (y % n)
  BY ModFacts
<1> DEFINE r == x % n
<1>3. r \in 0 .. n - 1
  BY ModFacts
<1>4. x = n * a + r /\ y = n * b + r
  BY <1>1, <1>2, Zenon
<1> HIDE DEF r
<1>5. CASE a = b
  BY <1>4, <1>5
<1>6. CASE a < b
  <2> DEFINE d == b - a
  <2>1. d \in Int /\ d >= 1
    BY <1>6
  <2>2. y - x = n * d
    BY <1>3, <1>4
  <2> HIDE DEF d
  <2>3. n * d >= n
    BY <2>1
  <2> QED BY <2>1, <2>2, <2>3
<1>7. CASE b < a
  <2> DEFINE d == a - b
  <2>1. d \in Int /\ d >= 1
    BY <1>7
  <2>2. x - y = n * d
    BY <1>3, <1>4
  <2> HIDE DEF d
  <2>3. n * d >= n
    BY <2>1
  <2> QED BY <2>1, <2>2, <2>3
<1> QED BY <1>5, <1>6, <1>7

\* In a periodic level a node is found in one cell.
LEMMA FoundOnce ==
  ASSUME NoCellTwice, IInv, phase \in {"initialized", "synched", "displaced"}, level.periodic,
         NEW k \in DOMAIN patches, NEW c \in Interior(patches[k]), NEW l \in Nodes,
         NEW a \in FoundIn(k, c, l), NEW b \in FoundIn(k, c, l)
  PROVE  a = b
<1> DEFINE lo == patches[k].lo
           hi == patches[k].hi
<1>1. /\ level \in Levels /\ patches \in level.layouts
      /\ lo \in Nat /\ hi \in Nat /\ CflWidth \in Nat /\ NumCells \in Int /\ NumCells > 0
      /\ hi - lo + 1 + 2 * CflWidth <= NumCells
  <2>1. level \in Levels /\ patches \in level.layouts
    BY IInvFacts
  <2>2. hi - lo + 1 + 2 * CflWidth <= NumCells
    BY <2>1 DEF NoCellTwice, NumCells
  <2> QED BY <2>1, <2>2, LayoutFacts, LevelFacts
<1>2. PICK home \in [Nodes -> Domain] : Sorted(home)
  BY IInvFacts
<1>3. ASSUME NEW old \in FoundIn(k, c, l)
      PROVE  old \in lo - CflWidth .. hi + CflWidth /\ Confined(old) = home[l]
  <2>1. /\ old \in Grown(patches[k], CflWidth) /\ old \in GhostBox(patches[k])
        /\ \E i \in DOMAIN idx[k][old] : idx[k][old][i].lag = l
    BY DEF FoundIn
  <2>2. PICK i \in DOMAIN idx[k][old] : idx[k][old][i].lag = l
    BY <2>1
  <2>3. CASE old \in Interior(patches[k])
    <3>1. Lists(idx[k][old], {m \in Nodes \ Gone : home[m] = old})
      BY <1>2, <2>3 DEF Sorted
    <3>2. home[l] = old
      BY <2>2, <3>1 DEF Lists
    <3>3. Confined(old) = old
      BY <1>1, <3>2, ConfinedFacts
    <3> QED BY <2>1, <3>2, <3>3 DEF Grown
  <2>4. CASE old \notin Interior(patches[k])
    <3>1. Lists(idx[k][old], IF phase = "synched" THEN At(home, old) ELSE {})
      BY <1>2, <2>1, <2>4 DEF Sorted
    <3>2. l \in At(home, old)
      BY <2>2, <3>1 DEF Lists
    <3> QED BY <2>1, <3>2 DEF At, Grown
  <2> QED BY <2>3, <2>4
<1> HIDE DEF lo, hi
<1>4. a \in lo - CflWidth .. hi + CflWidth /\ b \in lo - CflWidth .. hi + CflWidth
  BY <1>3
<1>5. a \in Int /\ b \in Int /\ a - b < NumCells /\ b - a < NumCells
  BY <1>1, <1>4
<1>6. a % NumCells = b % NumCells
  <2>1. Confined(a) = Confined(b)
    BY <1>3
  <2> QED BY <2>1 DEF Confined
<1> QED BY <1>1, <1>5, <1>6, ModApart

LEMMA KeptShift ==
  ASSUME NoCellTwice, IInv, Recorded, phase \in {"initialized", "synched", "displaced"},
         NEW k \in DOMAIN patches, NEW c \in Interior(patches[k]), NEW l \in Nodes,
         FoundIn(k, c, l) # {}
  PROVE  /\ Kept(k, l, FoundIn(k, c, l)).lag = l
         /\ Kept(k, l, FoundIn(k, c, l)).shift = wrapped[l] + PeriodicOffset(X[ao[l]])
<1> DEFINE found == FoundIn(k, c, l)
           o == CHOOSE p \in found : TRUE
           old == idx[k][o]
           i == CHOOSE j \in DOMAIN old : old[j].lag = l
           node == old[i]
           n == Registrations(k, node, found)
           w == PeriodicOffset(Position(k, node))
<1>0. PICK home \in [Nodes -> Domain] : Sorted(home)
  BY IInvFacts
<1>1. IsFiniteSet(found) /\ found # {}
      /\ \A p \in found : p \in GhostBox(patches[k]) /\ \E j \in DOMAIN idx[k][p] : idx[k][p][j].lag = l
  BY <1>0, FoundFacts
<1>2. level.periodic => \A a, b \in found : a = b
  BY FoundOnce
<1> HIDE DEF found
<1>3. o \in found
  BY <1>1
<1> HIDE DEF o
<1>4. o \in GhostBox(patches[k]) /\ i \in DOMAIN old /\ node.lag = l
  BY <1>1, <1>3
<1>5. NodeCells(patches, idx)
  BY <1>0, SortedCells
<1> HIDE DEF i
<1>6. node \in Node /\ node.shift = wrapped[l]
  <2>1. old \in Seq(Node)
    BY <1>4, <1>5 DEF NodeCells
  <2>2. i \in 1 .. Len(old)
    BY <1>4, <2>1, LenProperties
  <2>3. node \in Node
    BY <2>1, <2>2, ElementOfSeq
  <2>4. node.shift = wrapped[node.lag]
    BY <1>4 DEF Recorded
  <2> QED BY <1>4, <2>3, <2>4
<1>7. Position(k, node) = X[ao[l]]
  <2>1. IndicesRight
    BY IInvFacts
  <2>2. GlobalIndex(patches[k].proc, node.loc) = ao[l]
    BY <1>4, <2>1 DEF IndicesRight
  <2> QED BY <2>2 DEF Position
<1>8. w = PeriodicOffset(X[ao[l]]) /\ w \in Int
  <2>1. X[ao[l]] \in Int /\ level \in Levels
    BY IInvFacts
  <2> QED BY <1>7, <2>1, ConfinedFacts
<1>9. n \in Int
  <2>1. Cardinality(found) \in Nat
    BY <1>1, FS_CardinalityType
  <2> QED BY <2>1 DEF Registrations
<1>10. n * w = w
  <2>1. CASE level.periodic
    <3>1. found = {o}
      BY <1>2, <1>3, <2>1
    <3>2. Cardinality(found) = 1
      BY <3>1, FS_Singleton
    <3>3. n = 1
      BY <3>2 DEF Registrations
    <3> HIDE DEF n, w
    <3> QED BY <1>8, <3>3
  <2>2. CASE ~ level.periodic
    <3>1. w = 0
      BY <2>2 DEF PeriodicOffset
    <3> HIDE DEF n, w
    <3> QED BY <1>9, <3>1
  <2> QED BY <2>1, <2>2
<1>11. Kept(k, l, found) = [node EXCEPT !.shift = @ + n * w]
  BY Zenon DEF Kept, o, i
<1> HIDE DEF node, n, w
<1>12. Kept(k, l, found) = [node EXCEPT !.shift = @ + w]
  BY <1>10, <1>11
<1>13. Kept(k, l, found).lag = l /\ Kept(k, l, found).shift = node.shift + w
  <2>1. node.lag = l
    BY <1>4 DEF node
  <2> QED BY <1>6, <1>12, <2>1 DEF Node
<1> QED BY <1>6, <1>8, <1>13 DEF found

LEMMA InitRecorded == Init => Recorded
<1> SUFFICES ASSUME Init PROVE Recorded
  OBVIOUS
<1> DEFINE Bare(at) == [k \in DOMAIN patches |-> [c \in GhostBox(patches[k]) |->
                     IF c \in Interior(patches[k])
                     THEN LET lags == InOrder({l \in Nodes : at[l] = c}) IN
                          [i \in DOMAIN lags |-> [lag |-> lags[i], loc |-> 0, glob |-> 0, shift |-> 0]]
                     ELSE <<>>]]
<1>1. /\ displaced = [p \in Procs |-> <<>>] /\ wrapped = [l \in Nodes |-> 0]
      /\ DOMAIN idx = DOMAIN patches
  BY InitInv, IInvFacts DEF Init
<1>2. PICK at \in [Nodes -> Domain] :
        idx = [k \in DOMAIN patches |-> [c \in GhostBox(patches[k]) |->
                  Renumbered(Bare(at)[k][c], localLag[patches[k].proc], <<>>, ao)]]
  BY Zenon DEF Init
<1>3. NodeCells(patches, idx)
  <2>1. IInv /\ phase = "initialized"
    BY InitInv DEF Init
  <2>2. PICK home \in [Nodes -> Domain] : Sorted(home)
    BY <2>1, IInvFacts
  <2> QED BY <2>1, <2>2, SortedCells
<1>4. ASSUME NEW k \in DOMAIN patches, NEW c \in GhostBox(patches[k]), NEW i \in DOMAIN idx[k][c]
      PROVE  idx[k][c][i].shift = 0 /\ idx[k][c][i].lag \in Nodes
  <2> DEFINE nodes == Bare(at)[k][c]
             local == localLag[patches[k].proc]
             lags == InOrder({l \in Nodes : at[l] = c})
  <2>1. idx[k][c] = Renumbered(nodes, local, <<>>, ao)
    BY <1>2
  <2>2. i \in DOMAIN nodes
    BY <2>1 DEF Renumbered
  <2>3. c \in Interior(patches[k])
    <3> SUFFICES ASSUME c \notin Interior(patches[k]) PROVE FALSE
      OBVIOUS
    <3>1. nodes = <<>>
      OBVIOUS
    <3> QED BY <2>2, <3>1
  <2>4. nodes = [j \in DOMAIN lags |-> [lag |-> lags[j], loc |-> 0, glob |-> 0, shift |-> 0]]
    BY <2>3
  <2> HIDE DEF nodes, local, lags
  <2>5. nodes[i] = [lag |-> lags[i], loc |-> 0, glob |-> 0, shift |-> 0]
    BY <2>2, <2>4
  <2> DEFINE loc == IndexIn(local \o <<>>, nodes[i].lag) - 1
             glob == ao[nodes[i].lag]
             node == nodes[i]
  <2>6. idx[k][c][i] = [node EXCEPT !.loc = loc, !.glob = glob]
    BY <2>1, <2>2 DEF Renumbered
  <2> HIDE DEF loc, glob
  <2>7. idx[k][c][i].shift = 0
    BY <2>5, <2>6
  <2>8. idx[k][c] \in Seq(Node)
    BY <1>3 DEF NodeCells
  <2>9. i \in 1 .. Len(idx[k][c])
    BY <2>8, LenProperties
  <2>10. idx[k][c][i] \in Node
    BY <2>8, <2>9, ElementOfSeq
  <2> QED BY <2>7, <2>10 DEF Node
<1> QED BY <1>1, <1>4 DEF Recorded

\* A step that takes its nodes from those there were, and shifts none.
LEMMA OldNodes ==
  ASSUME Recorded, wrapped' = wrapped,
         \A k \in DOMAIN patches' : \A c \in GhostBox(patches'[k]) : \A i \in DOMAIN idx'[k][c] :
             \/ \E j \in DOMAIN patches : \E b \in GhostBox(patches[j]) : \E h \in DOMAIN idx[j][b] :
                   /\ idx'[k][c][i].lag = idx[j][b][h].lag
                   /\ idx'[k][c][i].shift = idx[j][b][h].shift
             \/ \E p \in Procs : \E h \in DOMAIN displaced[p] :
                   /\ idx'[k][c][i].lag = displaced[p][h].node.lag
                   /\ idx'[k][c][i].shift = displaced[p][h].node.shift,
         \A p \in Procs : \A i \in DOMAIN displaced'[p] :
             \/ displaced' = displaced
             \/ \E j \in DOMAIN patches : \E b \in GhostBox(patches[j]) : \E h \in DOMAIN idx[j][b] :
                   displaced'[p][i].node = idx[j][b][h]
  PROVE  Recorded'
<1>1. \A k \in DOMAIN patches' : \A c \in GhostBox(patches'[k]) : \A i \in DOMAIN idx'[k][c] :
        idx'[k][c][i].shift = wrapped'[idx'[k][c][i].lag]
  BY DEF Recorded
<1>2. \A p \in Procs : \A i \in DOMAIN displaced'[p] :
        displaced'[p][i].node.shift = wrapped'[displaced'[p][i].node.lag]
  BY DEF Recorded
<1> QED BY <1>1, <1>2, Zenon DEF Recorded

LEMMA DisplaceRecorded ==
  ASSUME NEW S \in Structures, NEW dX \in Displacements,
         IInv, Recorded, DisplaceLagrangianStructure(S, dX)
  PROVE  Recorded'
<1> DEFINE taken == Taken(S)
<1>0. level \in Levels /\ patches \in level.layouts
  BY IInvFacts
<1>1. /\ phase = "synched" /\ S \in SUBSET Nodes
      /\ displaced' = [p \in Procs |-> [i \in DOMAIN taken[p] |->
             [node |-> taken[p][i], cell |-> X'[GlobalIndex(p, taken[p][i].loc)]]]]
      /\ idx' = [k \in DOMAIN patches |-> [c \in GhostBox(patches[k]) |->
             IF c \in Interior(patches[k]) THEN Among(idx[k][c], Nodes \ S) ELSE idx[k][c]]]
      /\ patches' = patches /\ wrapped' = wrapped
  BY DisplaceStep
<1>2. PICK home \in [Nodes -> Domain] : Sorted(home)
  BY IInvFacts
<1>3. \A p \in Procs : \A i \in DOMAIN taken[p] :
        \E k \in DOMAIN patches : \E c \in Interior(patches[k]) : taken[p][i] \in ToSet(idx[k][c])
  BY <1>1, <1>2, TakenFacts
<1> HIDE DEF taken
<1>4. ASSUME NEW k \in DOMAIN patches, NEW c \in GhostBox(patches[k]), NEW i \in DOMAIN idx'[k][c]
      PROVE  \E h \in DOMAIN idx[k][c] : idx'[k][c][i] = idx[k][c][h]
  <2>1. CASE c \in Interior(patches[k])
    <3> DEFINE nodes == idx[k][c]
               new == idx'[k][c]
    <3>1. new = Among(nodes, Nodes \ S)
      BY <1>1, <2>1
    <3>2. Lists(nodes, {l \in Nodes \ Gone : home[l] = c})
      BY <1>2, <2>1 DEF Sorted
    <3>3. new[i] \in ToSet(new)
      BY DEF ToSet
    <3> HIDE DEF nodes, new
    <3>4. new[i] \in ToSet(nodes)
      BY <3>1, <3>2, <3>3, AmongLists
    <3> QED BY <3>4 DEF ToSet, nodes, new
  <2>2. CASE c \notin Interior(patches[k])
    <3>1. idx'[k][c] = idx[k][c]
      BY <1>1, <2>2
    <3> QED BY <3>1
  <2> QED BY <2>1, <2>2
<1>5. ASSUME NEW p \in Procs, NEW i \in DOMAIN displaced'[p]
      PROVE  \E j \in DOMAIN patches : \E b \in GhostBox(patches[j]) : \E h \in DOMAIN idx[j][b] :
                 displaced'[p][i].node = idx[j][b][h]
  <2>1. i \in DOMAIN taken[p] /\ displaced'[p][i].node = taken[p][i]
    BY <1>1
  <2>2. PICK k \in DOMAIN patches :
            \E c \in Interior(patches[k]) : taken[p][i] \in ToSet(idx[k][c])
    BY <1>3, <2>1
  <2>3. PICK c \in Interior(patches[k]) : taken[p][i] \in ToSet(idx[k][c])
    BY <2>2
  <2>4. c \in GhostBox(patches[k])
    BY <1>0, LayoutFacts
  <2>5. \E h \in DOMAIN idx[k][c] : taken[p][i] = idx[k][c][h]
    BY <2>3 DEF ToSet
  <2> QED BY <2>1, <2>4, <2>5
<1>6. \A k \in DOMAIN patches' : \A c \in GhostBox(patches'[k]) : \A i \in DOMAIN idx'[k][c] :
        \E j \in DOMAIN patches : \E b \in GhostBox(patches[j]) : \E h \in DOMAIN idx[j][b] :
            /\ idx'[k][c][i].lag = idx[j][b][h].lag
            /\ idx'[k][c][i].shift = idx[j][b][h].shift
  <2> SUFFICES ASSUME NEW k \in DOMAIN patches', NEW c \in GhostBox(patches'[k]),
                      NEW i \in DOMAIN idx'[k][c]
               PROVE  \E j \in DOMAIN patches : \E b \in GhostBox(patches[j]) :
                          \E h \in DOMAIN idx[j][b] : /\ idx'[k][c][i].lag = idx[j][b][h].lag
                                                      /\ idx'[k][c][i].shift = idx[j][b][h].shift
    OBVIOUS
  <2>1. k \in DOMAIN patches /\ c \in GhostBox(patches[k])
    BY <1>1
  <2> QED BY <1>4, <2>1
<1>7. \A p \in Procs : \A i \in DOMAIN displaced'[p] :
        \/ displaced' = displaced
        \/ \E j \in DOMAIN patches : \E b \in GhostBox(patches[j]) : \E h \in DOMAIN idx[j][b] :
              displaced'[p][i].node = idx[j][b][h]
  BY <1>5
<1>8. \A k \in DOMAIN patches' : \A c \in GhostBox(patches'[k]) : \A i \in DOMAIN idx'[k][c] :
        \/ \E j \in DOMAIN patches : \E b \in GhostBox(patches[j]) : \E h \in DOMAIN idx[j][b] :
              /\ idx'[k][c][i].lag = idx[j][b][h].lag
              /\ idx'[k][c][i].shift = idx[j][b][h].shift
        \/ \E p \in Procs : \E h \in DOMAIN displaced[p] :
              /\ idx'[k][c][i].lag = displaced[p][h].node.lag
              /\ idx'[k][c][i].shift = displaced[p][h].node.shift
  BY <1>6, Zenon
<1>9. wrapped' = wrapped
  BY <1>1
<1> QED BY <1>7, <1>8, <1>9, OldNodes, Zenon

LEMMA BeginRecorded ==
  ASSUME NoCellTwice, IInv, Recorded, BeginDataRedistribution
  PROVE  Recorded'
<1>0. /\ level \in Levels /\ patches \in level.layouts /\ DisplacedOnce
      /\ \A l \in Nodes : wrapped[l] \in Int
  BY IInvFacts DEF IInv
<1>1. /\ phase \in {"initialized", "synched", "displaced"}
      /\ wrapped' = [l \in Nodes |-> wrapped[l] + PeriodicOffset(X[ao[l]])]
      /\ idx' = [k \in DOMAIN patches |-> [c \in GhostBox(patches[k]) |->
                    IF c \in Interior(patches[k]) THEN Rebinned(k, c) ELSE <<>>]]
      /\ patches' = patches /\ displaced' = displaced
  BY DEF BeginDataRedistribution
<1>2. ASSUME NEW k \in DOMAIN patches, NEW c \in GhostBox(patches[k]), NEW i \in DOMAIN idx'[k][c]
      PROVE  idx'[k][c][i].shift = wrapped'[idx'[k][c][i].lag]
  <2>1. CASE c \in Interior(patches[k])
    <3> DEFINE S == {l \in Nodes : FoundIn(k, c, l) # {}}
               lags == InOrder(S)
               l == lags[i]
    <3>1. idx'[k][c] = [j \in DOMAIN lags |-> Kept(k, lags[j], FoundIn(k, c, lags[j]))]
      BY <1>1, <2>1 DEF Rebinned
    <3>2. S \in SUBSET Nodes
      OBVIOUS
    <3>3. i \in DOMAIN lags /\ idx'[k][c][i] = Kept(k, l, FoundIn(k, c, l))
      BY <3>1
    <3>4. l \in S
      <4> HIDE DEF S
      <4>1. lags \in Seq(S)
        BY <3>2, InOrderFacts
      <4>2. i \in 1 .. Len(lags)
        BY <3>3, <4>1, LenProperties
      <4> QED BY <4>1, <4>2, ElementOfSeq
    <3>5. l \in Nodes /\ FoundIn(k, c, l) # {}
      BY <3>4
    <3> HIDE DEF l, S
    <3>6. /\ Kept(k, l, FoundIn(k, c, l)).lag = l
          /\ Kept(k, l, FoundIn(k, c, l)).shift = wrapped[l] + PeriodicOffset(X[ao[l]])
      BY <1>1, <2>1, <3>5, KeptShift
    <3> QED BY <1>1, <3>3, <3>5, <3>6
  <2>2. CASE c \notin Interior(patches[k])
    <3>1. idx'[k][c] = <<>>
      BY <1>1, <2>2
    <3> QED BY <3>1
  <2> QED BY <2>1, <2>2
<1>3. ASSUME NEW p \in Procs, NEW i \in DOMAIN displaced[p]
      PROVE  displaced[p][i].node.shift = wrapped'[displaced[p][i].node.lag]
  <2>1. displaced[p] \in Seq([node : Node, cell : Domain])
    BY <1>0 DEF DisplacedOnce
  <2>2. i \in 1 .. Len(displaced[p])
    BY <2>1, LenProperties
  <2>3. displaced[p][i] \in [node : Node, cell : Domain]
    BY <2>1, <2>2, ElementOfSeq
  <2> DEFINE l == displaced[p][i].node.lag
  <2>4. l \in Nodes /\ displaced[p][i].cell \in Domain
    BY <2>3 DEF Node
  <2>5. displaced[p][i].cell = X[ao[l]]
    BY <1>0 DEF DisplacedOnce
  <2>6. displaced[p][i].node.shift = wrapped[l]
    BY DEF Recorded
  <2> HIDE DEF l
  <2>7. X[ao[l]] \in Int /\ Confined(X[ao[l]]) = X[ao[l]]
    BY <1>0, <2>4, <2>5, ConfinedFacts
  <2>8. PeriodicOffset(X[ao[l]]) = 0
    BY <2>7 DEF PeriodicOffset
  <2>9. wrapped'[l] = wrapped[l]
    BY <1>0, <1>1, <2>4, <2>8
  <2> QED BY <2>6, <2>9 DEF l
<1>4. \A k \in DOMAIN patches' : \A c \in GhostBox(patches'[k]) : \A i \in DOMAIN idx'[k][c] :
        idx'[k][c][i].shift = wrapped'[idx'[k][c][i].lag]
  BY <1>1, <1>2
<1>5. \A p \in Procs : \A i \in DOMAIN displaced'[p] :
        displaced'[p][i].node.shift = wrapped'[displaced'[p][i].node.lag]
  BY <1>1, <1>3
<1> QED BY <1>4, <1>5, Zenon DEF Recorded

\* What a schedule copies to a cell, a patch has.
LEMMA CopiedFrom ==
  ASSUME level \in Levels, NEW layout \in level.layouts, NEW d, NEW c
  PROVE  \/ Copied(layout, d, c) = <<>>
         \/ \E k \in DOMAIN layout : \E b \in Interior(layout[k]) :
               b \in GhostBox(layout[k]) /\ Copied(layout, d, c) = d[k][b]
<1> DEFINE owners == {k \in DOMAIN layout : Confined(c) \in Interior(layout[k])}
           k == CHOOSE j \in owners : TRUE
<1>1. \/ Copied(layout, d, c) = <<>>
      \/ owners # {} /\ Copied(layout, d, c) = d[k][Confined(c)]
  BY DEF Copied
<1>2. owners # {} => k \in owners
  OBVIOUS
<1> HIDE DEF k
<1>3. \A j \in owners : Confined(c) \in GhostBox(layout[j])
  BY LayoutFacts
<1> QED BY <1>1, <1>2, <1>3

LEMMA RegridRecorded ==
  ASSUME IInv, Recorded, NEW layout \in level.layouts, Regrid(layout)
  PROVE  Recorded'
<1>0. level \in Levels /\ patches \in level.layouts
  BY IInvFacts
<1>1. /\ patches' = layout /\ wrapped' = wrapped /\ displaced' = displaced
      /\ idx' = [k \in DOMAIN layout |->
                    [c \in GhostBox(layout[k]) |-> Copied(patches, idx, c)]]
  BY DEF Regrid
<1>2. ASSUME NEW k \in DOMAIN patches', NEW c \in GhostBox(patches'[k]), NEW i \in DOMAIN idx'[k][c]
      PROVE  \E j \in DOMAIN patches : \E b \in GhostBox(patches[j]) : \E h \in DOMAIN idx[j][b] :
                 /\ idx'[k][c][i].lag = idx[j][b][h].lag
                 /\ idx'[k][c][i].shift = idx[j][b][h].shift
  <2>1. idx'[k][c] = Copied(patches, idx, c)
    BY <1>1
  <2>2. idx'[k][c] # <<>>
    OBVIOUS
  <2>3. PICK j \in DOMAIN patches : \E b \in Interior(patches[j]) :
            b \in GhostBox(patches[j]) /\ Copied(patches, idx, c) = idx[j][b]
    BY <1>0, <2>1, <2>2, CopiedFrom
  <2>4. PICK b \in Interior(patches[j]) :
            b \in GhostBox(patches[j]) /\ Copied(patches, idx, c) = idx[j][b]
    BY <2>3
  <2> QED BY <2>1, <2>4
<1> QED BY <1>1, <1>2, OldNodes

\* The end of a redistribution renumbers the nodes that the cells were filled
\* with.
LEMMA EndFills ==
  ASSUME IInv, EndDataRedistribution
  PROVE  LET filled == FillGhosts(WithDisplaced) IN
         /\ idx' = RenumberedCells(filled, NewLocalLag(filled), NewNonlocalLag(filled),
                                   NewAO(NewLocalLag(filled)))
         /\ NodeCells(patches, filled)
<1> DEFINE filled == FillGhosts(WithDisplaced)
           lag == NewLocalLag(filled)
<1>1. IInv'
  BY EndInv
<1>2. ~ Complete(lag) => phase' = "corrupt"
  BY Zenon DEF EndDataRedistribution
<1>3. Complete(lag)
  BY <1>1, <1>2 DEF IInv
<1>4. Complete(lag) => idx' = RenumberedCells(filled, lag, NewNonlocalLag(filled), NewAO(lag))
  BY Zenon DEF EndDataRedistribution, RenumberedCells
<1>5. NodeCells(patches, filled)
  <2>1. /\ phase \in {"begun", "regridded"}
        /\ displaced # [p \in Procs |-> <<>>] => phase = "regridded"
    BY DEF EndDataRedistribution
  <2>2. PICK home : \A l \in Nodes : home[l] = X[ao[l]]
    <3> DEFINE h == [l \in Nodes |-> X[ao[l]]]
    <3>1. \A l \in Nodes : h[l] = X[ao[l]]
      OBVIOUS
    <3> HIDE DEF h
    <3> QED BY <3>1
  <2> HIDE DEF filled
  <2> QED BY <2>1, <2>2, FilledFacts DEF filled
<1> HIDE DEF filled, lag
<1>6. idx' = RenumberedCells(filled, lag, NewNonlocalLag(filled), NewAO(lag))
  BY <1>3, <1>4
<1> QED BY <1>5, <1>6 DEF filled, lag

LEMMA EndRecorded == IInv /\ Recorded /\ EndDataRedistribution => Recorded'
<1> SUFFICES ASSUME IInv, Recorded, EndDataRedistribution PROVE Recorded'
  OBVIOUS
<1> DEFINE with == WithDisplaced
           filled == FillGhosts(with)
           lag == NewLocalLag(filled)
           nonlocal == NewNonlocalLag(filled)
           newAO == NewAO(lag)
           Old(x) == \/ \E j \in DOMAIN patches : \E b \in GhostBox(patches[j]) :
                            \E h \in DOMAIN idx[j][b] : x = idx[j][b][h]
                     \/ \E p \in Procs : \E h \in DOMAIN displaced[p] : x = displaced[p][h].node
<1>0. level \in Levels /\ patches \in level.layouts
  BY IInvFacts
<1>1. /\ phase \in {"begun", "regridded"} /\ patches' = patches /\ wrapped' = wrapped
      /\ displaced' = [p \in Procs |-> <<>>]
  BY DEF EndDataRedistribution
<1>2. idx' = RenumberedCells(filled, lag, nonlocal, newAO) /\ NodeCells(patches, filled)
  BY EndFills
<1>3. with = [k \in DOMAIN patches |-> [c \in GhostBox(patches[k]) |->
                 IF c \in Interior(patches[k]) THEN idx[k][c] \o DisplacedTo(c) ELSE idx[k][c]]]
  BY Zenon DEF WithDisplaced, DisplacedTo, AllDisplaced
<1>4. filled = [k \in DOMAIN patches |-> [c \in GhostBox(patches[k]) |->
                   IF c \in Interior(patches[k]) THEN with[k][c] ELSE Copied(patches, with, c)]]
  BY DEF FillGhosts
<1> HIDE DEF with, filled, lag, nonlocal, newAO
<1>5. PICK home \in [Nodes -> Domain] : Sorted(home)
  BY IInvFacts
<1>6. ASSUME NEW k \in DOMAIN patches, NEW c \in Interior(patches[k]), NEW i \in DOMAIN with[k][c]
      PROVE  Old(with[k][c][i])
  <2> DEFINE s == idx[k][c]
             t == DisplacedTo(c)
  <2>1. c \in GhostBox(patches[k])
    BY <1>0, LayoutFacts
  <2>2. with[k][c] = s \o t
    BY <1>3, <2>1
  <2>3. s \in Seq(Node) /\ t \in Seq(Node)
    BY <1>5, DisplacedToLists DEF Sorted, Lists
  <2>4. /\ \A h \in DOMAIN s : Old(s[h])
        /\ \A h \in DOMAIN t : Old(t[h])
    BY <2>1, DisplacedToLists
  <2> DEFINE x == with[k][c][i]
  <2> HIDE DEF s, t, Old
  <2>5. x \in ToSet(s \o t)
    BY <2>2 DEF ToSet
  <2> HIDE DEF x
  <2>6. x \in ToSet(s) \/ x \in ToSet(t)
    BY <2>3, <2>5, JoinedToSet
  <2>7. Old(x)
    BY <2>4, <2>6 DEF ToSet
  <2> QED BY <2>7 DEF x
<1> HIDE DEF Old
<1>7. ASSUME NEW k \in DOMAIN patches, NEW c \in GhostBox(patches[k]), NEW i \in DOMAIN filled[k][c]
      PROVE  Old(filled[k][c][i])
  <2>1. CASE c \in Interior(patches[k])
    <3>1. filled[k][c] = with[k][c]
      BY <1>4, <2>1
    <3> QED BY <1>6, <2>1, <3>1
  <2>2. CASE c \notin Interior(patches[k])
    <3>1. filled[k][c] = Copied(patches, with, c)
      BY <1>4, <2>2
    <3>2. filled[k][c] # <<>>
      OBVIOUS
    <3>3. PICK j \in DOMAIN patches : \E b \in Interior(patches[j]) :
              b \in GhostBox(patches[j]) /\ Copied(patches, with, c) = with[j][b]
      BY <1>0, <3>1, <3>2, CopiedFrom
    <3>4. PICK b \in Interior(patches[j]) : filled[k][c] = with[j][b]
      BY <3>1, <3>3
    <3> QED BY <1>6, <3>4
  <2> QED BY <2>1, <2>2
<1>8. ASSUME NEW k \in DOMAIN patches, NEW c \in GhostBox(patches[k]), NEW i \in DOMAIN idx'[k][c]
      PROVE  /\ i \in DOMAIN filled[k][c]
             /\ idx'[k][c][i].lag = filled[k][c][i].lag
             /\ idx'[k][c][i].shift = filled[k][c][i].shift
  <2> DEFINE nodes == filled[k][c]
             p == patches[k].proc
             node == nodes[i]
             loc == IndexIn(lag[p] \o nonlocal[p], node.lag) - 1
             glob == newAO[node.lag]
  <2>1. idx'[k][c] = Renumbered(nodes, lag[p], nonlocal[p], newAO)
    BY <1>2 DEF RenumberedCells
  <2>2. i \in DOMAIN nodes /\ idx'[k][c][i] = [node EXCEPT !.loc = loc, !.glob = glob]
    BY <2>1 DEF Renumbered
  <2>3. node \in Node
    <3>1. nodes \in Seq(Node)
      BY <1>2 DEF NodeCells
    <3>2. i \in 1 .. Len(nodes)
      BY <2>2, <3>1, LenProperties
    <3> QED BY <3>1, <3>2, ElementOfSeq
  <2> HIDE DEF loc, glob, node
  <2>4. idx'[k][c][i].lag = node.lag /\ idx'[k][c][i].shift = node.shift
    BY <2>2, <2>3 DEF Node
  <2> QED BY <2>2, <2>4 DEF node
<1>9. \A k \in DOMAIN patches' : \A c \in GhostBox(patches'[k]) : \A i \in DOMAIN idx'[k][c] :
        \/ \E j \in DOMAIN patches : \E b \in GhostBox(patches[j]) : \E h \in DOMAIN idx[j][b] :
              /\ idx'[k][c][i].lag = idx[j][b][h].lag
              /\ idx'[k][c][i].shift = idx[j][b][h].shift
        \/ \E p \in Procs : \E h \in DOMAIN displaced[p] :
              /\ idx'[k][c][i].lag = displaced[p][h].node.lag
              /\ idx'[k][c][i].shift = displaced[p][h].node.shift
  <2> SUFFICES ASSUME NEW k \in DOMAIN patches', NEW c \in GhostBox(patches'[k]),
                      NEW i \in DOMAIN idx'[k][c]
               PROVE  \/ \E j \in DOMAIN patches : \E b \in GhostBox(patches[j]) :
                            \E h \in DOMAIN idx[j][b] :
                               /\ idx'[k][c][i].lag = idx[j][b][h].lag
                               /\ idx'[k][c][i].shift = idx[j][b][h].shift
                      \/ \E p \in Procs : \E h \in DOMAIN displaced[p] :
                            /\ idx'[k][c][i].lag = displaced[p][h].node.lag
                            /\ idx'[k][c][i].shift = displaced[p][h].node.shift
    OBVIOUS
  <2>1. k \in DOMAIN patches /\ c \in GhostBox(patches[k])
    BY <1>1
  <2> DEFINE x == filled[k][c][i]
  <2>2. Old(x) /\ idx'[k][c][i].lag = x.lag /\ idx'[k][c][i].shift = x.shift
    BY <1>7, <1>8, <2>1
  <2> HIDE DEF x
  <2> QED BY <2>2 DEF Old
<1>10. \A p \in Procs : DOMAIN displaced'[p] = {}
  BY <1>1
<1> QED BY <1>1, <1>9, <1>10, OldNodes

\* The displacement that a node object records is the distance that the node
\* was shifted by, if no patch of a periodic level is so long that the cells
\* searched around it hold a cell of the domain twice (ShiftRecorded).
THEOREM ShiftsRecorded ==
  ASSUME NoCellTwice
  PROVE  Spec => []ShiftRecorded
<1>1. IInv /\ Recorded /\ [Next]_vars => Recorded'
  <2> SUFFICES ASSUME IInv, Recorded, [Next]_vars PROVE Recorded'
    OBVIOUS
  <2>1. CASE Move
    <3>1. patches' = patches /\ idx' = idx /\ wrapped' = wrapped /\ displaced' = displaced
      BY <2>1 DEF Move
    <3> QED BY <3>1, Zenon DEF Recorded
  <2>2. ASSUME NEW S \in Structures, NEW dX \in Displacements, DisplaceLagrangianStructure(S, dX)
        PROVE  Recorded'
    BY <2>2, DisplaceRecorded
  <2>3. CASE BeginDataRedistribution
    BY <2>3, BeginRecorded
  <2>4. ASSUME NEW layout \in level.layouts, Regrid(layout) PROVE Recorded'
    BY <2>4, RegridRecorded
  <2>5. CASE EndDataRedistribution
    BY <2>5, EndRecorded
  <2>6. CASE UNCHANGED vars
    <3>1. patches' = patches /\ idx' = idx /\ wrapped' = wrapped /\ displaced' = displaced
      BY <2>6 DEF vars
    <3> QED BY <3>1, Zenon DEF Recorded
  <2> QED BY <2>1, <2>2, <2>3, <2>4, <2>5, <2>6 DEF Next
<1>2. IInv /\ Recorded => ShiftRecorded
  <2> SUFFICES ASSUME IInv, Recorded, NEW k \in DOMAIN patches, NEW c \in Interior(patches[k]),
                      NEW i \in DOMAIN idx[k][c]
               PROVE  idx[k][c][i].shift = wrapped[idx[k][c][i].lag]
    BY DEF ShiftRecorded
  <2>1. c \in GhostBox(patches[k])
    BY IInvFacts, LayoutFacts
  <2> QED BY <2>1 DEF Recorded
<1> QED BY <1>1, <1>2, InitRecorded, Invariant, PTL DEF Spec
=============================================================================
