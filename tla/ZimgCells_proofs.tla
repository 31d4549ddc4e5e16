------------------------- MODULE ZimgCells_proofs -------------------------
(***************************************************************************)
(* Proofs about TileGrid and about the cells that run its plan, for every  *)
(* budget, geometry, format and number of frames.                          *)
(*                                                                         *)
(* First the grid: a partition is a row of edges; the two searches choose  *)
(* a greatest element, which exists because the naturals are well-founded. *)
(* Then the cells, in layers, each of which uses those before it: the plan *)
(* is the grid's (GridInv, by refinement); the cells are built in order    *)
(* and cut by that plan (Stages), from resources that are accounted for    *)
(* (Storage); the cells cut every plane (Placed); the workers are in step  *)
(* with their call (Workers); and memory holds what they made (Memory).    *)
(* Last, what the filter sees of it.                                       *)
(***************************************************************************)
EXTENDS ZimgCells, FiniteSetTheorems, SequenceTheorems, WellFoundedInduction, TLAPS

(* Greatest elements. *)

LEMMA HasLeast == ASSUME NEW T, T \subseteq Nat, T # {}
                  PROVE  \E x \in T : \A z \in T : x <= z
<1>1. PICK x \in T : \A z \in T : ~(<<z, x>> \in OpToRel(<, Nat))
    BY NatLessThanWellFounded, WFMin
<1>2. \A z \in T : ~(z < x)
    BY <1>1 DEF OpToRel
<1> QED
    BY <1>2

LEMMA HasGreatest == ASSUME NEW n \in Nat, NEW S, S \subseteq 0 .. n, S # {}
                     PROVE  \E x \in S : \A z \in S : z <= x
<1> DEFINE T == {n - x : x \in S}
<1>1. T \subseteq Nat /\ T # {}
    <2>1. \A x \in S : n - x \in Nat
        OBVIOUS
    <2> QED
        BY <2>1
<1>2. PICK t \in T : \A z \in T : t <= z
    BY <1>1, HasLeast
<1>3. PICK x \in S : t = n - x
    BY <1>2
<1>4. ASSUME NEW z \in S PROVE z <= x
    <2>1. t <= n - z
        BY <1>2
    <2> QED
        BY <1>3, <2>1
<1> QED
    BY <1>4

LEMMA LargestIs == ASSUME NEW n \in Nat, NEW S, S \subseteq 0 .. n, S # {}
                   PROVE  LargestOf(S) \in S /\ \A z \in S : z <= LargestOf(S)
BY HasGreatest DEF LargestOf

\* up__largest_valid_split returns a valid split, and no valid one up to start
\* is larger.
LEMMA SplitIs == ASSUME NEW start \in Nat \ {0}, NEW s, NEW d, NEW minimum
                 PROVE  LET k == LargestSplit(start, s, d, minimum)
                        IN  /\ k \in 1 .. start
                            /\ k = 1 \/ PartitionOk(k, s, d, minimum)
                            /\ \A j \in 2 .. start : PartitionOk(j, s, d, minimum) => j <= k
<1> DEFINE S == {1} \cup {k \in 2 .. start : PartitionOk(k, s, d, minimum)}
<1>1. S \subseteq 0 .. start /\ S # {} /\ S \subseteq 1 .. start
    OBVIOUS
<1>2. LargestOf(S) \in S /\ \A z \in S : z <= LargestOf(S)
    BY <1>1, LargestIs
<1> QED
    BY <1>1, <1>2 DEF LargestSplit

-----------------------------------------------------------------------------
(* One axis: the bounds of the parts are the neighbours in a row of edges. *)

LEMMA Division == ASSUME NEW a \in Nat, NEW b \in Nat \ {0}
                  PROVE  /\ a \div b \in Nat
                         /\ (a \div b) * b <= a
                         /\ a < (a \div b) * b + b
OBVIOUS

LEMMA DivisionAtLeast == ASSUME NEW a \in Nat, NEW b \in Nat \ {0}, NEW q \in Nat, q * b <= a
                         PROVE  q <= a \div b
OBVIOUS

LEMMA DivisionMonotone == ASSUME NEW a \in Nat, NEW c \in Nat, a <= c, NEW b \in Nat \ {0}
                          PROVE  a \div b <= c \div b
<1>1. a \div b \in Nat /\ (a \div b) * b <= a
    BY Division
<1>2. (a \div b) * b <= c
    <2> (a \div b) * b \in Int
        BY <1>1
    <2> QED
        BY <1>1
<1> QED
    BY <1>1, <1>2, DivisionAtLeast

LEMMA Evened == ASSUME NEW x \in Nat
                PROVE  EvenDown(x) \in Nat /\ EvenDown(x) <= x
BY DEF EvenDown

LEMMA EvenedMonotone == ASSUME NEW x \in Nat, NEW z \in Nat, x <= z
                        PROVE  EvenDown(x) <= EvenDown(z)
BY DEF EvenDown

Edge(i, n, d) == IF i = 0 THEN 0 ELSE IF i = n THEN d ELSE EvenDown((i * d) \div n)

SourceEdge(i, n, s, d) ==
    IF i = 0 THEN 0 ELSE IF i = n THEN s ELSE EvenDown((s * Edge(i, n, d)) \div d)

LEMMA Cancel == ASSUME NEW q \in Nat, NEW d \in Nat, NEW n \in Nat \ {0}, q * n <= d * n
                PROVE  q <= d
OBVIOUS

LEMMA Scaled == ASSUME NEW i \in Nat, NEW j \in Nat, NEW d \in Nat, i <= j
                PROVE  i * d \in Nat /\ j * d \in Nat /\ i * d <= j * d
OBVIOUS

LEMMA EdgesWithin == ASSUME NEW n \in Nat \ {0}, NEW d \in Nat, NEW i \in 0 .. n
                     PROVE  Edge(i, n, d) \in Nat /\ Edge(i, n, d) <= d
<1> DEFINE q == (i * d) \div n
<1>1. i * d \in Nat /\ n * d \in Nat /\ i * d <= n * d
    BY Scaled
<1>2. q \in Nat /\ q * n <= i * d
    BY <1>1, Division
<1>3. q * n <= d * n
    <2> HIDE DEF q
    <2>1. q * n \in Int /\ n * d = d * n
        BY <1>2
    <2> QED
        BY <1>1, <1>2, <2>1
<1>4. q <= d
    BY <1>2, <1>3, Cancel
<1>5. EvenDown(q) \in Nat /\ EvenDown(q) <= d
    <2> HIDE DEF q
    <2> QED
        BY <1>2, <1>4, Evened
<1> QED
    BY <1>5 DEF Edge

LEMMA EdgesMonotone == ASSUME NEW n \in Nat \ {0}, NEW d \in Nat, NEW i \in 0 .. n, NEW j \in 0 .. n, i <= j
                       PROVE  Edge(i, n, d) <= Edge(j, n, d)
<1>1. Edge(i, n, d) \in Nat /\ Edge(i, n, d) <= d /\ Edge(j, n, d) \in Nat
    BY EdgesWithin
<1>2. CASE i = 0 \/ j = n
    BY <1>1, <1>2 DEF Edge
<1>3. CASE i # 0 /\ j # n
    <2>1. i * d \in Nat /\ j * d \in Nat /\ i * d <= j * d
        BY Scaled
    <2>2. (i * d) \div n <= (j * d) \div n /\ (i * d) \div n \in Nat /\ (j * d) \div n \in Nat
        BY <2>1, DivisionMonotone, Division
    <2>3. EvenDown((i * d) \div n) <= EvenDown((j * d) \div n)
        BY <2>2, EvenedMonotone
    <2> QED
        BY <1>3, <2>3 DEF Edge
<1> QED
    BY <1>2, <1>3

LEMMA SourceEdgesWithin == ASSUME NEW n \in Nat \ {0}, NEW s \in Nat, NEW d \in Nat \ {0}, NEW i \in 0 .. n
                           PROVE  SourceEdge(i, n, s, d) \in Nat /\ SourceEdge(i, n, s, d) <= s
<1> DEFINE e == Edge(i, n, d)
           q == (s * e) \div d
<1>1. e \in Nat /\ e <= d
    BY EdgesWithin
<1> HIDE DEF e
<1>2. e * s \in Nat /\ d * s \in Nat /\ e * s <= d * s
    BY <1>1, Scaled
<1>3. s * e \in Nat /\ s * e <= s * d
    BY <1>1, <1>2
<1>4. q \in Nat /\ q * d <= s * e
    BY <1>3, Division
<1>5. q <= s
    <2> HIDE DEF q
    <2>1. q * d <= s * d
        <3>1. q * d \in Int /\ s * d \in Int
            BY <1>4
        <3> QED
            BY <1>3, <1>4, <3>1
    <2> QED
        BY <1>4, <2>1, Cancel
<1>6. EvenDown(q) \in Nat /\ EvenDown(q) <= s
    <2> HIDE DEF q
    <2> QED
        BY <1>4, <1>5, Evened
<1> QED
    BY <1>6 DEF SourceEdge, e

LEMMA SourceEdgesMonotone ==
    ASSUME NEW n \in Nat \ {0}, NEW s \in Nat, NEW d \in Nat \ {0}, NEW i \in 0 .. n, NEW j \in 0 .. n, i <= j
    PROVE  SourceEdge(i, n, s, d) <= SourceEdge(j, n, s, d)
<1> DEFINE e == Edge(i, n, d)
           f == Edge(j, n, d)
<1>1. e \in Nat /\ f \in Nat /\ e <= f
    BY EdgesWithin, EdgesMonotone
<1>2. SourceEdge(i, n, s, d) \in Nat /\ SourceEdge(i, n, s, d) <= s /\ SourceEdge(j, n, s, d) \in Nat
    BY SourceEdgesWithin
<1>3. CASE i = 0 \/ j = n
    BY <1>2, <1>3 DEF SourceEdge
<1>4. CASE i # 0 /\ j # n
    <2> HIDE DEF e, f
    <2>1. s * e \in Nat /\ s * f \in Nat /\ s * e <= s * f
        <3>1. e * s \in Nat /\ f * s \in Nat /\ e * s <= f * s
            BY <1>1, Scaled
        <3> QED
            BY <1>1, <3>1
    <2>2. (s * e) \div d <= (s * f) \div d /\ (s * e) \div d \in Nat /\ (s * f) \div d \in Nat
        BY <2>1, DivisionMonotone, Division
    <2>3. EvenDown((s * e) \div d) <= EvenDown((s * f) \div d)
        BY <2>2, EvenedMonotone
    <2> QED
        BY <1>4, <2>3 DEF SourceEdge, e, f
<1> QED
    BY <1>3, <1>4

LEMMA BoundsAreEdges ==
    ASSUME NEW n \in Nat \ {0}, NEW s, NEW d, NEW i \in 0 .. n - 1
    PROVE  /\ Bounds(i, n, s, d).dst = Edge(i, n, d) .. Edge(i + 1, n, d) - 1
           /\ Bounds(i, n, s, d).src = SourceEdge(i, n, s, d) .. SourceEdge(i + 1, n, s, d) - 1
<1> DEFINE from == IF i = 0 THEN 0 ELSE EvenDown((i * d) \div n)
           to   == IF i = n - 1 THEN d ELSE EvenDown(((i + 1) * d) \div n)
<1>1. i # n /\ i + 1 # 0 /\ (i = n - 1 <=> i + 1 = n)
    OBVIOUS
<1>2. from = Edge(i, n, d) /\ to = Edge(i + 1, n, d)
    BY <1>1 DEF Edge
<1> HIDE DEF from, to
<1>3. /\ Bounds(i, n, s, d).dst = from .. to - 1
      /\ Bounds(i, n, s, d).src = (IF i = 0 THEN 0 ELSE EvenDown((s * from) \div d))
                                   .. (IF i = n - 1 THEN s ELSE EvenDown((s * to) \div d)) - 1
    BY DEF Bounds, from, to
<1> QED
    BY <1>1, <1>2, <1>3 DEF SourceEdge

\* Edges that never go back cut the axis.
LEMMA EdgesCut ==
    ASSUME NEW n \in Nat \ {0}, NEW extent \in Nat, NEW e, NEW parts,
           \A i \in 0 .. n : e[i] \in Nat,
           e[0] = 0, e[n] = extent,
           \A i, j \in 0 .. n : i <= j => e[i] <= e[j],
           DOMAIN parts = 0 .. n - 1,
           \A i \in 0 .. n - 1 : parts[i] = e[i] .. e[i + 1] - 1
    PROVE  Cut(parts, extent)
<1>1. ASSUME NEW i \in 0 .. n - 1
      PROVE  parts[i] \subseteq 0 .. extent - 1
    <2>1. i \in 0 .. n /\ i + 1 \in 0 .. n /\ n \in 0 .. n /\ i + 1 <= n
        OBVIOUS
    <2>2. e[i] \in Nat /\ e[i + 1] \in Nat /\ e[i + 1] <= extent
        BY <2>1
    <2> QED
        BY <2>2
<1>2. ASSUME NEW z \in 0 .. extent - 1
      PROVE  \E i \in 0 .. n - 1 : z \in parts[i]
    <2> DEFINE S == {i \in 0 .. n : e[i] <= z}
    <2>1. 0 \in S /\ S \subseteq 0 .. n
        OBVIOUS
    <2>2. PICK i \in S : \A j \in S : j <= i
        BY <2>1, HasGreatest
    <2>3. i \in 0 .. n - 1
        BY <2>2
    <2>4. i + 1 \in 0 .. n /\ i + 1 \notin S
        BY <2>2, <2>3
    <2>5. e[i] <= z /\ z < e[i + 1] /\ e[i] \in Nat /\ e[i + 1] \in Nat
        BY <2>2, <2>4
    <2> QED
        BY <2>3, <2>5
<1>3. ASSUME NEW i \in 0 .. n - 1, NEW j \in 0 .. n - 1, i < j
      PROVE  parts[i] \cap parts[j] = {}
    <2>1. i + 1 \in 0 .. n /\ j \in 0 .. n /\ i + 1 <= j /\ i \in 0 .. n /\ j + 1 \in 0 .. n
        BY <1>3
    <2>2. e[i + 1] <= e[j] /\ e[i] \in Nat /\ e[i + 1] \in Nat /\ e[j] \in Nat /\ e[j + 1] \in Nat
        BY <2>1
    <2>3. parts[i] = e[i] .. e[i + 1] - 1 /\ parts[j] = e[j] .. e[j + 1] - 1
        OBVIOUS
    <2> QED
        BY <2>2, <2>3
<1>4. \A i, j \in 0 .. n - 1 : i # j => parts[i] \cap parts[j] = {}
    <2> SUFFICES ASSUME NEW i \in 0 .. n - 1, NEW j \in 0 .. n - 1, i # j
                 PROVE  parts[i] \cap parts[j] = {}
        OBVIOUS
    <2>1. i < j \/ j < i
        OBVIOUS
    <2> QED
        BY <1>3, <2>1
<1>5. UNION {parts[i] : i \in DOMAIN parts} = 0 .. extent - 1
    BY <1>1, <1>2
<1> QED
    BY <1>4, <1>5 DEF Cut

\* An axis of either kind is cut, whether or not a part is empty.
LEMMA AxisCut ==
    ASSUME NEW n \in Nat \ {0}, NEW s \in Nat \ {0}, NEW d \in Nat \ {0}
    PROVE  /\ Cut([i \in 0 .. n - 1 |-> Bounds(i, n, s, d).dst], d)
           /\ Cut([i \in 0 .. n - 1 |-> Bounds(i, n, s, d).src], s)
<1>1. Cut([i \in 0 .. n - 1 |-> Bounds(i, n, s, d).dst], d)
    <2> DEFINE e == [i \in 0 .. n |-> Edge(i, n, d)]
               parts == [i \in 0 .. n - 1 |-> Bounds(i, n, s, d).dst]
    <2>1. \A i \in 0 .. n : e[i] \in Nat
        BY EdgesWithin
    <2>2. e[0] = 0 /\ e[n] = d
        BY DEF Edge
    <2>3. \A i, j \in 0 .. n : i <= j => e[i] <= e[j]
        BY EdgesMonotone
    <2>4. DOMAIN parts = 0 .. n - 1 /\ \A i \in 0 .. n - 1 : parts[i] = e[i] .. e[i + 1] - 1
        BY BoundsAreEdges
    <2> HIDE DEF e, parts
    <2>5. Cut(parts, d)
        BY <2>1, <2>2, <2>3, <2>4, EdgesCut
    <2> QED
        BY <2>5 DEF parts
<1>2. Cut([i \in 0 .. n - 1 |-> Bounds(i, n, s, d).src], s)
    <2> DEFINE e == [i \in 0 .. n |-> SourceEdge(i, n, s, d)]
               parts == [i \in 0 .. n - 1 |-> Bounds(i, n, s, d).src]
    <2>1. \A i \in 0 .. n : e[i] \in Nat
        BY SourceEdgesWithin
    <2>2. e[0] = 0 /\ e[n] = s
        BY DEF SourceEdge
    <2>3. \A i, j \in 0 .. n : i <= j => e[i] <= e[j]
        BY SourceEdgesMonotone
    <2>4. DOMAIN parts = 0 .. n - 1 /\ \A i \in 0 .. n - 1 : parts[i] = e[i] .. e[i + 1] - 1
        BY BoundsAreEdges
    <2> HIDE DEF e, parts
    <2>5. Cut(parts, s)
        BY <2>1, <2>2, <2>3, <2>4, EdgesCut
    <2> QED
        BY <2>5 DEF parts
<1> QED
    BY <1>1, <1>2

LEMMA WholeAxis == ASSUME NEW s \in Nat \ {0}, NEW d \in Nat \ {0}, NEW minimum
                   PROVE  PartitionOk(1, s, d, minimum)
BY DEF PartitionOk, Bounds, Empty

LEMMA CountUpTo == ASSUME NEW k \in Nat
                   PROVE  Cardinality(0 .. k - 1) = k
<1> DEFINE b == k - 1
<1>1. b \in Int /\ 0 \in Int
    OBVIOUS
<1> HIDE DEF b
<1>2. Cardinality(0 .. b) = IF 0 > b THEN 0 ELSE b - 0 + 1
    BY <1>1, FS_Interval
<1> QED
    BY <1>2 DEF b

\* A valid partition has room for its minimum in every part.
LEMMA PartitionFits ==
    ASSUME NEW n \in Nat, n > 1, NEW s \in Nat \ {0}, NEW d \in Nat \ {0},
           NEW minimum \in Nat \ {0}, PartitionOk(n, s, d, minimum)
    PROVE  n <= d \div minimum
<1>1. Cardinality(Bounds(0, n, s, d).dst) >= minimum
    BY DEF PartitionOk
<1>2. Edge(0, n, d) = 0 /\ Edge(1, n, d) = EvenDown(d \div n)
    <2>1. 1 * d = d
        OBVIOUS
    <2> QED
        BY <2>1 DEF Edge
<1>3. Bounds(0, n, s, d).dst = 0 .. EvenDown(d \div n) - 1
    BY <1>2, BoundsAreEdges
<1>4. d \div n \in Nat /\ (d \div n) * n <= d
    BY Division
<1>5. EvenDown(d \div n) \in Nat /\ EvenDown(d \div n) <= d \div n
    BY <1>4, Evened
<1>6. Cardinality(0 .. EvenDown(d \div n) - 1) = EvenDown(d \div n)
    BY <1>5, CountUpTo
<1>7. minimum <= d \div n
    BY <1>1, <1>3, <1>4, <1>5, <1>6
<1>8. minimum * n <= (d \div n) * n
    BY <1>4, <1>7, Scaled
<1>9. n * minimum <= d
    <2>1. (d \div n) * n \in Int /\ minimum * n \in Int /\ n * minimum = minimum * n
        BY <1>4
    <2> QED
        BY <1>4, <1>8, <2>1
<1> QED
    BY <1>9, DivisionAtLeast

-----------------------------------------------------------------------------
(* The grid. *)

Request ==
    /\ budget \in Nat \ {0} /\ minRows \in Nat \ {0} /\ minCols \in Nat \ {0}
    /\ geom.srcW \in Nat \ {0} /\ geom.srcH \in Nat \ {0}
    /\ geom.dstW \in Nat \ {0} /\ geom.dstH \in Nat \ {0}
    /\ wantSrc \in BOOLEAN /\ wantDst \in BOOLEAN

\* The widest column split that r rows leave room for.
ColsFor(b, r, cmin) == LargestSplit(Within(1, b \div r, ColLimit(b, geom, cmin)), geom.srcW, geom.dstW, cmin)
Rows(b) == {k \in 1 .. RowLimit(b, geom, minRows) : PartitionOk(k, geom.srcH, geom.dstH, minRows)}

LEMMA CapBounds == ASSUME Request PROVE Capped(budget) \in 1 .. MaxCells /\ Capped(budget) <= budget
BY GridAssumption DEF Request, Capped, Within

LEMMA LimitWithin == ASSUME NEW extent \in Nat, NEW minimum \in Nat, NEW fallback \in Nat, NEW b \in Nat \ {0}
                     PROVE  AxisLimit(extent, minimum, fallback, b) \in 1 .. b
<1>1. minimum > 0 => extent \div minimum \in Nat
    BY Division
<1> QED
    BY <1>1 DEF AxisLimit, Within

LEMMA RowLimitIs == ASSUME Request, NEW b \in Nat \ {0}
                    PROVE  /\ RowLimit(b, geom, minRows) \in 1 .. b
                           /\ \A r \in 1 .. b : PartitionOk(r, geom.srcH, geom.dstH, minRows)
                                   => r <= RowLimit(b, geom, minRows)
<1> DEFINE start == AxisLimit(geom.dstH, minRows, b, b)
<1>1. start \in 1 .. b
    BY LimitWithin DEF Request
<1>2. ASSUME NEW r \in 2 .. b, PartitionOk(r, geom.srcH, geom.dstH, minRows)
      PROVE  r \in 2 .. start
    <2>1. r <= geom.dstH \div minRows
        BY <1>2, PartitionFits DEF Request
    <2>2. geom.dstH \div minRows \in Nat
        BY Division DEF Request
    <2> QED
        BY <2>1, <2>2 DEF AxisLimit, Within, Request
<1> HIDE DEF start
<1>3. /\ LargestSplit(start, geom.srcH, geom.dstH, minRows) \in 1 .. start
      /\ \A j \in 2 .. start : PartitionOk(j, geom.srcH, geom.dstH, minRows)
                => j <= LargestSplit(start, geom.srcH, geom.dstH, minRows)
    BY <1>1, SplitIs
<1>4. RowLimit(b, geom, minRows) = LargestSplit(start, geom.srcH, geom.dstH, minRows)
    BY DEF RowLimit, start
<1> QED
    BY <1>1, <1>2, <1>3, <1>4

LEMMA ColLimitIs == ASSUME Request, NEW b \in Nat \ {0}, NEW cmin \in {0, minCols}
                    PROVE  /\ ColLimit(b, geom, cmin) \in 1 .. b
                           /\ cmin = 0 => ColLimit(b, geom, cmin) = 1
                           /\ \A c \in 2 .. b : cmin > 0 /\ PartitionOk(c, geom.srcW, geom.dstW, cmin)
                                   => c <= ColLimit(b, geom, cmin)
<1> DEFINE start == AxisLimit(geom.dstW, cmin, 1, b)
<1>1. start \in 1 .. b /\ cmin \in Nat
    <2>1. cmin \in Nat /\ geom.dstW \in Nat
        BY DEF Request
    <2>2. start \in 1 .. b
        BY <2>1, LimitWithin
    <2> QED
        BY <2>1, <2>2
<1>2. cmin = 0 => start = 1
    BY DEF AxisLimit, Within
<1>3. ASSUME NEW c \in 2 .. b, cmin > 0, PartitionOk(c, geom.srcW, geom.dstW, cmin)
      PROVE  c \in 2 .. start
    <2>1. c <= geom.dstW \div cmin
        BY <1>1, <1>3, PartitionFits DEF Request
    <2>2. geom.dstW \div cmin \in Nat
        BY <1>1, <1>3, Division DEF Request
    <2> QED
        BY <1>3, <2>1, <2>2 DEF AxisLimit, Within, Request
<1> HIDE DEF start
<1>4. /\ LargestSplit(start, geom.srcW, geom.dstW, cmin) \in 1 .. start
      /\ \A j \in 2 .. start : PartitionOk(j, geom.srcW, geom.dstW, cmin)
                => j <= LargestSplit(start, geom.srcW, geom.dstW, cmin)
    BY <1>1, SplitIs
<1>5. ColLimit(b, geom, cmin) = LargestSplit(start, geom.srcW, geom.dstW, cmin)
    BY DEF ColLimit, start
<1> QED
    BY <1>1, <1>2, <1>3, <1>4, <1>5

LEMMA ColsForIs ==
    ASSUME Request, NEW b \in Nat \ {0}, NEW r \in 1 .. b, NEW cmin \in {0, minCols}
    PROVE  /\ ColsFor(b, r, cmin) \in 1 .. b /\ r * ColsFor(b, r, cmin) <= b
           /\ ColsFor(b, r, cmin) = 1 \/ PartitionOk(ColsFor(b, r, cmin), geom.srcW, geom.dstW, cmin)
           /\ cmin = 0 => ColsFor(b, r, cmin) = 1
           /\ \A k \in 1 .. b : r * k <= b /\ (k = 1 \/ (cmin > 0 /\ PartitionOk(k, geom.srcW, geom.dstW, cmin)))
                   => k <= ColsFor(b, r, cmin)
<1> DEFINE limit == ColLimit(b, geom, cmin)
           q == b \div r
           start == Within(1, q, limit)
           c == ColsFor(b, r, cmin)
<1>1. /\ limit \in 1 .. b /\ (cmin = 0 => limit = 1)
      /\ \A k \in 2 .. b : cmin > 0 /\ PartitionOk(k, geom.srcW, geom.dstW, cmin) => k <= limit
    BY ColLimitIs
<1>2. q \in Nat /\ q * r <= b /\ 1 <= q
    BY Division, DivisionAtLeast
<1>3. \A k \in Nat : r * k <= b => k <= q
    <2> SUFFICES ASSUME NEW k \in Nat, r * k <= b PROVE k <= q
        OBVIOUS
    <2>1. k * r <= b
        OBVIOUS
    <2> QED
        BY <2>1, DivisionAtLeast
<1> HIDE DEF limit, q
<1>4. start \in Nat \ {0} /\ start <= q /\ start <= limit /\ (start = q \/ start = limit)
    BY <1>1, <1>2 DEF Within
<1>5. c = LargestSplit(start, geom.srcW, geom.dstW, cmin)
    BY DEF ColsFor, limit, q
<1> HIDE DEF start, c
<1>6. /\ c \in 1 .. start
      /\ c = 1 \/ PartitionOk(c, geom.srcW, geom.dstW, cmin)
      /\ \A j \in 2 .. start : PartitionOk(j, geom.srcW, geom.dstW, cmin) => j <= c
    BY <1>4, <1>5, SplitIs
<1>7. c \in 1 .. b /\ c <= q /\ (cmin = 0 => c = 1)
    <2>1. c \in Nat \ {0} /\ c <= start
        BY <1>4, <1>6
    <2>2. limit \in Nat /\ limit <= b
        BY <1>1
    <2>3. c <= q /\ c <= limit
        BY <1>2, <1>4, <2>1, <2>2
    <2>4. cmin = 0 => c = 1
        BY <1>1, <2>1, <2>3
    <2> QED
        BY <2>1, <2>2, <2>3, <2>4
<1>8. r * c <= b
    <2>1. c * r <= q * r
        BY <1>2, <1>7, Scaled
    <2>2. c * r = r * c /\ c * r \in Int /\ q * r \in Int
        BY <1>2, <1>7
    <2> QED
        BY <1>2, <2>1, <2>2
<1>9. ASSUME NEW k \in 1 .. b, r * k <= b, k = 1 \/ (cmin > 0 /\ PartitionOk(k, geom.srcW, geom.dstW, cmin))
      PROVE  k <= c
    <2>1. CASE k = 1
        BY <1>7, <2>1
    <2>2. CASE k # 1
        <3>1. k \in 2 .. b /\ k <= q /\ k <= limit
            BY <1>1, <1>3, <1>9, <2>2
        <3>2. k \in 2 .. start
            BY <1>4, <3>1
        <3> QED
            BY <1>6, <1>9, <2>2, <3>2
    <2> QED
        BY <2>1, <2>2
<1>10. /\ c \in 1 .. b /\ r * c <= b
       /\ c = 1 \/ PartitionOk(c, geom.srcW, geom.dstW, cmin)
       /\ cmin = 0 => c = 1
       /\ \A k \in 1 .. b : r * k <= b /\ (k = 1 \/ (cmin > 0 /\ PartitionOk(k, geom.srcW, geom.dstW, cmin)))
               => k <= c
    BY <1>6, <1>7, <1>8, <1>9
<1> QED
    BY <1>10 DEF c

LEMMA RowsAre == ASSUME Request, NEW b \in Nat \ {0}
                 PROVE  /\ 1 \in Rows(b) /\ Rows(b) \subseteq 1 .. b
                        /\ \A r \in 1 .. b : PartitionOk(r, geom.srcH, geom.dstH, minRows) => r \in Rows(b)
<1>1. /\ RowLimit(b, geom, minRows) \in 1 .. b
      /\ \A r \in 1 .. b : PartitionOk(r, geom.srcH, geom.dstH, minRows) => r <= RowLimit(b, geom, minRows)
    BY RowLimitIs
<1>2. PartitionOk(1, geom.srcH, geom.dstH, minRows)
    BY WholeAxis DEF Request
<1> QED
    BY <1>1, <1>2 DEF Rows

\* The search finds a grid: no row count gives more cells, and of those that give
\* as many it is the largest.
LEMMA GridIs ==
    ASSUME Request, NEW b \in Nat \ {0}, NEW cmin \in {0, minCols}
    PROVE  /\ \E r \in Rows(b) : Grid(b, geom, minRows, cmin) = [rows |-> r, cols |-> ColsFor(b, r, cmin)]
           /\ \A r \in Rows(b) :
                 LET cells == r * ColsFor(b, r, cmin)
                 IN  \/ cells < Cells(Grid(b, geom, minRows, cmin))
                     \/ /\ cells = Cells(Grid(b, geom, minRows, cmin))
                        /\ r <= Grid(b, geom, minRows, cmin).rows
<1> DEFINE G(r) == [rows |-> r, cols |-> ColsFor(b, r, cmin)]
           all == Grids(b, geom, minRows, cmin)
           N(r) == r * ColsFor(b, r, cmin)
           S == {N(r) : r \in Rows(b)}
           Best(x) == \A z \in all : Cells(z) < Cells(x) \/ (Cells(z) = Cells(x) /\ z.rows <= x.rows)
<1>1. all = {G(r) : r \in Rows(b)}
    BY DEF Grids, Rows, ColsFor
<1>2. Rows(b) \subseteq 1 .. b /\ 1 \in Rows(b)
    BY RowsAre
<1>3. ASSUME NEW r \in Rows(b)
      PROVE  N(r) \in Nat /\ N(r) <= b /\ Cells(G(r)) = N(r) /\ G(r).rows = r
    <2>1. r \in 1 .. b /\ ColsFor(b, r, cmin) \in 1 .. b /\ N(r) <= b
        BY <1>2, ColsForIs
    <2>2. Cells(G(r)) = N(r) /\ G(r).rows = r
        BY DEF Cells
    <2> QED
        BY <2>1, <2>2
<1> HIDE DEF N, G
<1>4. PICK m \in S : \A z \in S : z <= m
    <2>1. S \subseteq 0 .. b /\ S # {}
        BY <1>2, <1>3
    <2> QED
        BY <2>1, HasGreatest
<1>5. PICK t \in Rows(b) : N(t) = m /\ \A z \in Rows(b) : N(z) = m => z <= t
    <2> DEFINE T == {r \in Rows(b) : N(r) = m}
    <2>1. T \subseteq 0 .. b /\ T # {}
        BY <1>2, <1>4
    <2>2. PICK t \in T : \A z \in T : z <= t
        BY <2>1, HasGreatest
    <2> QED
        BY <2>2
<1>6. \A r \in Rows(b) : N(r) < N(t) \/ (N(r) = N(t) /\ r <= t)
    <2> SUFFICES ASSUME NEW r \in Rows(b) PROVE N(r) < N(t) \/ (N(r) = N(t) /\ r <= t)
        OBVIOUS
    <2>1. N(r) \in Nat /\ N(t) \in Nat /\ N(r) <= N(t)
        BY <1>3, <1>4, <1>5
    <2> QED
        BY <1>5, <2>1
<1>7. G(t) \in all /\ Best(G(t))
    BY <1>1, <1>3, <1>6
<1>8. Grid(b, geom, minRows, cmin) = CHOOSE x \in all : Best(x)
    BY DEF Grid
<1>9. Grid(b, geom, minRows, cmin) \in all /\ Best(Grid(b, geom, minRows, cmin))
    <2> HIDE DEF all, Best
    <2> QED
        BY <1>7, <1>8
<1>10. \E r \in Rows(b) : Grid(b, geom, minRows, cmin) = G(r)
    BY <1>1, <1>9
<1>11. ASSUME NEW r \in Rows(b)
       PROVE  \/ N(r) < Cells(Grid(b, geom, minRows, cmin))
              \/ N(r) = Cells(Grid(b, geom, minRows, cmin)) /\ r <= Grid(b, geom, minRows, cmin).rows
    <2>1. G(r) \in all
        BY <1>1
    <2>2. Cells(G(r)) = N(r) /\ G(r).rows = r
        BY <1>3
    <2> QED
        BY <1>9, <2>1, <2>2
<1> QED
    BY <1>10, <1>11 DEF N, G

-----------------------------------------------------------------------------
(* The plan. *)

ColMin == IF plan.src THEN minCols ELSE 0

\* What Resolve answers, as far as the plan depends on it.
Resolved ==
    /\ [rows |-> plan.rows, cols |-> plan.cols] = Grid(Capped(budget), geom, minRows, ColMin)
    /\ plan = [rows |-> plan.rows, cols |-> plan.cols, src |-> plan.src, dst |-> plan.dst]
    /\ plan.src \in BOOLEAN /\ plan.dst \in BOOLEAN
    /\ plan.dst => plan.cols = 1

GridInv ==
    /\ Request
    /\ IF stage = "new" THEN plan = NoPlan ELSE Resolved

LEMMA ResolveResolves ==
    ASSUME Request, NEW direct \in BOOLEAN, NEW directOut \in BOOLEAN
    PROVE  LET p == Resolve(direct, directOut)
               g == Grid(Capped(budget), geom, minRows, IF direct THEN minCols ELSE 0)
           IN  /\ g = [rows |-> p.rows, cols |-> p.cols]
               /\ p = [rows |-> p.rows, cols |-> p.cols, src |-> p.src, dst |-> p.dst]
               /\ p.src = direct /\ p.dst = (directOut /\ p.cols = 1)
<1> DEFINE cmin == IF direct THEN minCols ELSE 0
           g == Grid(Capped(budget), geom, minRows, cmin)
<1>1. Capped(budget) \in Nat \ {0} /\ cmin \in {0, minCols}
    BY CapBounds DEF Request
<1>2. PICK r \in Rows(Capped(budget)) : g = [rows |-> r, cols |-> ColsFor(Capped(budget), r, cmin)]
    BY <1>1, GridIs
<1>3. Resolve(direct, directOut)
        = [rows |-> g.rows, cols |-> g.cols, src |-> direct, dst |-> directOut /\ g.cols = 1]
    BY DEF Resolve
<1> HIDE DEF g
<1>4. g = [rows |-> g.rows, cols |-> g.cols]
    BY <1>2
<1> QED
    BY <1>3, <1>4 DEF g

LEMMA GridInit == Init => GridInv
BY GridAssumption DEF Init, GridInv, Request

LEMMA ResolvedNext ==
    ASSUME Request, UNCHANGED <<budget, geom, minRows, minCols, wantSrc, wantDst>>,
           NEW direct \in BOOLEAN, NEW directOut \in BOOLEAN, plan' = Resolve(direct, directOut)
    PROVE  Request' /\ Resolved'
<1> DEFINE p == Resolve(direct, directOut)
           g == Grid(Capped(budget), geom, minRows, IF direct THEN minCols ELSE 0)
<1>1. /\ g = [rows |-> p.rows, cols |-> p.cols]
      /\ p = [rows |-> p.rows, cols |-> p.cols, src |-> p.src, dst |-> p.dst]
      /\ p.src = direct /\ p.dst = (directOut /\ p.cols = 1)
    BY ResolveResolves
<1>2. plan' = p
    OBVIOUS
<1> HIDE DEF p
<1>3. g = Grid(Capped(budget), geom, minRows, ColMin)'
    BY <1>1, <1>2 DEF ColMin, Capped
<1> HIDE DEF g
<1>4. p.src \in BOOLEAN /\ p.dst \in BOOLEAN /\ (p.dst => p.cols = 1)
    BY <1>1
<1>5. Request'
    BY DEF Request
<1> QED
    BY <1>1, <1>2, <1>3, <1>4, <1>5 DEF Resolved

LEMMA GridInductive == GridInv /\ [Next]_vars => GridInv'
<1> SUFFICES ASSUME GridInv, [Next]_vars PROVE GridInv'
    OBVIOUS
<1>1. Request
    BY DEF GridInv
<1>2. CASE Open
    <2>1. wantSrc \in BOOLEAN /\ wantDst \in BOOLEAN
        BY <1>1 DEF Request
    <2>2. Request' /\ Resolved'
        BY <1>1, <1>2, <2>1, ResolvedNext DEF Open
    <2> QED
        BY <1>2, <2>2 DEF Open, GridInv
<1>3. ASSUME NEW a \in BOOLEAN, NEW c \in BOOLEAN, FirstFrame(a, c)
      PROVE  GridInv'
    <2>1. (wantSrc /\ a) \in BOOLEAN /\ (wantDst /\ c) \in BOOLEAN
        OBVIOUS
    <2>2. Request' /\ Resolved'
        BY <1>1, <1>3, <2>1, ResolvedNext DEF FirstFrame
    <2> QED
        BY <1>3, <2>2 DEF FirstFrame, GridInv
<1>4. CASE Running \/ UNCHANGED vars
    <2>1. UNCHANGED <<budget, geom, minRows, minCols, wantSrc, wantDst, stage, plan>>
        BY <1>4 DEF Running, vars
    <2> QED
        BY <2>1 DEF GridInv, Request, Resolved, ColMin
<1> QED
    BY <1>2, <1>3, <1>4 DEF Next

\* The invariant holds in every reachable state.
THEOREM GridInvariance == Spec => []GridInv
BY GridInit, GridInductive, PTL DEF Spec

\* A resolved plan is the grid of its own flags.
LEMMA PlanIsGrid ==
    ASSUME Request, Resolved
    PROVE  /\ Capped(budget) \in Nat \ {0} /\ Capped(budget) <= MaxCells /\ Capped(budget) <= budget
           /\ ColMin \in {0, minCols} /\ (ColMin > 0 <=> plan.src)
           /\ plan.rows \in Rows(Capped(budget))
           /\ plan.cols = ColsFor(Capped(budget), plan.rows, ColMin)
<1>1. Capped(budget) \in Nat \ {0} /\ Capped(budget) <= MaxCells /\ Capped(budget) <= budget
    BY CapBounds, GridAssumption DEF Request
<1>2. ColMin \in {0, minCols} /\ (ColMin > 0 <=> plan.src)
    BY DEF ColMin, Request, Resolved
<1>3. PICK r \in Rows(Capped(budget)) :
        Grid(Capped(budget), geom, minRows, ColMin) = [rows |-> r, cols |-> ColsFor(Capped(budget), r, ColMin)]
    BY <1>1, <1>2, GridIs
<1>4. [rows |-> plan.rows, cols |-> plan.cols] = [rows |-> r, cols |-> ColsFor(Capped(budget), r, ColMin)]
    BY <1>3 DEF Resolved
<1>5. plan.rows = r /\ plan.cols = ColsFor(Capped(budget), r, ColMin)
    BY <1>4
<1> QED
    BY <1>1, <1>2, <1>5

LEMMA TiledBy ==
    ASSUME Request, NEW m1, NEW m2,
           plan.rows \in Nat \ {0}, plan.cols \in Nat \ {0},
           PartitionOk(plan.rows, geom.srcH, geom.dstH, m1),
           PartitionOk(plan.cols, geom.srcW, geom.dstW, m2)
    PROVE  CellsTile
<1>1. /\ \A i \in 0 .. plan.rows - 1 : ~Empty(RowsOf(i))
      /\ \A j \in 0 .. plan.cols - 1 : ~Empty(ColsOf(j))
    BY DEF PartitionOk, RowsOf, ColsOf
<1>2. /\ Cut([i \in 0 .. plan.rows - 1 |-> RowsOf(i).dst], geom.dstH)
      /\ Cut([i \in 0 .. plan.rows - 1 |-> RowsOf(i).src], geom.srcH)
    BY AxisCut DEF RowsOf, Request
<1>3. /\ Cut([j \in 0 .. plan.cols - 1 |-> ColsOf(j).dst], geom.dstW)
      /\ Cut([j \in 0 .. plan.cols - 1 |-> ColsOf(j).src], geom.srcW)
    BY AxisCut DEF ColsOf, Request
<1> QED
    BY <1>1, <1>2, <1>3 DEF CellsTile

LEMMA PlanTiles == ASSUME GridInv
                   PROVE  CellsTile /\ plan.rows \in Nat \ {0} /\ plan.cols \in Nat \ {0}
<1>1. Request
    BY DEF GridInv
<1>2. CASE stage = "new"
    <2>1. plan.rows = 1 /\ plan.cols = 1
        BY <1>2 DEF GridInv, NoPlan
    <2>2. /\ PartitionOk(1, geom.srcH, geom.dstH, minRows)
          /\ PartitionOk(1, geom.srcW, geom.dstW, minCols)
        BY <1>1, WholeAxis DEF Request
    <2> QED
        BY <1>1, <2>1, <2>2, TiledBy
<1>3. CASE stage # "new"
    <2> DEFINE b == Capped(budget)
    <2>1. Resolved
        BY <1>3 DEF GridInv
    <2>2. /\ b \in Nat \ {0} /\ ColMin \in {0, minCols}
          /\ plan.rows \in Rows(b) /\ plan.cols = ColsFor(b, plan.rows, ColMin)
        BY <1>1, <2>1, PlanIsGrid
    <2> HIDE DEF b
    <2>3. plan.rows \in 1 .. b /\ PartitionOk(plan.rows, geom.srcH, geom.dstH, minRows)
        BY <1>1, <2>2, RowsAre DEF Rows
    <2>4. /\ plan.cols \in 1 .. b
          /\ plan.cols = 1 \/ PartitionOk(plan.cols, geom.srcW, geom.dstW, ColMin)
        <3> DEFINE c == ColsFor(b, plan.rows, ColMin)
        <3>1. c \in 1 .. b /\ (c = 1 \/ PartitionOk(c, geom.srcW, geom.dstW, ColMin))
            BY <1>1, <2>2, <2>3, ColsForIs
        <3>2. plan.cols = c
            BY <2>2
        <3> HIDE DEF c
        <3> QED
            BY <3>1, <3>2
    <2>5. PartitionOk(1, geom.srcW, geom.dstW, ColMin)
        BY <1>1, WholeAxis DEF Request
    <2>6. PartitionOk(plan.cols, geom.srcW, geom.dstW, ColMin)
        BY <2>4, <2>5
    <2>7. plan.rows \in Nat \ {0} /\ plan.cols \in Nat \ {0}
        BY <2>2, <2>3, <2>4
    <2> QED
        BY <1>1, <2>3, <2>6, <2>7, TiledBy
<1> QED
    BY <1>2, <1>3

\* CellsTile for every budget, geometry and option.
THEOREM CellsAlwaysTile == Spec => []CellsTile
<1>1. GridInv => CellsTile
    BY PlanTiles
<1> QED
    BY <1>1, GridInvariance, PTL

LEMMA PlanSettles == ASSUME GridInv PROVE PlanSettled
<1> SUFFICES ASSUME GridInv, stage # "new"
             PROVE  Resolve(plan.src, plan.dst) = plan /\ (plan.cols > 1 => plan.src /\ ~plan.dst)
    BY DEF PlanSettled
<1> DEFINE p == Resolve(plan.src, plan.dst)
           g == Grid(Capped(budget), geom, minRows, ColMin)
<1>1. Request /\ Resolved
    BY DEF GridInv
<1>2. plan.src \in BOOLEAN /\ plan.dst \in BOOLEAN /\ (plan.dst => plan.cols = 1)
    BY <1>1 DEF Resolved
<1>3. /\ g = [rows |-> p.rows, cols |-> p.cols]
      /\ p = [rows |-> p.rows, cols |-> p.cols, src |-> p.src, dst |-> p.dst]
      /\ p.src = plan.src /\ p.dst = (plan.dst /\ p.cols = 1)
    BY <1>1, <1>2, ResolveResolves DEF ColMin
<1>4. /\ g = [rows |-> plan.rows, cols |-> plan.cols]
      /\ plan = [rows |-> plan.rows, cols |-> plan.cols, src |-> plan.src, dst |-> plan.dst]
    BY <1>1 DEF Resolved
<1> HIDE DEF p, g
<1>5. p.rows = plan.rows /\ p.cols = plan.cols
    BY <1>3, <1>4
<1>6. p.dst = plan.dst
    BY <1>2, <1>3, <1>5
<1>7. p = plan
    BY <1>3, <1>4, <1>5, <1>6
<1>8. plan.cols > 1 => plan.src
    <2> DEFINE b == Capped(budget)
    <2>1. /\ b \in Nat \ {0} /\ ColMin \in {0, minCols}
          /\ plan.rows \in Rows(b) /\ plan.cols = ColsFor(b, plan.rows, ColMin)
        BY <1>1, PlanIsGrid
    <2> HIDE DEF b
    <2>2. plan.rows \in 1 .. b
        BY <1>1, <2>1, RowsAre
    <2>3. ColMin = 0 => plan.cols = 1
        BY <1>1, <2>1, <2>2, ColsForIs
    <2> QED
        BY <2>3 DEF ColMin
<1> QED
    BY <1>2, <1>7, <1>8 DEF p

\* PlanSettled for every budget, geometry and option.
THEOREM PlansSettle == Spec => []PlanSettled
<1>1. GridInv => PlanSettled
    BY PlanSettles
<1> QED
    BY <1>1, GridInvariance, PTL

\* GridBest for every budget and geometry: the search, which skips most grids,
\* misses none that would be better.
THEOREM GridsAreBest == Spec => []GridBest
<1>1. GridInv => GridBest
    <2> SUFFICES ASSUME GridInv, stage # "new" PROVE GridBest
        BY DEF GridBest
    <2> DEFINE b == Capped(budget)
               g == Grid(b, geom, minRows, ColMin)
    <2>1. Request /\ Resolved
        BY DEF GridInv
    <2>2. /\ b \in Nat \ {0} /\ b <= MaxCells /\ b <= budget
          /\ ColMin \in {0, minCols} /\ (ColMin > 0 <=> plan.src)
          /\ plan.rows \in Rows(b) /\ plan.cols = ColsFor(b, plan.rows, ColMin)
        BY <2>1, PlanIsGrid
    <2>3. g = [rows |-> plan.rows, cols |-> plan.cols]
        BY <2>1 DEF Resolved
    <2>4. Cells(g) = Cells(plan) /\ g.rows = plan.rows
        BY <2>3 DEF Cells
    <2>5. \A r \in Rows(b) : \/ r * ColsFor(b, r, ColMin) < Cells(plan)
                             \/ r * ColsFor(b, r, ColMin) = Cells(plan) /\ r <= plan.rows
        <3> HIDE DEF b
        <3>1. \A r \in Rows(b) : \/ r * ColsFor(b, r, ColMin) < Cells(g)
                                 \/ r * ColsFor(b, r, ColMin) = Cells(g) /\ r <= g.rows
            BY <2>1, <2>2, GridIs
        <3> QED
            BY <2>4, <3>1
    <2>6. /\ Rows(b) \subseteq 1 .. b
          /\ \A r \in 1 .. b : PartitionOk(r, geom.srcH, geom.dstH, minRows) => r \in Rows(b)
        BY <2>1, <2>2, RowsAre
    <2> HIDE DEF b, g
    <2>7. plan.rows \in 1 .. b /\ plan.cols \in 1 .. b /\ Cells(plan) \in Nat /\ Cells(plan) <= b
        <3>1. plan.rows \in 1 .. b
            BY <2>2, <2>6
        <3>2. plan.cols \in 1 .. b /\ plan.rows * plan.cols <= b
            <4> DEFINE c == ColsFor(b, plan.rows, ColMin)
            <4>1. c \in 1 .. b /\ plan.rows * c <= b
                BY <2>1, <2>2, <3>1, ColsForIs
            <4>2. plan.cols = c
                BY <2>2
            <4> HIDE DEF c
            <4> QED
                BY <4>1, <4>2
        <3>3. plan.rows * plan.cols \in Nat
            BY <3>1, <3>2
        <3> QED
            BY <3>1, <3>2, <3>3 DEF Cells
    <2>8. ASSUME NEW r \in 1 .. b, NEW c \in 1 .. b, r * c <= b,
                 PartitionOk(r, geom.srcH, geom.dstH, minRows),
                 c = 1 \/ (plan.src /\ PartitionOk(c, geom.srcW, geom.dstW, minCols))
          PROVE  r * c <= Cells(plan) /\ (c < plan.cols => r * c < Cells(plan))
        <3> DEFINE k == ColsFor(b, r, ColMin)
        <3>1. r \in Rows(b)
            BY <2>6, <2>8
        <3>2. c = 1 \/ (ColMin > 0 /\ PartitionOk(c, geom.srcW, geom.dstW, ColMin))
            BY <2>2, <2>8 DEF ColMin
        <3>3. k \in 1 .. b /\ c <= k
            <4>1. ColMin \in {0, minCols}
                BY <2>2
            <4>2. k \in 1 .. b
                BY <2>1, <2>2, <4>1, ColsForIs
            <4>3. \A x \in 1 .. b :
                    r * x <= b /\ (x = 1 \/ (ColMin > 0 /\ PartitionOk(x, geom.srcW, geom.dstW, ColMin))) => x <= k
                BY <2>1, <2>2, <4>1, ColsForIs
            <4> HIDE DEF k
            <4> QED
                BY <2>8, <3>2, <4>2, <4>3
        <3>4. r * k < Cells(plan) \/ (r * k = Cells(plan) /\ r <= plan.rows)
            BY <2>5, <3>1
        <3> HIDE DEF k
        <3>5. r * c \in Nat /\ r * k \in Nat /\ r * c <= r * k
            <4>1. c * r \in Nat /\ k * r \in Nat /\ c * r <= k * r
                BY <2>2, <3>3, Scaled
            <4>2. c * r = r * c /\ k * r = r * k
                BY <2>2, <3>3
            <4> QED
                BY <4>1, <4>2
        <3>6. r * c <= Cells(plan)
            BY <2>7, <3>4, <3>5
        <3>7. ASSUME c < plan.cols, r <= plan.rows PROVE r * c < plan.rows * plan.cols
            <4>1. r \in Nat \ {0} /\ c \in Nat \ {0} /\ plan.cols \in Nat /\ plan.rows \in Nat
                BY <2>2, <2>7
            <4>2. r * plan.cols <= plan.rows * plan.cols
                BY <3>7, <4>1, Scaled
            <4>3. (c + 1) * r <= plan.cols * r
                BY <3>7, <4>1, Scaled
            <4>4. (c + 1) * r = r * c + r /\ plan.cols * r = r * plan.cols
                BY <4>1
            <4>5. r * c \in Nat /\ r * plan.cols \in Nat /\ plan.rows * plan.cols \in Nat
                BY <4>1
            <4> QED
                BY <4>1, <4>2, <4>3, <4>4, <4>5
        <3>8. c < plan.cols => r * c < Cells(plan)
            BY <2>7, <3>4, <3>5, <3>7 DEF Cells
        <3> QED
            BY <3>6, <3>8
    <2>9. Cells(plan) <= MaxCells /\ Cells(plan) <= budget
        BY <2>1, <2>2, <2>7, GridAssumption DEF Request
    <2> QED
        BY <2>8, <2>9 DEF GridBest, b
<1> QED
    BY <1>1, GridInvariance, PTL

-----------------------------------------------------------------------------
(* The geometry of a cell.  Chroma lines are luma lines shifted: because the *)
(* edges are even, the shifted edges cut the chroma plane as the luma edges  *)
(* cut the luma plane.                                                       *)

LEMMA EdgesEven == ASSUME NEW n \in Nat \ {0}, NEW d \in Nat, d % 2 = 0, NEW i \in 0 .. n
                   PROVE  Edge(i, n, d) % 2 = 0
<1> DEFINE q == (i * d) \div n
<1>1. q \in Nat
    <2>1. i * d \in Nat
        BY Scaled
    <2> QED
        BY <2>1, Division
<1> HIDE DEF q
<1>2. EvenDown(q) % 2 = 0
    BY <1>1 DEF EvenDown
<1> QED
    BY <1>2 DEF Edge, q

LEMMA SourceEdgesDivide ==
    ASSUME NEW n \in Nat \ {0}, NEW s \in Nat, NEW d \in Nat \ {0}, NEW i \in 0 .. n,
           NEW k \in {0, 1}, s % (k + 1) = 0
    PROVE  SourceEdge(i, n, s, d) % (k + 1) = 0
<1> DEFINE q == (s * Edge(i, n, d)) \div d
<1>1. q \in Nat
    <2>1. Edge(i, n, d) \in Nat
        BY EdgesWithin
    <2>2. s * Edge(i, n, d) \in Nat
        <3> DEFINE e == Edge(i, n, d)
        <3> HIDE DEF e
        <3>1. e \in Nat => s * e \in Nat
            BY Scaled
        <3> QED
            BY <2>1, <3>1 DEF e
    <2> QED
        BY <2>2, Division
<1> HIDE DEF q
<1>2. EvenDown(q) % (k + 1) = 0
    BY <1>1 DEF EvenDown
<1>3. 0 % (k + 1) = 0
    OBVIOUS
<1> QED
    BY <1>2, <1>3 DEF SourceEdge, q

LEMMA Shifted ==
    ASSUME NEW p \in Planes, NEW k \in {0, 1}, NEW x \in Nat, x % (k + 1) = 0
    PROVE  Shift(p, x, k) \in Nat /\ Dim(p, x, k) = Shift(p, x, k)
BY DEF Planes, Shift, Dim

LEMMA ShiftedApart ==
    ASSUME NEW p \in Planes, NEW k \in {0, 1}, NEW x \in Nat, NEW z \in Nat,
           x % (k + 1) = 0, z % (k + 1) = 0
    PROVE  /\ x <= z => Shift(p, x, k) <= Shift(p, z, k)
           /\ x < z => Shift(p, x, k) < Shift(p, z, k)
           /\ x <= z => (z - x) % (k + 1) = 0
           /\ x <= z => Shift(p, z - x, k) = Shift(p, z, k) - Shift(p, x, k)
BY DEF Planes, Shift

LEMMA IntervalEnds == ASSUME NEW a \in Int, NEW b \in Int, a < b
                      PROVE  Min(a .. b - 1) = a /\ Max(a .. b - 1) = b - 1
<1>1. a \in a .. b - 1 /\ b - 1 \in a .. b - 1
    OBVIOUS
<1>2. \A x \in a .. b - 1 : a <= x /\ x <= b - 1 /\ x \in Int
    OBVIOUS
<1>3. Min(a .. b - 1) \in a .. b - 1 /\ \A x \in a .. b - 1 : Min(a .. b - 1) <= x
    BY <1>1, <1>2 DEF Min
<1>4. Max(a .. b - 1) \in a .. b - 1 /\ \A x \in a .. b - 1 : x <= Max(a .. b - 1)
    BY <1>1, <1>2 DEF Max
<1>5. Min(a .. b - 1) = a
    BY <1>1, <1>2, <1>3
<1>6. Max(a .. b - 1) = b - 1
    BY <1>1, <1>2, <1>4
<1> QED
    BY <1>5, <1>6

LEMMA IntervalSize == ASSUME NEW a \in Int, NEW b \in Int, a <= b
                      PROVE  Cardinality(a .. b - 1) = b - a
<1> DEFINE c == b - 1
<1>1. c \in Int
    OBVIOUS
<1> HIDE DEF c
<1>2. Cardinality(a .. c) = IF a > c THEN 0 ELSE c - a + 1
    BY <1>1, FS_Interval
<1> QED
    BY <1>2 DEF c

\* A line of a plane is in the shifted lines of a part of the axis.
LEMMA ShiftedPart ==
    ASSUME NEW p \in Planes, NEW k \in {0, 1}, NEW x \in Nat, NEW z \in Nat, x < z,
           x % (k + 1) = 0, z % (k + 1) = 0
    PROVE  /\ Shift(p, Min(x .. z - 1), k) = Shift(p, x, k)
           /\ Shift(p, Max(x .. z - 1) + 1, k) = Shift(p, z, k)
           /\ Dim(p, Cardinality(x .. z - 1), k) = Shift(p, z, k) - Shift(p, x, k)
<1>1. Min(x .. z - 1) = x /\ Max(x .. z - 1) + 1 = z
    <2>1. Min(x .. z - 1) = x /\ Max(x .. z - 1) = z - 1
        BY IntervalEnds
    <2> QED
        BY <2>1
<1>2. Cardinality(x .. z - 1) = z - x
    <2>1. x \in Int /\ z \in Int /\ x <= z
        OBVIOUS
    <2> QED
        BY <2>1, IntervalSize
<1>3. z - x \in Nat /\ (z - x) % (k + 1) = 0 /\ Shift(p, z - x, k) = Shift(p, z, k) - Shift(p, x, k)
    <2>1. x <= z /\ z - x \in Nat
        OBVIOUS
    <2> QED
        BY <2>1, ShiftedApart
<1>4. Dim(p, z - x, k) = Shift(p, z - x, k)
    BY <1>3, Shifted
<1> QED
    BY <1>1, <1>2, <1>3, <1>4

-----------------------------------------------------------------------------
(* Where the cells lie in the planes. *)

\* The subsampling divides the source, and the decision made the target even.
Sampling ==
    /\ format \in [w : {0, 1}, h : {0, 1}]
    /\ geom.srcH % (format.h + 1) = 0
    /\ geom.dstH % 2 = 0 /\ geom.dstW % 2 = 0

RowEdge(p, r) == Shift(p, Edge(r, plan.rows, geom.dstH), format.h)
ColEdge(p, c) == Shift(p, Edge(c, plan.cols, geom.dstW), format.w)
InEdge(p, r) == Shift(p, SourceEdge(r, plan.rows, geom.srcH, geom.dstH), format.h)

\* The shifted edges of an axis, of the output and of the source.
LEMMA ShiftedEdges ==
    ASSUME NEW n \in Nat \ {0}, NEW d \in Nat \ {0}, NEW k \in {0, 1},
           NEW p \in Planes, d % 2 = 0, NEW i \in 0 .. n
    PROVE  /\ Edge(i, n, d) \in Nat /\ Edge(i, n, d) % (k + 1) = 0
           /\ Shift(p, Edge(i, n, d), k) \in Nat
           /\ \A j \in 0 .. n : i <= j => Shift(p, Edge(i, n, d), k) <= Shift(p, Edge(j, n, d), k)
           /\ Shift(p, Edge(0, n, d), k) = 0
           /\ Shift(p, Edge(n, n, d), k) = Dim(p, d, k)
<1>1. \A j \in 0 .. n : Edge(j, n, d) \in Nat /\ Edge(j, n, d) % (k + 1) = 0
    <2> SUFFICES ASSUME NEW j \in 0 .. n PROVE Edge(j, n, d) \in Nat /\ Edge(j, n, d) % (k + 1) = 0
        OBVIOUS
    <2>1. Edge(j, n, d) \in Nat /\ Edge(j, n, d) % 2 = 0
        BY EdgesWithin, EdgesEven
    <2> QED
        BY <2>1
<1>2. Shift(p, Edge(i, n, d), k) \in Nat
    BY <1>1, Shifted
<1>3. ASSUME NEW j \in 0 .. n, i <= j PROVE Shift(p, Edge(i, n, d), k) <= Shift(p, Edge(j, n, d), k)
    <2>1. Edge(i, n, d) <= Edge(j, n, d)
        BY <1>3, EdgesMonotone
    <2> QED
        BY <1>1, <2>1, ShiftedApart
<1>4. Edge(0, n, d) = 0 /\ Edge(n, n, d) = d
    BY DEF Edge
<1>5. Shift(p, 0, k) = 0
    BY DEF Shift
<1>6. Dim(p, d, k) = Shift(p, d, k)
    <2>1. d % (k + 1) = 0
        OBVIOUS
    <2> QED
        BY <2>1, Shifted
<1> QED
    BY <1>1, <1>2, <1>3, <1>4, <1>5, <1>6

LEMMA ShiftedSourceEdges ==
    ASSUME NEW n \in Nat \ {0}, NEW s \in Nat \ {0}, NEW d \in Nat \ {0}, NEW k \in {0, 1},
           NEW p \in Planes, s % (k + 1) = 0, NEW i \in 0 .. n
    PROVE  /\ SourceEdge(i, n, s, d) \in Nat /\ SourceEdge(i, n, s, d) % (k + 1) = 0
           /\ Shift(p, SourceEdge(i, n, s, d), k) \in Nat
           /\ \A j \in 0 .. n : i <= j =>
                 Shift(p, SourceEdge(i, n, s, d), k) <= Shift(p, SourceEdge(j, n, s, d), k)
           /\ Shift(p, SourceEdge(0, n, s, d), k) = 0
           /\ Shift(p, SourceEdge(n, n, s, d), k) = Dim(p, s, k)
<1>1. \A j \in 0 .. n : SourceEdge(j, n, s, d) \in Nat /\ SourceEdge(j, n, s, d) % (k + 1) = 0
    BY SourceEdgesWithin, SourceEdgesDivide
<1>2. Shift(p, SourceEdge(i, n, s, d), k) \in Nat
    BY <1>1, Shifted
<1>3. ASSUME NEW j \in 0 .. n, i <= j
      PROVE  Shift(p, SourceEdge(i, n, s, d), k) <= Shift(p, SourceEdge(j, n, s, d), k)
    <2>1. SourceEdge(i, n, s, d) <= SourceEdge(j, n, s, d)
        BY <1>3, SourceEdgesMonotone
    <2> QED
        BY <1>1, <2>1, ShiftedApart
<1>4. SourceEdge(0, n, s, d) = 0 /\ SourceEdge(n, n, s, d) = s
    BY DEF SourceEdge
<1>5. Shift(p, 0, k) = 0
    BY DEF Shift
<1>6. Dim(p, s, k) = Shift(p, s, k)
    BY Shifted
<1> QED
    BY <1>1, <1>2, <1>3, <1>4, <1>5, <1>6

LEMMA CellsAre == ASSUME GridInv
                  PROVE  Cells(plan) \in Nat \ {0} /\ Cells(plan) = plan.rows * plan.cols
<1>1. plan.rows \in Nat \ {0} /\ plan.cols \in Nat \ {0}
    BY PlanTiles
<1> QED
    BY <1>1 DEF Cells

\* Cell i is in row i / n_cols and column i % n_cols, and no other is.
LEMMA CellPlace ==
    ASSUME NEW r \in Nat \ {0}, NEW c \in Nat \ {0}
    PROVE  /\ \A i \in 0 .. r * c - 1 : /\ i \div c \in 0 .. r - 1 /\ i % c \in 0 .. c - 1
                                        /\ i = (i \div c) * c + (i % c)
           /\ \A x \in 0 .. r - 1, z \in 0 .. c - 1 :
                 x * c + z \in 0 .. r * c - 1 /\ (x * c + z) \div c = x /\ (x * c + z) % c = z
<1>0. r * c \in Nat
    OBVIOUS
<1>1. ASSUME NEW i \in 0 .. r * c - 1
      PROVE  /\ i \div c \in 0 .. r - 1 /\ i % c \in 0 .. c - 1
             /\ i = (i \div c) * c + (i % c)
    <2>1. i \in Nat /\ i < r * c
        BY <1>0
    <2>2. i \div c \in Nat /\ (i \div c) * c <= i /\ i % c \in 0 .. c - 1 /\ i = (i \div c) * c + (i % c)
        BY <2>1
    <2> DEFINE q == i \div c
    <2> HIDE DEF q
    <2>3. q < r
        <3>1. SUFFICES ASSUME r <= q PROVE FALSE
            BY <2>2 DEF q
        <3>2. r * c <= q * c
            BY <2>2, <3>1, Scaled DEF q
        <3>3. q * c \in Int
            BY <2>2 DEF q
        <3> QED
            BY <1>0, <2>1, <2>2, <3>2, <3>3 DEF q
    <2> QED
        BY <2>2, <2>3 DEF q
<1>2. ASSUME NEW x \in 0 .. r - 1, NEW z \in 0 .. c - 1
      PROVE  x * c + z \in 0 .. r * c - 1 /\ (x * c + z) \div c = x /\ (x * c + z) % c = z
    <2>1. x * c \in Nat /\ (x + 1) * c <= r * c /\ (x + 1) * c = x * c + c
        <3>1. x + 1 \in Nat /\ x + 1 <= r
            OBVIOUS
        <3>2. (x + 1) * c <= r * c
            BY <3>1, Scaled
        <3> QED
            BY <3>2
    <2>2. x * c + z \in 0 .. r * c - 1
        BY <1>0, <2>1
    <2>3. (x * c + z) \div c = x
        <3> DEFINE i == x * c + z
                   q == i \div c
        <3>1. i \in Nat
            BY <2>1
        <3>2. q \in Nat /\ q * c <= i /\ i < q * c + c
            <4> HIDE DEF i
            <4> QED
                BY <3>1, Division
        <3> HIDE DEF q
        <3>3. q * c \in Nat /\ q * c < x * c + c /\ x * c < q * c + c
            BY <2>1, <3>1, <3>2
        <3>4. (q + 1) * c = q * c + c
            BY <3>2
        <3>5. q <= x
            <4>1. SUFFICES ASSUME x + 1 <= q PROVE FALSE
                BY <3>2
            <4>2. (x + 1) * c <= q * c
                BY <3>2, <4>1, Scaled
            <4> QED
                BY <2>1, <3>3, <4>2
        <3>6. x <= q
            <4>1. SUFFICES ASSUME q + 1 <= x PROVE FALSE
                BY <3>2
            <4>2. (q + 1) * c <= x * c
                BY <3>2, <4>1, Scaled
            <4> QED
                BY <2>1, <3>3, <3>4, <4>2
        <3>7. q = x
            BY <3>2, <3>5, <3>6
        <3> QED
            BY <3>7 DEF q
    <2>4. (x * c + z) % c = z
        <3> DEFINE i == x * c + z
        <3>1. i \in Nat
            BY <2>1
        <3>2. i = (i \div c) * c + (i % c)
            <4> HIDE DEF i
            <4> QED
                BY <3>1
        <3>3. i % c \in Int
            <4> HIDE DEF i
            <4> QED
                BY <3>1
        <3> QED
            BY <2>1, <2>3, <3>2, <3>3
    <2> QED
        BY <2>2, <2>3, <2>4
<1> QED
    BY <1>1, <1>2

\* A part of an axis with a line in it has edges apart.
LEMMA PartOfAxis ==
    ASSUME NEW n \in Nat \ {0}, NEW s \in Nat \ {0}, NEW d \in Nat \ {0}, NEW i \in 0 .. n - 1,
           ~Empty(Bounds(i, n, s, d))
    PROVE  /\ i \in 0 .. n /\ i + 1 \in 0 .. n
           /\ Edge(i, n, d) < Edge(i + 1, n, d)
           /\ SourceEdge(i, n, s, d) < SourceEdge(i + 1, n, s, d)
<1>1. i \in 0 .. n /\ i + 1 \in 0 .. n
    OBVIOUS
<1>2. /\ Edge(i, n, d) \in Nat /\ Edge(i + 1, n, d) \in Nat
      /\ SourceEdge(i, n, s, d) \in Nat /\ SourceEdge(i + 1, n, s, d) \in Nat
    BY <1>1, EdgesWithin, SourceEdgesWithin
<1>3. /\ Edge(i, n, d) .. Edge(i + 1, n, d) - 1 # {}
      /\ SourceEdge(i, n, s, d) .. SourceEdge(i + 1, n, s, d) - 1 # {}
    <2>1. /\ Bounds(i, n, s, d).dst = Edge(i, n, d) .. Edge(i + 1, n, d) - 1
          /\ Bounds(i, n, s, d).src = SourceEdge(i, n, s, d) .. SourceEdge(i + 1, n, s, d) - 1
        BY ONLY n \in Nat \ {0}, i \in 0 .. n - 1, BoundsAreEdges
    <2>2. Bounds(i, n, s, d).dst # {} /\ Bounds(i, n, s, d).src # {}
        BY DEF Empty
    <2> QED
        BY <2>1, <2>2
<1> QED
    BY <1>1, <1>2, <1>3

\* What is between two neighbouring edges.
RowLines(p, r) == RowEdge(p, r) .. RowEdge(p, r + 1) - 1
ColLines(p, c) == ColEdge(p, c) .. ColEdge(p, c + 1) - 1
InLines(p, r) == InEdge(p, r) .. InEdge(p, r + 1) - 1

LEMMA CellGeometry ==
    ASSUME GridInv, Sampling, NEW i \in Team, NEW p \in Planes
    PROVE  LET r == i \div plan.cols
               c == i % plan.cols
           IN  /\ r \in 0 .. plan.rows - 1 /\ c \in 0 .. plan.cols - 1
               /\ i = r * plan.cols + c
               /\ CellOf(i).src[p] = InLines(p, r)
               /\ CellOf(i).rows[p] = RowLines(p, r)
               /\ CellOf(i).cols[p] = ColLines(p, c)
               /\ CellOf(i).top[p] = RowEdge(p, r)
               /\ CellOf(i).left[p] = ColEdge(p, c)
               /\ InEdge(p, r) < InEdge(p, r + 1)
<1> DEFINE r == i \div plan.cols
           c == i % plan.cols
           n == plan.rows
           m == plan.cols
<1>1. n \in Nat \ {0} /\ m \in Nat \ {0} /\ CellsTile
    BY PlanTiles
<1>2. r \in 0 .. n - 1 /\ c \in 0 .. m - 1 /\ i = r * m + c
    <2>1. i \in 0 .. n * m - 1
        BY CellsAre DEF Team
    <2> QED
        BY <1>1, <2>1, CellPlace
<1>3. /\ geom.srcW \in Nat \ {0} /\ geom.srcH \in Nat \ {0}
      /\ geom.dstW \in Nat \ {0} /\ geom.dstH \in Nat \ {0}
    BY DEF GridInv, Request
<1>4. /\ format.w \in {0, 1} /\ format.h \in {0, 1} /\ geom.srcH % (format.h + 1) = 0
      /\ geom.dstH % 2 = 0 /\ geom.dstW % 2 = 0
    BY DEF Sampling
<1>5. RowPart(i) = Bounds(r, n, geom.srcH, geom.dstH) /\ ColPart(i) = Bounds(c, m, geom.srcW, geom.dstW)
    BY DEF RowPart, ColPart, RowsOf, ColsOf
<1>6. ~Empty(Bounds(r, n, geom.srcH, geom.dstH)) /\ ~Empty(Bounds(c, m, geom.srcW, geom.dstW))
    BY <1>1, <1>2 DEF CellsTile, RowsOf, ColsOf
<1>7. CellOf(i) = [src  |-> [x \in Planes |-> Lines(x, RowPart(i).src)],
                   rows |-> [x \in Planes |-> Lines(x, RowPart(i).dst)],
                   cols |-> [x \in Planes |-> Columns(x, ColPart(i).dst)],
                   top  |-> [x \in Planes |-> Shift(x, Min(RowPart(i).dst), format.h)],
                   left |-> [x \in Planes |-> Shift(x, Min(ColPart(i).dst), format.w)]]
    BY DEF CellOf
<1>8. /\ CellOf(i).src[p] = Lines(p, RowPart(i).src)
      /\ CellOf(i).rows[p] = Lines(p, RowPart(i).dst)
      /\ CellOf(i).cols[p] = Columns(p, ColPart(i).dst)
      /\ CellOf(i).top[p] = Shift(p, Min(RowPart(i).dst), format.h)
      /\ CellOf(i).left[p] = Shift(p, Min(ColPart(i).dst), format.w)
    BY <1>7
<1> HIDE DEF r, c, n, m
<1>9. r \in 0 .. n /\ r + 1 \in 0 .. n /\ c \in 0 .. m /\ c + 1 \in 0 .. m
    BY <1>1, <1>2
<1> DEFINE E(x) == Edge(x, n, geom.dstH)
           S(x) == SourceEdge(x, n, geom.srcH, geom.dstH)
           F(x) == Edge(x, m, geom.dstW)
<1>10. E(r) < E(r + 1) /\ S(r) < S(r + 1) /\ F(c) < F(c + 1)
    BY <1>1, <1>2, <1>3, <1>6, PartOfAxis
<1>11. /\ RowPart(i).dst = E(r) .. E(r + 1) - 1 /\ RowPart(i).src = S(r) .. S(r + 1) - 1
       /\ ColPart(i).dst = F(c) .. F(c + 1) - 1
    BY <1>1, <1>2, <1>5, BoundsAreEdges
<1>12. \A x \in {r, r + 1} : E(x) \in Nat /\ E(x) % (format.h + 1) = 0
    <2> SUFFICES ASSUME NEW x \in 0 .. n
                 PROVE  Edge(x, n, geom.dstH) \in Nat /\ Edge(x, n, geom.dstH) % (format.h + 1) = 0
        BY <1>9
    <2>1. Edge(x, n, geom.dstH) \in Nat /\ Edge(x, n, geom.dstH) % 2 = 0
        BY <1>1, <1>3, <1>4, EdgesWithin, EdgesEven
    <2> QED
        BY <1>4, <2>1
<1>13. \A x \in {r, r + 1} : S(x) \in Nat /\ S(x) % (format.h + 1) = 0
    <2> SUFFICES ASSUME NEW x \in 0 .. n
                 PROVE  /\ SourceEdge(x, n, geom.srcH, geom.dstH) \in Nat
                        /\ SourceEdge(x, n, geom.srcH, geom.dstH) % (format.h + 1) = 0
        BY <1>9
    <2>1. SourceEdge(x, n, geom.srcH, geom.dstH) \in Nat
        BY <1>1, <1>3, SourceEdgesWithin
    <2> DEFINE k == format.h
    <2>2. k \in {0, 1} /\ geom.srcH % (k + 1) = 0
        BY <1>4
    <2> HIDE DEF k
    <2>3. SourceEdge(x, n, geom.srcH, geom.dstH) % (k + 1) = 0
        BY <1>1, <1>3, <2>2, SourceEdgesDivide
    <2> QED
        BY <2>1, <2>3 DEF k
<1>14. \A x \in {c, c + 1} : F(x) \in Nat /\ F(x) % (format.w + 1) = 0
    <2> SUFFICES ASSUME NEW x \in 0 .. m
                 PROVE  Edge(x, m, geom.dstW) \in Nat /\ Edge(x, m, geom.dstW) % (format.w + 1) = 0
        BY <1>9
    <2>1. Edge(x, m, geom.dstW) \in Nat /\ Edge(x, m, geom.dstW) % 2 = 0
        BY <1>1, <1>3, <1>4, EdgesWithin, EdgesEven
    <2> QED
        BY <1>4, <2>1
<1>15. /\ RowEdge(p, r) = Shift(p, E(r), format.h) /\ RowEdge(p, r + 1) = Shift(p, E(r + 1), format.h)
       /\ InEdge(p, r) = Shift(p, S(r), format.h) /\ InEdge(p, r + 1) = Shift(p, S(r + 1), format.h)
       /\ ColEdge(p, c) = Shift(p, F(c), format.w) /\ ColEdge(p, c + 1) = Shift(p, F(c + 1), format.w)
    BY DEF RowEdge, InEdge, ColEdge, n, m
<1> HIDE DEF E, S, F
<1>16. /\ Shift(p, Min(RowPart(i).dst), format.h) = RowEdge(p, r)
       /\ Shift(p, Max(RowPart(i).dst) + 1, format.h) = RowEdge(p, r + 1)
    BY <1>4, <1>10, <1>11, <1>12, <1>15, ShiftedPart
<1>17. /\ Shift(p, Min(RowPart(i).src), format.h) = InEdge(p, r)
       /\ Shift(p, Max(RowPart(i).src) + 1, format.h) = InEdge(p, r + 1)
    BY <1>4, <1>10, <1>11, <1>13, <1>15, ShiftedPart
<1>18. /\ Shift(p, Min(ColPart(i).dst), format.w) = ColEdge(p, c)
       /\ Dim(p, Cardinality(ColPart(i).dst), format.w) = ColEdge(p, c + 1) - ColEdge(p, c)
    BY <1>4, <1>10, <1>11, <1>14, <1>15, ShiftedPart
<1>19. ColEdge(p, c) \in Nat /\ ColEdge(p, c + 1) \in Nat
    BY <1>4, <1>14, <1>15, Shifted
<1>20. Columns(p, ColPart(i).dst) = ColEdge(p, c) .. ColEdge(p, c + 1) - 1
    <2>1. Columns(p, ColPart(i).dst)
            = ColEdge(p, c) .. ColEdge(p, c) + (ColEdge(p, c + 1) - ColEdge(p, c)) - 1
        BY <1>18 DEF Columns
    <2> QED
        BY <1>19, <2>1
<1>21. /\ Lines(p, RowPart(i).dst) = RowEdge(p, r) .. RowEdge(p, r + 1) - 1
       /\ Lines(p, RowPart(i).src) = InEdge(p, r) .. InEdge(p, r + 1) - 1
    BY <1>16, <1>17 DEF Lines
<1>22. InEdge(p, r) < InEdge(p, r + 1)
    BY <1>4, <1>10, <1>13, <1>15, ShiftedApart
<1>23. /\ r \in 0 .. n - 1 /\ c \in 0 .. m - 1
       /\ i = r * m + c
       /\ CellOf(i).src[p] = InEdge(p, r) .. InEdge(p, r + 1) - 1
       /\ CellOf(i).rows[p] = RowEdge(p, r) .. RowEdge(p, r + 1) - 1
       /\ CellOf(i).cols[p] = ColEdge(p, c) .. ColEdge(p, c + 1) - 1
       /\ CellOf(i).top[p] = RowEdge(p, r)
       /\ CellOf(i).left[p] = ColEdge(p, c)
       /\ InEdge(p, r) < InEdge(p, r + 1)
    BY <1>2, <1>8, <1>16, <1>18, <1>20, <1>21, <1>22
<1> QED
    BY <1>23 DEF r, c, n, m, RowLines, ColLines, InLines

\* The shifted edges cut the lines of a plane of the output, and of the source.
LEMMA ShiftedCut ==
    ASSUME NEW n \in Nat \ {0}, NEW d \in Nat \ {0}, NEW k \in {0, 1}, NEW p \in Planes, d % 2 = 0
    PROVE  Cut([r \in 0 .. n - 1 |-> Shift(p, Edge(r, n, d), k) .. Shift(p, Edge(r + 1, n, d), k) - 1], Dim(p, d, k))
<1> DEFINE e == [r \in 0 .. n |-> Shift(p, Edge(r, n, d), k)]
           parts == [r \in 0 .. n - 1 |-> Shift(p, Edge(r, n, d), k) .. Shift(p, Edge(r + 1, n, d), k) - 1]
           all == Dim(p, d, k)
<1>1. ASSUME NEW r \in 0 .. n
      PROVE  /\ Shift(p, Edge(r, n, d), k) \in Nat
             /\ \A z \in 0 .. n : r <= z => Shift(p, Edge(r, n, d), k) <= Shift(p, Edge(z, n, d), k)
             /\ Shift(p, Edge(0, n, d), k) = 0 /\ Shift(p, Edge(n, n, d), k) = all
    BY ShiftedEdges
<1> HIDE DEF all
<1>2. /\ \A r \in 0 .. n : e[r] \in Nat
      /\ e[0] = 0 /\ e[n] = all
      /\ \A r, z \in 0 .. n : r <= z => e[r] <= e[z]
    BY <1>1
<1>3. DOMAIN parts = 0 .. n - 1 /\ \A r \in 0 .. n - 1 : parts[r] = e[r] .. e[r + 1] - 1
    OBVIOUS
<1>4. all \in Nat
    BY <1>2
<1> HIDE DEF e, parts
<1>5. Cut(parts, all)
    BY <1>2, <1>3, <1>4, EdgesCut
<1> QED
    BY <1>5 DEF parts, all

LEMMA ShiftedSourceCut ==
    ASSUME NEW n \in Nat \ {0}, NEW s \in Nat \ {0}, NEW d \in Nat \ {0}, NEW k \in {0, 1}, NEW p \in Planes, s % (k + 1) = 0
    PROVE  Cut([r \in 0 .. n - 1 |-> Shift(p, SourceEdge(r, n, s, d), k) .. Shift(p, SourceEdge(r + 1, n, s, d), k) - 1], Dim(p, s, k))
<1> DEFINE e == [r \in 0 .. n |-> Shift(p, SourceEdge(r, n, s, d), k)]
           parts == [r \in 0 .. n - 1 |-> Shift(p, SourceEdge(r, n, s, d), k) .. Shift(p, SourceEdge(r + 1, n, s, d), k) - 1]
           all == Dim(p, s, k)
<1>1. ASSUME NEW r \in 0 .. n
      PROVE  /\ Shift(p, SourceEdge(r, n, s, d), k) \in Nat
             /\ \A z \in 0 .. n : r <= z => Shift(p, SourceEdge(r, n, s, d), k) <= Shift(p, SourceEdge(z, n, s, d), k)
             /\ Shift(p, SourceEdge(0, n, s, d), k) = 0 /\ Shift(p, SourceEdge(n, n, s, d), k) = all
    <2>1. Shift(p, SourceEdge(r, n, s, d), k) \in Nat
        BY ShiftedSourceEdges
    <2>2. \A z \in 0 .. n : r <= z => Shift(p, SourceEdge(r, n, s, d), k) <= Shift(p, SourceEdge(z, n, s, d), k)
        BY ShiftedSourceEdges
    <2>3. Shift(p, SourceEdge(0, n, s, d), k) = 0
        BY DEF SourceEdge, Shift
    <2>4. Shift(p, SourceEdge(n, n, s, d), k) = Dim(p, s, k)
        <3>1. SourceEdge(n, n, s, d) = s
            BY DEF SourceEdge
        <3> QED
            BY <3>1, Shifted
    <2> QED
        BY <2>1, <2>2, <2>3, <2>4
<1> HIDE DEF all
<1>2. /\ \A r \in 0 .. n : e[r] \in Nat
      /\ e[0] = 0 /\ e[n] = all
      /\ \A r, z \in 0 .. n : r <= z => e[r] <= e[z]
    BY <1>1
<1>3. DOMAIN parts = 0 .. n - 1 /\ \A r \in 0 .. n - 1 : parts[r] = e[r] .. e[r + 1] - 1
    OBVIOUS
<1>4. all \in Nat
    BY <1>2
<1> HIDE DEF e, parts
<1>5. Cut(parts, all)
    BY <1>2, <1>3, <1>4, EdgesCut
<1> QED
    BY <1>5 DEF parts, all

\* The cells' rows cut each plane, and so do their columns and their source rows.
LEMMA PlaneCut ==
    ASSUME GridInv, Sampling, NEW p \in Planes
    PROVE  /\ Cut([r \in 0 .. plan.rows - 1 |-> RowLines(p, r)], Dim(p, geom.dstH, format.h))
           /\ Cut([c \in 0 .. plan.cols - 1 |-> ColLines(p, c)], Dim(p, geom.dstW, format.w))
           /\ Cut([r \in 0 .. plan.rows - 1 |-> InLines(p, r)], Dim(p, geom.srcH, format.h))
<1> DEFINE n == plan.rows
           m == plan.cols
           h == format.h
           w == format.w
<1>1. n \in Nat \ {0} /\ m \in Nat \ {0}
    BY PlanTiles
<1>2. /\ geom.srcH \in Nat \ {0} /\ geom.dstW \in Nat \ {0} /\ geom.dstH \in Nat \ {0}
    BY DEF GridInv, Request
<1>3. /\ w \in {0, 1} /\ h \in {0, 1} /\ geom.srcH % (h + 1) = 0
      /\ geom.dstH % 2 = 0 /\ geom.dstW % 2 = 0
    BY DEF Sampling
<1> HIDE DEF n, m, h, w
<1>4. Cut([r \in 0 .. n - 1 |-> RowLines(p, r)], Dim(p, geom.dstH, h))
    BY <1>1, <1>2, <1>3, ShiftedCut DEF RowLines, RowEdge, n, h
<1>5. Cut([c \in 0 .. m - 1 |-> ColLines(p, c)], Dim(p, geom.dstW, w))
    BY <1>1, <1>2, <1>3, ShiftedCut DEF ColLines, ColEdge, m, w
<1>6. Cut([r \in 0 .. n - 1 |-> InLines(p, r)], Dim(p, geom.srcH, h))
    BY <1>1, <1>2, <1>3, ShiftedSourceCut DEF InLines, InEdge, n, h
<1> QED
    BY <1>4, <1>5, <1>6 DEF n, m, h, w

\* The same, line by line.
LEMMA CutLines ==
    ASSUME NEW parts, NEW extent, Cut(parts, extent)
    PROVE  /\ \A r \in DOMAIN parts : parts[r] \subseteq 0 .. extent - 1
           /\ \A z \in 0 .. extent - 1 : \E r \in DOMAIN parts : z \in parts[r]
           /\ \A r, t \in DOMAIN parts : r # t => parts[r] \cap parts[t] = {}
BY DEF Cut

LEMMA PlaneLines ==
    ASSUME GridInv, Sampling, NEW p \in Planes
    PROVE  /\ \A r \in 0 .. plan.rows - 1 : /\ RowLines(p, r) \subseteq 0 .. Dim(p, geom.dstH, format.h) - 1
                                            /\ InLines(p, r) \subseteq 0 .. Dim(p, geom.srcH, format.h) - 1
           /\ \A c \in 0 .. plan.cols - 1 : ColLines(p, c) \subseteq 0 .. Dim(p, geom.dstW, format.w) - 1
           /\ \A z \in 0 .. Dim(p, geom.dstH, format.h) - 1 : \E r \in 0 .. plan.rows - 1 : z \in RowLines(p, r)
           /\ \A z \in 0 .. Dim(p, geom.dstW, format.w) - 1 : \E c \in 0 .. plan.cols - 1 : z \in ColLines(p, c)
           /\ \A r, t \in 0 .. plan.rows - 1 : r # t => /\ RowLines(p, r) \cap RowLines(p, t) = {}
                                                       /\ InLines(p, r) \cap InLines(p, t) = {}
           /\ \A c, t \in 0 .. plan.cols - 1 : c # t => ColLines(p, c) \cap ColLines(p, t) = {}
<1> DEFINE rows == [r \in 0 .. plan.rows - 1 |-> RowLines(p, r)]
           cols == [c \in 0 .. plan.cols - 1 |-> ColLines(p, c)]
           src  == [r \in 0 .. plan.rows - 1 |-> InLines(p, r)]
<1>1. /\ Cut(rows, Dim(p, geom.dstH, format.h))
      /\ Cut(cols, Dim(p, geom.dstW, format.w))
      /\ Cut(src, Dim(p, geom.srcH, format.h))
    BY PlaneCut
<1>2. /\ DOMAIN rows = 0 .. plan.rows - 1 /\ \A r \in 0 .. plan.rows - 1 : rows[r] = RowLines(p, r)
      /\ DOMAIN cols = 0 .. plan.cols - 1 /\ \A c \in 0 .. plan.cols - 1 : cols[c] = ColLines(p, c)
      /\ DOMAIN src = 0 .. plan.rows - 1 /\ \A r \in 0 .. plan.rows - 1 : src[r] = InLines(p, r)
    OBVIOUS
<1> HIDE DEF rows, cols, src
<1>3. /\ \A r \in DOMAIN rows : rows[r] \subseteq 0 .. Dim(p, geom.dstH, format.h) - 1
      /\ \A z \in 0 .. Dim(p, geom.dstH, format.h) - 1 : \E r \in DOMAIN rows : z \in rows[r]
      /\ \A r, t \in DOMAIN rows : r # t => rows[r] \cap rows[t] = {}
    BY <1>1, CutLines
<1>4. /\ \A c \in DOMAIN cols : cols[c] \subseteq 0 .. Dim(p, geom.dstW, format.w) - 1
      /\ \A z \in 0 .. Dim(p, geom.dstW, format.w) - 1 : \E c \in DOMAIN cols : z \in cols[c]
      /\ \A c, t \in DOMAIN cols : c # t => cols[c] \cap cols[t] = {}
    BY <1>1, CutLines
<1>5. /\ \A r \in DOMAIN src : src[r] \subseteq 0 .. Dim(p, geom.srcH, format.h) - 1
      /\ \A r, t \in DOMAIN src : r # t => src[r] \cap src[t] = {}
    BY <1>1, CutLines
<1> QED
    BY <1>2, <1>3, <1>4, <1>5

LEMMA InOwned ==
    ASSUME NEW i, NEW q
    PROVE  q \in Owned(i) <=> /\ q = <<q[1], q[2], q[3]>> /\ q[1] \in Planes
                              /\ q[2] \in cell[i].rows[q[1]] /\ q[3] \in cell[i].cols[q[1]]
BY DEF Owned

LEMMA InSamples ==
    ASSUME NEW q
    PROVE  q \in Samples <=> /\ q = <<q[1], q[2], q[3]>> /\ q[1] \in Planes
                             /\ q[2] \in 0 .. Dim(q[1], geom.dstH, format.h) - 1
                             /\ q[3] \in 0 .. Dim(q[1], geom.dstW, format.w) - 1
BY DEF Samples

LEMMA InOwnedRows ==
    ASSUME NEW i, NEW x
    PROVE  x \in OwnedRows(i) <=> /\ x = <<x[1], x[2]>> /\ x[1] \in Planes
                                  /\ x[2] \in 0 .. Dim(x[1], geom.srcH, format.h) - 1
                                  /\ x[2] \in cell[i].src[x[1]]
BY DEF OwnedRows, SourceRows

Fits(i, p) ==
    /\ cell[i].src[p] \subseteq 0 .. Dim(p, geom.srcH, format.h) - 1
    /\ Min(cell[i].src[p]) \in cell[i].src[p]
    /\ cell[i].rows[p] \subseteq 0 .. Dim(p, geom.dstH, format.h) - 1
    /\ cell[i].cols[p] \subseteq 0 .. Dim(p, geom.dstW, format.w) - 1
    /\ cell[i].top[p] \in Nat /\ cell[i].left[p] \in Nat
    /\ \A z \in cell[i].rows[p] : z - cell[i].top[p] \in 0 .. Cardinality(cell[i].rows[p]) - 1
    /\ \A z \in cell[i].cols[p] : z - cell[i].left[p] \in 0 .. Cardinality(cell[i].cols[p]) - 1
    /\ ~Tiled => cell[i].left[p] = 0

\* The cells share the planes out among them.
Placed ==
    /\ \A i \in Team : \A p \in Planes : Fits(i, p)
    /\ \A i, j \in Team : i # j => Owned(i) \cap Owned(j) = {}
    /\ ~Tiled => \A i, j \in Team : i # j => \A p \in Planes : cell[i].src[p] \cap cell[j].src[p] = {}
    /\ \A q \in Samples : \E i \in Team : q \in Owned(i)

LEMMA CellFits ==
    ASSUME GridInv, Sampling, NEW i \in Team, cell[i] = CellOf(i), NEW p \in Planes
    PROVE  Fits(i, p)
<1> DEFINE r == i \div plan.cols
           c == i % plan.cols
<1>1. /\ r \in 0 .. plan.rows - 1 /\ c \in 0 .. plan.cols - 1
      /\ cell[i].src[p] = InLines(p, r)
      /\ cell[i].rows[p] = RowLines(p, r)
      /\ cell[i].cols[p] = ColLines(p, c)
      /\ cell[i].top[p] = RowEdge(p, r)
      /\ cell[i].left[p] = ColEdge(p, c)
      /\ InEdge(p, r) < InEdge(p, r + 1)
    BY CellGeometry
<1>2. /\ plan.rows \in Nat \ {0} /\ plan.cols \in Nat \ {0}
      /\ geom.srcH \in Nat \ {0} /\ geom.dstW \in Nat \ {0} /\ geom.dstH \in Nat \ {0}
    BY PlanTiles DEF GridInv, Request
<1>3. /\ format.w \in {0, 1} /\ format.h \in {0, 1} /\ geom.srcH % (format.h + 1) = 0
      /\ geom.dstH % 2 = 0 /\ geom.dstW % 2 = 0
    BY DEF Sampling
<1> HIDE DEF r, c
<1>4. r \in 0 .. plan.rows /\ r + 1 \in 0 .. plan.rows /\ c \in 0 .. plan.cols /\ c + 1 \in 0 .. plan.cols
    BY <1>1, <1>2
<1>5. RowEdge(p, r) \in Nat /\ RowEdge(p, r + 1) \in Nat
    <2> SUFFICES ASSUME NEW x \in 0 .. plan.rows PROVE RowEdge(p, x) \in Nat
        BY <1>4
    <2> QED
        BY <1>2, <1>3, ShiftedEdges DEF RowEdge
<1>6. ColEdge(p, c) \in Nat /\ ColEdge(p, c + 1) \in Nat
    <2> SUFFICES ASSUME NEW x \in 0 .. plan.cols PROVE ColEdge(p, x) \in Nat
        BY <1>4
    <2> QED
        BY <1>2, <1>3, ShiftedEdges DEF ColEdge
<1>7. InEdge(p, r) \in Nat /\ InEdge(p, r + 1) \in Nat
    <2> SUFFICES ASSUME NEW x \in 0 .. plan.rows PROVE InEdge(p, x) \in Nat
        BY <1>4
    <2> QED
        BY <1>2, <1>3, ShiftedSourceEdges DEF InEdge
<1>8. /\ cell[i].rows[p] \subseteq 0 .. Dim(p, geom.dstH, format.h) - 1
      /\ cell[i].cols[p] \subseteq 0 .. Dim(p, geom.dstW, format.w) - 1
      /\ cell[i].src[p] \subseteq 0 .. Dim(p, geom.srcH, format.h) - 1
    BY <1>1, PlaneLines
<1>9. Min(cell[i].src[p]) \in cell[i].src[p]
    <2> DEFINE a == InEdge(p, r)
               b == InEdge(p, r + 1)
    <2> HIDE DEF a, b
    <2>1. a \in Int /\ b \in Int /\ a < b
        BY <1>1, <1>7 DEF a, b
    <2>2. Min(a .. b - 1) \in a .. b - 1
        BY <2>1, IntervalEnds
    <2> QED
        BY <1>1, <2>2 DEF a, b, InLines
<1>10. ASSUME NEW a \in Nat, NEW b \in Nat, NEW z \in a .. b - 1
       PROVE  z - a \in 0 .. Cardinality(a .. b - 1) - 1
    <2>1. a <= b /\ a \in Int /\ b \in Int
        OBVIOUS
    <2>2. Cardinality(a .. b - 1) = b - a
        BY <2>1, IntervalSize
    <2> QED
        BY <2>2
<1>11. /\ \A z \in cell[i].rows[p] : z - cell[i].top[p] \in 0 .. Cardinality(cell[i].rows[p]) - 1
       /\ \A z \in cell[i].cols[p] : z - cell[i].left[p] \in 0 .. Cardinality(cell[i].cols[p]) - 1
    BY <1>1, <1>5, <1>6, <1>10 DEF RowLines, ColLines
<1>12. ~Tiled => cell[i].left[p] = 0
    <2> SUFFICES ASSUME ~Tiled PROVE ColEdge(p, c) = 0
        BY <1>1
    <2>1. c = 0
        BY <1>1, <1>2 DEF Tiled
    <2> QED
        <3>1. Edge(c, plan.cols, geom.dstW) = 0
            BY <2>1 DEF Edge
        <3>2. Shift(p, 0, format.w) = 0
            BY <1>3 DEF Shift
        <3> QED
            BY <3>1, <3>2 DEF ColEdge
<1> QED
    BY <1>1, <1>5, <1>6, <1>8, <1>9, <1>11, <1>12 DEF Fits

LEMMA CellsPlaced ==
    ASSUME GridInv, Sampling, \A i \in Team : cell[i] = CellOf(i)
    PROVE  Placed
<1> DEFINE R(i) == i \div plan.cols
           C(i) == i % plan.cols
<1>1. \A i \in Team : \A p \in Planes : Fits(i, p)
    BY CellFits
<1>2. ASSUME NEW i \in Team, NEW p \in Planes
      PROVE  /\ R(i) \in 0 .. plan.rows - 1 /\ C(i) \in 0 .. plan.cols - 1 /\ i = R(i) * plan.cols + C(i)
             /\ cell[i].src[p] = InLines(p, R(i))
             /\ cell[i].rows[p] = RowLines(p, R(i))
             /\ cell[i].cols[p] = ColLines(p, C(i))
    BY CellGeometry
<1> HIDE DEF R, C
<1>3. ASSUME NEW p \in Planes
      PROVE  /\ \A r, t \in 0 .. plan.rows - 1 : r # t =>
                   /\ RowLines(p, r) \cap RowLines(p, t) = {}
                   /\ InLines(p, r) \cap InLines(p, t) = {}
             /\ \A r, t \in 0 .. plan.cols - 1 : r # t =>
                   ColLines(p, r) \cap ColLines(p, t) = {}
    BY PlaneLines
<1>4. ASSUME NEW i \in Team, NEW j \in Team, i # j
      PROVE  Owned(i) \cap Owned(j) = {}
    <2> SUFFICES ASSUME NEW q \in Owned(i), q \in Owned(j) PROVE FALSE
        OBVIOUS
    <2>1. /\ q[1] \in Planes /\ q[2] \in cell[i].rows[q[1]] /\ q[3] \in cell[i].cols[q[1]]
          /\ q[2] \in cell[j].rows[q[1]] /\ q[3] \in cell[j].cols[q[1]]
        BY InOwned
    <2>2. R(i) # R(j) \/ C(i) # C(j)
        BY <1>2, <1>4, <2>1
    <2>3. CASE R(i) # R(j)
        BY <1>2, <1>3, <2>1, <2>3
    <2>4. CASE C(i) # C(j)
        BY <1>2, <1>3, <2>1, <2>4
    <2> QED
        BY <2>2, <2>3, <2>4
<1>5. ASSUME ~Tiled, NEW i \in Team, NEW j \in Team, i # j, NEW p \in Planes
      PROVE  cell[i].src[p] \cap cell[j].src[p] = {}
    <2>1. C(i) = 0 /\ C(j) = 0
        BY <1>2, <1>5, PlanTiles DEF Tiled
    <2>2. R(i) # R(j)
        BY <1>2, <1>5, <2>1
    <2> QED
        BY <1>2, <1>3, <1>5, <2>2
<1>6. ASSUME NEW q \in Samples
      PROVE  \E i \in Team : q \in Owned(i)
    <2> DEFINE p == q[1]
    <2>1. /\ q = <<q[1], q[2], q[3]>> /\ p \in Planes
          /\ q[2] \in 0 .. Dim(p, geom.dstH, format.h) - 1
          /\ q[3] \in 0 .. Dim(p, geom.dstW, format.w) - 1
        BY InSamples
    <2>2. PICK r \in 0 .. plan.rows - 1 : q[2] \in RowLines(p, r)
        BY <2>1, PlaneLines
    <2>3. PICK c \in 0 .. plan.cols - 1 : q[3] \in ColLines(p, c)
        BY <2>1, PlaneLines
    <2> DEFINE i == r * plan.cols + c
    <2>4. i \in Team /\ i \div plan.cols = r /\ i % plan.cols = c
        <3> DEFINE n == plan.rows
                   m == plan.cols
        <3>1. n \in Nat \ {0} /\ m \in Nat \ {0} /\ Cells(plan) = n * m
            BY PlanTiles, CellsAre
        <3> HIDE DEF n, m
        <3>2. r * m + c \in 0 .. n * m - 1 /\ (r * m + c) \div m = r /\ (r * m + c) % m = c
            <4>1. r \in 0 .. n - 1 /\ c \in 0 .. m - 1
                BY DEF n, m
            <4> QED
                BY ONLY <3>1, <4>1, CellPlace
        <3> QED
            BY <3>1, <3>2 DEF Team, n, m
    <2> HIDE DEF i
    <2>5. R(i) = r /\ C(i) = c
        BY <2>4 DEF R, C
    <2>6. q \in Owned(i)
        BY <1>2, <2>1, <2>2, <2>3, <2>4, <2>5, InOwned
    <2> QED
        BY <2>4, <2>6
<1> QED
    BY <1>1, <1>4, <1>5, <1>6 DEF Placed

-----------------------------------------------------------------------------
(* The stages of the backend, and the cells built so far. *)

InUse == pool \in {"started", "broken"}
NoView == [src |-> 0, vlcSrc |-> 0, dst |-> 0, vlcDst |-> 0]

Stages ==
    /\ pool \in {"new", "starting", "started", "failed", "broken", "stranded", "closed", "quarantined"}
    /\ stage = "new" => pool = "new"
    /\ pool \notin {"new", "closed"} => stage = "running"
    /\ pool = "new" => nWorkers = 0 /\ ~threads /\ built = -1 /\ held = {} /\ status = "none" /\ view = NoView
    /\ pool = "starting" => built \in -1 .. Cells(plan) - 1 /\ status = "busy" /\ frame = 1 /\ view = NoView
    /\ InUse => built = Cells(plan) - 1
    /\ pool \in {"broken", "failed", "stranded"} => status = "fatal"
    /\ pool \in {"starting", "started", "broken"} => \A i \in 0 .. built : cell[i] = CellOf(i)

\* Calls after the first frame, and the workers, leave the plan and the cells alone.
Settled == UNCHANGED <<vars, format, nWorkers, built, cell, held>> /\ threads' \in {FALSE, threads}

LEMMA SettledSteps ==
    ASSUME \/ NextCall \/ ReturnOk \/ ReturnFatal \/ DispatchFails
           \/ \E i \in Team : CopyIn(i) \/ Emit(i) \/ \E res \in {0, -1} : Resample(i, res)
    PROVE  Settled /\ pool = "started" /\ pool' \in {"started", "broken"}
           /\ (pool' = "broken" => status' = "fatal")
BY DEF NextCall, ReturnOk, ReturnFatal, DispatchFails, Returning, Stop, CopyIn, Emit, Resample, Working, Settled

LEMMA SameGeometry ==
    ASSUME UNCHANGED <<vars, format>>
    PROVE  /\ \A i : CellOf(i)' = CellOf(i)
           /\ Cells(plan)' = Cells(plan) /\ Team' = Team /\ Samples' = Samples
           /\ Tiled' = Tiled /\ Sampling' = Sampling /\ SharedNeeds' = SharedNeeds
           /\ \A i : CellNeeds(i)' = CellNeeds(i)
BY DEF vars, CellOf, Lines, Columns, RowPart, ColPart, RowsOf, ColsOf, Cells, Team, Samples,
       Tiled, Sampling, SharedNeeds, CellNeeds, Shift, Dim

\* What a cell does with the plan is what TileGrid allows.
LEMMA StepOfGrid == [CellsNext]_<<vars, cellVars>> => [Next]_vars
<1> SUFFICES ASSUME CellsNext PROVE Next \/ UNCHANGED vars
    BY DEF cellVars
<1>1. CASE OpenCells
    BY <1>1 DEF OpenCells, Next
<1>2. CASE \E a, b \in BOOLEAN : FirstCall(a, b)
    BY <1>2 DEF FirstCall, Next
<1>3. CASE Gone \/ Allocate \/ NextCell \/ SetupFails \/ CellFails \/ Started \/ CloseCells \/ JoinFailsAtClose
    BY <1>3 DEF Gone, Allocate, NextCell, SetupFails, CellFails, Started, CloseCells, JoinFailsAtClose, Starting
<1>4. CASE \/ NextCall \/ ReturnOk \/ ReturnFatal \/ DispatchFails
           \/ \E i \in Team : CopyIn(i) \/ Emit(i) \/ \E res \in {0, -1} : Resample(i, res)
    BY <1>4, SettledSteps DEF Settled
<1> QED
    BY <1>1, <1>2, <1>3, <1>4 DEF CellsNext

\* The backend with its cells implements TileGrid: building and running them
\* never changes the plan again.
THEOREM CellsRefineGrid == CellsSpec => Spec
<1>1. CellsInit => Init
    BY DEF CellsInit
<1> QED
    BY <1>1, StepOfGrid, PTL DEF CellsSpec, Spec

LEMMA StagesInit == CellsInit => Sampling /\ Stages
<1> SUFFICES ASSUME CellsInit PROVE Sampling /\ Stages
    OBVIOUS
<1>1. Sampling
    <2>1. geom.dstH \in Targets /\ geom.dstW \in Targets
        BY DEF CellsInit, Init
    <2> QED
        BY <2>1, CellsAssumption, GridAssumption DEF CellsInit, Sampling
<1>2. Stages
    BY DEF CellsInit, Init, Stages, InUse, NoView
<1> QED
    BY <1>1, <1>2

LEMMA CellsCounted == GridInv => Cells(plan) \in Nat \ {0}
BY CellsAre

LEMMA StagesNext ==
    ASSUME GridInv, GridInv', Sampling, Stages, [CellsNext]_<<vars, cellVars>>
    PROVE  Sampling' /\ Stages'
<1>1. CASE OpenCells
    BY <1>1 DEF OpenCells, Open, cellVars, Sampling, Stages, InUse
<1>2. CASE \E a, b \in BOOLEAN : FirstCall(a, b)
    <2>1. (Cells(plan) \in Nat \ {0})'
        BY CellsCounted, PTL
    <2>2. /\ pool = "new" /\ pool' = "starting" /\ stage' = "running" /\ frame' = 1 /\ status' = "busy"
          /\ UNCHANGED <<geom, format, built, view>>
        BY <1>2 DEF FirstCall, FirstFrame
    <2>3. built' = -1 /\ view' = NoView
        BY <2>2 DEF Stages
    <2> HIDE DEF Cells
    <2>4. Sampling'
        BY <2>2 DEF Sampling
    <2>5. Stages'
        BY <2>1, <2>2, <2>3 DEF Stages, InUse, NoView
    <2> QED
        BY <2>4, <2>5
<1>3. CASE Allocate \/ SetupFails \/ CellFails
    <2>1. /\ UNCHANGED <<vars, format, frame, built, cell, view>> /\ pool = "starting"
          /\ (pool' = "starting" /\ UNCHANGED status) \/ (pool' \in {"failed", "stranded"} /\ status' = "fatal")
        BY <1>3 DEF Allocate, SetupFails, CellFails, Starting
    <2>2. UNCHANGED <<stage, plan>> /\ Cells(plan)' = Cells(plan) /\ \A i : CellOf(i)' = CellOf(i)
        BY <2>1, SameGeometry DEF vars
    <2> QED
        BY <2>1, <2>2, SameGeometry DEF Stages, InUse, NoView
<1>4. CASE NextCell
    <2>1. /\ UNCHANGED <<vars, format, frame, view, status, pool>> /\ pool = "starting"
          /\ built < Cells(plan) - 1 /\ built' = built + 1
          /\ cell' = [i \in 0 .. built' |-> IF i < built' THEN cell[i] ELSE CellOf(i)]
        BY <1>4 DEF NextCell, Starting
    <2>2. UNCHANGED stage /\ Cells(plan)' = Cells(plan) /\ \A i : CellOf(i)' = CellOf(i)
        BY <2>1, SameGeometry DEF vars
    <2>3. built \in -1 .. Cells(plan) - 1 /\ \A i \in 0 .. built : cell[i] = CellOf(i)
        BY <2>1 DEF Stages
    <2>4. Cells(plan) \in Nat \ {0}
        BY CellsAre
    <2>5. built' \in -1 .. Cells(plan) - 1 /\ \A i \in 0 .. built' : cell'[i] = CellOf(i)
        BY <2>1, <2>3, <2>4
    <2> QED
        BY <2>1, <2>2, <2>5, SameGeometry DEF Stages, InUse, NoView
<1>5. CASE Started
    <2>1. /\ UNCHANGED <<vars, format, built, cell>> /\ pool = "starting" /\ pool' = "started"
          /\ built = Cells(plan) - 1
        BY <1>5 DEF Started, Starting
    <2>2. UNCHANGED stage /\ Cells(plan)' = Cells(plan) /\ \A i : CellOf(i)' = CellOf(i)
        BY <2>1, SameGeometry DEF vars
    <2> QED
        BY <2>1, <2>2, SameGeometry DEF Stages, InUse
<1>6. CASE \/ NextCall \/ ReturnOk \/ ReturnFatal \/ DispatchFails
           \/ \E i \in Team : CopyIn(i) \/ Emit(i) \/ \E res \in {0, -1} : Resample(i, res)
    <2>1. /\ UNCHANGED <<vars, format, built, cell, held>> /\ pool = "started" /\ pool' \in {"started", "broken"}
          /\ (pool' = "broken" => status' = "fatal")
        BY <1>6, SettledSteps DEF Settled
    <2>2. UNCHANGED stage /\ Cells(plan)' = Cells(plan) /\ \A i : CellOf(i)' = CellOf(i)
        BY <2>1, SameGeometry DEF vars
    <2> QED
        BY <2>1, <2>2, SameGeometry DEF Stages, InUse
<1>7. CASE CloseCells \/ JoinFailsAtClose
    <2>1. /\ UNCHANGED <<vars, format>> /\ pool' \in {"closed", "quarantined"}
          /\ stage # "new" /\ (pool' = "quarantined" => stage = "running")
        BY <1>7 DEF CloseCells, JoinFailsAtClose, Stages
    <2>2. UNCHANGED stage
        BY <2>1 DEF vars
    <2> QED
        BY <2>1, <2>2, SameGeometry DEF Stages, InUse
<1>8. CASE Gone \/ UNCHANGED <<vars, cellVars>>
    <2>1. UNCHANGED <<vars, cellVars>>
        BY <1>8 DEF Gone
    <2>2. /\ UNCHANGED <<vars, format>> /\ UNCHANGED <<pool, nWorkers, threads, built, cell, held, frame, status, view>>
        BY <2>1 DEF cellVars
    <2>3. UNCHANGED stage /\ Cells(plan)' = Cells(plan) /\ \A i : CellOf(i)' = CellOf(i)
        BY <2>2, SameGeometry DEF vars
    <2> QED
        BY <2>2, <2>3, SameGeometry DEF Stages, InUse, NoView
<1> QED
    BY <1>1, <1>2, <1>3, <1>4, <1>5, <1>6, <1>7, <1>8 DEF CellsNext

\* A cell is built once, from the plan that stays, and the stages follow each other.
THEOREM CellsStages == CellsSpec => [](GridInv /\ Sampling /\ Stages)
<1>1. CellsSpec => []GridInv
    BY CellsRefineGrid, GridInvariance, PTL
<1>2. GridInv /\ GridInv' /\ Sampling /\ Stages /\ [CellsNext]_<<vars, cellVars>> => Sampling' /\ Stages'
    BY StagesNext
<1> QED
    BY <1>1, <1>2, StagesInit, PTL DEF CellsSpec

-----------------------------------------------------------------------------
(* Storage. *)

\* Slots are counted when a start has ended well, or has left threads behind.
Slots ==
    /\ threads \in BOOLEAN /\ nWorkers \in Nat
    /\ pool = "starting" => nWorkers = 0 /\ (threads => built > 0)
    /\ InUse => nWorkers = Cells(plan)
    /\ pool \in {"failed", "stranded"} => (threads <=> nWorkers > 0)

\* A start holds what the cells built so far need, and the rest of what is
\* being built up to the allocation that is next.
Storage ==
    /\ Slots
    /\ pool = "starting" =>
        /\ held \subseteq Range(SharedNeeds) \cup CellStore(built)
        /\ built >= 0 => Range(SharedNeeds) \cup CellStore(built - 1) \subseteq held
    /\ StorageMatchesPlan

SharedKinds == {"src", "dst"}
Kinds == {"graph", "tmp"} \cup (IF Tiled THEN {"tile"} ELSE {})

LEMMA BufferRange ==
    ASSUME NEW kind, NEW i
    PROVE  /\ Buffer(kind, i) \in Seq({<<kind, i, "Y">>, <<kind, i, "C">>})
           /\ Range(Buffer(kind, i)) = {<<kind, i, "Y">>, <<kind, i, "C">>}
<1>1. Buffer(kind, i) = <<<<kind, i, "Y">>, <<kind, i, "C">>>>
    BY DEF Buffer
<1>2. DOMAIN Buffer(kind, i) = {1, 2}
    <2>1. DOMAIN Buffer(kind, i) = 1 .. 2
        BY <1>1
    <2> QED
        BY <2>1
<1> QED
    BY <1>1, <1>2 DEF Range

LEMMA RangeEmpty == Range(<<>>) = {}
BY DEF Range

LEMMA Joined ==
    ASSUME NEW S, NEW s \in Seq(S), NEW t \in Seq(S)
    PROVE  /\ s \o t \in Seq(S) /\ Range(s \o t) = Range(s) \cup Range(t)
BY ConcatProperties, RangeConcatenation

LEMMA SharedNeedsAre ==
    /\ SharedNeeds \in Seq(Range(SharedNeeds))
    /\ \A x \in Range(SharedNeeds) : x[1] \in SharedKinds
<1> DEFINE a == IF plan.src THEN <<>> ELSE Buffer("src", 0)
           b == IF plan.dst \/ Tiled THEN <<>> ELSE Buffer("dst", 0)
           S == {x \in SharedKinds \X {0} \X {"Y", "C"} : TRUE}
<1>1. /\ a \in Seq(S) /\ Range(a) \subseteq {<<"src", 0, "Y">>, <<"src", 0, "C">>}
    <2>1. Buffer("src", 0) \in Seq(S) /\ Range(Buffer("src", 0)) = {<<"src", 0, "Y">>, <<"src", 0, "C">>}
        BY BufferRange DEF SharedKinds, Buffer
    <2> QED
        BY <2>1, RangeEmpty
<1>2. /\ b \in Seq(S) /\ Range(b) \subseteq {<<"dst", 0, "Y">>, <<"dst", 0, "C">>}
    <2>1. Buffer("dst", 0) \in Seq(S) /\ Range(Buffer("dst", 0)) = {<<"dst", 0, "Y">>, <<"dst", 0, "C">>}
        BY BufferRange DEF SharedKinds, Buffer
    <2> QED
        BY <2>1, RangeEmpty
<1>3. SharedNeeds = a \o b
    BY DEF SharedNeeds
<1> HIDE DEF a, b, S
<1>4. SharedNeeds \in Seq(S) /\ Range(SharedNeeds) = Range(a) \cup Range(b)
    BY <1>1, <1>2, <1>3, Joined
<1>5. SharedNeeds \in Seq(Range(SharedNeeds))
    BY <1>4, SeqOfRange
<1> QED
    BY <1>1, <1>2, <1>4, <1>5 DEF SharedKinds

LEMMA CellNeedsAre ==
    ASSUME NEW i
    PROVE  /\ CellNeeds(i) \in Seq(Range(CellNeeds(i)))
           /\ \A x \in Range(CellNeeds(i)) : x[1] \in Kinds /\ x[2] = i
<1> DEFINE a == IF Tiled THEN Buffer("tile", i) ELSE <<>>
           b == <<<<"graph", i, "-">>, <<"tmp", i, "-">>>>
           S == {"graph", "tmp", "tile"} \X {i} \X {"Y", "C", "-"}
<1>1. a \in Seq(S) /\ \A x \in Range(a) : x[1] \in Kinds /\ x[2] = i
    <2>1. Buffer("tile", i) \in Seq(S) /\ Range(Buffer("tile", i)) = {<<"tile", i, "Y">>, <<"tile", i, "C">>}
        BY BufferRange DEF Buffer
    <2>2. CASE Tiled
        BY <2>1, <2>2 DEF Kinds
    <2>3. CASE ~Tiled
        BY <2>3, RangeEmpty
    <2> QED
        BY <2>2, <2>3
<1>2. b \in Seq(S) /\ Range(b) = {<<"graph", i, "-">>, <<"tmp", i, "-">>}
    <2>1. DOMAIN b = {1, 2}
        <3>1. DOMAIN b = 1 .. 2
            OBVIOUS
        <3> QED
            BY <3>1
    <2> QED
        BY <2>1 DEF Range
<1>3. CellNeeds(i) = a \o b
    BY DEF CellNeeds
<1> HIDE DEF a, b, S
<1>4. CellNeeds(i) \in Seq(S) /\ Range(CellNeeds(i)) = Range(a) \cup Range(b)
    BY <1>1, <1>2, <1>3, Joined
<1>5. CellNeeds(i) \in Seq(Range(CellNeeds(i)))
    BY <1>4, SeqOfRange
<1> QED
    BY <1>1, <1>2, <1>4, <1>5 DEF Kinds

LEMMA NeedsAre ==
    /\ Needs \in Seq(Range(Needs))
    /\ Range(Needs) = IF built = -1 THEN Range(SharedNeeds) ELSE Range(CellNeeds(built))
BY SharedNeedsAre, CellNeedsAre DEF Needs

\* What is missing is what is not held, and the next allocation is of it.
LEMMA MissingIs ==
    /\ Missing = {} => Range(Needs) \subseteq held
    /\ Missing # {} => Needs[Min(Missing)] \in Range(Needs)
<1>1. Missing = {} => Range(Needs) \subseteq held
    BY DEF Missing, Range
<1>2. ASSUME Missing # {} PROVE Needs[Min(Missing)] \in Range(Needs)
    <2>1. Missing \subseteq DOMAIN Needs /\ DOMAIN Needs \subseteq Nat
        BY NeedsAre DEF Missing
    <2>2. \E x \in Missing : \A z \in Missing : x <= z
        BY <1>2, <2>1, HasLeast
    <2>3. Min(Missing) \in Missing
        BY <2>1, <2>2 DEF Min
    <2> QED
        BY <2>1, <2>3 DEF Range
<1> QED
    BY <1>1, <1>2

LEMMA StoreGrows ==
    ASSUME NEW n \in Nat \cup {-1}
    PROVE  /\ CellStore(-1) = {}
           /\ n >= 0 => CellStore(n) = CellStore(n - 1) \cup Range(CellNeeds(n))
           /\ \A x \in CellStore(n) : x[1] \in Kinds /\ x[2] \in 0 .. n
           /\ \A m \in Int : m <= n => CellStore(m) \subseteq CellStore(n)
<1>1. CellStore(-1) = {}
    BY DEF CellStore
<1>2. n >= 0 => CellStore(n) = CellStore(n - 1) \cup Range(CellNeeds(n))
    <2>1. n >= 0 => 0 .. n = (0 .. n - 1) \cup {n}
        OBVIOUS
    <2> QED
        BY <2>1 DEF CellStore
<1>3. \A x \in CellStore(n) : x[1] \in Kinds /\ x[2] \in 0 .. n
    BY CellNeedsAre DEF CellStore
<1>4. \A m \in Int : m <= n => CellStore(m) \subseteq CellStore(n)
    BY DEF CellStore
<1> QED
    BY <1>1, <1>2, <1>3, <1>4

LEMMA StorageInit == CellsInit => Storage
<1> SUFFICES ASSUME CellsInit PROVE Storage
    OBVIOUS
<1>1. pool = "new" /\ nWorkers = 0 /\ threads = FALSE /\ held = {}
    BY DEF CellsInit
<1>2. Slots
    BY <1>1 DEF Slots, InUse
<1> QED
    BY <1>1, <1>2 DEF Storage, StorageMatchesPlan

LEMMA SlotsNext ==
    ASSUME GridInv, Stages, Storage, [CellsNext]_<<vars, cellVars>>
    PROVE  Slots'
<1>0. Cells(plan) \in Nat \ {0} /\ Slots
    BY CellsAre DEF Storage
<1> HIDE DEF Cells
<1>1. CASE OpenCells \/ \E a, b \in BOOLEAN : FirstCall(a, b)
    <2>1. pool = "new" /\ pool' \in {"new", "starting"} /\ nWorkers' = nWorkers /\ threads' = threads
        BY <1>1 DEF OpenCells, Open, FirstCall, cellVars, Stages
    <2> QED
        BY <1>0, <2>1 DEF Slots, Stages, InUse
<1>2. CASE Gone \/ UNCHANGED <<vars, cellVars>>
    <2>1. UNCHANGED <<vars, format>> /\ UNCHANGED <<pool, nWorkers, threads, built>>
        BY <1>2 DEF Gone, cellVars
    <2> QED
        BY <1>0, <2>1, SameGeometry DEF Slots, InUse
<1>3. CASE \/ NextCall \/ ReturnOk \/ ReturnFatal \/ DispatchFails
           \/ \E i \in Team : CopyIn(i) \/ Emit(i) \/ \E res \in {0, -1} : Resample(i, res)
    <2>1. /\ UNCHANGED <<vars, format, nWorkers>> /\ threads' \in {FALSE, threads}
          /\ pool = "started" /\ pool' \in {"started", "broken"}
        BY <1>3, SettledSteps DEF Settled
    <2> QED
        BY <1>0, <2>1, SameGeometry DEF Slots, InUse
<1>4. CASE Allocate
    <2>1. UNCHANGED <<nWorkers, threads, built, pool>> /\ pool = "starting"
        BY <1>4 DEF Allocate, Starting
    <2> QED
        BY <1>0, <2>1 DEF Slots, InUse
<1>5. CASE NextCell
    <2>1. UNCHANGED <<nWorkers, pool>> /\ pool = "starting" /\ threads' = (built' > 0)
        BY <1>5 DEF NextCell, Starting
    <2>2. threads' \in BOOLEAN /\ (threads' => built' > 0)
        <3>1. CASE built' > 0
            <4>1. threads' = TRUE
                BY <2>1, <3>1
            <4> QED
                BY <3>1, <4>1
        <3>2. CASE ~(built' > 0)
            <4>1. (built' > 0) = FALSE
                BY <3>2
            <4>2. threads' = FALSE
                BY <2>1, <4>1
            <4> QED
                BY <4>2
        <3> QED
            BY <3>1, <3>2
    <2> QED
        BY <1>0, <2>1, <2>2 DEF Slots, InUse
<1>6. CASE SetupFails
    <2>1. /\ pool = "starting" /\ pool' = "failed" /\ built = -1
          /\ nWorkers' = nWorkers /\ threads' = threads
        BY <1>6 DEF SetupFails, Starting
    <2> QED
        BY <1>0, <2>1 DEF Slots, InUse
<1>7. CASE CellFails
    <2>1. /\ pool = "starting" /\ pool' \in {"failed", "stranded"} /\ built >= 0
          /\ threads' \in {FALSE, threads} /\ nWorkers' = IF threads' THEN built ELSE 0
        BY <1>7 DEF CellFails, Starting, Stop
    <2>2. built \in Nat
        BY <1>0, <2>1 DEF Stages
    <2>3. threads' \in BOOLEAN /\ (threads' => threads /\ built > 0)
        <3>1. threads \in BOOLEAN /\ (threads => built > 0)
            BY <1>0, <2>1 DEF Slots
        <3>2. threads' = FALSE \/ threads' = threads
            BY <2>1
        <3>3. CASE threads' = FALSE
            BY <3>3
        <3>4. CASE threads' = threads
            BY <3>1, <3>4
        <3> QED
            BY <3>2, <3>3, <3>4
    <2>4. nWorkers' \in Nat /\ (threads' <=> nWorkers' > 0)
        <3>1. CASE threads'
            BY <2>1, <2>2, <2>3, <3>1
        <3>2. CASE ~threads'
            BY <2>1, <3>2
        <3> QED
            BY <3>1, <3>2
    <2> QED
        BY <2>1, <2>3, <2>4 DEF Slots, InUse
<1>8. CASE Started
    <2>1. /\ UNCHANGED <<vars, format>> /\ pool' = "started"
          /\ nWorkers' = Cells(plan) /\ threads' = (Cells(plan) > 1)
        BY <1>8 DEF Started, Starting
    <2> QED
        BY <1>0, <2>1, SameGeometry DEF Slots, InUse
<1>9. CASE CloseCells
    BY <1>9 DEF CloseCells, Slots, InUse
<1>10. CASE JoinFailsAtClose
    BY <1>0, <1>10 DEF JoinFailsAtClose, Slots, InUse
<1> QED
    BY <1>1, <1>2, <1>3, <1>4, <1>5, <1>6, <1>7, <1>8, <1>9, <1>10 DEF CellsNext

LEMMA StorageNext ==
    ASSUME GridInv, Stages, Storage, [CellsNext]_<<vars, cellVars>>
    PROVE  Storage'
<1> USE DEF StorageMatchesPlan
<1>0. Cells(plan) \in Nat \ {0} /\ Slots /\ Slots'
    BY CellsAre, SlotsNext DEF Storage
<1> HIDE DEF Cells
<1>1. CASE OpenCells \/ \E a, b \in BOOLEAN : FirstCall(a, b)
    <2>1. /\ pool = "new" /\ held' = held /\ built' = built /\ pool' \in {"new", "starting"}
        BY <1>1 DEF OpenCells, Open, FirstCall, cellVars, Stages
    <2>2. held' = {} /\ built' = -1
        BY <2>1 DEF Stages
    <2> QED
        BY <1>0, <2>1, <2>2 DEF Storage
<1>2. CASE Gone \/ UNCHANGED <<vars, cellVars>>
    <2>1. UNCHANGED <<vars, format>> /\ UNCHANGED <<pool, nWorkers, threads, built, held>>
        BY <1>2 DEF Gone, cellVars
    <2> QED
        BY <1>0, <2>1, SameGeometry DEF Storage, CellStore
<1>3. CASE \/ NextCall \/ ReturnOk \/ ReturnFatal \/ DispatchFails
           \/ \E i \in Team : CopyIn(i) \/ Emit(i) \/ \E res \in {0, -1} : Resample(i, res)
    <2>1. UNCHANGED <<vars, format, built, held>> /\ pool = "started" /\ pool' \in {"started", "broken"}
        BY <1>3, SettledSteps DEF Settled
    <2> QED
        BY <1>0, <2>1, SameGeometry DEF Storage, CellStore
<1>4. CASE Allocate
    <2>1. /\ UNCHANGED <<vars, format, built, pool>> /\ pool = "starting" /\ Missing # {}
          /\ held' = held \cup {Needs[Min(Missing)]}
        BY <1>4 DEF Allocate, Starting
    <2>2. Needs[Min(Missing)] \in IF built = -1 THEN Range(SharedNeeds) ELSE Range(CellNeeds(built))
        BY <2>1, MissingIs, NeedsAre
    <2>3. built \in Nat \cup {-1}
        BY <1>0, <2>1 DEF Stages
    <2>4. held' \subseteq Range(SharedNeeds) \cup CellStore(built)
        BY <2>1, <2>2, <2>3, StoreGrows DEF Storage
    <2>5. CellStore(built)' = CellStore(built) /\ CellStore(built - 1)' = CellStore(built - 1)
        BY <2>1, SameGeometry DEF CellStore
    <2>6. SharedNeeds' = SharedNeeds
        BY <2>1, SameGeometry
    <2>7. built >= 0 => Range(SharedNeeds) \cup CellStore(built - 1) \subseteq held'
        BY <2>1 DEF Storage
    <2> QED
        BY <1>0, <2>1, <2>4, <2>5, <2>6, <2>7 DEF Storage
<1>5. CASE NextCell
    <2>1. /\ UNCHANGED <<vars, format, pool, held>> /\ pool = "starting" /\ Missing = {} /\ built' = built + 1
        BY <1>5 DEF NextCell, Starting
    <2>2. built \in Nat \cup {-1}
        BY <1>0, <2>1 DEF Stages
    <2>3. Range(Needs) \subseteq held
        BY <2>1, MissingIs
    <2>4. Range(SharedNeeds) \cup CellStore(built) \subseteq held
        <3>1. CASE built = -1
            BY <2>3, <3>1, NeedsAre, StoreGrows
        <3>2. CASE built # -1
            BY <2>1, <2>2, <2>3, <3>2, NeedsAre, StoreGrows DEF Storage
        <3> QED
            BY <3>1, <3>2
    <2>5. held \subseteq Range(SharedNeeds) \cup CellStore(built + 1)
        <3>1. built + 1 \in Nat \cup {-1} /\ built \in Int /\ built <= built + 1
            BY <2>2
        <3>2. CellStore(built) \subseteq CellStore(built + 1)
            BY <3>1, StoreGrows
        <3> QED
            BY <2>1, <3>2 DEF Storage
    <2>6. SharedNeeds' = SharedNeeds /\ \A n : CellStore(n)' = CellStore(n)
        BY <2>1, SameGeometry DEF CellStore
    <2>7. built' - 1 = built
        BY <2>1, <2>2
    <2>8. CellStore(built)' = CellStore(built + 1) /\ CellStore(built - 1)' = CellStore(built)
        BY <2>1, <2>6, <2>7, SameGeometry DEF CellStore
    <2> QED
        BY <1>0, <2>1, <2>4, <2>5, <2>6, <2>8 DEF Storage
<1>6. CASE SetupFails
    <2>1. /\ UNCHANGED <<vars, format, held, threads>> /\ pool = "starting" /\ pool' = "failed" /\ built = -1
        BY <1>6 DEF SetupFails, Starting
    <2>2. held \subseteq Range(SharedNeeds) /\ ~threads
        BY <1>0, <2>1, StoreGrows DEF Storage, Slots
    <2>3. SharedNeeds' = SharedNeeds
        BY <2>1, SameGeometry
    <2> QED
        BY <1>0, <2>1, <2>2, <2>3 DEF Storage
<1>7. CASE CellFails
    <2>1. /\ UNCHANGED <<vars, format>> /\ pool = "starting" /\ pool' \in {"failed", "stranded"}
          /\ built >= 0 /\ threads' \in {FALSE, threads} /\ nWorkers' = IF threads' THEN built ELSE 0
          /\ held' = held \ UNION {Released(i) : i \in nWorkers' .. built}
        BY <1>7 DEF CellFails, Starting, Stop
    <2>2. built \in Nat /\ built - 1 \in Nat \cup {-1}
        BY <1>0, <2>1 DEF Stages
    <2>3. CellStore(built) = CellStore(built - 1) \cup Range(CellNeeds(built))
        BY <2>2, StoreGrows
    <2>4. held \subseteq Range(SharedNeeds) \cup CellStore(built) /\ CellStore(built - 1) \subseteq held
        BY <2>1 DEF Storage
    <2>5. \A n : CellStore(n)' = CellStore(n)
        BY <2>1, SameGeometry DEF CellStore
    <2>6. SharedNeeds' = SharedNeeds
        BY <2>1, SameGeometry
    \* A thread is left: the cell that failed goes, those before it stay.
    <2>7. CASE threads'
        <3>1. UNION {Released(i) : i \in nWorkers' .. built} = Released(built)
            <4>1. nWorkers' .. built = {built}
                BY <2>1, <2>2, <2>7
            <4> QED
                BY <4>1
        <3>2. \A x \in CellStore(built - 1) : x \notin Released(built) /\ x \notin Range(SharedNeeds)
            <4>1. \A x \in CellStore(built - 1) : x[1] \in Kinds /\ x[2] \in 0 .. built - 1
                BY <2>2, StoreGrows
            <4> QED
                BY <2>2, <4>1, SharedNeedsAre DEF Released, Kinds, SharedKinds
        <3>3. \A x \in Range(CellNeeds(built)) : x \in held => x \in Released(built)
            BY CellNeedsAre DEF Released, Kinds
        <3>4. held' \ Range(SharedNeeds) = CellStore(built - 1)
            BY <2>1, <2>3, <2>4, <3>1, <3>2, <3>3
        <3>5. (held \ Range(SharedNeeds) = CellStore(nWorkers - 1))'
            BY <2>1, <2>5, <2>6, <2>7, <3>4
        <3> QED
            BY <1>0, <2>1, <2>7, <3>5 DEF Storage
    \* All are reaped, and all cells go.
    <2>8. CASE ~threads'
        <3>1. \A x \in CellStore(built) : x \in held => x \in UNION {Released(i) : i \in 0 .. built}
            BY <2>2, StoreGrows DEF Released, Kinds
        <3>2. held' \subseteq Range(SharedNeeds)
            BY <2>1, <2>4, <2>8, <3>1
        <3> QED
            BY <1>0, <2>1, <2>6, <2>8, <3>2 DEF Storage
    <2> QED
        BY <2>7, <2>8
<1>8. CASE Started
    <2>1. /\ UNCHANGED <<vars, format, held>> /\ pool = "starting" /\ pool' = "started" /\ Missing = {}
          /\ built = Cells(plan) - 1
        BY <1>8 DEF Started, Starting
    <2>2. built \in Nat
        BY <1>0, <2>1
    <2>3. Range(CellNeeds(built)) \subseteq held
        BY <2>1, <2>2, MissingIs, NeedsAre
    <2>4. held = Range(SharedNeeds) \cup CellStore(built)
        BY <2>1, <2>2, <2>3, StoreGrows DEF Storage
    <2>5. SharedNeeds' = SharedNeeds /\ Cells(plan)' = Cells(plan) /\ \A n : CellStore(n)' = CellStore(n)
        BY <2>1, SameGeometry DEF CellStore
    <2>6. CellStore(Cells(plan) - 1)' = CellStore(built)
        BY <2>1, <2>5
    <2> QED
        BY <1>0, <2>1, <2>4, <2>5, <2>6 DEF Storage
<1>9. CASE CloseCells
    <2>1. /\ pool' = "closed"
          /\ held' = (held \ UNION {Released(i) : i \in 0 .. nWorkers - 1}) \ {x \in held : x[1] \in SharedKinds}
          /\ pool \notin {"closed", "quarantined", "starting"}
        BY <1>9 DEF CloseCells, SharedKinds, Stages
    <2>2. nWorkers \in Nat /\ nWorkers - 1 \in Nat \cup {-1}
        BY <1>0 DEF Slots
    <2>3. held \subseteq Range(SharedNeeds) \cup CellStore(nWorkers - 1)
        <3>1. CASE pool \in {"started", "broken"}
            BY <1>0, <3>1 DEF Storage, Slots, InUse
        <3>2. CASE pool \in {"failed", "stranded"}
            BY <3>2 DEF Storage
        <3>3. CASE pool = "new"
            BY <3>3 DEF Storage
        <3> QED
            BY <2>1, <3>1, <3>2, <3>3 DEF Stages
    <2>4. \A x \in Range(SharedNeeds) : x[1] \in SharedKinds
        BY SharedNeedsAre
    <2>5. \A x \in CellStore(nWorkers - 1) : x \in held =>
              x \in UNION {Released(i) : i \in 0 .. nWorkers - 1}
        BY <2>2, StoreGrows DEF Released, Kinds
    <2>6. held' = {}
        BY <2>1, <2>3, <2>4, <2>5
    <2> QED
        BY <1>0, <2>1, <2>6 DEF Storage
<1>10. CASE JoinFailsAtClose
    <2>1. /\ UNCHANGED <<vars, format, held, nWorkers>> /\ threads /\ pool' = "quarantined"
          /\ pool \notin {"new", "starting", "closed", "quarantined"}
        BY <1>10 DEF JoinFailsAtClose, Stages
    <2>2. nWorkers > 0 /\ CellStore(nWorkers - 1) \subseteq held
        <3>1. CASE pool \in {"started", "broken"}
            BY <1>0, <3>1 DEF Storage, Slots, InUse
        <3>2. CASE pool \in {"failed", "stranded"}
            BY <1>0, <2>1, <3>2 DEF Storage, Slots
        <3> QED
            BY <2>1, <3>1, <3>2 DEF Stages
    <2>3. \A n : CellStore(n)' = CellStore(n)
        BY <2>1, SameGeometry DEF CellStore
    <2> QED
        BY <1>0, <2>1, <2>2, <2>3 DEF Storage
<1> QED
    BY <1>1, <1>2, <1>3, <1>4, <1>5, <1>6, <1>7, <1>8, <1>9, <1>10 DEF CellsNext

\* StorageMatchesPlan for every plan: whichever allocation, spawn or join fails, of
\* a failed start only the cells that an unreaped thread may use are left, whole,
\* and nothing at all after close.
THEOREM StorageAccounted == CellsSpec => []StorageMatchesPlan
<1>1. GridInv /\ Stages /\ Storage /\ [CellsNext]_<<vars, cellVars>> => Storage'
    BY StorageNext
<1>2. Storage => StorageMatchesPlan
    BY DEF Storage
<1> QED
    BY <1>1, <1>2, StorageInit, CellsStages, PTL DEF CellsSpec

-----------------------------------------------------------------------------
(* The workers of a frame. *)

\* The views of a frame: the pictures on the direct sides, scratch on the others.
CallView ==
    [src |-> IF plan.src THEN frame ELSE 0, vlcSrc |-> IF plan.src THEN 0 ELSE frame,
     dst |-> IF plan.dst THEN frame ELSE 0, vlcDst |-> IF plan.dst THEN 0 ELSE frame]

Workers == InUse =>
    /\ frame \in Nat \ {0} /\ view = CallView
    /\ step \in [Team -> {"copyIn", "resample", "emit", "done"}]
    /\ result \in [Team -> {0, -1}]
    /\ status = "ok" => \A i \in Team : step[i] = "done" /\ result[i] = 0
    /\ \A i \in Team : /\ step[i] = "copyIn" => ~plan.src
                       /\ step[i] = "emit" => ~plan.dst /\ result[i] = 0

LEMMA PlanKnown ==
    ASSUME GridInv
    PROVE  /\ plan.src \in BOOLEAN /\ plan.dst \in BOOLEAN
           /\ Tiled => plan.src /\ ~plan.dst
<1>1. CASE stage = "new"
    <2>1. plan = [rows |-> 1, cols |-> 1, src |-> FALSE, dst |-> FALSE]
        BY <1>1 DEF GridInv, NoPlan
    <2>2. plan.cols = 1 /\ ~plan.src /\ ~plan.dst
        BY <2>1
    <2>3. plan.src \in BOOLEAN /\ plan.dst \in BOOLEAN
        BY <2>1
    <2> QED
        BY <2>2, <2>3 DEF Tiled
<1>2. CASE stage # "new"
    BY <1>2, PlanSettles DEF GridInv, Resolved, PlanSettled, Tiled
<1> QED
    BY <1>1, <1>2

LEMMA Pointed ==
    ASSUME GridInv, UNCHANGED plan, view = NoView \/ view = CallView, Point
    PROVE  view' = CallView'
<1>1. view' = [view EXCEPT ![IF plan.src THEN "src" ELSE "vlcSrc"] = frame',
                           ![IF plan.dst THEN "dst" ELSE "vlcDst"] = frame']
    BY DEF Point
<1>2. PICK a, b, c, d : /\ view = [src |-> a, vlcSrc |-> b, dst |-> c, vlcDst |-> d]
                        /\ plan.src => b = 0
                        /\ ~plan.src => a = 0
                        /\ plan.dst => d = 0
                        /\ ~plan.dst => c = 0
    BY DEF NoView, CallView
<1>3. CASE plan.src /\ plan.dst
    <2>1. view' = [src |-> frame', vlcSrc |-> 0, dst |-> frame', vlcDst |-> 0]
        BY <1>1, <1>2, <1>3
    <2> QED
        BY <1>3, <2>1 DEF CallView
<1>4. CASE plan.src /\ ~plan.dst
    <2>1. view' = [src |-> frame', vlcSrc |-> 0, dst |-> 0, vlcDst |-> frame']
        BY <1>1, <1>2, <1>4
    <2> QED
        BY <1>4, <2>1 DEF CallView
<1>5. CASE ~plan.src /\ plan.dst
    <2>1. view' = [src |-> 0, vlcSrc |-> frame', dst |-> frame', vlcDst |-> 0]
        BY <1>1, <1>2, <1>5
    <2> QED
        BY <1>5, <2>1 DEF CallView
<1>6. CASE ~plan.src /\ ~plan.dst
    <2>1. view' = [src |-> 0, vlcSrc |-> frame', dst |-> 0, vlcDst |-> frame']
        BY <1>1, <1>2, <1>6
    <2> QED
        BY <1>6, <2>1 DEF CallView
<1> QED
    BY <1>3, <1>4, <1>5, <1>6

LEMMA WorkersInit == CellsInit => Workers
BY DEF CellsInit, Workers, InUse

\* Both ways of starting a frame.
LEMMA Armed ==
    ASSUME GridInv, UNCHANGED <<vars, format>>, view = NoView \/ view = CallView, Arm,
           frame' \in Nat \ {0}, result' \in [Team -> {0, -1}], status' = "busy"
    PROVE  Workers'
<1>1. Team' = Team /\ UNCHANGED plan
    BY SameGeometry DEF vars
<1>2. view' = CallView'
    BY <1>1, Pointed DEF Arm
<1>3. step' = [i \in Team |-> IF plan.src THEN "resample" ELSE "copyIn"]
    BY DEF Arm
<1> HIDE DEF Team
<1> QED
    BY <1>1, <1>2, <1>3 DEF Workers

LEMMA WorkersNext ==
    ASSUME GridInv, Stages, Workers, [CellsNext]_<<vars, cellVars>>
    PROVE  Workers'
<1>1. CASE \/ OpenCells \/ \E a, b \in BOOLEAN : FirstCall(a, b)
           \/ Allocate \/ NextCell \/ SetupFails \/ CellFails \/ CloseCells \/ JoinFailsAtClose
    <2>1. pool' \notin {"started", "broken"}
        BY <1>1 DEF OpenCells, Open, FirstCall, Allocate, NextCell, SetupFails, CellFails, Starting,
                    CloseCells, JoinFailsAtClose, cellVars, Stages
    <2> QED
        BY <2>1 DEF Workers, InUse
<1>2. CASE Gone \/ UNCHANGED <<vars, cellVars>>
    <2>1. /\ UNCHANGED <<vars, format>> /\ UNCHANGED <<pool, frame, status, view, step, result>>
        BY <1>2 DEF Gone, cellVars
    <2>2. Team' = Team /\ plan' = plan
        BY <2>1, SameGeometry DEF vars
    <2> HIDE DEF Team
    <2> QED
        BY <2>1, <2>2 DEF Workers, InUse, CallView
<1>3. CASE Started
    <2>1. /\ UNCHANGED <<vars, format, frame, status>> /\ pool = "starting" /\ Arm
          /\ result' = [i \in Team |-> 0]
        BY <1>3 DEF Started, Starting
    <2>2. frame' = 1 /\ status' = "busy" /\ view = NoView
        BY <2>1 DEF Stages
    <2>3. result' \in [Team -> {0, -1}]
        BY <2>1
    <2> QED
        BY <2>1, <2>2, <2>3, Armed
<1>4. CASE NextCall
    <2>1. /\ UNCHANGED <<vars, format, result>> /\ pool = "started" /\ Arm
          /\ frame' = frame + 1 /\ status' = "busy"
        BY <1>4 DEF NextCall
    <2>2. frame \in Nat \ {0} /\ view = CallView /\ result \in [Team -> {0, -1}]
        BY <2>1 DEF Workers, InUse
    <2>3. frame' \in Nat \ {0} /\ result' \in [Team -> {0, -1}]
        BY <2>1, <2>2
    <2> QED
        BY <2>1, <2>2, <2>3, Armed
<1>5. CASE ReturnOk \/ ReturnFatal \/ DispatchFails
    <2>1. /\ UNCHANGED <<vars, format>> /\ UNCHANGED <<frame, view, step, result>> /\ pool = "started"
          /\ status' = "ok" => \A i \in Team : step[i] = "done" /\ result[i] = 0
        BY <1>5 DEF ReturnOk, ReturnFatal, DispatchFails, Returning, AllRan
    <2>2. Team' = Team /\ plan' = plan
        BY <2>1, SameGeometry DEF vars
    <2> HIDE DEF Team
    <2> QED
        BY <2>1, <2>2 DEF Workers, InUse, CallView
<1>6. ASSUME NEW i \in Team, CopyIn(i) \/ Emit(i) \/ \E res \in {0, -1} : Resample(i, res)
      PROVE  Workers'
    <2>1. /\ UNCHANGED <<vars, format>> /\ UNCHANGED <<frame, status, view>>
          /\ pool = "started" /\ status = "busy"
        BY <1>6 DEF CopyIn, Emit, Resample, Working
    <2>2. Team' = Team /\ plan' = plan /\ CallView' = CallView
        BY <2>1, SameGeometry DEF vars, CallView
    <2>3. /\ frame \in Nat \ {0} /\ view = CallView
          /\ step \in [Team -> {"copyIn", "resample", "emit", "done"}] /\ result \in [Team -> {0, -1}]
          /\ \A j \in Team : (step[j] = "copyIn" => ~plan.src) /\ (step[j] = "emit" => ~plan.dst /\ result[j] = 0)
        BY <2>1 DEF Workers, InUse
    <2> HIDE DEF Team
    <2>4. CASE CopyIn(i)
        <3>1. step' = [step EXCEPT ![i] = "resample"] /\ result' = result
            BY <2>4 DEF CopyIn
        <3> QED
            BY <2>1, <2>2, <2>3, <3>1 DEF Workers
    <2>5. CASE Emit(i)
        <3>1. step' = [step EXCEPT ![i] = "done"] /\ result' = result
            BY <2>5 DEF Emit
        <3> QED
            BY <2>1, <2>2, <2>3, <3>1 DEF Workers
    <2>6. ASSUME NEW res \in {0, -1}, Resample(i, res)
          PROVE  Workers'
        <3>1. /\ result' = [result EXCEPT ![i] = res]
              /\ step' = [step EXCEPT ![i] = IF Emits(res) THEN "emit" ELSE "done"]
            BY <2>6 DEF Resample
        <3>2. Emits(res) => res = 0 /\ ~plan.dst
            BY PlanKnown DEF Emits
        <3>3. \/ Emits(res) /\ step' = [step EXCEPT ![i] = "emit"]
              \/ ~Emits(res) /\ step' = [step EXCEPT ![i] = "done"]
            BY <3>1
        <3> QED
            BY <2>1, <2>2, <2>3, <3>1, <3>2, <3>3 DEF Workers
    <2> QED
        BY <1>6, <2>4, <2>5, <2>6
<1> QED
    BY <1>1, <1>2, <1>3, <1>4, <1>5, <1>6 DEF CellsNext

\* Whatever the plan, the workers of a call are where the calls and steps put
\* them, and their views are of this frame's pictures.
THEOREM CellsWorkers == CellsSpec => []Workers
<1>1. GridInv /\ Stages /\ Workers /\ [CellsNext]_<<vars, cellVars>> => Workers'
    BY WorkersNext
<1> QED
    BY <1>1, WorkersInit, CellsStages, PTL DEF CellsSpec

-----------------------------------------------------------------------------
(* The memory of a frame. *)

\* Where cell i has sample q in its scratch.
Slot(i, q) == InScratch(i, Offset(q[1], i), q)

Pictures == {InPicture(frame, q) : q \in Samples}

\* Where a sample of cell i is: tiles have a buffer of their own, stripes use
\* the place it has in the picture.
LEMMA SlotIs ==
    ASSUME Placed, NEW i \in Team, NEW q \in Owned(i)
    PROVE  /\ q \in Samples /\ q = <<q[1], q[2], q[3]>> /\ q[2] \in Int /\ q[3] \in Int
           /\ InScratch(i, EmitOffset(q[1], i), q) = Slot(i, q)
           /\ cell[i].top[q[1]] \in Nat /\ cell[i].left[q[1]] \in Nat
           /\ Tiled => Slot(i, q) = <<"tile", i, q[1], q[2] - cell[i].top[q[1]], q[3] - cell[i].left[q[1]]>>
           /\ ~Tiled => Slot(i, q) = <<"dst", 0, q[1], q[2], q[3]>>
<1> DEFINE p == q[1]
<1>1. /\ q = <<q[1], q[2], q[3]>> /\ p \in Planes
      /\ q[2] \in cell[i].rows[p] /\ q[3] \in cell[i].cols[p]
    BY InOwned
<1>2. Fits(i, p)
    BY <1>1 DEF Placed
<1>3. /\ q[2] \in 0 .. Dim(p, geom.dstH, format.h) - 1 /\ q[3] \in 0 .. Dim(p, geom.dstW, format.w) - 1
      /\ cell[i].top[p] \in Nat /\ cell[i].left[p] \in Nat /\ (~Tiled => cell[i].left[p] = 0)
    BY <1>1, <1>2 DEF Fits
<1>4. q \in Samples
    BY <1>1, <1>3, InSamples
<1>5. q[2] \in Int /\ q[3] \in Int
    BY <1>3
<1>6. InScratch(i, EmitOffset(q[1], i), q) = Slot(i, q)
    BY DEF Slot, EmitOffset, Offset
<1>7. Tiled => Slot(i, q) = <<"tile", i, p, q[2] - cell[i].top[p], q[3] - cell[i].left[p]>>
    <2>1. ASSUME Tiled PROVE 0 + q[2] - cell[i].top[p] = q[2] - cell[i].top[p]
        BY <1>3, <1>5
    <2> QED
        BY <2>1 DEF Slot, InScratch, Offset
<1>8. ~Tiled => Slot(i, q) = <<"dst", 0, p, q[2], q[3]>>
    <2>1. ASSUME ~Tiled
          PROVE  cell[i].top[p] + q[2] - cell[i].top[p] = q[2] /\ q[3] - cell[i].left[p] = q[3]
        BY <1>3, <1>5, <2>1
    <2> QED
        BY <2>1 DEF Slot, InScratch, Offset
<1> QED
    BY <1>1, <1>3, <1>4, <1>5, <1>6, <1>7, <1>8

\* No two samples share a place, in scratch or in the picture.
LEMMA SlotsApart ==
    ASSUME Placed, NEW i \in Team, NEW j \in Team, NEW q \in Owned(i), NEW s \in Owned(j)
    PROVE  /\ Slot(i, q) = Slot(j, s) => i = j /\ q = s
           /\ \A k : InPicture(k, q) = InPicture(k, s) => i = j /\ q = s
<1>1. /\ q = <<q[1], q[2], q[3]>> /\ s = <<s[1], s[2], s[3]>>
      /\ q[2] \in Int /\ q[3] \in Int /\ s[2] \in Int /\ s[3] \in Int
      /\ cell[i].top[q[1]] \in Nat /\ cell[i].left[q[1]] \in Nat
    BY SlotIs
<1>2. q = s => i = j
    BY DEF Placed
<1>3. ASSUME NEW k, InPicture(k, q) = InPicture(k, s) PROVE q = s
    <2>1. q[1] = s[1] /\ q[2] = s[2] /\ q[3] = s[3]
        BY <1>3 DEF InPicture
    <2> QED
        BY <1>1, <2>1
<1>4. ASSUME Slot(i, q) = Slot(j, s) PROVE i = j /\ q = s
    <2>1. CASE Tiled
        <3>1. <<"tile", i, q[1], q[2] - cell[i].top[q[1]], q[3] - cell[i].left[q[1]]>>
                = <<"tile", j, s[1], s[2] - cell[j].top[s[1]], s[3] - cell[j].left[s[1]]>>
            BY <1>4, <2>1, SlotIs
        <3>2. /\ i = j /\ q[1] = s[1] /\ q[2] - cell[i].top[q[1]] = s[2] - cell[j].top[s[1]]
              /\ q[3] - cell[i].left[q[1]] = s[3] - cell[j].left[s[1]]
            BY <3>1
        <3>3. q[2] = s[2] /\ q[3] = s[3]
            BY <1>1, <3>2
        <3> QED
            BY <1>1, <3>2, <3>3
    <2>2. CASE ~Tiled
        <3>1. <<"dst", 0, q[1], q[2], q[3]>> = <<"dst", 0, s[1], s[2], s[3]>>
            BY <1>4, <2>2, SlotIs
        <3>2. q[1] = s[1] /\ q[2] = s[2] /\ q[3] = s[3]
            BY <3>1
        <3> QED
            BY <1>1, <1>2, <3>2
    <2> QED
        BY <2>1, <2>2
<1> QED
    BY <1>2, <1>3, <1>4

\* A slot is in the scratch of the plan.
LEMMA SlotHeld ==
    ASSUME Placed, NEW i \in Team, NEW q \in Owned(i), ~plan.dst
    PROVE  Slot(i, q) \in Scratch
<1> DEFINE p == q[1]
<1>1. /\ q \in Samples /\ q = <<q[1], q[2], q[3]>>
      /\ Tiled => Slot(i, q) = <<"tile", i, p, q[2] - cell[i].top[p], q[3] - cell[i].left[p]>>
      /\ ~Tiled => Slot(i, q) = <<"dst", 0, p, q[2], q[3]>>
    BY SlotIs
<1>2. p \in Planes /\ q[2] \in cell[i].rows[p] /\ q[3] \in cell[i].cols[p]
    BY InOwned
<1>3. /\ q[2] - cell[i].top[p] \in 0 .. Cardinality(cell[i].rows[p]) - 1
      /\ q[3] - cell[i].left[p] \in 0 .. Cardinality(cell[i].cols[p]) - 1
    BY <1>2 DEF Placed, Fits
<1>4. CASE Tiled
    <2> DEFINE T(x, z) == {"tile"} \X {x} \X {z} \X (0 .. Cardinality(cell[x].rows[z]) - 1)
                                  \X (0 .. Cardinality(cell[x].cols[z]) - 1)
    <2>1. Slot(i, q) \in T(i, p)
        BY <1>1, <1>3, <1>4
    <2>2. UNION {T(x, z) : x \in Team, z \in Planes} \subseteq Scratch
        BY <1>4 DEF Scratch
    <2> HIDE DEF T
    <2>3. Slot(i, q) \in UNION {T(x, z) : x \in Team, z \in Planes}
        BY <1>2, <2>1
    <2> QED
        BY <2>2, <2>3
<1>5. CASE ~Tiled
    BY <1>1, <1>5 DEF Scratch
<1> QED
    BY <1>4, <1>5

LEMMA RowHeld ==
    ASSUME NEW i, NEW x \in OwnedRows(i), ~plan.src
    PROVE  InRow(x[1], x[2]) \in Scratch
BY DEF OwnedRows, Scratch

\* The kinds of addresses.
LEMMA KindsApart ==
    ASSUME Placed, NEW i \in Team, NEW q \in Owned(i)
    PROVE  /\ \A p, r : InRow(p, r) # Slot(i, q)
           /\ \A p, r, k, s : InRow(p, r) # InPicture(k, s)
           /\ \A k, s : InPicture(k, s) # Slot(i, q)
<1>1. Slot(i, q)[1] \in {"tile", "dst"}
    BY SlotIs
<1>2. \A p, r : InRow(p, r)[1] = "src"
    BY DEF InRow
<1>3. \A k, s : InPicture(k, s)[1] = "pic"
    BY DEF InPicture
<1> QED
    BY <1>1, <1>2, <1>3

\* What the next step of a worker writes and reads.
LEMMA Accesses ==
    ASSUME GridInv, Placed, frame \in Nat \ {0}, view = CallView, NEW i \in Team
    PROVE  /\ step[i] = "copyIn" => /\ Writes(i) = {InRow(x[1], x[2]) : x \in OwnedRows(i)}
                                    /\ Reads(i) = {}
           /\ step[i] = "resample" =>
                 /\ plan.dst => Writes(i) = {InPicture(frame, q) : q \in Owned(i)}
                 /\ ~plan.dst => Writes(i) = {Slot(i, q) : q \in Owned(i)}
                 /\ Reads(i) = IF plan.src THEN {} ELSE {InRow(x[1], x[2]) : x \in OwnedRows(i)}
           /\ step[i] = "emit" /\ ~plan.dst =>
                 /\ Writes(i) = {InPicture(frame, q) : q \in Owned(i)}
                 /\ Reads(i) = {Slot(i, q) : q \in Owned(i)}
           /\ step[i] = "done" => Writes(i) = {} /\ Reads(i) = {}
           /\ plan.dst => \A q : Output(i, q) = InPicture(frame, q)
           /\ ~plan.dst => \A q : Output(i, q) = Slot(i, q)
<1>1. plan.src \in BOOLEAN /\ plan.dst \in BOOLEAN /\ frame # 0
    BY PlanKnown
<1>2. /\ view.src = IF plan.src THEN frame ELSE 0
      /\ view.dst = IF plan.dst THEN frame ELSE 0
      /\ ~plan.dst => view.vlcDst = frame
    BY DEF CallView
<1>3. /\ plan.dst => \A q : Output(i, q) = InPicture(frame, q)
      /\ ~plan.dst => \A q : Output(i, q) = Slot(i, q)
    BY <1>1, <1>2 DEF Output, Slot
<1>4. step[i] = "copyIn" => Writes(i) = {InRow(x[1], x[2]) : x \in OwnedRows(i)} /\ Reads(i) = {}
    BY DEF Writes, Reads
<1>5. step[i] = "resample" => /\ Writes(i) = {Output(i, q) : q \in Owned(i)}
                              /\ Reads(i) = IF plan.src THEN {} ELSE {InRow(x[1], x[2]) : x \in OwnedRows(i)}
    BY <1>1, <1>2 DEF Writes, Reads
<1>6. step[i] = "emit" => /\ Writes(i) = {InPicture(view.vlcDst, q) : q \in Owned(i)}
                          /\ Reads(i) = {InScratch(i, EmitOffset(q[1], i), q) : q \in Owned(i)}
    BY DEF Writes, Reads
<1>7. \A q \in Owned(i) : InScratch(i, EmitOffset(q[1], i), q) = Slot(i, q)
    BY SlotIs
<1>8. step[i] = "done" => Writes(i) = {} /\ Reads(i) = {}
    BY DEF Writes, Reads
<1>9. step[i] = "resample" => /\ plan.dst => Writes(i) = {InPicture(frame, q) : q \in Owned(i)}
                              /\ ~plan.dst => Writes(i) = {Slot(i, q) : q \in Owned(i)}
    BY <1>3, <1>5
<1>10. step[i] = "emit" /\ ~plan.dst => /\ Writes(i) = {InPicture(frame, q) : q \in Owned(i)}
                                        /\ Reads(i) = {Slot(i, q) : q \in Owned(i)}
    BY <1>2, <1>6, <1>7
<1> QED
    BY <1>3, <1>4, <1>5, <1>8, <1>9, <1>10

\* What two workers may do at the same time.
LEMMA CellsApart ==
    ASSUME GridInv, Sampling, Stages, Workers, pool = "started"
    PROVE  \A i \in Team : /\ Writes(i) \cup Reads(i) \subseteq Scratch \cup Pictures
                           /\ \A j \in Team \ {i} : Writes(i) \cap (Writes(j) \cup Reads(j)) = {}
<1>1. Placed
    <2>1. \A i \in Team : cell[i] = CellOf(i)
        BY DEF Stages, InUse, Team
    <2> QED
        BY <2>1, CellsPlaced
<1>2. /\ frame \in Nat \ {0} /\ view = CallView
      /\ step \in [Team -> {"copyIn", "resample", "emit", "done"}]
      /\ \A i \in Team : (step[i] = "copyIn" => ~plan.src) /\ (step[i] = "emit" => ~plan.dst)
    BY DEF Workers, InUse
<1>3. (plan.src \in BOOLEAN) /\ (plan.dst \in BOOLEAN) /\ (Tiled => plan.src)
    BY PlanKnown
<1> DEFINE SourceOf(i) == {InRow(x[1], x[2]) : x \in OwnedRows(i)}
           ScratchOf(i) == {Slot(i, q) : q \in Owned(i)}
           PictureOf(i) == {InPicture(frame, q) : q \in Owned(i)}
\* A step of a worker writes one area and reads another.
<1>4. ASSUME NEW i \in Team
      PROVE  \/ Writes(i) = SourceOf(i) /\ Reads(i) = {} /\ ~plan.src
             \/ Writes(i) = PictureOf(i) /\ Reads(i) = {} /\ plan.src /\ plan.dst
             \/ Writes(i) = PictureOf(i) /\ Reads(i) = SourceOf(i) /\ ~plan.src /\ plan.dst
             \/ Writes(i) = ScratchOf(i) /\ Reads(i) = {} /\ plan.src /\ ~plan.dst
             \/ Writes(i) = ScratchOf(i) /\ Reads(i) = SourceOf(i) /\ ~plan.src /\ ~plan.dst
             \/ Writes(i) = PictureOf(i) /\ Reads(i) = ScratchOf(i) /\ ~plan.dst
             \/ Writes(i) = {} /\ Reads(i) = {}
    <2>1. step[i] \in {"copyIn", "resample", "emit", "done"}
        BY <1>2
    <2>2. CASE step[i] = "copyIn"
        BY <1>1, <1>2, <2>2, Accesses
    <2>3. CASE step[i] = "resample"
        BY <1>1, <1>2, <1>3, <2>3, Accesses
    <2>4. CASE step[i] = "emit"
        BY <1>1, <1>2, <2>4, Accesses
    <2>5. CASE step[i] = "done"
        BY <1>1, <1>2, <2>5, Accesses
    <2> QED
        BY <2>1, <2>2, <2>3, <2>4, <2>5
<1>5. ASSUME NEW i \in Team
      PROVE  /\ ~plan.src => SourceOf(i) \subseteq Scratch
             /\ ~plan.dst => ScratchOf(i) \subseteq Scratch
             /\ PictureOf(i) \subseteq Pictures
    BY <1>1, RowHeld, SlotHeld, SlotIs DEF Pictures
<1>6. ASSUME NEW i \in Team, NEW j \in Team, i # j
      PROVE  /\ ~plan.src => SourceOf(i) \cap SourceOf(j) = {}
             /\ ScratchOf(i) \cap ScratchOf(j) = {} /\ PictureOf(i) \cap PictureOf(j) = {}
             /\ SourceOf(i) \cap ScratchOf(j) = {} /\ SourceOf(i) \cap PictureOf(j) = {} /\ ScratchOf(i) \cap PictureOf(j) = {}
             /\ ScratchOf(i) \cap SourceOf(j) = {} /\ PictureOf(i) \cap SourceOf(j) = {} /\ PictureOf(i) \cap ScratchOf(j) = {}
    <2>1. ~plan.src => SourceOf(i) \cap SourceOf(j) = {}
        <3> SUFFICES ASSUME ~plan.src, NEW x \in OwnedRows(i), NEW z \in OwnedRows(j), InRow(x[1], x[2]) = InRow(z[1], z[2])
                     PROVE  FALSE
            OBVIOUS
        <3>1. x[1] = z[1] /\ x[2] = z[2]
            BY DEF InRow
        <3>2. x[1] \in Planes /\ x[2] \in cell[i].src[x[1]] /\ x[2] \in cell[j].src[x[1]]
            BY <3>1, InOwnedRows
        <3> QED
            BY <1>1, <1>3, <1>6, <3>2 DEF Placed
    <2>2. ScratchOf(i) \cap ScratchOf(j) = {} /\ PictureOf(i) \cap PictureOf(j) = {}
        BY <1>1, <1>6, SlotsApart
    <2>3. /\ SourceOf(i) \cap ScratchOf(j) = {} /\ SourceOf(i) \cap PictureOf(j) = {} /\ ScratchOf(i) \cap PictureOf(j) = {}
          /\ ScratchOf(i) \cap SourceOf(j) = {} /\ PictureOf(i) \cap SourceOf(j) = {} /\ PictureOf(i) \cap ScratchOf(j) = {}
        BY <1>1, KindsApart
    <2> QED
        BY <2>1, <2>2, <2>3
<1> HIDE DEF SourceOf, ScratchOf, PictureOf
<1>7. ASSUME NEW i \in Team
      PROVE  Writes(i) \cup Reads(i) \subseteq Scratch \cup Pictures
    BY <1>4, <1>5
<1>8. ASSUME NEW i \in Team, NEW j \in Team \ {i}
      PROVE  Writes(i) \cap (Writes(j) \cup Reads(j)) = {}
    <2>1. i # j
        OBVIOUS
    <2> QED
        BY <1>4, <1>6, <2>1
<1> QED
    BY <1>7, <1>8

\* NoConflict for every plan, format and number of cells.
THEOREM CellsNeverConflict == CellsSpec => []NoConflict
<1>1. GridInv /\ Sampling /\ Stages /\ Workers => NoConflict
    BY CellsApart DEF NoConflict, Pictures
<1> QED
    BY <1>1, CellsStages, CellsWorkers, PTL

-----------------------------------------------------------------------------
(* What the memory holds. *)

Memory == InUse =>
    /\ Scratch \cup Pictures \subseteq DOMAIN mem
    /\ \A i \in Team :
        /\ ~plan.src /\ step[i] # "copyIn" =>
              \A x \in OwnedRows(i) : mem[InRow(x[1], x[2])] = SourceRow(frame, x[1], x[2])
        /\ step[i] = "emit" =>
              \A q \in Owned(i) : mem[Slot(i, q)] = Sample(frame, q)
        /\ step[i] = "done" /\ result[i] = 0 =>
              \A q \in Owned(i) : mem[InPicture(frame, q)] = Sample(frame, q)
    /\ ~plan.dst => \A q \in Samples : mem[InPicture(frame, q)] \in {Blank, Sample(frame, q)}

LEMMA WrittenIs ==
    ASSUME NEW f, NEW g
    PROVE  /\ DOMAIN Written(f, g) = DOMAIN f \cup DOMAIN g
           /\ \A a \in DOMAIN f : Written(f, g)[a] = f[a]
           /\ \A a \in DOMAIN g \ DOMAIN f : Written(f, g)[a] = g[a]
BY DEF Written

LEMMA Overwrites ==
    ASSUME NEW f, NEW g, NEW h, NEW S, h = Written(f, g), DOMAIN f = S
    PROVE  /\ DOMAIN g \subseteq DOMAIN h
           /\ \A a \in S : h[a] = f[a]
           /\ \A a \in DOMAIN g \ S : h[a] = g[a]
<1>1. /\ DOMAIN Written(f, g) = DOMAIN f \cup DOMAIN g
      /\ \A a \in DOMAIN f : Written(f, g)[a] = f[a]
      /\ \A a \in DOMAIN g \ DOMAIN f : Written(f, g)[a] = g[a]
    BY ONLY WrittenIs
<1> QED
    BY <1>1

LEMMA SameMemoryMap ==
    ASSUME UNCHANGED <<vars, format>>, UNCHANGED <<cell, frame>>
    PROVE  /\ Scratch' = Scratch /\ Pictures' = Pictures /\ Team' = Team /\ Samples' = Samples
           /\ \A i : /\ OwnedRows(i)' = OwnedRows(i) /\ Owned(i)' = Owned(i)
                     /\ \A q : Slot(i, q)' = Slot(i, q)
           /\ plan' = plan
<1>1. /\ Team' = Team /\ Samples' = Samples /\ Tiled' = Tiled /\ plan' = plan /\ geom' = geom
      /\ format' = format
    BY SameGeometry DEF vars
<1>2. SourceRows' = SourceRows
    BY <1>1 DEF SourceRows, Dim
<1> HIDE DEF Team, Samples, Tiled
<1>3. Scratch' = Scratch
    BY <1>1, <1>2 DEF Scratch
<1>4. Pictures' = Pictures
    BY <1>1 DEF Pictures
<1>5. \A i : OwnedRows(i)' = OwnedRows(i) /\ Owned(i)' = Owned(i)
    BY <1>2 DEF OwnedRows, Owned
<1>6. \A i, q : Slot(i, q)' = Slot(i, q)
    BY <1>1 DEF Slot, InScratch, Offset
<1> QED
    BY <1>1, <1>3, <1>4, <1>5, <1>6

\* The graph of a cell whose source rows are those of the frame makes its samples.
LEMMA MadeIs ==
    ASSUME GridInv, Placed, frame \in Nat \ {0}, view = CallView, NEW i \in Team, NEW q \in Owned(i),
           ~plan.src => \A x \in OwnedRows(i) : mem[InRow(x[1], x[2])] = SourceRow(frame, x[1], x[2])
    PROVE  Made(i, q) = Sample(frame, q)
<1> DEFINE p == q[1]
<1>1. p \in Planes
    BY InOwned
<1>2. Min(cell[i].src[p]) \in cell[i].src[p] /\ cell[i].src[p] \subseteq 0 .. Dim(p, geom.srcH, format.h) - 1
    BY <1>1 DEF Placed, Fits
<1>3. view.src = IF plan.src THEN frame ELSE 0
    BY DEF CallView
<1>4. ASSUME NEW r \in cell[i].src[p]
      PROVE  Input(p, r) = SourceRow(frame, p, r)
    <2>1. CASE plan.src
        <3>1. view.src = frame /\ frame # 0
            BY <1>3, <2>1
        <3> QED
            BY <3>1 DEF Input
    <2>2. CASE ~plan.src
        <3> DEFINE x == <<p, r>>
        <3>1. x = <<x[1], x[2]>> /\ x[1] = p /\ x[2] = r
            OBVIOUS
        <3>2. x \in OwnedRows(i)
            BY <1>1, <1>2, <3>1, InOwnedRows
        <3> HIDE DEF x
        <3>3. mem[InRow(p, r)] = SourceRow(frame, p, r)
            BY <2>2, <3>1, <3>2
        <3> QED
            BY <1>3, <2>2, <3>3 DEF Input
    <2> QED
        BY <2>1, <2>2
<1>5. Input(p, Min(cell[i].src[p]))[1] = frame
    BY <1>2, <1>4 DEF SourceRow
<1> QED
    BY <1>4, <1>5 DEF Made

LEMMA MemoryInit == CellsInit => Memory
BY DEF CellsInit, Memory, InUse

LEMMA ArmedMemory ==
    ASSUME UNCHANGED <<vars, format, cell>>, Arm
    PROVE  Memory'
<1>1. /\ Team' = Team /\ Samples' = Samples /\ plan' = plan
    BY SameGeometry DEF vars
<1>2. /\ SourceRows' = SourceRows
      /\ Scratch' = Scratch
    <2>1. SourceRows' = SourceRows
        BY DEF SourceRows, Dim, vars
    <2>2. Tiled' = Tiled
        BY SameGeometry
    <2> HIDE DEF Team, Samples, Tiled
    <2> QED
        BY <1>1, <2>1, <2>2 DEF Scratch
<1>3. /\ step' = [i \in Team |-> IF plan.src THEN "resample" ELSE "copyIn"]
      /\ mem' = Written([a \in {InPicture(frame', q) : q \in Samples} |-> Blank],
                        [a \in Scratch |-> IF a \in DOMAIN mem THEN mem[a] ELSE Junk])
    BY DEF Arm
<1> DEFINE pics == {InPicture(frame', q) : q \in Samples}
           f == [a \in pics |-> Blank]
           g == [a \in Scratch |-> IF a \in DOMAIN mem THEN mem[a] ELSE Junk]
<1>4. DOMAIN f = pics /\ DOMAIN g = Scratch /\ \A a \in pics : f[a] = Blank
    OBVIOUS
<1>5. mem' = Written(f, g)
    BY <1>3
<1> HIDE DEF f, g
<1>6. DOMAIN mem' = pics \cup Scratch /\ \A a \in pics : mem'[a] = Blank
    <2>1. DOMAIN Written(f, g) = DOMAIN f \cup DOMAIN g /\ \A a \in DOMAIN f : Written(f, g)[a] = f[a]
        BY ONLY WrittenIs
    <2> QED
        BY <1>4, <1>5, <2>1
<1>7. Pictures' = pics
    BY <1>1 DEF Pictures
<1>8. \A i \in Team : step'[i] = IF plan.src THEN "resample" ELSE "copyIn"
    BY <1>3
<1>9. \A q \in Samples : mem'[InPicture(frame', q)] = Blank
    BY <1>6
<1> HIDE DEF pics, Team, Samples
<1> QED
    BY <1>1, <1>2, <1>6, <1>7, <1>8, <1>9 DEF Memory

LEMMA MemoryNext ==
    ASSUME GridInv, Sampling, Stages, Workers, Memory, [CellsNext]_<<vars, cellVars>>
    PROVE  Memory'
<1>1. CASE \/ OpenCells \/ \E a, b \in BOOLEAN : FirstCall(a, b)
           \/ Allocate \/ NextCell \/ SetupFails \/ CellFails \/ CloseCells \/ JoinFailsAtClose
    <2>1. pool' \notin {"started", "broken"}
        BY <1>1 DEF OpenCells, Open, FirstCall, Allocate, NextCell, SetupFails, CellFails, Starting,
                    CloseCells, JoinFailsAtClose, cellVars, Stages
    <2> QED
        BY <2>1 DEF Memory, InUse
<1>2. CASE Started \/ NextCall
    <2>1. UNCHANGED <<vars, format, cell>> /\ Arm
        BY <1>2 DEF Started, Starting, NextCall
    <2> QED
        BY <2>1, ArmedMemory
<1>3. CASE Gone \/ ReturnOk \/ ReturnFatal \/ DispatchFails \/ UNCHANGED <<vars, cellVars>>
    <2>1. /\ UNCHANGED <<vars, format>> /\ UNCHANGED <<cell, frame>> /\ UNCHANGED <<step, result, mem>>
          /\ InUse' => InUse
        BY <1>3 DEF Gone, ReturnOk, ReturnFatal, DispatchFails, Returning, cellVars, InUse
    <2>2. /\ Scratch' = Scratch /\ Pictures' = Pictures /\ Team' = Team /\ Samples' = Samples
          /\ \A i : /\ OwnedRows(i)' = OwnedRows(i) /\ Owned(i)' = Owned(i)
                    /\ \A q : Slot(i, q)' = Slot(i, q)
          /\ plan' = plan
        BY <2>1, SameMemoryMap
    <2> HIDE DEF InUse, Scratch, Pictures, Team, Samples, OwnedRows, Owned, Slot
    <2> QED
        BY <2>1, <2>2 DEF Memory
<1>4. ASSUME NEW i \in Team, CopyIn(i) \/ Emit(i) \/ \E res \in {0, -1} : Resample(i, res)
      PROVE  Memory'
    <2>1. /\ UNCHANGED <<vars, format>> /\ UNCHANGED <<cell, frame>> /\ pool = "started"
        BY <1>4 DEF CopyIn, Emit, Resample, Working
    <2>2. /\ Scratch' = Scratch /\ Pictures' = Pictures /\ Team' = Team /\ Samples' = Samples
          /\ \A j : /\ OwnedRows(j)' = OwnedRows(j) /\ Owned(j)' = Owned(j)
                    /\ \A q : Slot(j, q)' = Slot(j, q)
          /\ plan' = plan /\ frame' = frame
        BY <2>1, SameMemoryMap
    <2>3. /\ frame \in Nat \ {0} /\ view = CallView
          /\ step \in [Team -> {"copyIn", "resample", "emit", "done"}] /\ result \in [Team -> {0, -1}]
          /\ \A j \in Team : (step[j] = "copyIn" => ~plan.src) /\ (step[j] = "emit" => ~plan.dst /\ result[j] = 0)
        BY <2>1 DEF Workers, InUse
    <2>4. Placed
        <3>1. \A j \in Team : cell[j] = CellOf(j)
            BY <2>1 DEF Stages, InUse, Team
        <3> QED
            BY <3>1, CellsPlaced
    <2>5. /\ Scratch \cup Pictures \subseteq DOMAIN mem
          /\ \A j \in Team :
                /\ ~plan.src /\ step[j] # "copyIn" =>
                      \A x \in OwnedRows(j) : mem[InRow(x[1], x[2])] = SourceRow(frame, x[1], x[2])
                /\ step[j] = "emit" =>
                      \A q \in Owned(j) : mem[Slot(j, q)] = Sample(frame, q)
                /\ step[j] = "done" /\ result[j] = 0 =>
                      \A q \in Owned(j) : mem[InPicture(frame, q)] = Sample(frame, q)
          /\ ~plan.dst => \A q \in Samples : mem[InPicture(frame, q)] \in {Blank, Sample(frame, q)}
        BY <2>1 DEF Memory, InUse
    <2>6. ASSUME NEW j \in Team
          PROVE  /\ ~plan.src => \A x \in OwnedRows(j) : InRow(x[1], x[2]) \in DOMAIN mem
                 /\ ~plan.dst => \A q \in Owned(j) : Slot(j, q) \in DOMAIN mem
                 /\ \A q \in Owned(j) : InPicture(frame, q) \in DOMAIN mem
        BY <2>4, <2>5, RowHeld, SlotHeld, SlotIs DEF Pictures
    <2>7. \A q \in Samples : InPicture(frame, q) \in DOMAIN mem
        BY <2>5 DEF Pictures
    <2> DEFINE SourceOf(j) == {InRow(x[1], x[2]) : x \in OwnedRows(j)}
               ScratchOf(j) == {Slot(j, q) : q \in Owned(j)}
               PictureOf(j) == {InPicture(frame, q) : q \in Owned(j)}
    <2>8. ASSUME NEW j \in Team
          PROVE  /\ \A x \in OwnedRows(j) : /\ InRow(x[1], x[2]) \notin ScratchOf(i)
                                            /\ InRow(x[1], x[2]) \notin PictureOf(i)
                 /\ \A q \in Owned(j) : /\ Slot(j, q) \notin SourceOf(i) /\ Slot(j, q) \notin PictureOf(i)
                                        /\ j # i => Slot(j, q) \notin ScratchOf(i)
                                        /\ j # i => InPicture(frame, q) \notin PictureOf(i)
        BY <2>4, SlotsApart, KindsApart
    <2>9. \A q \in Samples : InPicture(frame, q) \notin SourceOf(i) /\ InPicture(frame, q) \notin ScratchOf(i)
        <3>1. \A q, p, r : InPicture(frame, q) # InRow(p, r)
            BY DEF InPicture, InRow
        <3>2. \A q : \A s \in Owned(i) : InPicture(frame, q) # Slot(i, s)
            BY <2>4, KindsApart
        <3> QED
            BY <3>1, <3>2
    <2>10. Owned(i) \subseteq Samples /\ \A j \in Team : Owned(j) \subseteq Samples
        BY <2>4, SlotIs
    <2> HIDE DEF Scratch, Pictures, Team, Samples, OwnedRows, Owned, Slot
    <2>11. CASE CopyIn(i)
        <3>1. /\ step[i] = "copyIn" /\ step' = [step EXCEPT ![i] = "resample"] /\ result' = result
              /\ mem' = Written([a \in Writes(i) |-> SourceRow(view.vlcSrc, a[3], a[4])], mem)
            BY <2>11 DEF CopyIn
        <3>2. Writes(i) = SourceOf(i) /\ ~plan.src
            BY <2>3, <2>4, <3>1, Accesses
        <3>3. view.vlcSrc = frame
            BY <2>3, <3>2 DEF CallView
        <3> DEFINE f == [a \in Writes(i) |-> SourceRow(view.vlcSrc, a[3], a[4])]
        <3>4. DOMAIN f = SourceOf(i)
            BY <3>2
        <3>14. mem' = Written(f, mem)
            BY <3>1
        <3>5. \A x \in OwnedRows(i) : f[InRow(x[1], x[2])] = SourceRow(frame, x[1], x[2])
            <4> SUFFICES ASSUME NEW x \in OwnedRows(i) PROVE f[InRow(x[1], x[2])] = SourceRow(frame, x[1], x[2])
                OBVIOUS
            <4>1. InRow(x[1], x[2])[3] = x[1] /\ InRow(x[1], x[2])[4] = x[2]
                BY DEF InRow
            <4>2. InRow(x[1], x[2]) \in Writes(i)
                BY <3>2
            <4> QED
                BY <3>3, <4>1, <4>2
        <3> HIDE DEF f, SourceOf, ScratchOf, PictureOf
        <3>6. /\ DOMAIN mem \subseteq DOMAIN mem'
              /\ \A a \in SourceOf(i) : mem'[a] = f[a]
              /\ \A a \in DOMAIN mem \ SourceOf(i) : mem'[a] = mem[a]
            BY ONLY <3>4, <3>14, Overwrites
        <3>7. ASSUME NEW j \in Team, step'[j] # "copyIn", NEW x \in OwnedRows(j)
              PROVE  mem'[InRow(x[1], x[2])] = SourceRow(frame, x[1], x[2])
            <4>1. CASE j = i
                BY <3>5, <3>6, <4>1 DEF SourceOf
            <4>2. CASE j # i
                <5>1. step[j] # "copyIn"
                    BY <2>3, <3>1, <3>7, <4>2
                <5>2. mem[InRow(x[1], x[2])] = SourceRow(frame, x[1], x[2])
                    BY <2>5, <3>2, <5>1
                <5>3. InRow(x[1], x[2]) \notin SourceOf(i)
                    <6> SUFFICES ASSUME NEW z \in OwnedRows(i), InRow(x[1], x[2]) = InRow(z[1], z[2]) PROVE FALSE
                        BY DEF SourceOf
                    <6>1. x[1] = z[1] /\ x[2] = z[2]
                        BY DEF InRow
                    <6>2. x[1] \in Planes /\ x[2] \in cell[i].src[x[1]] /\ x[2] \in cell[j].src[x[1]]
                        BY <6>1, InOwnedRows
                    <6> QED
                        BY <2>4, <3>2, <4>2, <6>2, PlanKnown DEF Placed
                <5> QED
                    BY <2>6, <3>2, <3>6, <5>2, <5>3
            <4> QED
                BY <4>1, <4>2
        <3>8. ASSUME NEW j \in Team, step'[j] \in {"emit", "done"}
              PROVE  step'[j] = step[j] /\ j # i
            BY <2>3, <3>1, <3>8
        <3>9. ASSUME NEW j \in Team, step'[j] = "emit", NEW q \in Owned(j)
              PROVE  mem'[Slot(j, q)] = Sample(frame, q)
            <4>1. step[j] = "emit" /\ ~plan.dst
                BY <2>3, <3>8, <3>9
            <4> QED
                BY <2>5, <2>6, <2>8, <3>6, <4>1
        <3>10. \A q \in Samples : mem'[InPicture(frame, q)] = mem[InPicture(frame, q)]
            BY <2>7, <2>9, <3>6
        <3>11. ASSUME NEW j \in Team, step'[j] = "done", result'[j] = 0, NEW q \in Owned(j)
               PROVE  mem'[InPicture(frame, q)] = Sample(frame, q)
            <4>1. step[j] = "done" /\ result[j] = 0
                BY <3>1, <3>8, <3>11
            <4> QED
                BY <2>5, <2>10, <3>10, <4>1
        <3>12. ~plan.dst => \A q \in Samples : mem'[InPicture(frame, q)] \in {Blank, Sample(frame, q)}
            BY <2>5, <3>10
        <3>13. Scratch \cup Pictures \subseteq DOMAIN mem'
            BY <2>5, <3>6
        <3> QED
            BY <2>2, <3>7, <3>9, <3>11, <3>12, <3>13 DEF Memory
    <2>12. CASE Emit(i)
        <3>1. /\ step[i] = "emit" /\ step' = [step EXCEPT ![i] = "done"] /\ result' = result
              /\ mem' = Written([a \in Writes(i) |->
                                   LET q == <<a[3], a[4], a[5]>>
                                   IN  mem[InScratch(i, EmitOffset(q[1], i), q)]], mem)
            BY <2>12 DEF Emit
        <3>2. Writes(i) = PictureOf(i) /\ ~plan.dst
            BY <2>3, <2>4, <3>1, Accesses
        <3> DEFINE f == [a \in Writes(i) |->
                           LET q == <<a[3], a[4], a[5]>>
                           IN  mem[InScratch(i, EmitOffset(q[1], i), q)]]
        <3>3. DOMAIN f = PictureOf(i)
            BY <3>2
        <3>12. mem' = Written(f, mem)
            BY <3>1
        <3>4. \A q \in Owned(i) : f[InPicture(frame, q)] = Sample(frame, q)
            <4> SUFFICES ASSUME NEW q \in Owned(i) PROVE f[InPicture(frame, q)] = Sample(frame, q)
                OBVIOUS
            <4> DEFINE a == InPicture(frame, q)
            <4>1. a \in Writes(i)
                BY <3>2
            <4>2. <<a[3], a[4], a[5]>> = q
                <5>1. a[3] = q[1] /\ a[4] = q[2] /\ a[5] = q[3]
                    BY DEF InPicture
                <5> QED
                    BY <2>4, <5>1, SlotIs
            <4>3. InScratch(i, EmitOffset(q[1], i), q) = Slot(i, q)
                BY <2>4, SlotIs
            <4>4. mem[Slot(i, q)] = Sample(frame, q)
                BY <2>5, <3>1
            <4> HIDE DEF a
            <4>5. f[a] = mem[InScratch(i, EmitOffset(q[1], i), q)]
                BY <4>1, <4>2
            <4> QED
                BY <4>3, <4>4, <4>5 DEF a
        <3> HIDE DEF f, SourceOf, ScratchOf, PictureOf
        <3>5. /\ DOMAIN mem \subseteq DOMAIN mem'
              /\ \A a \in PictureOf(i) : mem'[a] = f[a]
              /\ \A a \in DOMAIN mem \ PictureOf(i) : mem'[a] = mem[a]
            BY ONLY <3>3, <3>12, Overwrites
        <3>6. \A q \in Owned(i) : mem'[InPicture(frame, q)] = Sample(frame, q)
            BY <3>4, <3>5 DEF PictureOf
        <3>7. ASSUME NEW j \in Team, ~plan.src, step'[j] # "copyIn", NEW x \in OwnedRows(j)
              PROVE  mem'[InRow(x[1], x[2])] = SourceRow(frame, x[1], x[2])
            <4>1. step[j] # "copyIn"
                BY <2>3, <3>1, <3>7
            <4> QED
                BY <2>5, <2>6, <2>8, <3>5, <3>7, <4>1
        <3>8. ASSUME NEW j \in Team, step'[j] = "emit", NEW q \in Owned(j)
              PROVE  mem'[Slot(j, q)] = Sample(frame, q)
            <4>1. step[j] = "emit"
                BY <2>3, <3>1, <3>8
            <4> QED
                BY <2>5, <2>6, <2>8, <3>2, <3>5, <4>1
        <3>9. ASSUME NEW j \in Team, step'[j] = "done", result'[j] = 0, NEW q \in Owned(j)
              PROVE  mem'[InPicture(frame, q)] = Sample(frame, q)
            <4>1. CASE j = i
                BY <3>6, <4>1
            <4>2. CASE j # i
                <5>1. step[j] = "done" /\ result[j] = 0
                    BY <2>3, <3>1, <3>9, <4>2
                <5> QED
                    BY <2>5, <2>6, <2>8, <3>5, <4>2, <5>1
            <4> QED
                BY <4>1, <4>2
        <3>10. ASSUME NEW q \in Samples
               PROVE  mem'[InPicture(frame, q)] \in {Blank, Sample(frame, q)}
            <4>1. CASE InPicture(frame, q) \in PictureOf(i)
                <5>1. PICK s \in Owned(i) : InPicture(frame, q) = InPicture(frame, s)
                    BY <4>1 DEF PictureOf
                <5>2. q[1] = s[1] /\ q[2] = s[2] /\ q[3] = s[3]
                    BY <5>1 DEF InPicture
                <5>3. Sample(frame, q) = Sample(frame, s)
                    BY <5>2 DEF Sample
                <5> QED
                    BY <3>6, <5>1, <5>3
            <4>2. CASE InPicture(frame, q) \notin PictureOf(i)
                BY <2>5, <2>7, <3>2, <3>5, <4>2
            <4> QED
                BY <4>1, <4>2
        <3>11. Scratch \cup Pictures \subseteq DOMAIN mem'
            BY <2>5, <3>5
        <3> QED
            BY <2>2, <3>7, <3>8, <3>9, <3>10, <3>11 DEF Memory
    <2>13. ASSUME NEW res \in {0, -1}, Resample(i, res)
           PROVE  Memory'
        <3> DEFINE f == [a \in Writes(i) |->
                           IF res # 0 THEN Junk ELSE Made(i, CHOOSE q \in Owned(i) : Output(i, q) = a)]
        <3>1. /\ step[i] = "resample" /\ step' = [step EXCEPT ![i] = IF Emits(res) THEN "emit" ELSE "done"]
              /\ result' = [result EXCEPT ![i] = res]
              /\ mem' = Written(f, mem)
            BY <2>13 DEF Resample
        <3>2. /\ plan.dst => Writes(i) = PictureOf(i) /\ \A q : Output(i, q) = InPicture(frame, q)
              /\ ~plan.dst => Writes(i) = ScratchOf(i) /\ \A q : Output(i, q) = Slot(i, q)
            BY <2>3, <2>4, <3>1, Accesses
        <3>3. (plan.dst \in BOOLEAN) /\ (Emits(res) <=> res = 0 /\ ~plan.dst)
            BY PlanKnown DEF Emits
        <3>4. DOMAIN f = Writes(i)
            OBVIOUS
        <3>13. mem' = Written(f, mem)
            BY <3>1
        <3>5. ASSUME res = 0, NEW q \in Owned(i)
              PROVE  Output(i, q) \in Writes(i) /\ f[Output(i, q)] = Sample(frame, q)
            <4>1. Output(i, q) \in Writes(i)
                BY <3>2, <3>3
            <4>2. \A s \in Owned(i) : Output(i, s) = Output(i, q) => s = q
                BY <2>4, <3>2, <3>3, SlotsApart
            <4>3. (CHOOSE s \in Owned(i) : Output(i, s) = Output(i, q)) = q
                BY <4>2
            <4>4. Made(i, q) = Sample(frame, q)
                BY <2>3, <2>4, <2>5, <3>1, MadeIs
            <4>5. f[Output(i, q)] = Made(i, CHOOSE s \in Owned(i) : Output(i, s) = Output(i, q))
                BY <3>5, <4>1
            <4> QED
                BY <4>1, <4>3, <4>4, <4>5
        <3> HIDE DEF f, SourceOf, ScratchOf, PictureOf
        <3>6. /\ DOMAIN mem \subseteq DOMAIN mem'
              /\ \A a \in Writes(i) : mem'[a] = f[a]
              /\ \A a \in DOMAIN mem \ Writes(i) : mem'[a] = mem[a]
            BY ONLY <3>4, <3>13, Overwrites
        <3>7. \A j \in Team : /\ j # i => step'[j] = step[j] /\ result'[j] = result[j]
                              /\ j = i => /\ step'[j] \in {"emit", "done"} /\ result'[j] = res
                                          /\ step'[j] = "emit" => res = 0 /\ ~plan.dst
                                          /\ step'[j] = "done" => res # 0 \/ plan.dst
            BY <2>3, <3>1, <3>3
        <3>8. ASSUME NEW j \in Team, ~plan.src, step'[j] # "copyIn", NEW x \in OwnedRows(j)
              PROVE  mem'[InRow(x[1], x[2])] = SourceRow(frame, x[1], x[2])
            <4>1. step[j] # "copyIn"
                BY <3>1, <3>7, <3>8
            <4>2. InRow(x[1], x[2]) \notin Writes(i)
                BY <2>8, <3>2, <3>3
            <4> QED
                BY <2>5, <2>6, <3>6, <3>8, <4>1, <4>2
        <3>9. ASSUME NEW j \in Team, step'[j] = "emit", NEW q \in Owned(j)
              PROVE  mem'[Slot(j, q)] = Sample(frame, q)
            <4>1. CASE j = i
                <5>1. res = 0 /\ ~plan.dst
                    BY <3>7, <3>9, <4>1
                <5> QED
                    BY <3>2, <3>5, <3>6, <4>1, <5>1
            <4>2. CASE j # i
                <5>1. step[j] = "emit" /\ ~plan.dst
                    BY <2>3, <3>7, <3>9, <4>2
                <5>2. Slot(j, q) \notin Writes(i)
                    BY <2>8, <3>2, <4>2, <5>1
                <5> QED
                    BY <2>5, <2>6, <3>6, <5>1, <5>2
            <4> QED
                BY <4>1, <4>2
        <3>10. ASSUME NEW j \in Team, step'[j] = "done", result'[j] = 0, NEW q \in Owned(j)
               PROVE  mem'[InPicture(frame, q)] = Sample(frame, q)
            <4>1. CASE j = i
                <5>1. res = 0 /\ plan.dst
                    BY <3>7, <3>10, <4>1
                <5> QED
                    BY <3>2, <3>5, <3>6, <4>1, <5>1
            <4>2. CASE j # i
                <5>1. step[j] = "done" /\ result[j] = 0
                    BY <3>7, <3>10, <4>2
                <5>2. InPicture(frame, q) \notin Writes(i)
                    BY <2>8, <2>9, <2>10, <3>2, <3>3, <4>2
                <5> QED
                    BY <2>5, <2>6, <3>6, <5>1, <5>2
            <4> QED
                BY <4>1, <4>2
        <3>11. ASSUME ~plan.dst, NEW q \in Samples
               PROVE  mem'[InPicture(frame, q)] \in {Blank, Sample(frame, q)}
            BY <2>5, <2>7, <2>9, <3>2, <3>6, <3>11
        <3>12. Scratch \cup Pictures \subseteq DOMAIN mem'
            BY <2>5, <3>6
        <3> QED
            BY <2>2, <3>8, <3>9, <3>10, <3>11, <3>12 DEF Memory
    <2> QED
        BY <1>4, <2>11, <2>12, <2>13
<1> QED
    BY <1>1, <1>2, <1>3, <1>4 DEF CellsNext

\* OnlyFinished for every plan, format and number of cells: Memory says it of
\* every step of every worker, and of backends that a failure broke.
THEOREM CellsOnlyFinished == CellsSpec => []OnlyFinished
<1>1. GridInv /\ Sampling /\ Stages /\ Workers /\ Memory /\ [CellsNext]_<<vars, cellVars>> => Memory'
    BY MemoryNext
<1>2. Memory => OnlyFinished
    BY DEF Memory, InUse, OnlyFinished
<1> QED
    BY <1>1, <1>2, MemoryInit, CellsStages, CellsWorkers, PTL DEF CellsSpec

\* A call returns OK only when every cell is done, and between them they own
\* every sample; nothing touches the frame after that but the next call.
LEMMA FrameCompleteNext ==
    ASSUME GridInv, Sampling, Stages, Workers, Memory, FrameComplete, [CellsNext]_<<vars, cellVars>>
    PROVE  FrameComplete'
<1>1. CASE \/ OpenCells \/ \E a, b \in BOOLEAN : FirstCall(a, b)
           \/ Allocate \/ NextCell \/ SetupFails \/ CellFails \/ Started \/ NextCall
           \/ ReturnFatal \/ DispatchFails
           \/ \E i \in Team : CopyIn(i) \/ Emit(i) \/ \E res \in {0, -1} : Resample(i, res)
    <2>1. status' # "ok"
        BY <1>1 DEF OpenCells, Open, FirstCall, Allocate, NextCell, SetupFails, CellFails, Started,
                    Starting, NextCall, ReturnFatal, DispatchFails, CopyIn, Emit, Resample, Working,
                    cellVars, Stages
    <2> QED
        BY <2>1 DEF FrameComplete
<1>2. CASE ReturnOk
    <2>1. /\ UNCHANGED <<vars, format>> /\ UNCHANGED <<frame, mem>> /\ pool = "started"
          /\ \A i \in Team : step[i] = "done" /\ result[i] = 0
        BY <1>2 DEF ReturnOk, Returning, AllRan
    <2>2. \A i \in Team : cell[i] = CellOf(i)
        BY <2>1 DEF Stages, InUse, Team
    <2>3. \A q \in Samples : \E i \in Team : q \in Owned(i)
        BY <2>2, CellsPlaced DEF Placed
    <2>4. \A i \in Team : \A q \in Owned(i) : mem[InPicture(frame, q)] = Sample(frame, q)
        BY <2>1 DEF Memory, InUse
    <2>5. Samples' = Samples
        BY <2>1, SameGeometry
    <2> HIDE DEF Samples, Team, Owned
    <2> QED
        BY <2>1, <2>3, <2>4, <2>5 DEF FrameComplete
<1>3. CASE Gone \/ CloseCells \/ JoinFailsAtClose \/ UNCHANGED <<vars, cellVars>>
    <2>1. UNCHANGED <<vars, format>> /\ UNCHANGED <<frame, mem, status>>
        BY <1>3 DEF Gone, CloseCells, JoinFailsAtClose, cellVars
    <2>2. Samples' = Samples
        BY <2>1, SameGeometry
    <2> HIDE DEF Samples
    <2> QED
        BY <2>1, <2>2 DEF FrameComplete
<1> QED
    BY <1>1, <1>2, <1>3 DEF CellsNext

\* FrameComplete for every plan, format and number of cells: whichever of the
\* copying, direct and tiled paths made it, a frame reported scaled is whole.
THEOREM CellsCompleteFrames == CellsSpec => []FrameComplete
<1>1. CellsInit => FrameComplete
    BY DEF CellsInit, FrameComplete
<1>2. GridInv /\ Sampling /\ Stages /\ Workers /\ Memory /\ [CellsNext]_<<vars, cellVars>> => Memory'
    BY MemoryNext
<1>3. GridInv /\ Sampling /\ Stages /\ Workers /\ Memory /\ FrameComplete /\ [CellsNext]_<<vars, cellVars>>
        => FrameComplete'
    BY FrameCompleteNext
<1> QED
    BY <1>1, <1>2, <1>3, MemoryInit, CellsStages, CellsWorkers, PTL DEF CellsSpec

-----------------------------------------------------------------------------
(* The filter sees one step per call. *)

\* The plan does no more than it was asked for.
Wanted == (plan.src => wantSrc) /\ (plan.dst => wantDst)

LEMMA SeenIs ==
    ASSUME Request, NEW x \in BOOLEAN, NEW z \in BOOLEAN
    PROVE  /\ Resolve(x, z).src = x
           /\ Resolve(x, z).dst => z
           /\ Seen(Resolve(x, z)) = [src |-> x, tiled |-> x /\ SeenOptions.wide,
                                     dst |-> z /\ ~(x /\ SeenOptions.wide)]
<1> DEFINE G(c) == Grid(Capped(budget), geom, minRows, c)
           cmin == IF x THEN minCols ELSE 0
           p == Resolve(x, z)
           o == Resolve(TRUE, FALSE)
<1>1. G(cmin).cols = p.cols /\ p.src = x /\ p.dst = (z /\ p.cols = 1)
    <2>1. /\ G(cmin) = [rows |-> p.rows, cols |-> p.cols]
          /\ p.src = x /\ p.dst = (z /\ p.cols = 1)
        BY ResolveResolves
    <2> HIDE DEF G, p, cmin
    <2> QED
        BY <2>1
<1>2. o.cols = G(minCols).cols
    <2>1. G(minCols) = [rows |-> o.rows, cols |-> o.cols]
        BY ResolveResolves
    <2> HIDE DEF G, o
    <2> QED
        BY <2>1
<1>3. Capped(budget) \in Nat \ {0} /\ cmin \in {0, minCols}
    BY CapBounds DEF Request
<1>4. PICK r \in Rows(Capped(budget)) : G(cmin) = [rows |-> r, cols |-> ColsFor(Capped(budget), r, cmin)]
    BY <1>3, GridIs
<1>5. r \in 1 .. Capped(budget)
    BY <1>3, RowsAre
<1>6. p.cols \in Nat \ {0} /\ (~x => p.cols = 1)
    <2>1. ~x => cmin = 0
        OBVIOUS
    <2>2. G(cmin).cols = ColsFor(Capped(budget), r, cmin)
        BY <1>4
    <2> HIDE DEF G, p, cmin
    <2>3. /\ ColsFor(Capped(budget), r, cmin) \in 1 .. Capped(budget)
          /\ cmin = 0 => ColsFor(Capped(budget), r, cmin) = 1
        BY <1>3, <1>5, ColsForIs
    <2> QED
        BY <1>1, <1>3, <2>1, <2>2, <2>3
<1>7. SeenOptions.wide = (o.cols > 1)
    BY DEF SeenOptions
<1> HIDE DEF G, p, o
<1>8. x => p.cols = o.cols
    BY <1>1, <1>2
<1>9. ((p.cols > 1) = (x /\ SeenOptions.wide)) /\ ((p.cols = 1) = ~(p.cols > 1))
    <2>1. (p.cols = 1) = ~(p.cols > 1)
        BY <1>6
    <2>2. x => ((p.cols > 1) = SeenOptions.wide)
        BY <1>7, <1>8
    <2>3. ~x => ~(p.cols > 1)
        BY <1>6
    <2> DEFINE w == SeenOptions.wide
               t == p.cols > 1
    <2>4. w \in BOOLEAN /\ t \in BOOLEAN
        BY <1>7
    <2>5. (x => (t = w)) /\ (~x => ~t)
        BY <2>2, <2>3
    <2> HIDE DEF w, t
    <2>6. t = (x /\ w)
        BY <2>4, <2>5
    <2> QED
        BY <2>1, <2>6 DEF w, t
<1>10. Seen(p) = [src |-> x, tiled |-> x /\ SeenOptions.wide, dst |-> z /\ ~(x /\ SeenOptions.wide)]
    BY <1>1, <1>9 DEF Seen
<1> QED
    BY <1>1, <1>10 DEF p

LEMMA WantedNext == GridInv /\ Wanted /\ [Next]_vars => Wanted'
<1> SUFFICES ASSUME GridInv, Wanted, [Next]_vars PROVE Wanted'
    OBVIOUS
<1>1. CASE Open
    <2>1. Request /\ wantSrc \in BOOLEAN /\ wantDst \in BOOLEAN
        BY DEF GridInv, Request
    <2>2. plan' = Resolve(wantSrc, wantDst) /\ UNCHANGED <<wantSrc, wantDst>>
        BY <1>1 DEF Open
    <2> QED
        BY <2>1, <2>2, SeenIs DEF Wanted
<1>2. ASSUME NEW a \in BOOLEAN, NEW b \in BOOLEAN, FirstFrame(a, b) PROVE Wanted'
    <2>1. Request /\ wantSrc \in BOOLEAN /\ wantDst \in BOOLEAN
        BY DEF GridInv, Request
    <2>2. plan' = Resolve(wantSrc /\ a, wantDst /\ b) /\ UNCHANGED <<wantSrc, wantDst>>
        BY <1>2 DEF FirstFrame
    <2> DEFINE x == wantSrc /\ a
               z == wantDst /\ b
    <2>3. x \in BOOLEAN /\ z \in BOOLEAN
        BY <2>1
    <2>4. Resolve(x, z).src = x /\ (Resolve(x, z).dst => z)
        BY <2>1, <2>3, SeenIs
    <2> QED
        BY <2>2, <2>4 DEF Wanted
<1>3. CASE Running \/ UNCHANGED vars
    BY <1>3 DEF Running, vars, Wanted
<1> QED
    BY <1>1, <1>2, <1>3 DEF Next

\* What the filter sees of a plan in use is what its own rule makes of some
\* storage that fits it.
LEMMA PlanSeen ==
    ASSUME GridInv, Wanted, stage = "running"
    PROVE  LET direct == wantSrc /\ plan.src
               tiled  == direct /\ SeenOptions.wide
           IN  Seen(plan) = [src |-> direct, tiled |-> tiled, dst |-> wantDst /\ plan.dst /\ ~tiled]
<1>1. Request /\ plan.src \in BOOLEAN /\ plan.dst \in BOOLEAN /\ wantSrc \in BOOLEAN /\ wantDst \in BOOLEAN
    BY DEF GridInv, Resolved, Request
<1>2. Resolve(plan.src, plan.dst) = plan
    BY PlanSettles DEF PlanSettled
<1>3. Seen(plan) = [src |-> plan.src, tiled |-> plan.src /\ SeenOptions.wide,
                    dst |-> plan.dst /\ ~(plan.src /\ SeenOptions.wide)]
    BY <1>1, <1>2, SeenIs
<1>4. (wantSrc /\ plan.src) = plan.src /\ (wantDst /\ plan.dst) = plan.dst
    BY <1>1 DEF Wanted
<1> QED
    BY <1>3, <1>4

\* A call that gets as far as the pool is one on pictures that fit the plan.
LEMMA CallFits ==
    ASSUME GridInv, Wanted, stage = "running", SeenPriv = "zimg", SeenPool \in {"new", "started"},
           SeenPool # "new" => SeenPlan = Seen(plan),
           SeenPlan' = Seen(plan), SeenOptions' = SeenOptions, SeenPriv' = "zimg"
    PROVE  \E s, d \in Backend!Storage : Backend!Fits(s, d)
<1> DEFINE s == IF plan.src THEN "aligned" ELSE "skewed"
           d == IF plan.dst THEN "aligned" ELSE "skewed"
<1>1. plan.src \in BOOLEAN /\ plan.dst \in BOOLEAN
    BY DEF GridInv, Resolved
<1>2. /\ s \in Backend!Storage /\ d \in Backend!Storage /\ Backend!Usable(s, d)
      /\ (s = "aligned") = plan.src /\ (d = "aligned") = plan.dst
    BY <1>1 DEF Backend!Storage, Backend!Usable
<1> HIDE DEF s, d
<1>3. SeenOptions.src = wantSrc /\ SeenOptions.dst = wantDst
    BY DEF SeenOptions
<1>4. Backend!Resolve(s = "aligned", d = "aligned") = Seen(plan)
    BY <1>2, <1>3, PlanSeen DEF Backend!Resolve
<1>5. Backend!PlanFor(s, d) = Seen(plan)
    BY <1>4 DEF Backend!PlanFor
<1>6. Seen(plan).src = plan.src /\ Seen(plan).dst = plan.dst
    BY DEF Seen
<1>7. Backend!Safe(Backend!PlanFor(s, d), s, d)
    BY <1>2, <1>5, <1>6 DEF Backend!Safe
<1>8. ~Backend!Dead
    BY DEF Backend!Dead
<1>9. Backend!Fits(s, d)
    BY <1>2, <1>5, <1>7, <1>8 DEF Backend!Fits
<1> QED
    BY <1>2, <1>9

LEMMA OpenPlan ==
    ASSUME Request
    PROVE  Seen(Resolve(wantSrc, wantDst)) = Backend!Resolve(TRUE, TRUE)
<1>1. wantSrc \in BOOLEAN /\ wantDst \in BOOLEAN
    BY DEF Request
<1>2. Seen(Resolve(wantSrc, wantDst)) = [src |-> wantSrc, tiled |-> wantSrc /\ SeenOptions.wide,
                                         dst |-> wantDst /\ ~(wantSrc /\ SeenOptions.wide)]
    BY <1>1, SeenIs
<1>3. SeenOptions.src = wantSrc /\ SeenOptions.dst = wantDst
    BY DEF SeenOptions
<1>4. (SeenOptions.src /\ TRUE) = wantSrc /\ (SeenOptions.dst /\ TRUE) = wantDst
    BY <1>1, <1>3
<1> QED
    BY <1>2, <1>4 DEF Backend!Resolve

LEMMA RequestStays ==
    ASSUME [Next]_vars
    PROVE  SeenOptions' = SeenOptions /\ Resolve(wantSrc, wantDst)' = Resolve(wantSrc, wantDst)
<1>1. UNCHANGED <<budget, geom, minRows, minCols, wantSrc, wantDst>>
    BY DEF Next, Open, FirstFrame, Running, vars
<1> QED
    BY <1>1 DEF SeenOptions, Resolve, Capped

LEMMA BackendInit == CellsInit => Backend!ZimgInit
<1> SUFFICES ASSUME CellsInit PROVE Backend!ZimgInit
    OBVIOUS
<1>1. GridInv /\ Request /\ stage = "new" /\ pool = "new" /\ wantSrc \in BOOLEAN /\ wantDst \in BOOLEAN
    BY GridInit DEF CellsInit, Init, GridInv
<1>2. SeenPriv = "none" /\ SeenPool = "new"
    BY <1>1 DEF SeenPriv, SeenPool
<1>3. SeenPlan = Backend!Resolve(TRUE, TRUE)
    BY <1>1, OpenPlan DEF SeenPlan
<1>4. SeenOptions \in [src : BOOLEAN, dst : BOOLEAN, wide : BOOLEAN]
    BY <1>1 DEF SeenOptions
<1> QED
    BY <1>2, <1>3, <1>4 DEF Backend!ZimgInit

LEMMA BackendNext ==
    ASSUME GridInv, Wanted, Stages, Workers, [CellsNext]_<<vars, cellVars>>
    PROVE  [Backend!ZimgNext]_(Backend!zimgVars)
<1>0. SeenOptions' = SeenOptions /\ Resolve(wantSrc, wantDst)' = Resolve(wantSrc, wantDst)
    BY StepOfGrid, RequestStays
<1> DEFINE Same == SeenPriv' = SeenPriv /\ SeenPool' = SeenPool /\ SeenPlan' = SeenPlan
<1>1. Same => UNCHANGED Backend!zimgVars
    BY <1>0 DEF Backend!zimgVars
<1>2. CASE OpenCells
    <2>1. /\ stage = "new" /\ stage' = "opened" /\ pool = "new" /\ pool' = "new" /\ status' = status
          /\ Request
        BY <1>2 DEF OpenCells, Open, cellVars, Stages, GridInv
    <2>2. SeenPriv = "none" /\ SeenPriv' = "zimg" /\ SeenPool' = "new"
        BY <2>1 DEF SeenPriv, SeenPool
    <2>3. SeenPlan' = Backend!Resolve(TRUE, TRUE)
        BY <1>0, <2>1, OpenPlan DEF SeenPlan, Seen
    <2> QED
        BY <1>0, <2>2, <2>3 DEF Backend!ZimgNext, Backend!ZimgOpen
<1>3. CASE \E a, b \in BOOLEAN : FirstCall(a, b)
    <2>1. stage = "opened" /\ stage' = "running" /\ pool = "new" /\ pool' = "starting"
        BY <1>3 DEF FirstCall, FirstFrame
    <2>2. FirstCallRuns'
        BY <2>1 DEF FirstCallRuns
    <2>3. SeenPriv' = SeenPriv /\ SeenPool' = SeenPool
        BY <2>1 DEF SeenPriv, SeenPool
    <2>4. SeenPlan' = SeenPlan
        BY <1>0, <2>1, <2>2 DEF SeenPlan, Seen
    <2> QED
        BY <1>1, <2>3, <2>4
<1>4. CASE Allocate \/ NextCell \/ Started
    <2>1. /\ UNCHANGED <<vars, frame, status>> /\ pool = "starting" /\ pool' \in {"starting", "started"}
        BY <1>4 DEF Allocate, NextCell, Started, Starting
    <2>2. status = "busy" /\ frame = 1
        BY <2>1 DEF Stages
    <2>3. FirstCallRuns /\ FirstCallRuns' /\ stage' = stage
        BY <2>1, <2>2 DEF FirstCallRuns, vars
    <2>4. SeenPriv' = SeenPriv /\ SeenPool' = SeenPool
        BY <2>1, <2>3 DEF SeenPriv, SeenPool
    <2>5. SeenPlan' = SeenPlan
        BY <1>0, <2>3 DEF SeenPlan, Seen
    <2> QED
        BY <1>1, <2>4, <2>5
\* A later call, the steps of the workers, and what comes after the end.
<1>5. CASE \/ NextCall \/ Gone \/ UNCHANGED <<vars, cellVars>>
           \/ \E i \in Team : CopyIn(i) \/ Emit(i) \/ \E res \in {0, -1} : Resample(i, res)
    <2>1. /\ UNCHANGED <<stage, plan, pool>>
          /\ \/ UNCHANGED <<frame, status>>
             \/ pool = "started" /\ status = "ok" /\ frame' = frame + 1
        BY <1>5 DEF NextCall, Gone, CopyIn, Emit, Resample, Working, vars, cellVars
    <2>2. FirstCallRuns' = FirstCallRuns
        <3>1. CASE UNCHANGED <<frame, status>>
            BY <2>1, <3>1 DEF FirstCallRuns
        <3>2. CASE pool = "started" /\ status = "ok" /\ frame' = frame + 1
            <4>1. frame \in Nat \ {0}
                BY <3>2 DEF Workers, InUse
            <4>2. frame' # 1
                BY <3>2, <4>1
            <4> QED
                BY <2>1, <3>2, <4>2 DEF FirstCallRuns
        <3> QED
            BY <2>1, <3>1, <3>2
    <2>3. SeenPriv' = SeenPriv /\ SeenPool' = SeenPool
        BY <2>1, <2>2 DEF SeenPriv, SeenPool
    <2>4. SeenPlan' = SeenPlan
        BY <1>0, <2>1, <2>2 DEF SeenPlan, Seen
    <2> QED
        BY <1>1, <2>3, <2>4
\* The end of a call, however it ends.
<1>6. CASE SetupFails \/ CellFails \/ ReturnOk \/ ReturnFatal \/ DispatchFails
    <2>1. /\ UNCHANGED <<stage, plan>> /\ status' \in {"ok", "fatal"}
          /\ \/ pool = "starting" /\ pool' = "failed"
             \/ pool = "starting" /\ pool' = "stranded"
             \/ pool = "started" /\ pool' \in {"started", "broken"}
        BY <1>6 DEF SetupFails, CellFails, ReturnOk, ReturnFatal, DispatchFails, Starting, Returning, vars
    <2>2. stage = "running" /\ ~FirstCallRuns'
        BY <2>1 DEF Stages, FirstCallRuns
    <2>3. SeenPriv = "zimg" /\ SeenPriv' = "zimg"
        BY <2>1, <2>2 DEF SeenPriv
    <2>4. /\ pool = "starting" => SeenPool = "new"
          /\ SeenPool \in {"new", "started"}
          /\ SeenPool' = IF pool' = "stranded" THEN "broken" ELSE pool'
        BY <2>1, <2>2 DEF SeenPool, FirstCallRuns
    <2>5. SeenPlan' = Seen(plan) /\ (SeenPool # "new" => SeenPlan = Seen(plan))
        BY <2>1, <2>2 DEF SeenPlan, SeenPool, Seen
    <2>6. PICK s, d \in Backend!Storage : Backend!Fits(s, d)
        BY <1>0, <2>2, <2>3, <2>4, <2>5, CallFits
    <2>7. \/ Backend!StartFails(s, d) \/ Backend!Scales(s, d) \/ Backend!Tears(s, d)
        BY <2>1, <2>4, <2>6 DEF Backend!StartFails, Backend!Scales, Backend!Tears
    <2> QED
        BY <2>6, <2>7 DEF Backend!ZimgNext, Backend!ZimgProcess
<1>7. CASE CloseCells \/ JoinFailsAtClose
    <2>1. /\ UNCHANGED <<stage, plan>> /\ status # "busy" /\ pool' \in {"closed", "quarantined"}
          /\ pool \notin {"closed", "quarantined"} /\ stage # "new"
        BY <1>7 DEF CloseCells, JoinFailsAtClose, Stages, vars
    <2>2. ~FirstCallRuns /\ ~FirstCallRuns'
        BY <2>1 DEF FirstCallRuns, Stages
    <2>3. SeenPriv = "zimg" /\ SeenPriv' = "none" /\ SeenPool' = "new"
        BY <2>1 DEF SeenPriv, SeenPool
    <2>4. SeenPlan' = SeenPlan
        BY <1>0, <2>1, <2>2 DEF SeenPlan, Seen
    <2> QED
        BY <1>0, <2>3, <2>4 DEF Backend!ZimgNext, Backend!ZimgClose
<1> QED
    BY <1>2, <1>3, <1>4, <1>5, <1>6, <1>7 DEF CellsNext

\* ImplementsBackend for every plan, format and number of cells: a call of the
\* filter, which Filter takes for one step, is one, whatever fails inside it.
THEOREM CellsImplementBackend == CellsSpec => ImplementsBackend
<1>1. CellsInit => Wanted
    BY DEF CellsInit, Init, NoPlan, Wanted
<1>2. GridInv /\ Wanted /\ [CellsNext]_<<vars, cellVars>> => Wanted'
    BY StepOfGrid, WantedNext
<1>3. GridInv /\ Wanted /\ Stages /\ Workers /\ [CellsNext]_<<vars, cellVars>>
        => [Backend!ZimgNext]_(Backend!zimgVars)
    BY BackendNext
<1> QED
    BY <1>1, <1>2, <1>3, BackendInit, CellsStages, CellsWorkers, PTL
       DEF CellsSpec, ImplementsBackend, Backend!ZimgSpec
=============================================================================
