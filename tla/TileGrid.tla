------------------------------ MODULE TileGrid ------------------------------
(***************************************************************************)
(* How the zimg backend cuts a frame: the (rows x columns) grid of         *)
(* src/src/plane_utils.h, each cell one worker's, and the I/O plan of      *)
(* src/src/zimg_helpers.h that is resolved at open and once more with the  *)
(* first frame, when the alignment of the pictures is known.  A worker is  *)
(* built per cell and one that cannot be built fails the whole pool, so a  *)
(* grid with an empty cell would drop every frame of the playback.         *)
(***************************************************************************)
EXTENDS Integers, FiniteSets

CONSTANTS
    Budgets,    \* worker budgets
    Sources,    \* source extents, of either axis
    Targets,    \* target extents, of either axis; up_plan_upscale makes them even
    Minimums,   \* least rows of a stripe, and least columns of a tile
    MaxCells    \* UP_TILE_THREADS_MAX

ASSUME GridAssumption ==
    /\ Budgets \cup Sources \cup Targets \cup Minimums \cup {MaxCells} \subseteq Nat \ {0}
    /\ \A d \in Targets : d % 2 = 0

VARIABLES
    budget, geom, minRows, minCols,   \* the request
    wantSrc, wantDst,                 \* zero-copy options
    stage,                            \* "new", "opened" or "running"
    plan

vars == <<budget, geom, minRows, minCols, wantSrc, wantDst, stage, plan>>

-----------------------------------------------------------------------------
(* One axis. *)

EvenDown(x) == x - (x % 2)

\* Wrong variant: a boundary may fall on an odd row.
BoundsOdd(i, n, s, d) ==
    LET from == IF i = 0 THEN 0 ELSE (i * d) \div n
        to   == IF i = n - 1 THEN d ELSE ((i + 1) * d) \div n
    IN  [dst |-> from .. to - 1,
         src |-> (IF i = 0 THEN 0 ELSE EvenDown((s * from) \div d))
                 .. (IF i = n - 1 THEN s ELSE EvenDown((s * to) \div d)) - 1]

\* up_compute_stripe_bounds: the rows of stripe i of n.
Bounds(i, n, s, d) ==
    LET from == IF i = 0 THEN 0 ELSE EvenDown((i * d) \div n)
        to   == IF i = n - 1 THEN d ELSE EvenDown(((i + 1) * d) \div n)
    IN  [dst |-> from .. to - 1,
         src |-> (IF i = 0 THEN 0 ELSE EvenDown((s * from) \div d))
                 .. (IF i = n - 1 THEN s ELSE EvenDown((s * to) \div d)) - 1]

Empty(b) == b.dst = {} \/ b.src = {}

\* Wrong variant: only the target floor is tested.
PartitionOkByTarget(n, s, d, minimum) == n = 1 \/ n * minimum <= d

\* up__axis_partition_ok
PartitionOk(n, s, d, minimum) ==
    \A i \in 0 .. n - 1 :
        LET b == Bounds(i, n, s, d) IN
        ~Empty(b) /\ (n > 1 => Cardinality(b.dst) >= minimum)

LargestOf(S) == CHOOSE x \in S : \A z \in S : z <= x
Within(lo, x, hi) == IF x < lo THEN lo ELSE IF x > hi THEN hi ELSE x

\* up__tile_axis_limit; a minimum of 0 stands for none, and takes the fallback.
AxisLimit(extent, minimum, fallback, cells) ==
    Within(1, IF minimum > 0 THEN extent \div minimum ELSE fallback, cells)

\* up__largest_valid_split
LargestSplit(start, s, d, minimum) ==
    LargestOf({1} \cup {k \in 2 .. start : PartitionOk(k, s, d, minimum)})

-----------------------------------------------------------------------------
(* up_decide_tile_grid *)

Capped(cells) == Within(1, cells, MaxCells)

RowLimit(b, g, rmin) == LargestSplit(AxisLimit(g.dstH, rmin, b, b), g.srcH, g.dstH, rmin)
ColLimit(b, g, cmin) == LargestSplit(AxisLimit(g.dstW, cmin, 1, b), g.srcW, g.dstW, cmin)

\* Wrong variant: columns are tried only with the largest number of rows.
GridsRowsFirst(b, g, rmin, cmin) ==
    LET r == RowLimit(b, g, rmin)
    IN  {[rows |-> r, cols |-> LargestSplit(Within(1, b \div r, ColLimit(b, g, cmin)), g.srcW, g.dstW, cmin)]}

\* The grids the search looks at: each valid number of rows with as many columns
\* as the budget and the width allow.
Grids(b, g, rmin, cmin) ==
    {[rows |-> r, cols |-> LargestSplit(Within(1, b \div r, ColLimit(b, g, cmin)), g.srcW, g.dstW, cmin)] :
        r \in {k \in 1 .. RowLimit(b, g, rmin) : PartitionOk(k, g.srcH, g.dstH, rmin)}}

Cells(grid) == grid.rows * grid.cols

\* Most workers, then most rows.
Grid(b, g, rmin, cmin) ==
    LET all == Grids(b, g, rmin, cmin)
    IN  CHOOSE x \in all : \A z \in all :
            Cells(z) < Cells(x) \/ (Cells(z) = Cells(x) /\ z.rows <= x.rows)

\* Wrong variant: a tiled plan may also write the picture directly.
ResolveDirect(direct, directOut) ==
    LET grid == Grid(Capped(budget), geom, minRows, IF direct THEN minCols ELSE 0)
    IN  [rows |-> grid.rows, cols |-> grid.cols, src |-> direct, dst |-> directOut]

\* up_zimg_resolve_io_plan: columns need source-direct reads, and column tiles
\* are copied out.
Resolve(direct, directOut) ==
    LET grid == Grid(Capped(budget), geom, minRows, IF direct THEN minCols ELSE 0)
    IN  [rows |-> grid.rows, cols |-> grid.cols, src |-> direct,
         dst |-> directOut /\ grid.cols = 1]

-----------------------------------------------------------------------------
NoPlan == [rows |-> 1, cols |-> 1, src |-> FALSE, dst |-> FALSE]

Init ==
    /\ budget \in Budgets
    /\ geom \in [srcW : Sources, srcH : Sources, dstW : Targets, dstH : Targets]
    /\ geom.srcW <= geom.dstW /\ geom.srcH <= geom.dstH
    /\ minRows \in Minimums /\ minCols \in Minimums
    /\ wantSrc \in BOOLEAN /\ wantDst \in BOOLEAN
    /\ stage = "new"
    /\ plan = NoPlan

\* zimg_open
Open ==
    /\ stage = "new"
    /\ stage' = "opened"
    /\ plan' = Resolve(wantSrc, wantDst)
    /\ UNCHANGED <<budget, geom, minRows, minCols, wantSrc, wantDst>>

\* zimg_prepare_first_frame_io, with what the pictures' alignment permits.
FirstFrame(srcAligned, dstAligned) ==
    /\ stage = "opened"
    /\ stage' = "running"
    /\ plan' = Resolve(wantSrc /\ srcAligned, wantDst /\ dstAligned)
    /\ UNCHANGED <<budget, geom, minRows, minCols, wantSrc, wantDst>>

Running == stage = "running" /\ UNCHANGED vars

Next ==
    \/ Open \/ Running
    \/ \E a, b \in BOOLEAN : FirstFrame(a, b)

Spec == Init /\ [][Next]_vars

-----------------------------------------------------------------------------
RowsOf(i) == Bounds(i, plan.rows, geom.srcH, geom.dstH)
ColsOf(j) == Bounds(j, plan.cols, geom.srcW, geom.dstW)

\* Each line of an axis in exactly one of the parts.
Cut(parts, extent) ==
    /\ UNION {parts[i] : i \in DOMAIN parts} = 0 .. extent - 1
    /\ \A i, j \in DOMAIN parts : i # j => parts[i] \cap parts[j] = {}

\* The cells tile the target and the source: every pixel is one worker's and no
\* cell is empty, so every worker of the pool can be built.
CellsTile ==
    LET rows == 0 .. plan.rows - 1
        cols == 0 .. plan.cols - 1
    IN  /\ \A i \in rows : ~Empty(RowsOf(i))
        /\ \A j \in cols : ~Empty(ColsOf(j))
        /\ Cut([i \in rows |-> RowsOf(i).dst], geom.dstH)
        /\ Cut([i \in rows |-> RowsOf(i).src], geom.srcH)
        /\ Cut([j \in cols |-> ColsOf(j).dst], geom.dstW)
        /\ Cut([j \in cols |-> ColsOf(j).src], geom.srcW)

\* The plan keeps within the budget and the thread records, no other legal grid
\* would keep more workers busy, and columns are cut only where rows alone would
\* not do.
GridBest ==
    stage # "new" =>
        /\ Cells(plan) <= MaxCells /\ Cells(plan) <= budget
        /\ \A r, c \in 1 .. Capped(budget) :
              /\ r * c <= Capped(budget)
              /\ PartitionOk(r, geom.srcH, geom.dstH, minRows)
              /\ c = 1 \/ (plan.src /\ PartitionOk(c, geom.srcW, geom.dstW, minCols))
              => r * c <= Cells(plan) /\ (c < plan.cols => r * c < Cells(plan))

\* Resolving the plan's own flags again yields the plan, at open and with the
\* first frame; and a tiled plan reads directly and copies out.
PlanSettled ==
    stage # "new" => /\ Resolve(plan.src, plan.dst) = plan
                     /\ plan.cols > 1 => plan.src /\ ~plan.dst
=============================================================================
