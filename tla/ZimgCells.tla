----------------------------- MODULE ZimgCells -----------------------------
(***************************************************************************)
(* The cells of the zimg backend, src/src/scaler_zimg.c: what is allocated *)
(* for the plan of TileGrid when the pool starts with the first frame, and *)
(* what each cell's worker then copies and resamples, frame after frame.   *)
(* A cell runs up to three steps - copy its source rows in, run its graph, *)
(* copy its output out - and the cells run at once without a lock, because *)
(* no two of them touch the same memory; that is the invariant NoConflict. *)
(*                                                                         *)
(* A sample of the output is q = <<plane, row, column>>; memory holds it   *)
(* with the frame it was made from, <<frame, plane, row, column>>.  An     *)
(* address is <<buffer, owner, plane, row, column>>, and a row of source   *)
(* samples takes one, at column 0.  U and V are treated alike and are one  *)
(* plane here, "C".                                                        *)
(***************************************************************************)
EXTENDS TileGrid, Sequences, FiniteSetsExt, Functions

CONSTANTS
    Formats,     \* subsampling exponents: [w, h]
    MaxFrames    \* bound: frames of a playback

ASSUME CellsAssumption ==
    /\ Formats \subseteq [w : {0, 1}, h : {0, 1}]
    /\ MaxFrames \in Nat \ {0}

VARIABLES
    format,    \* p->sub_w, p->sub_h
    pool,      \* "new", "starting", "started", "closed", "quarantined"; "failed" if
               \* lazy_failed, "broken" if broken, "stranded" if both of them are set
    nWorkers,  \* p->pool.n_workers: the slots that a close releases
    threads,   \* some thread record is marked started
    built,     \* the slot being constructed; -1: still in prepare
    cell,      \* w->cell of the slots constructed
    held,      \* resources allocated
    frame,     \* calls so far that got as far as the pool
    status,    \* of the last call: "none", "busy", "ok" or "fatal"
    view,      \* the pictures the workers' plane views point to; 0: scratch
    step,      \* the step each worker runs next
    result,    \* w->result
    mem        \* scratch, and the output picture of the frame

cellVars == <<format, pool, nWorkers, threads, built, cell, held, frame, status, view, step, result, mem>>

Planes == {"Y", "C"}
Tiled == plan.cols > 1
Team == 0 .. Cells(plan) - 1

-----------------------------------------------------------------------------
(* The part of a plane that belongs to a cell. *)

Shift(p, x, exponent) == IF p = "Y" THEN x ELSE x \div (exponent + 1)

\* up_chroma_dim
Dim(p, x, exponent) == IF p = "Y" THEN x ELSE (x + exponent) \div (exponent + 1)

\* Rows of plane p in the luma rows b: both ends are shifted.
Lines(p, b) == Shift(p, Min(b), format.h) .. Shift(p, Max(b) + 1, format.h) - 1

\* Columns of plane p in the luma columns b: the start is shifted, the width
\* rounded up.
Columns(p, b) ==
    LET from == Shift(p, Min(b), format.w)
    IN  from .. from + Dim(p, Cardinality(b), format.w) - 1

\* Cell i is in row i / n_cols and column i % n_cols.
RowPart(i) == RowsOf(i \div plan.cols)
ColPart(i) == ColsOf(i % plan.cols)
Degenerate(i) == Empty(RowPart(i)) \/ Empty(ColPart(i))

\* The geometry init_stripe_worker keeps: the rows a cell reads, the rows and
\* columns it makes, and where these start.
CellOf(i) ==
    [src  |-> [p \in Planes |-> Lines(p, RowPart(i).src)],
     rows |-> [p \in Planes |-> Lines(p, RowPart(i).dst)],
     cols |-> [p \in Planes |-> Columns(p, ColPart(i).dst)],
     top  |-> [p \in Planes |-> Shift(p, Min(RowPart(i).dst), format.h)],
     left |-> [p \in Planes |-> Shift(p, Min(ColPart(i).dst), format.w)]]

\* The samples of the output that cell i makes.
Owned(i) == UNION {{p} \X cell[i].rows[p] \X cell[i].cols[p] : p \in Planes}

\* All of them, and the rows of the source.
Samples == UNION {{p} \X (0 .. Dim(p, geom.dstH, format.h) - 1)
                      \X (0 .. Dim(p, geom.dstW, format.w) - 1) : p \in Planes}
SourceRows == UNION {{p} \X (0 .. Dim(p, geom.srcH, format.h) - 1) : p \in Planes}

-----------------------------------------------------------------------------
(* Memory. *)

Blank == <<0, "-", 0, 0>>
Junk == <<-1, "-", 0, 0>>

InRow(p, r) == <<"src", 0, p, r, 0>>
InPicture(k, q) == <<"pic", k, q[1], q[2], q[3]>>

\* The source row r of plane p, and the output sample q, of frame k.
SourceRow(k, p, r) == <<k, p, r, 0>>
Sample(k, q) == <<k, q[1], q[2], q[3]>>

\* What memory g holds once f has been written to it.
Written(f, g) == [a \in DOMAIN f \cup DOMAIN g |-> IF a \in DOMAIN f THEN f[a] ELSE g[a]]

\* The row of its buffer at which the graph of cell i starts to write.
Offset(p, i) == IF Tiled THEN 0 ELSE cell[i].top[p]

\* The row of its buffer from which cell i copies out.
EmitOffset(p, i) == IF Tiled THEN 0 ELSE cell[i].top[p]

\* Where the scratch of cell i, used from row from on, has sample q: tiles have
\* a buffer each, stripes share one.
InScratch(i, from, q) ==
    <<IF Tiled THEN "tile" ELSE "dst", IF Tiled THEN i ELSE 0, q[1],
      from + q[2] - cell[i].top[q[1]], q[3] - cell[i].left[q[1]]>>

\* The scratch that the plan has, by address.
Scratch ==
    (IF plan.src THEN {} ELSE {InRow(x[1], x[2]) : x \in SourceRows}) \cup
    (IF plan.dst THEN {}
     ELSE IF ~Tiled THEN {<<"dst", 0, q[1], q[2], q[3]>> : q \in Samples}
     ELSE UNION {{"tile"} \X {i} \X {p} \X (0 .. Cardinality(cell[i].rows[p]) - 1)
                          \X (0 .. Cardinality(cell[i].cols[p]) - 1) : i \in Team, p \in Planes})

-----------------------------------------------------------------------------
(* Lazy start.  Resources are <<kind, cell, plane>>, in the order in which  *)
(* they are allocated.                                                     *)

Buffer(kind, i) == <<<<kind, i, "Y">>, <<kind, i, "C">>>>

\* alloc_scratch_buffers
SharedNeeds ==
    (IF plan.src THEN <<>> ELSE Buffer("src", 0)) \o
    (IF plan.dst \/ Tiled THEN <<>> ELSE Buffer("dst", 0))

\* init_stripe_worker; a graph may need no temporary buffer, which is left out.
CellNeeds(i) ==
    (IF Tiled THEN Buffer("tile", i) ELSE <<>>) \o <<<<"graph", i, "-">>, <<"tmp", i, "-">>>>

Needs == IF built = -1 THEN SharedNeeds ELSE CellNeeds(built)
Missing == {k \in DOMAIN Needs : Needs[k] \notin held}

\* Wrong variant: the tile of a cell is forgotten.
ReleasedButTile(i) == {x \in held : x[2] = i /\ x[1] \in {"graph", "tmp"}}

\* zimg_pool_release
Released(i) ==
    {x \in held : x[2] = i /\ x[1] \in {"graph", "tmp"} \cup (IF Tiled THEN {"tile"} ELSE {})}

\* Wrong variant: the views of the first frame are kept.
PointOnce ==
    view' = IF frame' > 1 THEN view
            ELSE [view EXCEPT ![IF plan.src THEN "src" ELSE "vlcSrc"] = frame',
                              ![IF plan.dst THEN "dst" ELSE "vlcDst"] = frame']

\* point_workers_planes, for both sides: worker_view_for says which view it is.
Point ==
    view' = [view EXCEPT ![IF plan.src THEN "src" ELSE "vlcSrc"] = frame',
                         ![IF plan.dst THEN "dst" ELSE "vlcDst"] = frame']

\* The views are set and the workers woken, on an output picture VLC just lent.
Arm ==
    /\ Point
    /\ step' = [i \in Team |-> IF plan.src THEN "resample" ELSE "copyIn"]
    /\ mem' = Written([a \in {InPicture(frame', q) : q \in Samples} |-> Blank],
                      [a \in Scratch |-> IF a \in DOMAIN mem THEN mem[a] ELSE Junk])

CellsInit ==
    /\ Init
    /\ format \in Formats
    /\ geom.srcW % (format.w + 1) = 0 /\ geom.srcH % (format.h + 1) = 0
    /\ pool = "new" /\ nWorkers = 0 /\ threads = FALSE /\ built = -1 /\ cell = <<>> /\ held = {}
    /\ frame = 0 /\ status = "none"
    /\ view = [src |-> 0, vlcSrc |-> 0, dst |-> 0, vlcDst |-> 0]
    /\ step = <<>> /\ result = <<>> /\ mem = <<>>

OpenCells == Open /\ UNCHANGED cellVars

\* zimg_process, on the first frame.
FirstCall(srcAligned, dstAligned) ==
    /\ pool = "new" /\ FirstFrame(srcAligned, dstAligned)
    /\ pool' = "starting" /\ frame' = 1 /\ status' = "busy"
    /\ UNCHANGED <<format, nWorkers, threads, built, cell, held, view, step, result, mem>>

Starting == pool = "starting" /\ UNCHANGED <<vars, format, frame>>

Allocate ==
    /\ Starting /\ Missing # {}
    /\ held' = held \cup {Needs[Min(Missing)]}
    /\ UNCHANGED <<pool, nWorkers, threads, built, cell, status, view, step, result, mem>>

\* zimg_pool_construct: all before is built, and its thread spawned.
NextCell ==
    /\ Starting /\ Missing = {} /\ built < Cells(plan) - 1
    /\ ~Degenerate(built + 1)
    /\ built' = built + 1 /\ threads' = (built' > 0)
    /\ cell' = [i \in 0 .. built' |-> IF i < built' THEN cell[i] ELSE CellOf(i)]
    /\ UNCHANGED <<pool, nWorkers, held, status, view, step, result, mem>>

\* up__pool_setup fails, in prepare or in the pool's own storage or gate: what
\* was allocated stays until the backend is closed.
SetupFails ==
    /\ Starting /\ built = -1
    /\ pool' = "failed" /\ status' = "fatal"
    /\ UNCHANGED <<nWorkers, threads, built, cell, held, view, step, result, mem>>

\* up_worker_pool_stop: a worker that cannot be joined stays marked.
Stop == threads' \in {FALSE, threads}

\* A cell cannot be built, or its thread not be spawned, and it is released.  The
\* cells before it go only once every worker is reaped; a stop in which anything
\* fails has also broken the pool.
CellFails ==
    /\ Starting /\ built >= 0 /\ (Missing # {} \/ Cells(plan) > 1)
    /\ Stop
    /\ nWorkers' = IF threads' THEN built ELSE 0
    /\ held' = held \ UNION {Released(i) : i \in nWorkers' .. built}
    /\ pool' \in IF threads' THEN {"stranded"}
                 ELSE IF Cells(plan) > 1 THEN {"failed", "stranded"} ELSE {"failed"}
    /\ status' = "fatal"
    /\ UNCHANGED <<built, cell, view, step, result, mem>>

Started ==
    /\ Starting /\ Missing = {} /\ built = Cells(plan) - 1
    /\ pool' = "started" /\ nWorkers' = Cells(plan) /\ threads' = (Cells(plan) > 1)
    /\ result' = [i \in Team |-> 0]
    /\ Arm
    /\ UNCHANGED <<built, cell, held, status>>

-----------------------------------------------------------------------------
(* Frames.  A later frame whose storage the plan does not fit never gets    *)
(* here: that is ZimgBackend's Drift.                                      *)

NextCall ==
    /\ pool = "started" /\ status = "ok" /\ frame < MaxFrames
    /\ frame' = frame + 1 /\ status' = "busy"
    /\ Arm
    /\ UNCHANGED <<vars, format, pool, nWorkers, threads, built, cell, held, result>>

Working ==
    /\ pool = "started" /\ status = "busy"
    /\ UNCHANGED <<vars, format, pool, nWorkers, threads, built, cell, held, frame, status, view>>

\* w->dst, and the source rows w->src has.
Output(i, q) ==
    IF view.dst = 0 THEN InScratch(i, Offset(q[1], i), q) ELSE InPicture(view.dst, q)

Input(p, r) == IF view.src = 0 THEN mem[InRow(p, r)] ELSE SourceRow(view.src, p, r)

\* What the graph of cell i makes of its source rows.
Made(i, q) ==
    LET p == q[1]
        k == Input(p, Min(cell[i].src[p]))[1]
    IN  IF \A r \in cell[i].src[p] : Input(p, r) = SourceRow(k, p, r) THEN Sample(k, q) ELSE Junk

\* Wrong variant: the output is copied out whatever the graph returned.
EmitsAnyway(res) == Tiled \/ ~plan.dst

\* worker_emit_output
Emits(res) == res = 0 /\ (Tiled \/ ~plan.dst)

\* What the next step of cell i writes and reads.
OwnedRows(i) == {x \in SourceRows : x[2] \in cell[i].src[x[1]]}

Writes(i) ==
    CASE step[i] = "copyIn"   -> {InRow(x[1], x[2]) : x \in OwnedRows(i)}
      [] step[i] = "resample" -> {Output(i, q) : q \in Owned(i)}
      [] step[i] = "emit"     -> {InPicture(view.vlcDst, q) : q \in Owned(i)}
      [] step[i] = "done"     -> {}

Reads(i) ==
    CASE step[i] = "resample" /\ view.src = 0 -> {InRow(x[1], x[2]) : x \in OwnedRows(i)}
      [] step[i] = "emit" -> {InScratch(i, EmitOffset(q[1], i), q) : q \in Owned(i)}
      [] OTHER -> {}

\* worker_copy_in_stripe
CopyIn(i) ==
    /\ Working /\ step[i] = "copyIn"
    /\ mem' = Written([a \in Writes(i) |-> SourceRow(view.vlcSrc, a[3], a[4])], mem)
    /\ step' = [step EXCEPT ![i] = "resample"]
    /\ UNCHANGED result

\* zimg_worker_run, from the graph on; a graph that fails may leave anything.
Resample(i, res) ==
    /\ Working /\ step[i] = "resample"
    /\ mem' = Written([a \in Writes(i) |->
                          IF res # 0 THEN Junk
                          ELSE Made(i, CHOOSE q \in Owned(i) : Output(i, q) = a)], mem)
    /\ result' = [result EXCEPT ![i] = res]
    /\ step' = [step EXCEPT ![i] = IF Emits(res) THEN "emit" ELSE "done"]

\* worker_copy_out_tile, worker_copy_out_stripe
Emit(i) ==
    /\ Working /\ step[i] = "emit"
    /\ mem' = Written([a \in Writes(i) |->
                          LET q == <<a[3], a[4], a[5]>>
                          IN  mem[InScratch(i, EmitOffset(q[1], i), q)]], mem)
    /\ step' = [step EXCEPT ![i] = "done"]
    /\ UNCHANGED result

Returning == pool = "started" /\ status = "busy"
             /\ UNCHANGED <<vars, format, nWorkers, built, cell, held, frame, view, step, result, mem>>

AllRan == \A i \in Team : step[i] = "done"

\* zimg_check_worker_results
ReturnOk ==
    /\ Returning /\ AllRan /\ \A i \in Team : result[i] = 0
    /\ status' = "ok" /\ UNCHANGED <<pool, threads>>

ReturnFatal ==
    /\ Returning /\ AllRan /\ \E i \in Team : result[i] # 0
    /\ status' = "fatal" /\ pool' = "broken" /\ Stop

\* The dispatch fails: as ForkJoin says no worker is inside its callback then,
\* but some may not have run.
DispatchFails ==
    /\ Returning /\ Cells(plan) > 1
    /\ \A i \in Team : step[i] \in {IF plan.src THEN "resample" ELSE "copyIn", "done"}
    /\ status' = "fatal" /\ pool' = "broken" /\ Stop

\* zimg_close, between calls: destroy stops the pool, after a failed start or a
\* poisoning once more, and releases its slots.
CloseCells ==
    /\ stage # "new" /\ status # "busy" /\ pool \notin {"closed", "quarantined"}
    /\ pool' = "closed" /\ nWorkers' = 0 /\ threads' = FALSE
    /\ held' = (held \ UNION {Released(i) : i \in 0 .. nWorkers - 1})
               \ {x \in held : x[1] \in {"src", "dst"}}
    /\ UNCHANGED <<vars, format, built, cell, frame, status, view, step, result, mem>>

\* A worker cannot be joined: the backend is quarantined and keeps everything.
JoinFailsAtClose ==
    /\ stage # "new" /\ status # "busy" /\ pool \notin {"closed", "quarantined"}
    /\ threads
    /\ pool' = "quarantined"
    /\ UNCHANGED <<vars, format, nWorkers, threads, built, cell, held, frame, status, view,
                   step, result, mem>>

Gone == pool \in {"closed", "quarantined"} /\ UNCHANGED <<vars, cellVars>>

CellsNext ==
    \/ OpenCells \/ Gone
    \/ \E a, b \in BOOLEAN : FirstCall(a, b)
    \/ Allocate \/ NextCell \/ SetupFails \/ CellFails \/ Started
    \/ NextCall
    \/ \E i \in Team : CopyIn(i) \/ Emit(i) \/ \E res \in {0, -1} : Resample(i, res)
    \/ ReturnOk \/ ReturnFatal \/ DispatchFails
    \/ CloseCells \/ JoinFailsAtClose

CellsSpec == CellsInit /\ [][CellsNext]_<<vars, cellVars>>

-----------------------------------------------------------------------------
(* What the filter sees of all this: a call is one step of ZimgBackend, and  *)
(* until the first call is over the pool it starts is not there yet.         *)

FirstCallRuns == pool = "starting" \/ (pool = "started" /\ frame = 1 /\ status = "busy")

\* Of the plan, the filter tells apart what a frame's storage must fit.
Seen(p) == [src |-> p.src, tiled |-> p.cols > 1, dst |-> p.dst]

SeenOptions == [src |-> wantSrc, dst |-> wantDst, wide |-> Resolve(TRUE, FALSE).cols > 1]
SeenPriv == IF stage = "new" \/ pool \in {"closed", "quarantined"} THEN "none" ELSE "zimg"
SeenPool ==
    CASE pool \in {"started", "failed", "broken"} /\ ~FirstCallRuns -> pool
      [] pool = "stranded" -> "broken"
      [] OTHER -> "new"
SeenPlan == Seen(IF stage # "running" \/ FirstCallRuns THEN Resolve(wantSrc, wantDst) ELSE plan)

Backend == INSTANCE ZimgBackend WITH
    MissLimit <- 1, Options <- [src : BOOLEAN, dst : BOOLEAN, wide : BOOLEAN],
    options <- SeenOptions, priv <- SeenPriv, pool <- SeenPool, plan <- SeenPlan, misses <- 0

\* However the start, the cells and the failures of a call interleave, the filter
\* sees one step of the protocol: a picture scaled, a start that failed, or a
\* pool broken for good.
ImplementsBackend == Backend!ZimgSpec

-----------------------------------------------------------------------------
\* A frame that is reported scaled is whole: every sample of every plane of the
\* output picture is the one made for this place from this frame's source,
\* whichever of the copying, direct and tiled paths made it.
FrameComplete ==
    status = "ok" => \A q \in Samples : mem[InPicture(frame, q)] = Sample(frame, q)

\* The cells need no lock: what the next step of one writes, no step of another
\* touches, and all of it is memory the backend has.
NoConflict ==
    pool = "started" /\ status = "busy" =>
        LET writes == [i \in Team |-> Writes(i)]
            all    == [i \in Team |-> writes[i] \cup Reads(i)]
            own    == Scratch \cup {InPicture(frame, q) : q \in Samples}
        IN  \A i \in Team :
                /\ all[i] \subseteq own
                /\ \A j \in Team \ {i} : writes[i] \cap all[j] = {}

\* Whatever fails, a picture that is copied to only ever receives finished
\* samples of its own frame: scratch is never zeroed, and what a failed graph
\* or an earlier frame left there stays there.
OnlyFinished ==
    pool \in {"started", "broken"} /\ ~plan.dst =>
        \A q \in Samples : mem[InPicture(frame, q)] \in {Blank, Sample(frame, q)}

\* What the cells up to n need.
CellStore(n) == UNION {Range(CellNeeds(i)) : i \in 0 .. n}

\* What is allocated is what the plan that the pool was started for needs.  A
\* start that failed, in whichever cell, keeps no part of a cell, unless one of
\* its threads could not be joined: then the cells before the failing one are
\* whole, and stay so until they are joined or quarantined.  Nothing is left when
\* the backend is closed.
StorageMatchesPlan ==
    /\ pool \in {"started", "broken"} =>
          held = Range(SharedNeeds) \cup CellStore(Cells(plan) - 1)
    /\ pool \in {"failed", "stranded"} =>
          held \ Range(SharedNeeds) = IF threads THEN CellStore(nWorkers - 1) ELSE {}
    /\ pool = "quarantined" => nWorkers > 0 /\ CellStore(nWorkers - 1) \subseteq held
    /\ pool \in {"new", "closed"} => held = {}
=============================================================================
