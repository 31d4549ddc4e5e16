# A TLA+ model of the AutoUpscale filter for VLC

AutoUpscale (`src/src`) is a VLC video filter. VLC hands it one decoded picture at a
time on one thread; the filter scales it up with zimg or swscale, may sharpen the
luma plane (USM), and hands the larger picture on. zimg and the sharpening each spread
a frame over a team of worker threads.

This directory holds the specifications of that code, the TLC configurations that
check them on small instances, and the proofs that the TLA+ proof system (tlapm)
checks for instances of every size. `PROJECT.json` lists the runs, the theorems, the
hazards each property is aimed at, for each property a wrong variant of the code that
it catches, and the source lines behind every definition.

To check a run: `tlc -config PoolFaults.cfg MCWorkerPool`. To check the proofs of a
component: `tlapm WorkerPool_proofs.tla`, and likewise for UsmAdaptive, UsmStripes,
Filter, TileGrid, Sizing, PictureView and Observers. The pool and the two sharpening
modules take some minutes each, the others less.

## 1. Inventory

| Part | Source | State it keeps | Operations | Hard because |
|---|---|---|---|---|
| Dispatch gate | `pool_gate.h` | mutex + condition for go, generation, exit flag; mutex + condition for done, atomic `pending` and `sync_failed` | worker: wait for go, count itself done; caller: arm, open, wait with a deadline, request exit | lost wakeups, every pthread call may fail, cancellation while a worker waits |
| Worker-pool lifecycle | `worker_pool.h` | slots, thread records, `lazy_done`, `broken`, `n_workers` | lazy start, dispatch, poison, stop, destroy | a partial start, a join that fails with threads alive, quarantine instead of free |
| USM pool | `usm_pool.c`, `usm.h` | stripes, halo rows, rolling blur buffers | apply on a plane, in place or not | neighbours overwrite rows a stripe still needs |
| Worker-count search | `worker_tuner.h` | phase, window of frame times, ladder cursor, scores | observe one frame time | windows that mix counts, adoption on noise, a search that never ends or never reopens |
| Adaptive USM driver | `usm_adaptive.h` | best and trial pool, stopped/retained | begin, apply, recover, accept, stop | owns two pools and must neither leak nor sharpen twice |
| Filter | `autoupscale.c` | backend, probe, fallback flag, USM pool | open, one call per picture, close | every path must release each picture once; fallback inside a call |
| zimg backend | `scaler_zimg.c`, `zimg_helpers.h` | I/O plan, pool, miss count | open, process, close | the plan is made before any picture is seen; sticky failure |
| swscale backend | `scaler_swscale.c` | one context | open, process, close | - |
| Backend selection | `scaler*.{c,h}` | - | preference, retry at open, status classes | - |
| Tile grid | `plane_utils.h`, `zimg_helpers.h` | - | cut an axis, choose rows x columns | empty cells, shared chroma lines |
| Upscale decision, thread policy | `upscale_logic.h`, `thread_policy.h` | - | target size, number of threads | rounding and boundaries |
| Chroma table and crop, picture view | `chroma_classify.h`, `picture_view.h` | - | align the source crop; view a picture's planes | pictures whose storage or declaration differs from the format |
| Content probe | `content_probe.h` | sums over a window of frames | observe, verdict | - |
| Plane buffers | `plane_buffer.h` | scratch planes | allocate, release | a partial failure, scratch that is never zeroed |
| Metrics | `pipeline_metrics.h` | a window of 256 frame times | begin, mark, stage, end, report | clocks that fail in the middle of a call |
| USM variants | `usm_pool_dispatch.c`, `cpu_level.h` | a function table chosen once | forward | - |

How they interact. VLC calls `Filter`, which asks the probe, gets an output picture
from VLC (there may be none), and calls the backend. A zimg process call views both
pictures, settles its plan on the first usable one, and dispatches a generation on its
own worker pool. A FATAL status retires the backend and opens swscale once. The
adaptive driver then selects a USM pool, `up_usm_pool_apply` dispatches on that pool's
worker pool, and the frame time goes to the search. The worker pool and its gate are
the only place where threads meet; everything else runs on the caller's thread, in
between, and is hard because of what fails half-way and what is remembered.

What makes each part correct:

- gate and pool: a dispatch reports success only if the whole team ran that
  generation; when a call returns, however it failed, no callback runs and nothing a
  thread may touch was freed; every call returns; no wakeup is lost;
- USM pool: the parallel in-place result is the single-threaded one, without a race;
- search and driver: a count is adopted only on evidence measured on pools of that
  size; every search ends and reopens; pools are neither leaked nor used twice on a
  picture;
- filter: pictures and backends balance on every path, nothing torn is shown, a dead
  zimg does not stay, a forced backend is not replaced;
- tile grid, sizing: the cells tile the frame and are never empty; accepted sources
  really grow; the limits handed to the pools agree;
- zimg cells: a frame reported scaled is whole; cells never touch the same memory;
  unfinished samples stay in scratch; a failed start keeps no part of a cell, unless
  one of its threads cannot be joined: then the cells before the failing one stay whole;
- picture view: accepted views stay in storage with chroma in step, healthy pictures
  are accepted;
- probe and metrics: a sweep stays inside the plane, verdicts follow from what was
  seen, the report holds what happened.

## 2. Modules

```
ForkJoin   <--implements--  WorkerPool  --EXTENDS--> PoolGate
Sharpener  <--implements--  UsmAdaptive --EXTENDS--> WorkerTuner
UsmStripes --EXTENDS--> UsmKernel
Filter     --EXTENDS--> ZimgBackend
ZimgCells  --implements--> ZimgBackend
ZimgCells  --EXTENDS, implements--> TileGrid
Observers  --EXTENDS--> ContentProbe, PipelineMetrics
Sizing     PictureView
```

A module `MCx` gives the constants of x their values for TLC; a module `x_proofs`
holds the proofs about x and the modules it extends.

**PoolGate** has one action per stretch of `pool_gate.h` between two pthread calls,
and a failure action for each call whose result the code tests. `wpc` says where each
worker is, `mpc` where the caller is; `generation`, `exitRequested`, `pending` and
`syncFailed` are the fields of the gate. A worker is `parked` in `pthread_cond_wait`
until it is woken or wakes spuriously. Conditions that are not visible to the program:
`pthread_cancel` fails only on a thread that has ended; a failing unlock reports an
error while the mutex is in fact released; a failing notify unlock and `sync_failed`
are one step. A worker whose wait *and* unlock fail reports twice in the code; the
second report changes nothing and is left out.

**WorkerPool** adds `worker_pool.h`: lazy start (`Setup`, `Construct`, `Built`), the
retirement of a failed start, the inline pool of one slot, dispatch, poison, stop
(exit request, else cancellation, then join) and destroy with its quarantine.
Callbacks are assumed to return. The hooks for spawn and timing are left out.

**ForkJoin** is the contract for the owner of a pool: callbacks only inside a call,
once per member and call, success only if the whole team ran, nothing running when the
call returns, no dispatch on a failed pool. `WorkerPool!ImplementsForkJoin` is the
refinement, with the team, the call and the running callbacks read off the state.

**WorkerTuner** is the search state machine: warm-up, windows, baseline, trial with an
early exit, confirmation against a second baseline, settling, drift, cool-down and
recheck. Means are compared exactly where the code compares doubles; the `changes`
counter that only a log line reads is left out.

**UsmAdaptive** puts the driver around it. Pools are identities with the count asked
for and the count that came up. `alive`, `passes`, `ran` and `streak` are history.

**Sharpener** is what the driver promises the filter: a picture is swept at most once,
the status says what became of it, and only a stage that is over answers that it did
nothing. `UsmAdaptive!ImplementsSharpener` is the refinement; which pool a frame ran
on, trials and adoptions are invisible through it.

**ZimgBackend** and **Filter** follow a call of the filter function by function: `at`
names the step to come. A picture's storage is `aligned`, `skewed` (some plane is not
32-byte aligned) or `bad`; the contents of the output are `blank`, `whole`, `sharp` or
`torn`; `owed` counts the references that the call still has to drop or forward.
`live` lists the backends opened and not closed. FATAL for a missing or broken private
state is modelled by `Dead`, which the fallback that follows at once keeps unreachable.
The quarantine of `zimg_close` leaves nothing the owner can see, so it is a plain close
here; it is modelled in WorkerPool and ZimgCells. What the probe and the sharpening
answer is a choice in Filter; Observers and UsmAdaptive say how it comes about.

**UsmKernel** is the arithmetic of one sample: the taps, the clamp of the amount, and
the two roundings of the fixed-point product, one of which shifts where the other
divides. **UsmStripes** is `up_usm_pool_apply`: a call is rejected, is the identity,
finds a pool that cannot start, or dispatches; the pool comes up with all or some of
its workers and cuts the plane for those; workers sweep their stripes row by row, in
place or not, with the halo rows snapshotted before; the dispatch returns or fails and
breaks the pool. A row is abstract: a sharpened row is the rows it was combined from
and the amount. The compile-time flat-stripe option (off by default) is left out.

**TileGrid** has the cut of an axis, the grid search, and the I/O plan resolved once at
open and once with the first frame. **ZimgCells** lets the cells of that plan run: the
shared scratch, then cell by cell the tile, the graph and its buffer, each of which may
fail to be had; then for each frame the views are pointed at the pictures and every
cell copies its source rows in, runs its graph and copies its output out, as far as
the plan wants it to, in any interleaving. Memory is addressed (buffer, owner, plane,
row, column) and every sample remembers the frame and the place it was made for.
The two chroma planes are alike and are one plane; the graph is a function that needs
all of its source rows, not a filter kernel. The pool under it is the contract of
ForkJoin, with as much of `worker_pool.h` as decides who frees a cell: `nWorkers` is
`n_workers`, the slots to release, and `threads` says that some thread is still marked
started. `up_worker_pool_stop` (`Stop`), called for a failed start, a poisoned pool and
at the close, may leave one so. A failed start then keeps the cells before the failing
one and the pool is `stranded`: it failed to start and is broken too, as it is whenever
such a stop met an error. The close joins again and releases the cells, or quarantines
them with the backend.

`ZimgCells!ImplementsBackend` is the refinement of the backend that Filter calls: a
whole call of the filter, with its start, its cells and their failures, is one step
there. Until the first call is over the pool it starts counts as `new`, and of a plan
only what a frame's storage must fit is seen (`Seen`): whether source and output are
used in place, and whether cells share rows. A stranded pool is a broken one there, as
`zimg_process` tests `broken` before anything else. A step of TileGrid is the opening
or the first frame; everything the cells do after that stutters in it.

**ContentProbe** has the pixels a sweep reads, the sums over the window and the two
verdicts; a picture is the mean of its samples. **PipelineMetrics** has the metrics,
with a second, perfect observer (`truth`, `good`) beside them. **Observers** composes
both with the calls of the filter, which may end early at any point.

**Sizing** has the plan of the target dimensions, the detection of the processors with
its fallback and cap, and the thread counts handed to the USM pool and the search.
**PictureView** has the aligned source crop and the all-or-nothing view of a picture,
with pictures that drift in what they declare, in the storage of one plane, or in
chroma.

## 3. Runs

| Run | Question | Bounds, and why they do |
|---|---|---|
| PoolFaults | Does the pool keep its contract, its count and its storage when pthread calls fail? | 3 thread records, 2 dispatches, any 2 faults (MaxFaults), timeouts and spurious wakeups at any time. Three records give a team with a member that never came up; two dispatches let a worker of one generation meet the next; two faults give a failure while a failure is handled. |
| PoolLive | Does every call return? | 2 records, 2 faults, fair threads |
| PoolHealthy | Is no wakeup lost? | 3 workers, no fault, no timeout: only the protocol can finish the dispatch |
| UsmSearch | Are windows, adoptions and pools right, and does the filter see one sharpening stage? | 3 rungs, windows of 2 samples, early exit after 1, 2 drifts; frame times 4 and 9 make better, equal and worse. Three pools suffice for two alive (symmetric). |
| UsmLive | Do searches end and reopen? | 2 rungs, windows of 1, recheck after 3 |
| FilterCalls | Do calls, failures and fallbacks balance? | all options, preferences and supported backends; probe window and miss limit of 2. The playback may go on without end. |
| UsmStripes | Is the parallel sharpening the sequential one, and is what a call answers true? | up to 4 workers, 6 rows, 2 calls; the second may change between in place and not, which is when stale halos matter. Amounts 0 (identity), 51 and one beyond the clamp; samples at both ends and in the middle of a byte. |
| TileGrid | Do cells tile, and is the grid best? | all pairs of small sizes, 2 and 3 source lines included |
| ZimgCells | Are frames whole, cells apart, and allocations accounted for? | up to 4 cells, as rows, columns and 2 x 2; three subsamplings; both copies on and off; 2 frames, so the second finds the scratch of the first; a failure at every allocation, graph, dispatch and join |
| Sizing | Are sizes and counts right at the boundaries? | sizes around each preset, odd and extreme ones; 1 to 200 processors from the mask, none and too many from the fallback |
| PictureView | Are views in storage and chroma in step? | sizes 4-5 by 3-4, windows on and off the chroma grid, each plane one short, exact or padded |
| Observers | Do sweeps stay inside, do verdicts rest on evidence, is the report true? | sizes at and around the grid step and the block size; all options; a probe window of 2 pictures, a report after 3 of 4 calls; any one clock read fails |

The code's own numbers (64 samples, recheck after 16384 frames, cool-down 256, probe
window of 60, 64 threads) are constants of the modules, scaled down in the runs.

**Fairness.** Safety runs assume none. `WorkerPool!FairSpec` assumes that the
scheduler runs a runnable thread, that mutexes are granted, that callbacks return, that
a cancellation reaches a waiter, and that a deadline passes; faults, spurious wakeups
and further calls of the owner get no fairness. `UsmAdaptive!FairSpec` assumes that
frames keep coming while sharpening is on, and that frames are not skipped for ever
before the sharpening (strong fairness of selecting a pool): a search can only learn
from frames that are sharpened. Nothing is assumed of frame times. DriftFailsOver needs
no fairness: it says that one step cannot recur for ever within one playback.

Deadlock is checked in every run. Where the program really stops (a destroyed pool,
USM switched off, a declined source) the specifications have a named stuttering step.

## 4. Proofs

### The worker pool, `WorkerPool_proofs`

For every number of workers, dispatches and faults (`GateAssumption`,
`PoolAssumption`: the constants are natural numbers, at least one worker):

- `TypeCorrect`, `BarrierCountsOwing` (PendingCountsOwing), `StorageOutlivesWorkers`
  (NothingFreedInUse),
- `PoolIsForkJoin`: the refinement, initial state and every step.

None of these is inductive. That `pending` counts the workers that owe holds across a
step only if one knows that live workers have seen the current generation or the one
before it (`ThreadsInv`), that nothing is armed while another generation is still
owed (`QuietInv`), and that records cover threads and slots cover records
(`SlotsInv`). Those in turn depend on where the caller stands (`ControlInv`) and on
how dispatches are counted (`CallsInv`). `IInv` is the conjunction, in parts: each part
has a lemma (`ThreadsStep`, `QuietStep`, ...) that splits on the actions. The heart is
`QuietInv`: unless a generation is armed or a poisoned pool is being stopped, no worker
has anything left to run. That is why a call that returns, by whatever path, returns
borrowed pictures that nobody uses. `PendingStep` handles the arithmetic of the count
with a lemma on adding and removing one worker of a finite set.

`NobodyIsStuck` and `CallsRunOut` are what EveryCallReturns and HealthyDispatchSucceeds
rest on. The first says that nobody waits in vain: in every state of a call, the caller
or a worker has a step that needs neither a failure nor a spurious wakeup, and the
timeout only if a call did fail. `HoldersInv` says that whoever holds a mutex can go on,
`StopInv` that a worker that stop joins was told to exit or was cancelled, `WakeInv`
that nobody goes to sleep on a generation it has not seen and that the last worker to
count itself is still to signal. The guards are spelled out (`WorkerReady`,
`CallerReady`), since ENABLED is out of the prover's reach; on small instances TLC found
them equal to the ENABLED conditions of the steps named in the fairness, except that a
deadline does not count while nothing has failed. The second is
a measure in two parts. A worker has at most 23 steps left in a call: those that its
last wakeup sets off (`Errand`), those of a generation it has not seen (`Unseen`), and
those that the caller will still set off (`Ahead`). The caller has at most
2 MaxWorkers + 16 left, unless a worker sends it round the waiting loop again. Each
step of a call in which nothing fails takes a worker's step, or adds none to those and
takes one of the caller's.

### The picture geometry, `PictureView_proofs`

For every size, window, padding and shortage of storage (`ViewAssumption`: sizes and
offsets are natural numbers; `ChromaAssumption`): `CropStaysInside`,
`ChromaStaysInStep`, `ViewsStayInStorage` and `HealthyIsSeen`, one for each property of
the run. The invariant only says that the region is the aligned crop and the view that
of the current picture; the work is in the lemmas. Aligning starts the window on a
group of every plane with groups (`SourceCrop`, `Groups`), so pixels count groups from
the window's start (`FromGroupStart`) and a sample lies where the whole picture has it
(`SampleAt`); a window's groups end within the extent that was checked against the
storage (`WindowGroups`, `RowAndColumn`).

### The search and its driver, `UsmAdaptive_proofs`

For every limit, window, warm-up, set of frame times and set of pools
(`TunerAssumption`, `AdaptiveAssumption`): `PoolsStayAccounted`, `WindowsStayPure`,
`SettledIsExhaustive`, `AdoptionOnEvidence` and `SharpenerImplemented`. `SearchInv`
relates the cursor to the rungs already tried and each score to the count it was
measured on; `HoldInv` says which pool is held in which phase, so that a count is
always measured on a pool of that size; `FrameInv` says what has happened to the
picture at each step of a frame; `WindowInv` ties the open window to the run of frames
on one pool. That a settled search is exhaustive needs the order of the ladder: what
lies between two rungs is no rung (`NextCount` is monotone and misses none).

`SearchesRunOut` and `RestsRunOut` are what SearchEnds and SearchReopens rest on. An
open search has a bound: three windows for each count up to the limit and one more,
(3 Limit + 1)(Warmup + Samples) measured frames at most. No step adds to what it may
still take, whatever the frame times, failures and skipped frames, and each measured
frame takes one. A settled search runs down likewise until it is opened again, because a
window that closes with no frames left always opens it.

### The sharpening pool, `UsmStripes_proofs`

For every height, team, number of calls, amount and interleaving
(`StripesAssumption`): `OutputIsReference`, `SweepsDoNotRace`, `RowsWrittenOnce` and
`RoundingNeverShows`. The arithmetic comes first: the stripes of k workers cut the
rows, so a row has one owner. `SweepInv` then says of every worker how far it is, that
its three buffers hold rows of the source as it was before the call, that its halos are
those of this call, and that rows not yet written are still the source. A buffer that
was filled from the plane is from the worker's own stripe, which nobody else writes; one
filled across the edge is from a snapshot. The rounding is a statement about
integers: the clamp bounds the product by the bias, so the shifted value is never
negative, and shifting then is flooring.

### The filter, `Filter_proofs`

For every probe window, miss limit and set of options (`FilterAssumption`,
`BackendAssumption`): `PicturesStayBalanced`, `BackendsStayAccounted`,
`NothingUnfinishedShown`, `DeadBackendsReplaced` and `PlanFitsFirstFrame`. The
properties speak of the states between calls; the invariant says the same of every
step within one: what is owed (`PictureInv`), which backend is open and whose private
state there is (`BackendInv`), that a zimg that cannot go on lives only until the
fallback and the fallback happens once (`AliveInv`), and what the output holds
(`PixelsInv`).

`DriftsRunOut` is the part of DriftFailsOver that is not temporal: the misses left in a
playback are a natural number, no step of the playback adds to them, and each
drifting frame takes one. What TLC adds is only that such a number cannot fall for ever.

### The grid and the cells, `ZimgCells_proofs`

For every budget, geometry, floor, option, subsampling and interleaving
(`GridAssumption`, `CellsAssumption`). First the grid: `CellsAlwaysTile`, `GridsAreBest`,
`PlansSettle`. The bounds of the parts of an axis are neighbours in a row of edges,
which rise from 0 to the extent; so the parts cut it. The search takes largest
elements, which exist by the well-foundedness of the naturals; that the first grid it
finds is the best one follows from how rows and columns share a budget.

`CellsRefineGrid` says that the cells never disturb the plan (`CellsSpec` implies the
specification of TileGrid), so all of this carries over to them. Their own invariant
is built in layers, each with a theorem of its own and used by the next:

- `CellsStages`: `Sampling` and `Stages` say which stage the backend is in, how many
  cells are built, and that each is the cell the plan cuts. Everything about frames
  rests on the geometry of those cells (`Placed`): inner edges are even, so a
  subsampled edge is the luma edge shifted, with nothing lost, and the cells tile
  the chroma planes as they tile luma (`RowEdge`, `ColEdge`, `InEdge`); what a cell
  owns lies in the picture, two cells own nothing in common, and every sample has an
  owner.
- `StorageAccounted` (StorageMatchesPlan): what is held is the shared scratch and the
  buffers of the cells built so far (`Storage`), so a failure releases exactly those.
  `Slots` ties the slots that are counted to the threads: all cells of a pool in use,
  none while it starts, and after a failed start some exactly when a thread was left.
- `CellsWorkers`: in a call the views are those of this frame, and a worker's step and
  result tell how far it is (`Workers`).
- `CellsNeverConflict` (NoConflict): follows from the above state by state. Cells own
  different samples; in shared scratch they own different lines; a tile has an owner.
- `CellsOnlyFinished` (OnlyFinished): `Memory` says what every address that a worker
  is past holds: the source rows of this frame after the copy in, the finished samples
  after the graph unless it failed, and those in the picture after the copy out. A step
  of one cell keeps what the others have by NoConflict.
- `CellsCompleteFrames` (FrameComplete): a call that returns well found all workers
  done with result 0; then Memory has every sample of every owner. The frame stays
  complete until the next one.

`CellsImplementBackend` (ImplementsBackend): every step is one of ZimgBackend or
invisible to it. The hard steps are the ends of a call: the first one must take the
plan from what the options ask for to what the first frame's storage allows in the
same step in which the pool appears, which needs that the second resolution never
uses in place what was not asked for (`Wanted`).

### The sizes, `Sizing_proofs`

For every source, preset and machine (`SizingAssumption`): `PlansEnlarge`,
`StripesStayThick`, `CountsStayInStep`. These are arithmetic: the invariant says only
that the numbers are those the request computes, the lemmas bound the quotients and
the evened dimensions.

### The observers, `Observers_proofs`

For every size, grid, window and course of the clocks (`ProbeAssumption`,
`MetricsAssumption`, `ObserversAssumption`): `SweepStaysInside`, `SamplesStayTrue` and
`VerdictsRestOnEvidence`. The metrics' validity flag is TRUE exactly while every clock
of the call could be read, and as long as it is, what they hold is what the perfect
observer holds (`InStep`); `StagesFit` orders the stages in time. For the verdicts,
`SumsInv` says that a sum over pictures that all stay on one side of a bound stays on
that side of as many times the bound.

### What is only model-checked

Liveness (EveryCallReturns, HealthyDispatchSucceeds, SearchEnds, SearchReopens,
DriftFailsOver) is out of the prover's reach, and so is anything with ENABLED. All
invariants, action properties and refinements of the runs are theorems, and so are the
measures behind the liveness properties and, for the pool, that some measured step is
always there to take. What remains for TLC is that fairness makes the measured step
happen again and again.

ImplementsBackend is the one property proved and not in a run: its mapping resolves
the grid again in every state, which TLC cannot afford at the bounds of ZimgCells. It
was checked to the end on a smaller instance of that run (4 x 4 to 8 x 8, a budget of
4, one subsampling, two frames).

## 5. Not modelled, and why

- The resampling graphs of libzimg and swscale, and the colour conversion: data, and
  not this repository's code. swscale's format tables are data too.
- The variants of the USM code (`usm_pool_dispatch.c`, `cpu_level.h`): one of three
  builds of the same source is chosen once, when the library is loaded.
- The chroma table of zimg (`scaler_zimg_chroma.h`) maps a layout to constants. Swapped
  chroma planes and opaque surfaces only select names.
- Pinning of zimg's threads to processors: a hint, whose failure is ignored.
- The flat-stripe option of the USM pool: off unless it is compiled in.
- The module descriptor, reading of options, log lines and the latches that keep them
  from repeating.
- Pitches, padding and the overflow checks of sizes: dimensions are bounded by 32768
  long before `int` or `size_t` could overflow, so these guards cannot fire within
  what the decision to engage accepts.
- Tests, benchmarks, scripts and the patch to VLC are not part of the program.

No disagreement between the code and its documentation was found.

## 6. Plan

Done, in this order: the gate and the pool with their contract and proofs; the search
and its driver, with the contract of the stage and proofs; the filter with its
backends and proofs; stripes and kernel, grid, sizes and picture views, each with
proofs; the probe and the metrics, with proofs; the cells of zimg, with proofs and as
the backend that the filter sees.

Next:

1. Filter with Sharpener in place of the choice it makes of the sharpening's answer.
2. Log latches, if a property about what the user is told turns out to be worth one.
