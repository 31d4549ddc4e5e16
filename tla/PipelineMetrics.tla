--------------------------- MODULE PipelineMetrics ---------------------------
(***************************************************************************)
(* The measurements of src/src/pipeline_metrics.h: one sample per          *)
(* delivered picture, with the time its scaling, its sharpening and the    *)
(* whole call took, reported and reset every window.  A clock may fail to  *)
(* be read at any point of a call; the value is 0 then and the call's      *)
(* sample must not be kept.                                                *)
(***************************************************************************)
EXTENDS Integers, FiniteSets, Sequences

CONSTANTS
    ReportWindow,    \* UP_METRICS_WINDOW
    MaxTime,         \* bound: ticks of a clock
    MaxBadReads      \* bound: clock reads that fail

ASSUME MetricsAssumption == {ReportWindow, MaxTime, MaxBadReads} \subseteq Nat \ {0}

VARIABLES
    m,          \* up_pipeline_metrics_t; its samples up to m->used
    wall, cpu,  \* the clocks
    badReads,   \* reads that failed so far
    mark,       \* the caller's start of the stage
    truth,      \* history: the call in progress as a perfect observer measures it
    good        \* history: since the last report, the delivered calls without a bad read

metricsVars == <<m, wall, cpu, badReads, mark, truth, good>>

MetricsInit ==
    /\ m = [startWall |-> 0, startCpu |-> 0, scale |-> 0, usm |-> 0,
            attempts |-> 0, failed |-> 0, invalid |-> 0, samples |-> <<>>, valid |-> FALSE]
    /\ wall = 1 /\ cpu = 1 /\ badReads = 0 /\ mark = 0
    /\ truth = [wall |-> 1, cpu |-> 1, from |-> 1, scale |-> 0, usm |-> 0, clean |-> TRUE]
    /\ good = <<>>

\* Clocks are read, and the ones in bad fail.
Reads(bad) ==
    /\ badReads' = badReads + Cardinality(bad) /\ badReads' <= MaxBadReads
    /\ UNCHANGED <<wall, cpu>>

\* up_metrics_clock; without a value the caller's variable keeps the old one.
Read(clock, old, bad, name) == IF name \in bad THEN old ELSE clock

\* up_metrics_begin
MetricsBegin(bad) ==
    /\ Reads(bad)
    /\ m' = [m EXCEPT !.scale = 0, !.usm = 0, !.valid = (bad = {}),
                      !.startWall = Read(wall, @, bad, "wall"),
                      !.startCpu = Read(cpu, @, bad, "cpu")]
    /\ truth' = [wall |-> wall, cpu |-> cpu, from |-> wall, scale |-> 0, usm |-> 0,
                 clean |-> bad = {}]
    /\ UNCHANGED <<mark, good>>

\* Wrong variant: a mark that cannot be read passes for 0.
MarkUnchecked(bad) ==
    /\ Reads(bad)
    /\ mark' = Read(wall, 0, bad, "wall")
    /\ truth' = [truth EXCEPT !.from = wall, !.clean = @ /\ bad = {}]
    /\ UNCHANGED <<m, good>>

\* up_metrics_mark, at the start of a stage.
Mark(bad) ==
    /\ Reads(bad)
    /\ mark' = Read(wall, 0, bad, "wall")
    /\ m' = [m EXCEPT !.valid = @ /\ bad = {}]
    /\ truth' = [truth EXCEPT !.from = wall, !.clean = @ /\ bad = {}]
    /\ UNCHANGED good

\* up_metrics_stage
Stage(stage, bad) ==
    LET end == Read(wall, 0, bad, "wall") IN
    /\ Reads(bad)
    /\ m' = IF end < mark THEN [m EXCEPT !.valid = FALSE]
            ELSE [m EXCEPT ![stage] = end - mark, !.valid = @ /\ bad = {}]
    /\ truth' = [truth EXCEPT ![stage] = wall - truth.from, !.clean = @ /\ bad = {}]
    /\ UNCHANGED <<mark, good>>

\* up_metrics_end, and with the last call of the window ReportMetrics.
MetricsEnd(delivered, bad) ==
    LET endWall == Read(wall, 0, bad, "wall")
        endCpu  == Read(cpu, 0, bad, "cpu")
        valid   == m.valid /\ bad = {} /\ endWall >= m.startWall /\ endCpu >= m.startCpu
        counted == [m EXCEPT !.valid = valid, !.attempts = @ + 1,
                             !.failed = IF delivered THEN @ ELSE @ + 1,
                             !.invalid = IF valid THEN @ ELSE @ + 1]
        stored  == IF ~delivered \/ ~valid \/ Len(m.samples) >= ReportWindow THEN counted
                   ELSE [counted EXCEPT !.samples = Append(@,
                           [scale |-> m.scale, usm |-> m.usm,
                            total |-> endWall - m.startWall, cpu |-> endCpu - m.startCpu])]
        report  == stored.attempts >= ReportWindow
    IN  /\ Reads(bad)
        /\ m' = IF report
                THEN [stored EXCEPT !.attempts = 0, !.failed = 0, !.invalid = 0, !.samples = <<>>]
                ELSE stored
        /\ good' = IF report THEN <<>>
                   ELSE IF delivered /\ truth.clean /\ bad = {}
                   THEN Append(good, [scale |-> truth.scale, usm |-> truth.usm,
                                      total |-> wall - truth.wall, cpu |-> cpu - truth.cpu])
                   ELSE good
        /\ UNCHANGED <<mark, truth>>

\* Time goes on between two reads.
Passes ==
    /\ wall < MaxTime
    /\ wall' = wall + 1
    /\ cpu' \in {cpu, cpu + 1}
    /\ UNCHANGED <<m, badReads, mark, truth, good>>

-----------------------------------------------------------------------------
\* What is reported is what happened: the samples are the calls that delivered a
\* picture and in which every clock was read, each with its own durations, and
\* no such call is left out; the three counts account for all calls.
SamplesTrue ==
    /\ m.samples = good
    /\ \A i \in DOMAIN m.samples : m.samples[i].scale + m.samples[i].usm <= m.samples[i].total
    /\ m.attempts < ReportWindow
    /\ Len(m.samples) + m.failed <= m.attempts
    /\ Len(m.samples) + m.failed + m.invalid >= m.attempts
=============================================================================
