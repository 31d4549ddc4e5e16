---------------------------- MODULE ContentProbe ----------------------------
(***************************************************************************)
(* The content probe, src/src/content_probe.h, as RunProbe of              *)
(* src/src/autoupscale.c drives it: over the first window of usable        *)
(* pictures two metrics of the luma plane are summed up - the energy of a  *)
(* Laplacian, and the steps across block edges - and when the window is    *)
(* full they decide once whether sharpening is skipped, which changes the  *)
(* picture, and whether the user is advised against upscaling.             *)
(*                                                                         *)
(* A picture is what its samples average to, [lap, edge]; which pixels are *)
(* sampled depends on the size alone.                                      *)
(***************************************************************************)
EXTENDS Integers, FiniteSets, Sequences

CONSTANTS
    GridStep,      \* UP_PROBE_GRID_STEP
    BlockSize,     \* UP_PROBE_BLOCK_SIZE
    ProbeWindow,   \* UP_PROBE_WINDOW_FRAMES
    MinFrames,     \* UP_PROBE_MIN_FRAMES
    MinSamples,    \* UP_PROBE_MIN_SAMPLES_PER_KIND
    SoftMean,      \* UP_PROBE_THRESH_SOFT_LAP_MEAN
    BlockyMean     \* UP_PROBE_THRESH_BLOCKY_EDGE_MEAN

ASSUME ProbeAssumption ==
    /\ {GridStep, BlockSize, ProbeWindow, MinFrames, MinSamples} \subseteq Nat \ {0}
    /\ {SoftMean, BlockyMean} \subseteq Nat
    /\ MinFrames <= ProbeWindow

VARIABLES
    playback,   \* [w, h, luma, advice, threshold, usm]: source size, whether its chroma
                \* has a luma plane, and options
    active,     \* p_sys->probe.active
    accum,      \* p_sys->probe.accum
    advised,    \* p_sys->probe.advice_logged
    skip,       \* p_sys->usm_skip_sharp
    seen        \* history: the usable pictures of the playback's first window

probeVars == <<playback, active, accum, advised, skip, seen>>

-----------------------------------------------------------------------------
(* One sweep: the pixels <<x, y>> of a w x h plane that it reads. *)

SampledRows(h) == {y \in 0 .. h - 1 : y % GridStep = 0}

\* Wrong variant: only the row above is tested for.
LapAtUnguarded(w, h) ==
    {x \in GridStep .. w - 2 : x % GridStep = 0} \X {y \in SampledRows(h) : y >= GridStep}

\* up_probe__lap_row: the centres of the Laplacian.
LapAt(w, h) ==
    {x \in GridStep .. w - 2 : x % GridStep = 0}
        \X {y \in SampledRows(h) : y >= GridStep /\ y + 1 < h}

\* up_probe__edge_rows: the pixels right of a vertical edge ...
RightOfEdge(w, h) ==
    IF w <= BlockSize \/ h <= BlockSize THEN {}
    ELSE {x \in BlockSize .. w - 1 : x % BlockSize = 0} \X SampledRows(h)

\* ... and below a horizontal one.
BelowEdge(w, h) ==
    IF w <= BlockSize \/ h <= BlockSize THEN {}
    ELSE {x \in 0 .. w - 1 : x % GridStep = 0}
             \X {y \in SampledRows(h) : y >= BlockSize /\ y % BlockSize = 0}

ReadAt(w, h) ==
    (UNION {{a, <<a[1] - 1, a[2]>>, <<a[1] + 1, a[2]>>, <<a[1], a[2] - 1>>, <<a[1], a[2] + 1>>} :
               a \in LapAt(w, h)})
    \cup (UNION {{a, <<a[1] - 1, a[2]>>} : a \in RightOfEdge(w, h)})
    \cup (UNION {{a, <<a[1], a[2] - 1>>} : a \in BelowEdge(w, h)})

LapCount == Cardinality(LapAt(playback.w, playback.h))
EdgeCount == Cardinality(RightOfEdge(playback.w, playback.h))
             + Cardinality(BelowEdge(playback.w, playback.h))

-----------------------------------------------------------------------------
NothingSeen == [lapSum |-> 0, lap |-> 0, edgeSum |-> 0, edge |-> 0, frames |-> 0]

\* Wrong variant: without the advice nothing is collected.
NeededForAdvice(p) == p.luma /\ p.advice

\* InitProbe: the sharpness gate needs the metrics even without the advice.
Needed(p) == p.luma /\ (p.advice \/ (p.threshold > 0 /\ p.usm))

ProbeInit(Playbacks) ==
    /\ playback \in Playbacks
    /\ active = Needed(playback)
    /\ accum = NothingSeen
    /\ advised = FALSE /\ skip = FALSE
    /\ seen = <<>>

\* up_probe_observe
With(a, pic) ==
    [lapSum  |-> a.lapSum + pic.lap * LapCount,  lap  |-> a.lap + LapCount,
     edgeSum |-> a.edgeSum + pic.edge * EdgeCount, edge |-> a.edge + EdgeCount,
     frames  |-> a.frames + 1]

\* up_should_skip_usm_for_sharpness
SkipsSharp(a) ==
    playback.threshold > 0 /\ a.lap # 0 /\ a.lapSum \div a.lap > playback.threshold

\* up_should_bypass_for_content
Bypass(a) ==
    /\ a.frames >= MinFrames
    /\ a.lap >= MinSamples /\ a.edge >= MinSamples
    /\ a.lapSum \div a.lap < SoftMean /\ a.edgeSum \div a.edge > BlockyMean

\* RunProbe on a usable picture; the last one of the window closes the probe.
RunProbe(pic) ==
    /\ active
    /\ accum' = With(accum, pic)
    /\ active' = (accum'.frames < ProbeWindow)
    /\ skip' = (skip \/ (~active' /\ SkipsSharp(accum')))
    /\ advised' = (advised \/ (~active' /\ playback.advice /\ Bypass(accum')))
    /\ UNCHANGED playback

-----------------------------------------------------------------------------
\* The sweep reads no pixel outside the visible plane, however small it is: the
\* neighbours of a sample are within its rows and columns.
SweepInside ==
    ReadAt(playback.w, playback.h) \subseteq (0 .. playback.w - 1) \X (0 .. playback.h - 1)

\* The verdicts rest on what was seen.  Sharpening is skipped only after a full
\* window with a picture above the threshold, and it is skipped when all are
\* above it, with or without the advice; the advice needs a soft and a blocky
\* picture, and is asked for.  Without a luma plane there is no verdict.
VerdictOnEvidence ==
    LET full == Len(seen) = ProbeWindow
    IN  /\ skip => full /\ playback.luma /\ \E i \in DOMAIN seen : seen[i].lap > playback.threshold
        /\ full /\ playback.luma /\ playback.threshold > 0 /\ playback.usm /\ LapCount > 0
             /\ (\A i \in DOMAIN seen : seen[i].lap > playback.threshold) => skip
        /\ advised => /\ full /\ playback.luma /\ playback.advice
                      /\ \E i \in DOMAIN seen : seen[i].lap < SoftMean
                      /\ \E i \in DOMAIN seen : seen[i].edge > BlockyMean
=============================================================================
