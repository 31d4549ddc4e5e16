------------------------------ MODULE Observers ------------------------------
(***************************************************************************)
(* One call of Filter() of src/src/autoupscale.c after another, as its two *)
(* observers see it: PipelineMetrics begins and ends with every call and   *)
(* times its two stages, ContentProbe looks at the input of the first      *)
(* calls.  What the call does to pictures and backends is Filter.          *)
(***************************************************************************)
EXTENDS ContentProbe, PipelineMetrics

CONSTANTS
    Playbacks,    \* sizes and options: [w, h, luma, advice, threshold, usm, metrics]
    Pictures,     \* what pictures average to: [lap, edge]
    MaxCalls      \* bound: calls of a playback

ASSUME ObserversAssumption ==
    /\ Playbacks \subseteq [w : Nat \ {0}, h : Nat \ {0}, luma : BOOLEAN, advice : BOOLEAN,
                      threshold : Nat, usm : BOOLEAN, metrics : BOOLEAN]
    /\ Pictures \subseteq [lap : Nat, edge : Nat]
    /\ MaxCalls \in Nat \ {0}

VARIABLES
    at,       \* where the call is
    calls     \* calls so far

vars == <<probeVars, metricsVars, at, calls>>

Init ==
    /\ ProbeInit(Playbacks)
    /\ MetricsInit
    /\ at = "out" /\ calls = 0

Goes(from, to) == at = from /\ at' = to

\* The clocks of clocks that may fail now; without metrics none is read.
Failing(clocks) == IF playback.metrics THEN SUBSET clocks ELSE {{}}

\* p_sys->metrics is NULL unless the option asks for it.
Measured(A) == IF playback.metrics THEN A ELSE UNCHANGED metricsVars

Begin(bad) ==
    /\ Goes("out", "called") /\ calls < MaxCalls
    /\ calls' = calls + 1
    /\ Measured(MetricsBegin(bad))
    /\ UNCHANGED probeVars

\* The first window of pictures whose view could be made, probed or not.
Remember(pic) == seen' = IF Len(seen) < ProbeWindow THEN Append(seen, pic) ELSE seen

Probe(pic) ==
    /\ Goes("called", "probed")
    /\ RunProbe(pic) /\ Remember(pic)
    /\ UNCHANGED <<metricsVars, calls>>

\* The probe is off, or its window is full.
NoProbe(pic) ==
    /\ Goes("called", "probed") /\ ~active
    /\ Remember(pic)
    /\ UNCHANGED <<playback, active, accum, advised, skip, metricsVars, calls>>

\* up_picture_view_init rejects the picture.
Unusable == Goes("called", "probed") /\ UNCHANGED <<probeVars, metricsVars, calls>>

\* No backend, or no output picture; or the backend, or the sharpening, fails.
Drops ==
    /\ at \in {"called", "probed", "scaled", "sharpened"} /\ at' = "dropping"
    /\ UNCHANGED <<probeVars, metricsVars, calls>>

MarkStage(from, to, bad) == Goes(from, to) /\ Measured(Mark(bad)) /\ UNCHANGED <<probeVars, calls>>
EndStage(stage, from, to, bad) == Goes(from, to) /\ Measured(Stage(stage, bad)) /\ UNCHANGED <<probeVars, calls>>

End(bad) ==
    /\ at \in {"sharpened", "dropping"} /\ at' = "out"
    /\ Measured(MetricsEnd(at = "sharpened", bad))
    /\ UNCHANGED <<probeVars, calls>>

TimePasses == playback.metrics /\ Passes /\ UNCHANGED <<probeVars, at, calls>>

Over == at = "out" /\ calls = MaxCalls /\ UNCHANGED vars

Next ==
    \/ \E bad \in Failing({"wall", "cpu"}) : Begin(bad) \/ End(bad)
    \/ \E pic \in Pictures : Probe(pic) \/ NoProbe(pic)
    \/ Unusable \/ Drops
    \/ \E bad \in Failing({"wall"}) :
          \/ MarkStage("probed", "scaling", bad) \/ EndStage("scale", "scaling", "scaled", bad)
          \/ MarkStage("scaled", "sharpening", bad) \/ EndStage("usm", "sharpening", "sharpened", bad)
    \/ TimePasses \/ Over

Spec == Init /\ [][Next]_vars
=============================================================================
