---------------------------- MODULE WorkerTuner ----------------------------
(***************************************************************************)
(* The worker-count search of src/src/worker_tuner.h: windows of frame     *)
(* times are scored on the current best count, on a trial count, and on    *)
(* the best count again; the trial is adopted only if it beats both.  A    *)
(* settled search is reopened by drift or after a number of frames.        *)
(*                                                                         *)
(* Observe is up_worker_tuner_observe.  Times are abstract, positive frame *)
(* times; a mean is kept as the pair (sum, n) and compared exactly, where  *)
(* the code compares doubles.                                              *)
(***************************************************************************)
EXTENDS Integers, Sequences, FiniteSets, Functions

CONSTANTS
    Limit,      \* the largest worker count, from the cores and the height
    Samples,    \* UP_TUNER_SAMPLES
    EarlyAt,    \* samples after which a slow trial window is cut short (4)
    Warmup,     \* UP_TUNER_WARMUP
    Recheck,    \* UP_TUNER_RECHECK_FRAMES
    Cooldown,   \* UP_TUNER_COOLDOWN_FRAMES
    Drift,      \* drifting windows in a row that reopen the search (3)
    Times       \* the frame times that occur

MaxThreads == 64    \* UP_THREADS_MAX

ASSUME TunerAssumption ==
    /\ Limit \in 1 .. MaxThreads
    /\ EarlyAt \in 1 .. Samples
    /\ {Samples, Warmup, Recheck, Cooldown, Drift} \subseteq Nat
    /\ Samples > 0 /\ Recheck > Cooldown /\ Drift > 0
    /\ Times \subseteq Nat \ {0}

VARIABLES
    phase,      \* "base", "trial", "confirm" or "settled"
    best,       \* the adopted count
    current,    \* the count the next frame runs on
    candidate,  \* the count on trial
    cursor,     \* how far the ladder has been tried
    samples,    \* the open window
    warmup,     \* frames still ignored after a change of count
    remaining,  \* frames until a settled search is reopened
    drift,      \* consecutive drifting windows
    base, trial, steady,   \* scores; by is the count a score was measured on
    tried       \* history: counts measured since the search was opened

tunerVars == <<phase, best, current, candidate, cursor, samples, warmup,
               remaining, drift, base, trial, steady, tried>>

Counts == 1 .. Limit
NoScore == [sum |-> 0, n |-> 1, p95 |-> 0, p99 |-> 0, by |-> 0]

TunerInit ==
    /\ phase = "base"
    /\ best \in Counts
    /\ current = best
    /\ candidate = 0 /\ cursor = 0
    /\ samples = <<>>
    /\ warmup = Warmup
    /\ remaining = 0 /\ drift = 0
    /\ base = NoScore /\ trial = NoScore /\ steady = NoScore
    /\ tried = {}

-----------------------------------------------------------------------------
(* Scores and their comparisons. *)

Ladder == {1, 2, 4, 8, 12, 16, 24, 32, 48, MaxThreads}

\* up_tuner_next_count: the next rung, cut at the limit; 0 at the end.
NextCount(previous) ==
    IF previous >= Limit THEN 0
    ELSE LET rung == CHOOSE c \in Ladder : c > previous
                         /\ \A d \in Ladder : d > previous => c <= d
         IN  IF rung < Limit THEN rung ELSE Limit

\* values[count - k - 1] of the sorted window: k samples may lie above it.
Ranked(s, k) ==
    LET Above(v) == Cardinality({i \in DOMAIN s : s[i] > v})
        From(v)  == Cardinality({i \in DOMAIN s : s[i] >= v})
    IN  CHOOSE v \in {s[i] : i \in DOMAIN s} : Above(v) <= k /\ From(v) > k

Score(s, by) ==
    [sum |-> SumFunction(s),
     n   |-> Len(s),
     p95 |-> Ranked(s, Len(s) \div 20),
     p99 |-> Ranked(s, Len(s) \div 100),
     by  |-> by]

\* The mean of s against percent hundredths of the mean of b.
MeanBelow(s, percent, b) == 100 * s.sum * b.n < percent * b.sum * s.n
MeanAbove(s, percent, b) == 100 * s.sum * b.n > percent * b.sum * s.n

TailRegressed(s, b) == 100 * s.p95 > 105 * b.p95 \/ 100 * s.p99 > 105 * b.p99

Improves(s, b) == MeanBelow(s, 95, b) /\ ~TailRegressed(s, b)

Shifted(s) == MeanAbove(s, 135, steady) \/ MeanBelow(s, 65, steady)
              \/ TailRegressed(s, steady)

\* up_tuner_trial_too_slow
TooSlow(s) == phase = "trial" /\ Len(s) = EarlyAt /\ MeanAbove(Score(s, 0), 150, base)

-----------------------------------------------------------------------------
(* up_tuner_window: one action per phase.  left is remaining after the     *)
(* frame that closed the window.                                           *)

\* up_tuner_begin_trial's cursor: the next count that is not the best one.
NextCandidate ==
    LET c == NextCount(cursor) IN IF c = best THEN NextCount(c) ELSE c

BeginTrial(score, left) ==
    /\ phase = "base" /\ NextCandidate # 0
    /\ cursor' = NextCandidate /\ candidate' = NextCandidate /\ current' = NextCandidate
    /\ base' = score
    /\ phase' = "trial"
    /\ remaining' = left
    /\ UNCHANGED <<best, drift, trial, steady>>

\* The ladder is exhausted: up_tuner_settle.
Settle(score) ==
    /\ phase = "base" /\ NextCandidate = 0
    /\ cursor' = 0
    /\ phase' = "settled"
    /\ current' = best
    /\ steady' = score
    /\ remaining' = Recheck
    /\ drift' = 0
    /\ UNCHANGED <<best, candidate, base, trial>>

EndTrial(score, left) ==
    /\ phase = "trial"
    /\ trial' = score
    /\ current' = best
    /\ phase' = "confirm"
    /\ remaining' = left
    /\ UNCHANGED <<best, candidate, cursor, drift, base, steady>>

\* Wrong variant: the trial is held against the first baseline only.
ConfirmOnce(score, left) ==
    /\ phase = "confirm"
    /\ best' = IF Improves(trial, base) THEN candidate ELSE best
    /\ current' = best'
    /\ phase' = "base"
    /\ remaining' = left
    /\ UNCHANGED <<candidate, cursor, drift, base, trial, steady>>

\* Wrong variant: after a trial the ladder is climbed from its foot again.
ConfirmRestarts(score, left) ==
    /\ phase = "confirm"
    /\ best' = IF Improves(trial, base) /\ Improves(trial, score) THEN candidate ELSE best
    /\ current' = best'
    /\ phase' = "base"
    /\ cursor' = 0
    /\ remaining' = left
    /\ UNCHANGED <<candidate, drift, base, trial, steady>>

\* up_tuner_confirm
Confirm(score, left) ==
    /\ phase = "confirm"
    /\ best' = IF Improves(trial, base) /\ Improves(trial, score) THEN candidate ELSE best
    /\ current' = best'
    /\ phase' = "base"
    /\ remaining' = left
    /\ UNCHANGED <<candidate, cursor, drift, base, trial, steady>>

Cooling(left) == left > Recheck - Cooldown

\* Wrong variant: the search is reopened on the last rung of the ladder.
MonitorKeepsCursor(score, left) ==
    /\ phase = "settled" /\ remaining' = left
    /\ LET drifting == IF Cooling(left) THEN drift ELSE IF Shifted(score) THEN drift + 1 ELSE 0
       IN  IF Cooling(left) \/ (left > 0 /\ drifting < Drift)
           THEN drift' = drifting /\ UNCHANGED <<phase, cursor>>
           ELSE drift' = 0 /\ phase' = "base" /\ cursor' = Limit
    /\ UNCHANGED <<best, current, candidate, base, trial, steady>>

\* Wrong variant: only drift reopens the search, never the passing of frames.
MonitorDriftOnly(score, left) ==
    /\ phase = "settled" /\ remaining' = left
    /\ LET drifting == IF Cooling(left) THEN drift ELSE IF Shifted(score) THEN drift + 1 ELSE 0
       IN  IF drifting < Drift
           THEN drift' = drifting /\ UNCHANGED <<phase, cursor>>
           ELSE drift' = 0 /\ phase' = "base" /\ cursor' = 0
    /\ UNCHANGED <<best, current, candidate, base, trial, steady>>

\* up_tuner_monitor
Monitor(score, left) ==
    /\ phase = "settled"
    /\ remaining' = left
    /\ LET drifting == IF Cooling(left) THEN drift ELSE IF Shifted(score) THEN drift + 1 ELSE 0
       IN  IF Cooling(left) \/ (left > 0 /\ drifting < Drift)
           THEN drift' = drifting /\ UNCHANGED <<phase, cursor>>
           ELSE drift' = 0 /\ phase' = "base" /\ cursor' = 0
    /\ UNCHANGED <<best, current, candidate, base, trial, steady>>

-----------------------------------------------------------------------------
\* The first frames after a change of count are not measured.
Ignore ==
    /\ warmup > 0
    /\ warmup' = warmup - 1
    /\ UNCHANGED <<phase, best, current, candidate, cursor, samples, remaining, drift,
                   base, trial, steady, tried>>

Left == IF remaining > 0 THEN remaining - 1 ELSE 0

Gather(t) ==
    /\ warmup = 0
    /\ LET s == Append(samples, t) IN
        /\ Len(s) < Samples /\ ~TooSlow(s)
        /\ samples' = s
    /\ remaining' = Left
    /\ UNCHANGED <<phase, best, current, candidate, cursor, warmup, drift, base,
                   trial, steady, tried>>

\* What a closed window by the measured count sets off.
Decide(s, by) ==
    LET score == Score(s, by) IN
    /\ \/ BeginTrial(score, Left) \/ Settle(score) \/ EndTrial(score, Left)
       \/ Confirm(score, Left) \/ Monitor(score, Left)
    /\ tried' = IF phase = "settled" /\ phase' = "base" THEN {} ELSE tried \cup {by}

\* Wrong variant: no warm-up after a change of count.
WindowCold(t, by) ==
    /\ warmup = 0
    /\ LET s == Append(samples, t) IN
        /\ Len(s) = Samples \/ TooSlow(s)
        /\ Decide(s, by)
    /\ samples' = <<>>
    /\ warmup' = 0

\* A full window, or a trial window cut short, is scored and acted on.
Window(t, by) ==
    /\ warmup = 0
    /\ LET s == Append(samples, t) IN
        /\ Len(s) = Samples \/ TooSlow(s)
        /\ Decide(s, by)
    /\ samples' = <<>>
    /\ warmup' = IF current' # current THEN Warmup ELSE 0

\* A frame took time t on by workers: up_tuner_observe_with.
Observe(t, by) == Ignore \/ Gather(t) \/ Window(t, by)
=============================================================================
