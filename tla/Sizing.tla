------------------------------- MODULE Sizing -------------------------------
(***************************************************************************)
(* The numbers a playback is opened with: whether and to what size a       *)
(* source is scaled (src/src/upscale_logic.h), how many workers the        *)
(* sharpening may use (src/src/thread_policy.h), and what the sharpening   *)
(* pool and the adaptive search make of that number (usm_pool.c,           *)
(* usm_adaptive.h).                                                        *)
(***************************************************************************)
EXTENDS Integers

CONSTANTS
    Widths, Heights,    \* source sizes, after the crop was aligned
    Skips,              \* --autoupscale-skip-above
    Masks,              \* processors in the affinity mask of the process; 0 if it cannot be read
    Onlines,            \* processors sysconf counts; not positive if it cannot
    Threads,            \* --autoupscale-threads; 0 is AUTO
    StripeRows          \* --autoupscale-usm-stripe-min-rows; 0 is the default

ASSUME SizingAssumption ==
    /\ Widths \cup Heights \subseteq Nat \ {0}
    /\ Skips \cup Masks \cup Threads \cup StripeRows \subseteq Nat
    /\ Onlines \subseteq Int

VARIABLES
    request,    \* what Open is called with
    stage,      \* "asked", "declined", "sized" or "shared"
    target,     \* the dimensions up_plan_upscale returned
    pool,       \* n_threads of the sharpening pool
    tuner       \* limit and best of the adaptive search

vars == <<request, stage, target, pool, tuner>>

MaxRatio == 4          \* UP_MAX_RATIO
MaxDim == 32768        \* UP_MAX_DIM
MaxThreads == 64       \* UP_THREADS_MAX
AutoThreads == 12      \* UP_THREADS_AUTO_MAX
MaxCpus == 256         \* UP_CPU_COUNT_MAX

Presets == 0 .. 6      \* 0 is UP_TARGET_AUTO
PresetHeight == [p \in Presets \ {0} |-> <<720, 1080, 1440, 2160, 2880, 4320>>[p]]

AtMost(x, hi) == IF x > hi THEN hi ELSE x
AtLeast(x, lo) == IF x < lo THEN lo ELSE x

-----------------------------------------------------------------------------
(* upscale_logic.h *)

\* up__auto_target_height
AutoHeight(srcH, cores) == IF cores >= 4 /\ srcH * MaxRatio >= 1080 THEN 1080 ELSE 720

\* Wrong variant: the preset is not held to the largest ratio.
UncappedHeight(srcH, preset, cores) ==
    AtLeast(IF preset = 0 THEN AutoHeight(srcH, cores) ELSE PresetHeight[preset], srcH)

\* up_decide_target_height: at most four times the source, never less than it.
TargetHeight(srcH, preset, cores) ==
    AtLeast(AtMost(IF preset = 0 THEN AutoHeight(srcH, cores) ELSE PresetHeight[preset],
                   srcH * MaxRatio), srcH)

EvenDown(x) == x - (x % 2)

\* up_compute_target_dims, for a target within MaxDim
TargetDims(srcW, srcH, h) ==
    [width |-> EvenDown((srcW * h) \div srcH), height |-> EvenDown(h)]

\* up_compute_target_dims' range check and up__plan_result_ok
Upscales(srcW, srcH, d) ==
    /\ d.width \in 1 .. MaxDim /\ d.height \in 1 .. MaxDim
    /\ d.width >= srcW /\ d.height >= srcH
    /\ d.width > srcW \/ d.height > srcH

\* up__plan_inputs_ok
Wanted(srcW, srcH, skip, preset) ==
    /\ srcW <= MaxDim /\ srcH <= MaxDim
    /\ ~(preset = 0 /\ skip > 0 /\ srcH >= skip)

\* up_plan_upscale says yes
Engages(r) ==
    LET h == TargetHeight(r.height, r.preset, r.cores)
    IN  /\ Wanted(r.width, r.height, r.skip, r.preset)
        /\ h > r.height
        /\ Upscales(r.width, r.height, TargetDims(r.width, r.height, h))

-----------------------------------------------------------------------------
(* thread_policy.h and the sharpening pool *)

\* up_detect_cpu_topology: the affinity mask, or else the processors online.
Detected(mask, online) == AtMost(IF mask > 0 THEN mask ELSE AtLeast(online, 1), MaxCpus)

\* up_threads_decide
Decide(pref, cores) ==
    LET n == IF pref = 0 THEN AtMost(AtLeast((cores \div 2) - 2, 1), AutoThreads) ELSE pref
    IN  AtMost(AtMost(n, cores), MaxThreads)

\* up_usm_threads_decide
DecideUsm(pref, cores, d) ==
    IF pref > 0 THEN Decide(pref, cores)
    ELSE LET pixels == d.width * d.height
             count  == IF pixels <= 1280 * 720 THEN 8
                       ELSE IF pixels <= 1920 * 1080 THEN 12 ELSE 16
         IN  Decide(count, cores)

RowsOr8(rows) == IF rows > 0 THEN rows ELSE 8

\* Wrong variant: the height does not bound the pool.
PoolThreadsByCores(count, height, rows) == AtMost(count, MaxThreads)

\* usm_pool_resolve_threads
PoolThreads(count, height, rows) ==
    AtMost(AtMost(count, MaxThreads), AtLeast(height \div RowsOr8(rows), 1))

\* Wrong variant: the search is bounded by the automatic count.
TunerStartAuto(count, cores, height, rows) ==
    LET limit == AtLeast(AtMost(Decide(0, cores), height \div RowsOr8(rows)), 1)
    IN  [limit |-> limit, best |-> AtMost(count, limit)]

\* InitAdaptiveUsm, up_usm_adaptive_init and up_worker_tuner_init
TunerStart(count, cores, height, rows) ==
    LET limit == AtLeast(AtMost(Decide(MaxThreads, cores), height \div RowsOr8(rows)), 1)
    IN  [limit |-> limit, best |-> AtMost(count, limit)]

-----------------------------------------------------------------------------
Init ==
    /\ request \in [width : Widths, height : Heights, skip : Skips, preset : Presets,
                    cores : {Detected(m, o) : m \in Masks, o \in Onlines}, threads : Threads, rows : StripeRows]
    /\ stage = "asked"
    /\ target = [width |-> 0, height |-> 0]
    /\ pool = 0 /\ tuner = [limit |-> 0, best |-> 0]

Decline ==
    /\ stage = "asked" /\ ~Engages(request)
    /\ stage' = "declined"
    /\ UNCHANGED <<request, target, pool, tuner>>

\* up_plan_upscale's answer
Size ==
    /\ stage = "asked" /\ Engages(request)
    /\ stage' = "sized"
    /\ target' = TargetDims(request.width, request.height,
                            TargetHeight(request.height, request.preset, request.cores))
    /\ UNCHANGED <<request, pool, tuner>>

\* InitUsmPool, and InitAdaptiveUsm unless a count is asked for explicitly.
Share ==
    /\ stage = "sized"
    /\ stage' = "shared"
    /\ LET count == DecideUsm(request.threads, request.cores, target) IN
        /\ pool' = PoolThreads(count, target.height, request.rows)
        /\ tuner' = IF request.threads = 0
                    THEN TunerStart(count, request.cores, target.height, request.rows)
                    ELSE tuner
    /\ UNCHANGED <<request, target>>

Done == stage \in {"declined", "shared"} /\ UNCHANGED vars

Next == Decline \/ Size \/ Share \/ Done

Spec == Init /\ [][Next]_vars

-----------------------------------------------------------------------------
Accepted == stage \in {"sized", "shared"}

\* An accepted source is really enlarged: even target dimensions within the
\* limits, no axis smaller than the source, at most four times as high, and AUTO
\* never above 1080 lines; the aspect is that of the source up to the rounding
\* of both axes.
PlanEnlarges ==
    Accepted =>
        /\ target.width % 2 = 0 /\ target.height % 2 = 0
        /\ target.width \in request.width .. MaxDim /\ target.height \in request.height .. MaxDim
        /\ target.width > request.width \/ target.height > request.height
        /\ target.height <= MaxRatio * request.height
        /\ request.preset = 0 => target.height <= 1080
        /\ LET skew == target.width * request.height - request.width * target.height
           IN  skew > -2 * request.height /\ skew <= request.width

\* A stripe of the sharpening pool is never thinner than the user asked for,
\* unless the frame itself is.
StripesThick ==
    stage = "shared" /\ pool > 1 =>
        \A w \in 0 .. pool - 1 :
            ((w + 1) * target.height) \div pool - (w * target.height) \div pool >= RowsOr8(request.rows)

\* The adaptive search and the pool it is given start from the same count, and
\* within the processors: a search out of step with its pool would take the
\* first frame for a pool that came up short, and stop.
CountsAgree ==
    stage = "shared" /\ request.threads = 0 =>
        pool = tuner.best /\ tuner.limit <= request.cores /\ pool <= tuner.limit
=============================================================================
