---------------------------- MODULE ZimgBackend ----------------------------
(***************************************************************************)
(* The frame protocol of the zimg backend, src/src/scaler_zimg.c: the I/O  *)
(* plan is chosen with the first frame that has usable pictures, the pool  *)
(* is started with it, later frames must fit the plan, and a failure is    *)
(* sticky.  The pool itself is WorkerPool; here a dispatch is one step.    *)
(*                                                                         *)
(* A picture is its storage: "bad" if up_picture_view_init rejects it,     *)
(* "skewed" if some plane is not 32-byte aligned, "aligned" otherwise.     *)
(***************************************************************************)
EXTENDS Integers

CONSTANTS
    MissLimit,    \* UP_ZIMG_DRIFT_FATAL_MISSES
    Options       \* configurations: [src, dst : zero-copy requested, wide : columns fit]

ASSUME BackendAssumption ==
    /\ MissLimit \in Nat \ {0}
    /\ Options \subseteq [src : BOOLEAN, dst : BOOLEAN, wide : BOOLEAN]

VARIABLES
    options,    \* the options of this playback, from scaler_ctx_t
    priv,       \* what ctx->priv points to: "none", "zimg" or "swscale"
    pool,       \* p->pool: "new", "started", "failed" or "broken"
    plan,       \* p->plan, as far as frames depend on it
    misses      \* p->drift.misses

zimgVars == <<options, priv, pool, plan, misses>>

Storage == {"bad", "skewed", "aligned"}

\* up_zimg_resolve_io_plan on zimg_build_io_req: columns need source-direct
\* reads, and column tiles are copied out of their scratch.
Resolve(srcAligned, dstAligned) ==
    LET direct == options.src /\ srcAligned
        tiled  == direct /\ options.wide
    IN  [src |-> direct, tiled |-> tiled, dst |-> options.dst /\ dstAligned /\ ~tiled]

\* zimg_open: nothing but the descriptor; alignment is not known yet.
ZimgOpen ==
    /\ priv' = "zimg"
    /\ pool' = "new"
    /\ plan' = Resolve(TRUE, TRUE)
    /\ misses' = 0

\* zimg_close; if a join fails the descriptor is quarantined, which the owner
\* cannot tell from freed.
ZimgClose == priv' = "none" /\ pool' = "new" /\ misses' = 0

\* zimg_frame_views_init
Usable(src, dst) == src # "bad" /\ dst # "bad"

\* Wrong variant: the plan made at open time is kept.
PlanKept(src, dst) == plan

\* zimg_prepare_first_frame_io
PlanFor(src, dst) ==
    IF pool = "new" THEN Resolve(src = "aligned", dst = "aligned") ELSE plan

\* zimg_frame_io_safe
Safe(p, src, dst) == (p.src => src = "aligned") /\ (p.dst => dst = "aligned")

(* zimg_process, by outcome; pixels is what the output picture then holds, and *)
(* status what the call returns.                                            *)

Dead == priv # "zimg" \/ pool = "broken"

Rejects(src, dst) == ~Dead /\ ~Usable(src, dst) /\ UNCHANGED zimgVars

\* zimg_note_alignment_drift: misses add up over the playback.
Drift(src, dst) ==
    /\ ~Dead /\ Usable(src, dst) /\ ~Safe(PlanFor(src, dst), src, dst)
    /\ plan' = PlanFor(src, dst)
    /\ misses' = misses + 1
    /\ pool' = IF misses' >= MissLimit THEN "broken" ELSE pool
    /\ UNCHANGED <<options, priv>>

Fits(src, dst) ==
    /\ ~Dead /\ Usable(src, dst) /\ Safe(PlanFor(src, dst), src, dst)
    /\ plan' = PlanFor(src, dst)
    /\ UNCHANGED <<options, priv>>

\* zimg_ensure_lazy_init fails, now or once before.
StartFails(src, dst) ==
    /\ Fits(src, dst)
    /\ pool \in {"new", "failed"}
    /\ pool' = "failed"
    /\ UNCHANGED misses

\* Wrong variant: a safe frame makes the misses before it forgotten.
ScalesForgiving(src, dst) ==
    /\ Fits(src, dst)
    /\ pool # "failed"
    /\ pool' = "started"
    /\ misses' = 0

Scales(src, dst) ==
    /\ Fits(src, dst)
    /\ pool # "failed"
    /\ pool' = "started"
    /\ UNCHANGED misses

\* The dispatch fails, or zimg_check_worker_results finds a worker that failed; or
\* the start does, and the stop of what was started too: later frames then find
\* the pool broken before they look at anything else.
Tears(src, dst) ==
    /\ Fits(src, dst)
    /\ pool # "failed"
    /\ pool' = "broken"
    /\ UNCHANGED misses

-----------------------------------------------------------------------------
(* The protocol by itself, which the cells implement; Filter takes its steps  *)
(* one by one into a call.                                                    *)

ZimgInit ==
    /\ options \in Options /\ priv = "none" /\ pool = "new" /\ misses = 0
    /\ plan = Resolve(TRUE, TRUE)

ZimgProcess(src, dst) ==
    \/ Rejects(src, dst) \/ Drift(src, dst)
    \/ StartFails(src, dst) \/ Scales(src, dst) \/ Tears(src, dst)

ZimgNext ==
    \/ priv = "none" /\ ZimgOpen /\ UNCHANGED options
    \/ \E src, dst \in Storage : ZimgProcess(src, dst)
    \/ priv = "zimg" /\ ZimgClose /\ UNCHANGED <<options, plan>>

ZimgSpec == ZimgInit /\ [][ZimgNext]_zimgVars
=============================================================================
