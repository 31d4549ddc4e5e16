---------------------------- MODULE UsmAdaptive ----------------------------
(***************************************************************************)
(* The adaptive USM driver of src/src/usm_adaptive.h with the calls        *)
(* autoupscale.c makes of it: it owns up to two pools, the best one and a  *)
(* trial, runs each frame on the pool the tuner asks for, and gives the    *)
(* search up - never the sharpening, if it can help it - on a failure.     *)
(*                                                                         *)
(* The code is sequential; a frame is a sequence of steps, one per         *)
(* function, and at names the step to come.  A pool is an identity with    *)
(* the worker count asked of it and the count that came up, 0 until its    *)
(* first apply starts it.                                                  *)
(***************************************************************************)
EXTENDS WorkerTuner

CONSTANTS
    Pools,    \* identities of pools; three are enough for two alive
    None      \* the null pointer

VARIABLES
    at,           \* "idle", "begun", "apply", "recover", "account" or "return"
    bestPool,     \* p_sys->usm_pool, None once USM is disabled
    trialPool,    \* a->trial
    trialCount,   \* a->trial_count
    enabled, stopped, retained,
    framePending, frameTimed,
    timed,        \* whether this frame's start is known
    selected,     \* the pool this frame runs on
    status,       \* what the last apply returned
    alive,        \* pools created and not destroyed
    asked,        \* worker count asked of each pool
    up,           \* worker count that came up in each pool
    ran,          \* history: the pool of the last measured frame ...
    streak,       \* ... and for how many measured frames in a row (capped)
    passes        \* history: sharpening passes over this frame's picture

ASSUME AdaptiveAssumption == None \notin Pools /\ Cardinality(Pools) >= 3

pools == <<bestPool, trialPool, trialCount, alive, asked, up>>
mode  == <<enabled, stopped, retained>>
clock == <<framePending, frameTimed, timed>>
hist  == <<ran, streak, passes>>
vars  == <<tunerVars, at, selected, status, pools, mode, clock, hist>>

StreakCap == Warmup + Samples

\* up_usm_adaptive_init, after up_usm_pool_create made the first pool with the
\* count the tuner starts from (InitUsmPool).
Init ==
    /\ TunerInit
    /\ at = "idle"
    /\ \E p \in Pools :
        /\ bestPool = p
        /\ alive = {p}
        /\ asked = [q \in Pools |-> IF q = p THEN best ELSE 0]
    /\ trialPool = None /\ trialCount = 0
    /\ up = [q \in Pools |-> 0]
    /\ enabled = (Limit > 1)
    /\ stopped = FALSE /\ retained = FALSE
    /\ framePending = FALSE /\ frameTimed = FALSE /\ timed = FALSE
    /\ selected = None
    /\ status = "ok"
    /\ ran = None /\ streak = 0 /\ passes = 0

-----------------------------------------------------------------------------
\* up_usm_adaptive_clear_trial
ClearTrial ==
    /\ alive' = alive \ {trialPool}
    /\ trialPool' = None
    /\ trialCount' = 0

\* up_usm_adaptive_stop
Stop ==
    /\ ClearTrial
    /\ enabled' = FALSE
    /\ stopped' = TRUE
    /\ framePending' = FALSE

\* FilterFrame has an output picture: up_usm_adaptive_begin, before scaling.
Begin ==
    /\ at = "idle" /\ bestPool # None
    /\ at' = "begun"
    /\ passes' = 0
    /\ IF enabled
       THEN framePending' = TRUE /\ frameTimed' \in BOOLEAN
       ELSE UNCHANGED <<framePending, frameTimed>>
    /\ UNCHANGED <<tunerVars, selected, status, pools, mode, timed, ran, streak>>

\* Scaling failed or the output is no valid view: the frame is not sharpened.
NotSharpened ==
    /\ at = "begun"
    /\ at' = "idle"
    /\ UNCHANGED <<tunerVars, selected, status, pools, mode, clock, hist>>

\* up_usm_adaptive_take_start; without a pending start the clock is read now.
TakeStart ==
    /\ timed' \in (IF framePending THEN {frameTimed} ELSE BOOLEAN)
    /\ framePending' = FALSE
    /\ UNCHANGED frameTimed

\* up_usm_adaptive_apply as far as the selected pool: the adaptive mode runs on
\* the best pool, the trial pool it has, or a new trial pool.
SelectBest ==
    /\ at = "begun" /\ (~enabled \/ current = best)
    /\ at' = "apply"
    /\ retained' = FALSE
    /\ selected' = bestPool
    /\ IF enabled THEN TakeStart ELSE timed' = FALSE /\ UNCHANGED <<framePending, frameTimed>>
    /\ UNCHANGED <<tunerVars, status, pools, enabled, stopped, hist>>

SelectTrial ==
    /\ at = "begun" /\ enabled /\ current # best /\ trialCount = current
    /\ at' = "apply"
    /\ retained' = FALSE
    /\ selected' = trialPool
    /\ TakeStart
    /\ UNCHANGED <<tunerVars, status, pools, enabled, stopped, hist>>

CreateTrial ==
    /\ at = "begun" /\ enabled /\ current # best /\ trialCount # current
    /\ at' = "apply"
    /\ retained' = FALSE
    /\ \E p \in Pools \ (alive \ {trialPool}) :
        /\ alive' = (alive \ {trialPool}) \cup {p}
        /\ trialPool' = p /\ selected' = p
        /\ asked' = [asked EXCEPT ![p] = current]
        /\ up' = [up EXCEPT ![p] = 0]
    /\ trialCount' = current
    /\ TakeStart
    /\ UNCHANGED <<tunerVars, status, bestPool, enabled, stopped, hist>>

\* up_usm_pool_create fails: the search is over, the frame runs on best.
CreateFails ==
    /\ at = "begun" /\ enabled /\ current # best /\ trialCount # current
    /\ at' = "apply"
    /\ retained' = FALSE
    /\ Stop
    /\ selected' = bestPool
    /\ timed' = FALSE
    /\ UNCHANGED <<tunerVars, status, bestPool, asked, up, frameTimed, hist>>

-----------------------------------------------------------------------------
(* up_usm_pool_apply on the selected pool (WorkerPool), and where            *)
(* up_usm_adaptive_apply goes from its status.                               *)

Applied(s) ==
    /\ status' = s
    /\ at' = IF s # "ok" THEN IF selected # bestPool THEN "recover" ELSE "return"
             ELSE IF enabled THEN "account" ELSE "return"
    /\ UNCHANGED <<tunerVars, selected, bestPool, trialPool, trialCount, alive, asked,
                   mode, clock, ran, streak>>

\* The first apply starts the pool, with every worker or with some of them.
ApplyOk ==
    /\ at = "apply"
    /\ Applied("ok")
    /\ passes' = passes + 1
    /\ up' \in {[up EXCEPT ![selected] = n] :
                   n \in IF up[selected] = 0 THEN 1 .. asked[selected] ELSE {up[selected]}}

\* The lazy start fails; no worker has touched the picture.
ApplyUnchanged ==
    /\ at = "apply" /\ up[selected] = 0
    /\ Applied("unchanged")
    /\ UNCHANGED <<passes, up>>

\* The dispatch fails after workers may have written; a pool asked for one
\* worker runs inline and cannot fail to dispatch.
ApplyUncertain ==
    /\ at = "apply" /\ asked[selected] > 1
    /\ Applied("uncertain")
    /\ passes' = passes + 1
    /\ up' \in {[up EXCEPT ![selected] = n] :
                   n \in IF up[selected] = 0 THEN 1 .. asked[selected] ELSE {up[selected]}}

\* Wrong variant: a failed trial is always repaired on the best pool.
RecoverAlways ==
    /\ at = "recover"
    /\ Stop
    /\ at' = "apply" /\ selected' = bestPool
    /\ UNCHANGED <<tunerVars, status, bestPool, asked, up, retained, frameTimed, timed, hist>>

\* up_usm_adaptive_recover: the trial pool failed; USM itself is retained.  An
\* untouched picture is sharpened on the best pool after all.
Recover ==
    /\ at = "recover"
    /\ Stop
    /\ IF status = "uncertain"
       THEN retained' = TRUE /\ at' = "return" /\ UNCHANGED selected
       ELSE at' = "apply" /\ selected' = bestPool /\ UNCHANGED retained
    /\ UNCHANGED <<tunerVars, status, bestPool, asked, up, frameTimed, timed, hist>>

-----------------------------------------------------------------------------
(* The measured frame: up_usm_adaptive_accept. *)

\* The pool came up short of the count on trial, the start or the end of the
\* frame is not known, or no time has passed: the clock may fail at any frame.
GiveUp ==
    /\ at = "account"
    /\ at' = "return"
    /\ Stop
    /\ UNCHANGED <<tunerVars, selected, status, bestPool, asked, up, retained, frameTimed,
                   timed, hist>>

Measured ==
    /\ ran' = selected
    /\ streak' = IF ran # selected THEN 1 ELSE IF streak < StreakCap THEN streak + 1 ELSE streak
    /\ UNCHANGED passes

\* Wrong variant: the adopted pool stays registered as the trial.
AcceptKeepsTrial(t) ==
    /\ at = "account" /\ up[selected] = current /\ timed
    /\ at' = "return"
    /\ Observe(t, up[selected])
    /\ IF best' # best
       THEN bestPool' = trialPool /\ alive' = alive \ {bestPool} /\ UNCHANGED <<trialPool, trialCount>>
       ELSE IF phase = "confirm" /\ phase' = "base" THEN ClearTrial /\ UNCHANGED bestPool
       ELSE UNCHANGED <<bestPool, trialPool, trialCount, alive>>
    /\ Measured
    /\ UNCHANGED <<selected, status, asked, up, mode, clock>>

Accept(t) ==
    /\ at = "account" /\ up[selected] = current /\ timed
    /\ at' = "return"
    /\ Observe(t, up[selected])
    /\ IF best' # best
       THEN /\ bestPool' = trialPool
            /\ alive' = alive \ {bestPool}
            /\ trialPool' = None /\ trialCount' = 0
       ELSE IF phase = "confirm" /\ phase' = "base"
       THEN ClearTrial /\ UNCHANGED bestPool
       ELSE UNCHANGED <<bestPool, trialPool, trialCount, alive>>
    /\ Measured
    /\ UNCHANGED <<selected, status, asked, up, mode, clock>>

-----------------------------------------------------------------------------
(* The owner, autoupscale.c. *)

\* DisableUsm
Disable ==
    /\ alive' = alive \ {trialPool, bestPool}
    /\ bestPool' = None /\ trialPool' = None /\ trialCount' = 0
    /\ enabled' = FALSE /\ stopped' = TRUE /\ framePending' = FALSE
    /\ UNCHANGED <<tunerVars, selected, status, asked, up, retained, frameTimed, timed, hist>>

\* ApplyUsmIfEnabled: a failure disables USM unless it was the trial's.
Return ==
    /\ at = "return"
    /\ at' = "idle"
    /\ IF status # "ok" /\ ~retained
       THEN Disable
       ELSE UNCHANGED <<tunerVars, selected, status, pools, mode, clock, hist>>

\* The probe finds a sharp source (RunProbe), or the filter closes.
Abandon ==
    /\ at = "idle" /\ bestPool # None
    /\ Disable
    /\ UNCHANGED at

Off == at = "idle" /\ bestPool = None /\ UNCHANGED vars

Apply == ApplyOk \/ ApplyUnchanged \/ ApplyUncertain

Next ==
    \/ Begin \/ NotSharpened \/ SelectBest \/ SelectTrial \/ CreateTrial \/ CreateFails
    \/ Apply \/ Recover \/ GiveUp \/ (\E t \in Times : Accept(t))
    \/ Return \/ Abandon \/ Off

Spec == Init /\ [][Next]_vars

-----------------------------------------------------------------------------
(* Fairness: frames keep coming while USM is on, and a frame that began is *)
(* eventually sharpened.  Nothing is assumed of the frame times.           *)
Frame == Begin \/ SelectBest \/ SelectTrial \/ CreateTrial \/ CreateFails \/ Apply \/ Recover
         \/ GiveUp \/ (\E t \in Times : Accept(t)) \/ Return

FairSpec ==
    /\ Spec
    /\ WF_vars(Frame)
    /\ SF_vars(SelectBest \/ SelectTrial \/ CreateTrial \/ CreateFails)

-----------------------------------------------------------------------------
\* The driver owns exactly the pools that exist: none leaks, none is destroyed
\* twice, and while the search runs the best pool is the one the tuner means and
\* a candidate that may be adopted has its pool.
PoolsAccounted ==
    /\ alive = {bestPool, trialPool} \ {None}
    /\ bestPool = trialPool => bestPool = None
    /\ enabled => asked[bestPool] = best
    /\ trialPool # None => asked[trialPool] = trialCount
    /\ enabled /\ phase = "confirm" => trialPool # None /\ trialCount = candidate

\* A window mixes no pools and no cold frames: all its samples, and Warmup
\* unmeasured frames before them, ran in a row on the pool that runs now.
WindowPure == samples # <<>> => streak >= Warmup + Len(samples)

Stage == INSTANCE Sharpener WITH
    service <- IF bestPool = None THEN "off" ELSE "on",
    picture <- IF at = "idle" THEN "none"
               ELSE IF passes = 0 THEN "raw"
               ELSE IF passes > 1 THEN "twice"
               ELSE IF status = "ok" THEN "sharp" ELSE "torn",
    answer  <- IF at = "return" THEN status ELSE "none"

\* Whatever the search tries and whichever pool fails, the filter sees one
\* sharpening stage: a picture is swept at most once - a failed trial is repaired
\* only on an untouched picture - the status says what became of it, and the
\* stage stays in service until it says it did nothing or its own pool fails.
ImplementsSharpener == Stage!Spec

\* The best count changes only to a trial that beat the old best count before
\* and after it, each measured on a pool that really had that many workers.
AdoptedOnEvidence ==
    [][best' # best =>
          /\ base.by = best /\ trial.by = best' /\ up[selected] = best
          /\ Improves(trial, base)
          /\ \E t \in Times : Improves(trial, Score(Append(samples, t), best))]_vars

Rungs == {c \in Ladder : c < Limit} \cup {Limit}

\* A search settles only when every rung of the ladder was measured since it was
\* opened, so no count is excluded for the rest of the playback.
SettledExhaustive == phase = "settled" => Rungs \subseteq tried

\* While frames come, every search settles or is given up ...
SearchEnds == enabled ~> (phase = "settled" \/ ~enabled)

\* ... and a settled search is opened again, whatever the frame times.
SearchReopens == (enabled /\ phase = "settled") ~> (phase # "settled" \/ ~enabled)
=============================================================================
