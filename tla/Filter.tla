------------------------------- MODULE Filter -------------------------------
(***************************************************************************)
(* The filter of src/src/autoupscale.c: open with a backend or its         *)
(* fallback, one picture in and at most one out per call, the content      *)
(* probe, the one-shot runtime fallback from zimg to swscale, the          *)
(* sharpening pass and its failures, and close.  VLC calls the filter from *)
(* one thread; a call is a sequence of steps, one per function called, and *)
(* at names the step to come.                                              *)
(*                                                                         *)
(* The zimg backend is ZimgBackend; the sharpening pass is UsmAdaptive,    *)
(* here only what it reports.  live, owed, pixels and shown are history.   *)
(***************************************************************************)
EXTENDS ZimgBackend

CONSTANT ProbeWindow    \* UP_PROBE_WINDOW_FRAMES

ASSUME FilterAssumption == ProbeWindow \in Nat \ {0}

VARIABLES
    at,         \* "closed", "open", "retry", "idle", "probe", "picture", "scale",
                \* "fallback", "reopen", "sharpen", "drop" or "deliver"
    pref,       \* --autoupscale-backend: "auto", "zimg" or "swscale"
    supported,  \* backends whose supports() accepts the chroma
    backend,    \* ctx->backend, "none" for NULL
    fallbackTried,
    usm,        \* "off", "fixed" or "adaptive": usm_pool and usm_adaptive.enabled
    skipSharp,  \* usm_skip_sharp
    probing,    \* probe.active
    probed,     \* probe.accum.frames
    src, dst,   \* storage of the pictures of this call, "none" if there is none
    status,     \* what the last backend call returned
    live,       \* backends opened and not closed
    owed,       \* pictures of this call not yet released or forwarded, with count
    pixels,     \* contents of the output picture
    shown       \* contents of the last picture forwarded

vars == <<zimgVars, at, pref, supported, backend, fallbackTried, usm, skipSharp,
          probing, probed, src, dst, status, live, owed, pixels, shown>>

config   == <<pref, supported>>
usmVars  == <<usm, skipSharp>>
probe    == <<probing, probed>>
pictures == <<src, dst, owed, pixels, shown>>

NoPicture == [in |-> 0, out |-> 0]

Init ==
    /\ at = "closed"
    /\ options \in Options
    /\ pref \in {"auto", "zimg", "swscale"}
    /\ supported \in SUBSET {"zimg", "swscale"}
    /\ priv = "none" /\ pool = "new" /\ misses = 0
    /\ plan = Resolve(TRUE, TRUE)
    /\ backend = "none" /\ fallbackTried = FALSE
    /\ usm = "off" /\ skipSharp = FALSE
    /\ probing = FALSE /\ probed = 0
    /\ src = "none" /\ dst = "none"
    /\ status = "ok"
    /\ live = {}
    /\ owed = NoPicture
    /\ pixels = "blank" /\ shown = "none"

-----------------------------------------------------------------------------
(* Open. *)

\* scaler_pick; "none" if no backend takes the request.
Pick(p) ==
    IF p # "swscale" /\ "zimg" \in supported THEN "zimg"
    ELSE IF p # "zimg" /\ "swscale" \in supported THEN "swscale" ELSE "none"

\* be->open succeeds; ctx->priv is its descriptor.
BackendOpens(b) ==
    /\ backend' = b
    /\ live' = live \cup {b}
    /\ IF b = "zimg" THEN ZimgOpen ELSE priv' = "swscale" /\ UNCHANGED <<pool, plan, misses>>

\* up_autoupscale_open accepts the format; p_sys is zeroed.
Open ==
    /\ at = "closed"
    /\ Pick(pref) # "none"
    /\ at' = "open"
    /\ backend' = Pick(pref)
    /\ fallbackTried' = FALSE /\ skipSharp' = FALSE
    /\ probed' = 0
    /\ UNCHANGED <<zimgVars, config, usm, probing, pictures, status, live>>

\* InitUsmPool and InitProbe: what the options leave on.
Engage ==
    /\ at' = "idle"
    /\ usm' \in {"off", "fixed", "adaptive"}
    /\ probing' \in BOOLEAN

OpenPreferred ==
    /\ at = "open"
    /\ BackendOpens(backend)
    /\ Engage
    /\ UNCHANGED <<options, config, fallbackTried, skipSharp, probed, pictures, status>>

MayRetry == pref = "auto" /\ backend = "zimg" /\ Pick("swscale") = "swscale"

OpenPreferredFails ==
    /\ at = "open"
    /\ IF MayRetry THEN at' = "retry" /\ UNCHANGED backend
       ELSE at' = "closed" /\ backend' = "none"
    /\ UNCHANGED <<zimgVars, config, fallbackTried, usmVars, probe, pictures, status, live>>

OpenRetry ==
    /\ at = "retry"
    /\ BackendOpens("swscale")
    /\ Engage
    /\ UNCHANGED <<options, config, fallbackTried, skipSharp, probed, pictures, status>>

OpenRetryFails ==
    /\ at = "retry"
    /\ at' = "closed" /\ backend' = "none"
    /\ UNCHANGED <<zimgVars, config, fallbackTried, usmVars, probe, pictures, status, live>>

-----------------------------------------------------------------------------
(* FilterFrame up to the backend. *)

Owe(p, n) == owed' = [owed EXCEPT ![p] = @ + n]

\* A picture arrives; without a backend it is released at once.
Frame ==
    /\ at = "idle"
    /\ src' \in Storage
    /\ IF backend = "none" THEN at' = "drop"
       ELSE at' = IF probing THEN "probe" ELSE "picture"
    /\ Owe("in", 1)
    /\ pixels' = "blank"
    /\ UNCHANGED <<zimgVars, config, backend, fallbackTried, usmVars, probe, dst, status,
                   live, shown>>

\* RunProbe: valid views are counted; the full window closes the probe, and a
\* sharp source turns sharpening off for the rest of the playback.
Probe ==
    /\ at = "probe"
    /\ at' = "picture"
    /\ probed' = IF src = "bad" THEN probed ELSE probed + 1
    /\ IF probed' < ProbeWindow \/ src = "bad"
       THEN UNCHANGED <<probing, usmVars>>
       ELSE /\ probing' = FALSE
            /\ skipSharp' \in BOOLEAN
            /\ usm' = IF skipSharp' THEN "off" ELSE usm
    /\ UNCHANGED <<zimgVars, config, backend, fallbackTried, pictures, status, live>>

NewPicture ==
    /\ at = "picture"
    /\ at' = "scale"
    /\ dst' \in Storage
    /\ Owe("out", 1)
    /\ UNCHANGED <<zimgVars, config, backend, fallbackTried, usmVars, probe, src, status,
                   live, pixels, shown>>

\* The output pool is exhausted.
NoNewPicture ==
    /\ at = "picture"
    /\ at' = "drop"
    /\ UNCHANGED <<zimgVars, config, backend, fallbackTried, usmVars, probe, pictures,
                   status, live>>

-----------------------------------------------------------------------------
(* backend->process; Went is FilterFrame's reaction to its status. *)

\* Wrong variant: the two kinds of failure are taken for each other.
WentSwapped(s, px) ==
    /\ status' = s
    /\ pixels' = px
    /\ at' = CASE s = "ok"        -> "sharpen"
               [] s = "transient" -> "fallback"
               [] s = "fatal"     -> "drop"
    /\ UNCHANGED <<config, backend, fallbackTried, usmVars, probe, src, dst, live, owed, shown>>

Went(s, px) ==
    /\ status' = s
    /\ pixels' = px
    /\ at' = CASE s = "ok"        -> "sharpen"
               [] s = "transient" -> "drop"
               [] s = "fatal"     -> "fallback"
    /\ UNCHANGED <<config, backend, fallbackTried, usmVars, probe, src, dst, live, owed, shown>>

OnZimg == at = "scale" /\ backend = "zimg"

ZimgScales     == OnZimg /\ Scales(src, dst) /\ Went("ok", "whole")
ZimgTears      == OnZimg /\ Tears(src, dst) /\ Went("fatal", "torn")
ZimgRejects    == OnZimg /\ Rejects(src, dst) /\ Went("transient", "blank")
ZimgStartFails == OnZimg /\ StartFails(src, dst) /\ Went("fatal", "blank")
ZimgDrifts     == OnZimg /\ Drift(src, dst)
                  /\ Went(IF pool' = "broken" THEN "fatal" ELSE "transient", "blank")

OnSwscale == at = "scale" /\ backend = "swscale" /\ UNCHANGED zimgVars

\* sws_process without its private state; only a closed backend has none.
SwsScales  == OnSwscale /\ Usable(src, dst) /\ Went("ok", "whole")
SwsShort   == OnSwscale /\ Usable(src, dst) /\ Went("transient", "torn")
SwsRejects == OnSwscale /\ ~Usable(src, dst) /\ Went("transient", "blank")

-----------------------------------------------------------------------------
(* TryBackendFallback. *)

\* RetireBackend
Retire ==
    /\ ZimgClose
    /\ live' = live \ {backend}
    /\ UNCHANGED <<options, plan>>

\* Wrong variant: swscale is opened on the context without closing zimg.
FallBackUnclosed ==
    /\ at = "fallback" /\ ~fallbackTried /\ backend = "zimg"
    /\ fallbackTried' = TRUE
    /\ backend' = IF pref = "zimg" THEN "none" ELSE Pick("swscale")
    /\ at' = IF backend' = "none" THEN "drop" ELSE "reopen"
    /\ UNCHANGED <<zimgVars, live, config, usmVars, probe, pictures, status>>

\* A forced zimg is retired without a successor.
FallBack ==
    /\ at = "fallback" /\ ~fallbackTried /\ backend = "zimg"
    /\ fallbackTried' = TRUE
    /\ Retire
    /\ backend' = IF pref = "zimg" THEN "none" ELSE Pick("swscale")
    /\ at' = IF backend' = "none" THEN "drop" ELSE "reopen"
    /\ UNCHANGED <<config, usmVars, probe, pictures, status>>

Reopen ==
    /\ at = "reopen"
    /\ at' = "drop"
    /\ BackendOpens("swscale")
    /\ UNCHANGED <<options, config, fallbackTried, usmVars, probe, pictures, status>>

ReopenFails ==
    /\ at = "reopen"
    /\ at' = "drop"
    /\ backend' = "none"
    /\ UNCHANGED <<zimgVars, config, fallbackTried, usmVars, probe, pictures, status, live>>

-----------------------------------------------------------------------------
(* FinishScaledFrame: ApplyUsmIfEnabled, then forward or drop. *)

SharpenAfter == UNCHANGED <<zimgVars, config, backend, fallbackTried, probe, src, dst,
                            status, live, owed, shown>>

NotSharpened ==
    /\ at = "sharpen" /\ usm = "off"
    /\ at' = "deliver"
    /\ UNCHANGED <<usmVars, pixels>> /\ SharpenAfter

\* The adaptive search may end with any frame.
Sharpened ==
    /\ at = "sharpen" /\ usm # "off"
    /\ at' = "deliver"
    /\ pixels' = "sharp"
    /\ usm' \in {usm, "fixed"}
    /\ UNCHANGED skipSharp /\ SharpenAfter

\* The pool could not start; the picture is forwarded as it was scaled.
SharpenUnchanged ==
    /\ at = "sharpen" /\ usm # "off"
    /\ at' = "deliver"
    /\ usm' = "off"
    /\ UNCHANGED <<skipSharp, pixels>> /\ SharpenAfter

\* Wrong variant: the frame is forwarded after a failed dispatch.
SharpenUncertainForwarded ==
    /\ at = "sharpen" /\ usm # "off"
    /\ at' = "deliver"
    /\ pixels' = "torn"
    /\ usm' = "off"
    /\ UNCHANGED skipSharp /\ SharpenAfter

\* A dispatch failed.  A trial's failure ends the search and keeps the best
\* pool (retained); the best pool's ends sharpening.
SharpenUncertain ==
    /\ at = "sharpen" /\ usm # "off"
    /\ at' = "drop"
    /\ pixels' = "torn"
    /\ usm' \in (IF usm = "adaptive" THEN {"fixed", "off"} ELSE {"off"})
    /\ UNCHANGED skipSharp /\ SharpenAfter

\* The output, with the input's properties, goes to VLC.
Deliver ==
    /\ at = "deliver"
    /\ at' = "idle"
    /\ owed' = [in |-> owed.in - 1, out |-> owed.out - 1]
    /\ shown' = pixels
    /\ src' = "none" /\ dst' = "none"
    /\ UNCHANGED <<zimgVars, config, backend, fallbackTried, usmVars, probe, status, live, pixels>>

\* Wrong variant: only the input picture is released.
DropInput ==
    /\ at = "drop"
    /\ at' = "idle"
    /\ Owe("in", -1)
    /\ src' = "none" /\ dst' = "none"
    /\ UNCHANGED <<zimgVars, config, backend, fallbackTried, usmVars, probe, status, live,
                   pixels, shown>>

\* No picture is returned; those the call holds are released.
Drop ==
    /\ at = "drop"
    /\ at' = "idle"
    /\ owed' = [in |-> owed.in - 1, out |-> IF dst = "none" THEN owed.out ELSE owed.out - 1]
    /\ src' = "none" /\ dst' = "none"
    /\ UNCHANGED <<zimgVars, config, backend, fallbackTried, usmVars, probe, status, live,
                   pixels, shown>>

\* up_autoupscale_close; priv dies with p_sys.
Close ==
    /\ at = "idle"
    /\ at' = "closed"
    /\ live' = IF backend = "none" THEN live ELSE live \ {priv}
    /\ backend' = "none"
    /\ ZimgClose
    /\ usm' = "off" /\ probing' = FALSE
    /\ UNCHANGED <<options, plan, config, fallbackTried, skipSharp, probed, pictures, status>>

Declined == at = "closed" /\ Pick(pref) = "none" /\ UNCHANGED vars

-----------------------------------------------------------------------------
Opening == Open \/ OpenPreferred \/ OpenPreferredFails \/ OpenRetry \/ OpenRetryFails
Scaling == ZimgScales \/ ZimgTears \/ ZimgRejects \/ ZimgStartFails \/ ZimgDrifts
           \/ SwsScales \/ SwsShort \/ SwsRejects
Sharpening == NotSharpened \/ Sharpened \/ SharpenUnchanged \/ SharpenUncertain

Next ==
    \/ Opening \/ Frame \/ Probe \/ NewPicture \/ NoNewPicture
    \/ Scaling \/ FallBack \/ Reopen \/ ReopenFails
    \/ Sharpening \/ Deliver \/ Drop \/ Close \/ Declined

Spec == Init /\ [][Next]_vars

-----------------------------------------------------------------------------
\* Between calls the filter owes no picture: on every path the input was
\* released once, and the output was released or forwarded once.
PicturesBalanced == at \in {"idle", "closed"} => owed = NoPicture

\* Exactly the active backend is open, also across the fallback and after a
\* failed or closed playback; what process and close receive is its own private
\* state, never what another backend left in the context.
BackendsAccounted ==
    /\ at \in {"closed", "idle", "scale", "fallback", "drop"} =>
          live = {backend} \ {"none"} /\ priv = backend
    /\ at \in {"open", "retry", "reopen"} => live = {} /\ priv = "none"

\* Nothing unfinished is shown: neither a torn scale, nor a picture a failed
\* sharpening may have been writing to.
ShownWhole == shown \in {"none", "whole", "sharp"}

\* A zimg that can never again process a frame does not stay the backend, so
\* frames are not dropped for the rest of the playback while swscale was not
\* tried; and frames without a backend mean that the fallback was spent.
NoDeadBackend ==
    at = "idle" => /\ backend = "zimg" => pool \notin {"failed", "broken"}
                   /\ backend = "none" => fallbackTried

\* The I/O plan follows the first usable frame: only a started pool can find
\* the alignment drifted.
FirstFrameFits == misses > 0 => pool # "new"

\* Frames that zimg cannot take do not recur for ever within one playback,
\* whatever other frames come between them.
DriftFailsOver == []<><<ZimgDrifts>>_vars => []<>(at = "closed")
=============================================================================
