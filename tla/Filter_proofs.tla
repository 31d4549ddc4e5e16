--------------------------- MODULE Filter_proofs ---------------------------
(***************************************************************************)
(* Proofs about Filter, for every probe window, miss limit and set of      *)
(* options.  The inductive invariant says, for each step a call can be at, *)
(* which pictures the call holds, which backend is open and alive, and     *)
(* what the output picture contains.                                       *)
(***************************************************************************)
EXTENDS Filter, TLAPS

Names == {"zimg", "swscale"}

Typed ==
    /\ at \in {"closed", "open", "retry", "idle", "probe", "picture", "scale",
               "fallback", "reopen", "sharpen", "drop", "deliver"}
    /\ pref \in {"auto", "zimg", "swscale"}
    /\ supported \subseteq Names
    /\ backend \in Names \cup {"none"}
    /\ pool \in {"new", "started", "failed", "broken"}
    /\ misses \in Nat
    /\ fallbackTried \in BOOLEAN
    /\ dst \in Storage \cup {"none"}

Holds(in, out) == owed = [in |-> in, out |-> out]

\* The pictures a call holds at each of its steps; dst tells Drop which.
PictureInv ==
    /\ at \in {"closed", "open", "retry", "idle"} => Holds(0, 0) /\ dst = "none"
    /\ at \in {"probe", "picture"} => Holds(1, 0) /\ dst = "none"
    /\ at \in {"scale", "fallback", "reopen", "sharpen", "deliver"} => Holds(1, 1) /\ dst # "none"
    /\ at = "drop" => Holds(1, IF dst = "none" THEN 0 ELSE 1)

\* Only while a backend is about to be opened is none open; at other steps it is
\* ctx->backend that is open and owns ctx->priv.
BackendInv ==
    /\ at \in {"open", "retry", "reopen"} => live = {} /\ priv = "none"
    /\ at \notin {"open", "retry", "reopen"} => live = {backend} \ {"none"} /\ priv = backend
    /\ at = "closed" => backend = "none"
    /\ at \in {"open", "retry"} => backend \in Names
    /\ at = "reopen" => backend = "swscale"
    /\ at \in {"probe", "picture", "scale", "sharpen", "deliver"} => backend # "none"
    /\ at = "fallback" => backend = "zimg"

\* A zimg that cannot go on lives only until the fallback, and the fallback
\* leaves no zimg behind.
AliveInv ==
    /\ backend = "zimg" /\ at \notin {"open", "retry", "fallback"} =>
          pool \in {"new", "started"}
    /\ (backend = "none" /\ at # "closed") \/ at = "reopen" => fallbackTried
    /\ backend = "zimg" => ~fallbackTried

\* What is in the output picture once the backend has returned ok.
PixelsInv ==
    /\ at = "sharpen" => pixels = "whole"
    /\ at = "deliver" => pixels \in {"whole", "sharp"}
    /\ ShownWhole

IInv == Typed /\ PictureInv /\ BackendInv /\ AliveInv /\ PixelsInv /\ FirstFrameFits
LEMMA Started == Init => IInv
<1> SUFFICES ASSUME Init PROVE IInv
    OBVIOUS
<1>1. Typed
    BY DEF Init, Typed, Names, Storage
<1>2. PictureInv /\ PixelsInv
    BY DEF Init, PictureInv, Holds, NoPicture, PixelsInv, ShownWhole
<1>3. BackendInv /\ AliveInv /\ FirstFrameFits
    BY DEF Init, BackendInv, AliveInv, FirstFrameFits
<1> QED
    BY <1>1, <1>2, <1>3 DEF IInv

\* Opening, with the retry.
LEMMA OpeningKeeps == ASSUME IInv, Opening PROVE IInv'
<1> USE DEF IInv, Typed, Names, PictureInv, Holds, BackendInv, AliveInv, PixelsInv, ShownWhole,
              FirstFrameFits, zimgVars, config, usmVars, probe, pictures
<1>1. CASE Open
    BY <1>1 DEF Open, Pick
<1>2. CASE OpenPreferred
    <2> USE <1>2 DEF OpenPreferred, BackendOpens, Engage
    <2>1. CASE backend = "zimg"
        BY <2>1 DEF ZimgOpen
    <2>2. CASE backend = "swscale"
        BY <2>2
    <2> QED
        BY <2>1, <2>2
<1>3. CASE OpenPreferredFails
    BY <1>3 DEF OpenPreferredFails, MayRetry, Pick
<1>4. CASE OpenRetry
    BY <1>4 DEF OpenRetry, BackendOpens, Engage, ZimgOpen
<1>5. CASE OpenRetryFails
    BY <1>5 DEF OpenRetryFails
<1> QED
    BY <1>1, <1>2, <1>3, <1>4, <1>5 DEF Opening

LEMMA OweKeepsCount == /\ Holds(0, 0) /\ Owe("in", 1) => Holds(1, 0)'
                       /\ Holds(1, 0) /\ Owe("out", 1) => Holds(1, 1)'
BY DEF Holds, Owe

\* A call up to the backend.
LEMMA ArrivalKeeps == ASSUME IInv, Frame \/ Probe \/ NewPicture \/ NoNewPicture PROVE IInv'
<1> USE DEF IInv, Typed, Names, PictureInv, Holds, BackendInv, AliveInv, PixelsInv, ShownWhole,
              FirstFrameFits, zimgVars, config, usmVars, probe, pictures
<1>1. CASE Frame
    <2>1. Typed' /\ BackendInv' /\ AliveInv' /\ PixelsInv' /\ FirstFrameFits'
        BY <1>1 DEF Frame
    <2>2. Holds(1, 0)' /\ dst' = "none"
        BY <1>1, OweKeepsCount DEF Frame
    <2> QED
        BY <1>1, <2>1, <2>2 DEF Frame
<1>2. CASE Probe
    BY <1>2 DEF Probe
<1>3. CASE NewPicture
    <2>1. Typed' /\ BackendInv' /\ AliveInv' /\ PixelsInv' /\ FirstFrameFits'
        BY <1>3 DEF NewPicture
    <2>2. Holds(1, 1)' /\ dst' # "none"
        <3>1. Owe("out", 1) /\ at = "picture" /\ dst' \in Storage
            BY <1>3 DEF NewPicture
        <3>2. Holds(1, 0)
            BY <3>1
        <3> QED
            BY <3>1, <3>2, OweKeepsCount DEF Storage
    <2> QED
        BY <1>3, <2>1, <2>2 DEF NewPicture
<1>4. CASE NoNewPicture
    BY <1>4 DEF NoNewPicture
<1> QED
    BY <1>1, <1>2, <1>3, <1>4

\* The backend, by outcome; a plan made for the frame at hand cannot drift.
LEMMA ScalingKeeps == ASSUME IInv, Scaling PROVE IInv'
<1> USE DEF IInv, Typed, Names, PictureInv, Holds, BackendInv, AliveInv, PixelsInv, ShownWhole,
              FirstFrameFits, zimgVars, config, usmVars, probe, pictures
<1>1. CASE ZimgScales
    BY <1>1 DEF ZimgScales, Scales, OnZimg, Fits, Dead, Went
<1>2. CASE ZimgTears
    BY <1>2 DEF ZimgTears, Tears, OnZimg, Fits, Dead, Went
<1>3. CASE ZimgRejects
    BY <1>3 DEF ZimgRejects, Rejects, OnZimg, Dead, Went
<1>4. CASE ZimgStartFails
    BY <1>4 DEF ZimgStartFails, StartFails, OnZimg, Fits, Dead, Went
<1>5. CASE ZimgDrifts
    BY <1>5 DEF ZimgDrifts, Drift, OnZimg, Dead, Went, PlanFor, Safe, Resolve
<1>6. CASE SwsScales
    BY <1>6 DEF SwsScales, OnSwscale, Went
<1>7. CASE SwsShort
    BY <1>7 DEF SwsShort, OnSwscale, Went
<1>8. CASE SwsRejects
    BY <1>8 DEF SwsRejects, OnSwscale, Went
<1> QED
    BY <1>1, <1>2, <1>3, <1>4, <1>5, <1>6, <1>7, <1>8 DEF Scaling

\* The fallback: zimg goes, and swscale or nothing comes.
LEMMA FallbackKeeps == ASSUME IInv, FallBack \/ Reopen \/ ReopenFails PROVE IInv'
<1> USE DEF IInv, Typed, Names, PictureInv, Holds, BackendInv, AliveInv, PixelsInv, ShownWhole,
              FirstFrameFits, zimgVars, config, usmVars, probe, pictures
<1>1. CASE FallBack
    BY <1>1 DEF FallBack, Retire, ZimgClose, Pick
<1>2. CASE Reopen
    BY <1>2 DEF Reopen, BackendOpens
<1>3. CASE ReopenFails
    BY <1>3 DEF ReopenFails
<1> QED
    BY <1>1, <1>2, <1>3

\* Sharpening; a picture it may have torn is dropped.
LEMMA SharpeningKeeps == ASSUME IInv, Sharpening PROVE IInv'
<1> USE DEF IInv, Typed, Names, PictureInv, Holds, BackendInv, AliveInv, PixelsInv, ShownWhole,
              FirstFrameFits, zimgVars, config, usmVars, probe, pictures
<1>1. CASE NotSharpened
    BY <1>1 DEF NotSharpened, SharpenAfter
<1>2. CASE Sharpened
    BY <1>2 DEF Sharpened, SharpenAfter
<1>3. CASE SharpenUnchanged
    BY <1>3 DEF SharpenUnchanged, SharpenAfter
<1>4. CASE SharpenUncertain
    BY <1>4 DEF SharpenUncertain, SharpenAfter
<1> QED
    BY <1>1, <1>2, <1>3, <1>4 DEF Sharpening

\* The end of a call and of the playback.
LEMMA EndingKeeps == ASSUME IInv, Deliver \/ Drop \/ Close PROVE IInv'
<1> USE DEF IInv, Typed, Names, PictureInv, Holds, BackendInv, AliveInv, PixelsInv, ShownWhole,
              FirstFrameFits, zimgVars, config, usmVars, probe, pictures
<1>1. CASE Deliver
    BY <1>1 DEF Deliver
<1>2. CASE Drop
    BY <1>2 DEF Drop
<1>3. CASE Close
    BY <1>3 DEF Close, ZimgClose
<1> QED
    BY <1>1, <1>2, <1>3

LEMMA NothingKeeps == ASSUME IInv, UNCHANGED vars PROVE IInv'
BY DEF vars, IInv, Typed, Names, PictureInv, Holds, BackendInv, AliveInv, PixelsInv, ShownWhole,
            FirstFrameFits, zimgVars, config, usmVars, probe, pictures

LEMMA Inductive == IInv /\ [Next]_vars => IInv'
<1> SUFFICES ASSUME IInv, [Next]_vars PROVE IInv'
    OBVIOUS
<1>1. CASE Opening \/ Scaling \/ Sharpening
    BY <1>1, OpeningKeeps, ScalingKeeps, SharpeningKeeps
<1>2. CASE Frame \/ Probe \/ NewPicture \/ NoNewPicture
    BY <1>2, ArrivalKeeps
<1>3. CASE FallBack \/ Reopen \/ ReopenFails
    BY <1>3, FallbackKeeps
<1>4. CASE Deliver \/ Drop \/ Close
    BY <1>4, EndingKeeps
<1>5. CASE Declined \/ UNCHANGED vars
    BY <1>5, NothingKeeps DEF Declined
<1> QED
    BY <1>1, <1>2, <1>3, <1>4, <1>5 DEF Next

\* The invariant holds in every reachable state.
THEOREM Invariance == Spec => []IInv
BY Started, Inductive, PTL DEF Spec

\* PicturesBalanced for every configuration: no path of a call leaks a picture
\* or releases one twice.
THEOREM PicturesStayBalanced == Spec => []PicturesBalanced
<1>1. IInv => PicturesBalanced
    BY DEF IInv, PictureInv, Holds, PicturesBalanced, NoPicture
<1> QED
    BY <1>1, Invariance, PTL

\* BackendsAccounted for every configuration, across retries and fallbacks.
THEOREM BackendsStayAccounted == Spec => []BackendsAccounted
<1>1. IInv => BackendsAccounted
    BY DEF IInv, Typed, BackendInv, BackendsAccounted
<1> QED
    BY <1>1, Invariance, PTL

\* ShownWhole for every configuration: nothing unfinished reaches VLC.
THEOREM NothingUnfinishedShown == Spec => []ShownWhole
<1>1. IInv => ShownWhole
    BY DEF IInv, PixelsInv
<1> QED
    BY <1>1, Invariance, PTL

\* NoDeadBackend for every configuration and miss limit.
THEOREM DeadBackendsReplaced == Spec => []NoDeadBackend
<1>1. IInv => NoDeadBackend
    BY DEF IInv, Typed, BackendInv, AliveInv, NoDeadBackend
<1> QED
    BY <1>1, Invariance, PTL

\* FirstFrameFits for every configuration and miss limit.
THEOREM PlanFitsFirstFrame == Spec => []FirstFrameFits
<1>1. IInv => FirstFrameFits
    BY DEF IInv
<1> QED
    BY <1>1, Invariance, PTL

-----------------------------------------------------------------------------
(* Drifting frames run out. *)

\* The alignment misses that zimg has left in this playback.
DriftsLeft == IF backend = "zimg" /\ ~fallbackTried THEN MissLimit - misses ELSE 0

\* Misses are those of the zimg that is open, and the last one breaks its pool.
DriftInv ==
    /\ priv # "zimg" => misses = 0
    /\ misses <= MissLimit
    /\ misses = MissLimit => pool = "broken"

\* One step of the filter within a playback.
DriftsRunDown == at # "closed" => /\ DriftsLeft' <= DriftsLeft
                                  /\ ZimgDrifts => DriftsLeft' < DriftsLeft

LEMMA DriftsStart == Init => DriftInv
BY BackendAssumption DEF Init, DriftInv

LEMMA DriftStep ==
    ASSUME IInv, DriftInv, [Next]_vars
    PROVE  DriftInv' /\ DriftsRunDown
<1> USE BackendAssumption DEF DriftInv, DriftsRunDown, DriftsLeft, zimgVars, config, usmVars, probe, pictures
<1>0. /\ misses \in Nat /\ fallbackTried \in BOOLEAN
      /\ at \in {"open", "retry", "reopen"} => priv = "none"
      /\ at \notin {"open", "retry", "reopen"} => priv = backend
      /\ backend = "zimg" => ~fallbackTried
    BY DEF IInv, Typed, BackendInv, AliveInv
<1>1. CASE Opening
    <2>1. CASE Open
        BY <1>0, <2>1 DEF Open
    <2>2. CASE OpenPreferred
        <3>1. CASE backend = "zimg"
            BY <1>0, <2>2, <3>1 DEF OpenPreferred, BackendOpens, ZimgOpen, ZimgDrifts, OnZimg
        <3>2. CASE backend # "zimg"
            BY <1>0, <2>2, <3>2 DEF OpenPreferred, BackendOpens, ZimgDrifts, OnZimg
        <3> QED
            BY <3>1, <3>2
    <2>3. CASE OpenPreferredFails \/ OpenRetryFails
        BY <1>0, <2>3 DEF OpenPreferredFails, OpenRetryFails, MayRetry, ZimgDrifts, OnZimg
    <2>4. CASE OpenRetry
        BY <1>0, <2>4 DEF OpenRetry, BackendOpens, ZimgDrifts, OnZimg
    <2> QED
        BY <1>1, <2>1, <2>2, <2>3, <2>4 DEF Opening
<1>2. CASE Frame \/ Probe \/ NewPicture \/ NoNewPicture \/ Deliver \/ Drop
    BY <1>0, <1>2 DEF Frame, Probe, NewPicture, NoNewPicture, Deliver, Drop, ZimgDrifts, OnZimg
<1>3. CASE ZimgDrifts
    <2>1. /\ at = "scale" /\ backend = "zimg" /\ pool # "broken" /\ misses' = misses + 1
          /\ pool' = IF misses' >= MissLimit THEN "broken" ELSE pool
          /\ UNCHANGED <<backend, fallbackTried, priv>>
        BY <1>3 DEF ZimgDrifts, OnZimg, Drift, Dead, Went
    <2> QED
        BY <1>0, <2>1
<1>4. CASE ZimgScales \/ ZimgTears \/ ZimgRejects \/ ZimgStartFails
    <2>1. /\ at = "scale" /\ backend = "zimg" /\ pool # "broken"
          /\ UNCHANGED <<backend, fallbackTried, priv, misses>>
        BY <1>4 DEF ZimgScales, ZimgTears, ZimgRejects, ZimgStartFails, OnZimg, Scales, Tears,
                    Rejects, StartFails, Fits, Dead, Went
    <2>2. misses # MissLimit /\ ~ZimgDrifts
        BY <1>0, <2>1 DEF ZimgDrifts, Drift
    <2> QED
        BY <1>0, <2>1, <2>2
<1>5. CASE SwsScales \/ SwsShort \/ SwsRejects
    BY <1>0, <1>5 DEF SwsScales, SwsShort, SwsRejects, OnSwscale, Went, ZimgDrifts, OnZimg
<1>6. CASE FallBack \/ Reopen \/ ReopenFails
    BY <1>0, <1>6 DEF FallBack, Retire, ZimgClose, Reopen, BackendOpens, ReopenFails, ZimgDrifts, OnZimg
<1>7. CASE Sharpening
    BY <1>0, <1>7 DEF Sharpening, NotSharpened, Sharpened, SharpenUnchanged, SharpenUncertain,
                      SharpenAfter, ZimgDrifts, OnZimg
<1>8. CASE Close
    BY <1>0, <1>8 DEF Close, ZimgClose, ZimgDrifts, OnZimg
<1>9. CASE Declined \/ UNCHANGED vars
    BY <1>0, <1>9 DEF Declined, vars, ZimgDrifts, Drift
<1> QED
    BY <1>1, <1>2, <1>3, <1>4, <1>5, <1>6, <1>7, <1>8, <1>9 DEF Next, Scaling

\* The measure behind DriftFailsOver, for every miss limit: the misses that are
\* left in a playback are a natural number, no step of the playback adds to
\* them, whatever frames and failures come between, and each drift takes one.
THEOREM DriftsRunOut == Spec => [](DriftsLeft \in Nat) /\ [][DriftsRunDown]_vars
<1>1. IInv /\ DriftInv => DriftsLeft \in Nat
    BY BackendAssumption DEF IInv, Typed, DriftInv, DriftsLeft
<1>2. IInv /\ DriftInv /\ [Next]_vars => DriftInv' /\ [DriftsRunDown]_vars
    BY DriftStep
<1> QED
    BY <1>1, <1>2, DriftsStart, Invariance, PTL DEF Spec
=============================================================================
