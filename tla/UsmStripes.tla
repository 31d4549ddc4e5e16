----------------------------- MODULE UsmStripes -----------------------------
(***************************************************************************)
(* The sharpening pool of src/src/usm_pool.c: the luma plane is cut into   *)
(* one stripe of rows per worker that came up, and all workers sweep their *)
(* stripes at once.  A sharpened row needs the source rows above and below *)
(* it; when the frame is sharpened in place the neighbours overwrite the   *)
(* rows a stripe needs at its edges, so the caller snapshots those halo    *)
(* rows before the dispatch.                                               *)
(*                                                                         *)
(* A call of up_usm_pool_apply answers at once, or dispatches a sweep that *)
(* returns or fails.  A row is abstract: Source(k, y) is row y of frame k, *)
(* and a sharpened row is the four rows it was combined from.  Reading a   *)
(* row into a blur buffer and writing a row are steps; that the rows are   *)
(* not read and written at once is the invariant NoRace.                   *)
(***************************************************************************)
EXTENDS UsmKernel, FiniteSets

CONSTANTS
    MaxWorkers,    \* bound: workers asked of a pool
    MaxHeight,     \* bound: rows of the plane
    MaxFrames,     \* bound: calls of a behaviour
    Amounts,       \* the amounts apply is called with
    Samples        \* the samples the rounding is compared on

ASSUME StripesAssumption ==
    /\ {MaxWorkers, MaxHeight, MaxFrames} \subseteq Nat \ {0}
    /\ Amounts \subseteq Int /\ Samples \subseteq Byte

VARIABLES
    height,
    pref,          \* workers asked for, p->n_threads_pref
    n,             \* workers that came up, p->n_threads; 0 before the start
    life,          \* "new", "up", "failed" or "broken"
    frame,         \* calls so far
    amount,        \* amount_q8 of this call, clamped
    inPlace,       \* dst == src for this call
    busy,          \* inside the dispatch
    status,        \* what the last call returned
    src, dst,      \* planes as functions from rows; in place only src is used
    haloTop,       \* w->halo_top: a snapshot, or Null
    haloBot,
    y,             \* the row each worker is at
    step,          \* "up", "mid", "dn", "combine" or "done"
    up, mid, dn,   \* the three rolling blur buffers
    writes         \* history: how often each row was written in this call

pool  == <<height, pref, n, life>>
call  == <<frame, amount, inPlace>>
sweep == <<haloTop, haloBot, y, step, up, mid, dn>>
vars  == <<pool, call, busy, status, src, dst, sweep, writes>>

Rows == 0 .. height - 1
Team == 0 .. n - 1
Slots == 0 .. pref - 1

Null == <<"null">>
Source(k, r) == <<"source", k, r>>
Combined(a, b, c, s, k) == <<"sharp", a, b, c, s, k>>

\* usm_pool_repartition_stripes, over the k workers that came up.
Start(w, k) == (w * height) \div k

\* Wrong variant: the last stripe does not absorb the remainder.
StopEven(w, k) == (w + 1) * (height \div k)

Stop(w, k) == IF w = k - 1 THEN height ELSE ((w + 1) * height) \div k

Clamp(r) == IF r < 0 THEN 0 ELSE IF r > height - 1 THEN height - 1 ELSE r

\* up_usm_pool_create: usm_pool_resolve_threads leaves each stripe a row.
Init ==
    /\ height \in 1 .. MaxHeight
    /\ pref \in 1 .. MaxWorkers /\ pref <= height
    /\ n = 0 /\ life = "new"
    /\ frame = 0 /\ amount = 0 /\ inPlace = FALSE
    /\ busy = FALSE /\ status = "ok"
    /\ src = [r \in Rows |-> Source(0, r)] /\ dst = src
    /\ haloTop = [w \in Slots |-> Null] /\ haloBot = haloTop
    /\ y = [w \in Slots |-> 0]
    /\ step = [w \in Slots |-> "done"]
    /\ up = haloTop /\ mid = up /\ dn = up
    /\ writes = [r \in Rows |-> 0]

-----------------------------------------------------------------------------
(* up_usm_pool_apply *)

\* A new frame is in src, and dst is a picture not yet written.
Call(aliased, a) ==
    /\ ~busy /\ frame < MaxFrames
    /\ frame' = frame + 1
    /\ amount' = ClampAmount(a)
    /\ inPlace' = aliased
    /\ src' = [r \in Rows |-> Source(frame', r)]

Answers(s) ==
    /\ status' = s
    /\ UNCHANGED <<height, pref, n, busy, sweep>>

\* The arguments are no plane, or alias one with another stride; or the pool is
\* broken.
Reject(aliased, a) ==
    /\ Call(aliased, a) /\ Answers("unchanged")
    /\ dst' = [r \in Rows |-> Null]
    /\ writes' = [r \in Rows |-> 0]
    /\ UNCHANGED life

\* up_usm__apply_identity: no thread is needed, and none is started.
Identity(aliased, a) ==
    /\ life # "broken"
    /\ Call(aliased, a) /\ amount' = 0 /\ Answers("ok")
    /\ dst' = IF aliased THEN [r \in Rows |-> Null] ELSE src'
    /\ writes' = [r \in Rows |-> IF aliased THEN 0 ELSE 1]
    /\ UNCHANGED life

\* The lazy start fails, now or at an earlier call.
StartFails(aliased, a) ==
    /\ life \in {"new", "failed"}
    /\ Call(aliased, a) /\ amount' > 0 /\ Answers("unchanged")
    /\ life' = "failed"
    /\ dst' = [r \in Rows |-> Null]
    /\ writes' = [r \in Rows |-> 0]

\* Wrong variant: the snapshots of an earlier frame stay in use.
HalosKept(plane, aliased, k) ==
    /\ haloTop' = [w \in Slots |-> IF w < k /\ aliased /\ Start(w, k) > 0
                                   THEN plane[Start(w, k) - 1] ELSE haloTop[w]]
    /\ haloBot' = [w \in Slots |-> IF w < k /\ aliased /\ Stop(w, k) < height
                                   THEN plane[Stop(w, k)] ELSE haloBot[w]]

\* usm_pool_set_per_frame with usm_worker_snapshot_halo
Halos(plane, aliased, k) ==
    /\ haloTop' = [w \in Slots |-> IF w < k /\ aliased /\ Start(w, k) > 0
                                   THEN plane[Start(w, k) - 1] ELSE Null]
    /\ haloBot' = [w \in Slots |-> IF w < k /\ aliased /\ Stop(w, k) < height
                                   THEN plane[Stop(w, k)] ELSE Null]

\* The pool is up, or comes up now with all or some of its workers
\* (usm_pool_finalize); they are set up for the frame and dispatched.
Dispatch(aliased, a) ==
    /\ life \in {"new", "up"}
    /\ Call(aliased, a) /\ amount' > 0
    /\ life' = "up" /\ busy' = TRUE
    /\ n' \in (IF life = "new" THEN 1 .. pref ELSE {n})
    /\ Halos(src', aliased, n')
    /\ y' = [w \in Slots |-> IF w < n' THEN Start(w, n') ELSE 0]
    /\ step' = [w \in Slots |-> IF w < n' THEN "up" ELSE "done"]
    /\ dst' = [r \in Rows |-> Null]
    /\ writes' = [r \in Rows |-> 0]
    /\ UNCHANGED <<height, pref, status, up, mid, dn>>

-----------------------------------------------------------------------------
(* usm_pool_run_worker, by worker w. *)

\* Wrong variant: the row below the stripe is read from the plane.
FromHaloTopOnly(w, r) == haloTop[w] # Null /\ r = Start(w, n) - 1

\* usm_worker_src_row
FromHalo(w, r) ==
    \/ haloTop[w] # Null /\ r = Start(w, n) - 1
    \/ haloBot[w] # Null /\ r = Stop(w, n)

SourceRow(w, r) ==
    IF ~FromHalo(w, r) THEN src[r] ELSE IF r = Start(w, n) - 1 THEN haloTop[w] ELSE haloBot[w]

\* The row that worker w blurs next.
Wanted(w) ==
    CASE step[w] = "up"  -> Clamp(y[w] - 1)
      [] step[w] = "mid" -> y[w]
      [] step[w] = "dn"  -> Clamp(y[w] + 1)

Goes(w, s, t) == busy /\ step[w] = s /\ step' = [step EXCEPT ![w] = t]

BlurUp(w) ==
    /\ Goes(w, "up", "mid")
    /\ up' = [up EXCEPT ![w] = SourceRow(w, Wanted(w))]
    /\ UNCHANGED <<pool, call, busy, status, src, dst, haloTop, haloBot, y, mid, dn, writes>>

BlurMid(w) ==
    /\ Goes(w, "mid", "dn")
    /\ mid' = [mid EXCEPT ![w] = SourceRow(w, Wanted(w))]
    /\ UNCHANGED <<pool, call, busy, status, src, dst, haloTop, haloBot, y, up, dn, writes>>

BlurDown(w) ==
    /\ Goes(w, "dn", "combine")
    /\ dn' = [dn EXCEPT ![w] = SourceRow(w, Wanted(w))]
    /\ UNCHANGED <<pool, call, busy, status, src, dst, haloTop, haloBot, y, up, mid, writes>>

\* The row is written and the window slides down.
Combine(w) ==
    /\ Goes(w, "combine", IF y[w] + 1 < Stop(w, n) THEN "dn" ELSE "done")
    /\ LET row == Combined(up[w], mid[w], dn[w], src[y[w]], amount) IN
        IF inPlace THEN src' = [src EXCEPT ![y[w]] = row] /\ UNCHANGED dst
        ELSE dst' = [dst EXCEPT ![y[w]] = row] /\ UNCHANGED src
    /\ writes' = [writes EXCEPT ![y[w]] = @ + 1]
    /\ y' = [y EXCEPT ![w] = @ + 1]
    /\ up' = [up EXCEPT ![w] = mid[w]]
    /\ mid' = [mid EXCEPT ![w] = dn[w]]
    /\ dn' = [dn EXCEPT ![w] = up[w]]
    /\ UNCHANGED <<pool, call, busy, status, haloTop, haloBot>>

-----------------------------------------------------------------------------
(* up_worker_pool_dispatch's answer (the contract ForkJoin). *)

Returns(s) ==
    /\ busy /\ busy' = FALSE
    /\ status' = s
    /\ UNCHANGED <<height, pref, n, call, src, dst, sweep, writes>>

\* Every worker has run.
ReturnOk ==
    /\ \A w \in Team : step[w] = "done"
    /\ Returns("ok")
    /\ UNCHANGED life

\* The dispatch fails: a worker may never have begun, one that did has ended,
\* and the pool is poisoned.
ReturnUncertain ==
    /\ pref > 1
    /\ \A w \in Team : step[w] \in {"up", "done"}
    /\ Returns("uncertain")
    /\ life' = "broken"

Finished == ~busy /\ frame = MaxFrames /\ UNCHANGED vars

Apply(aliased, a) ==
    \/ Reject(aliased, a) \/ Identity(aliased, a)
    \/ StartFails(aliased, a) \/ Dispatch(aliased, a)

Next ==
    \/ \E aliased \in BOOLEAN, a \in Amounts : Apply(aliased, a)
    \/ \E w \in Team : BlurUp(w) \/ BlurMid(w) \/ BlurDown(w) \/ Combine(w)
    \/ ReturnOk \/ ReturnUncertain \/ Finished

Spec == Init /\ [][Next]_vars

-----------------------------------------------------------------------------
\* Row r of frame k as the single-threaded sweep makes it.
Reference(k, r) ==
    Combined(Source(k, Clamp(r - 1)), Source(k, r), Source(k, Clamp(r + 1)), Source(k, r), amount)

\* The plane the call was to sharpen, before and after.
Output == IF inPlace THEN src ELSE dst
Untouched(r) == IF inPlace THEN Source(frame, r) ELSE Null

\* What a call answers is true of the picture, whatever the interleaving and
\* however many workers came up: ok is the single-threaded result, unchanged a
\* picture nobody wrote - the driver sharpens it again - and even an uncertain
\* one has whole rows only.
ReferenceOutput ==
    frame > 0 /\ ~busy =>
        \A r \in Rows :
            Output[r] \in CASE status = "ok" /\ amount > 0 -> {Reference(frame, r)}
                            [] status = "ok" /\ amount = 0 -> {Source(frame, r)}
                            [] status = "unchanged"        -> {Untouched(r)}
                            [] status = "uncertain"        -> {Untouched(r), Reference(frame, r)}

\* No row of the plane is read while another worker may be writing it: a worker
\* that reads the plane in place reads a row of its own stripe.
NoRace ==
    busy => \A w \in Team :
        inPlace /\ step[w] \in {"up", "mid", "dn"} /\ ~FromHalo(w, Wanted(w)) =>
            Wanted(w) \in Start(w, n) .. Stop(w, n) - 1

\* The stripes cut the plane: a row has one writer, which writes it once, and a
\* sweep that is reported whole has written them all.
WrittenOnce ==
    /\ \A r \in Rows : writes[r] <= 1
    /\ ~busy /\ status = "ok" /\ amount > 0 => \A r \in Rows : writes[r] = 1

\* Whichever rounding the shape of the team selects, the sample is the same: the
\* clamp of the amount keeps the value that is shifted from being negative, where
\* C leaves the shift to the compiler.
RoundingAgrees ==
    \A s, blur \in Samples :
        /\ Biased(amount * (s - blur)) >= 0
        /\ Sharpen(s, blur, amount, TRUE) = Sharpen(s, blur, amount, FALSE)
=============================================================================
