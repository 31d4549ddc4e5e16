-------------------------- MODULE UsmStripes_proofs --------------------------
(***************************************************************************)
(* Proofs about the sharpening pool, for every height, number of workers,  *)
(* number of calls and amount: whatever the workers' interleaving, a call  *)
(* leaves the picture its answer tells of.                                 *)
(***************************************************************************)
EXTENDS UsmStripes, TLAPS

-----------------------------------------------------------------------------
(* Integer division and the stripes. *)

\* The quotient is the number of whole parts.
LEMMA Division ==
    ASSUME NEW a \in Nat, NEW b \in Nat \ {0}
    PROVE  /\ a \div b \in Nat
           /\ b * (a \div b) <= a /\ a < b * (a \div b) + b
OBVIOUS

LEMMA QuotientIs ==
    ASSUME NEW a \in Nat, NEW b \in Nat \ {0}, NEW q \in Int, b * q <= a, a < b * q + b
    PROVE  a \div b = q
OBVIOUS

LEMMA DivisionGrows ==
    ASSUME NEW a \in Nat, NEW c \in Nat, NEW b \in Nat \ {0}, a <= c
    PROVE  a \div b <= c \div b
OBVIOUS

\* The last stripe's end needs no special case.
LEMMA StopIs ==
    ASSUME height \in Nat, NEW k \in Nat \ {0}, NEW w \in 0 .. k - 1
    PROVE  Stop(w, k) = ((w + 1) * height) \div k
<1>1. CASE w = k - 1
    <2>1. (w + 1) * height = k * height /\ k * height \in Nat
        BY <1>1
    <2>2. (k * height) \div k = height
        BY <2>1, QuotientIs
    <2> QED
        BY <1>1, <2>1, <2>2 DEF Stop
<1>2. CASE w # k - 1
    BY <1>2 DEF Stop
<1> QED
    BY <1>1, <1>2

\* A stripe has a row, and lies within the plane.
LEMMA StripeBounds ==
    ASSUME height \in Nat, NEW k \in Nat \ {0}, k <= height, NEW w \in 0 .. k - 1
    PROVE  /\ Start(w, k) \in Nat /\ Stop(w, k) \in Nat
           /\ Start(w, k) < Stop(w, k) /\ Stop(w, k) <= height
<1>1. w * height \in Nat /\ (w + 1) * height \in Nat /\ k * height \in Nat
      /\ (w + 1) * height = w * height + height /\ (w + 1) * height <= k * height
    <2>1. w \in Nat /\ w + 1 \in Nat /\ w + 1 <= k
        OBVIOUS
    <2> QED
        BY <2>1
<1>2. k * Start(w, k) <= w * height /\ Start(w, k) \in Nat
    BY <1>1, Division DEF Start
<1>3. /\ Stop(w, k) \in Nat
      /\ (w + 1) * height < k * Stop(w, k) + k /\ k * Stop(w, k) <= (w + 1) * height
    BY <1>1, StopIs, Division
<1>4. Start(w, k) < Stop(w, k)
    <2> SUFFICES ASSUME Stop(w, k) <= Start(w, k) PROVE FALSE
        BY <1>2, <1>3
    <2>1. k * Stop(w, k) <= k * Start(w, k)
        BY <1>2, <1>3
    <2>2. k * Stop(w, k) \in Nat /\ k * Start(w, k) \in Nat
        BY <1>2, <1>3
    <2> QED
        BY <1>1, <1>2, <1>3, <2>1, <2>2
<1>5. Stop(w, k) <= height
    <2> SUFFICES ASSUME height < Stop(w, k) PROVE FALSE
        BY <1>3
    <2>1. k * (height + 1) <= k * Stop(w, k)
        BY <1>3
    <2>2. k * (height + 1) = k * height + k /\ k * Stop(w, k) \in Nat
        BY <1>3
    <2> QED
        BY <1>1, <1>3, <2>1, <2>2
<1> QED
    BY <1>2, <1>3, <1>4, <1>5

\* Stripes do not overlap ...
LEMMA StripesApart ==
    ASSUME height \in Nat, NEW k \in Nat \ {0}, k <= height,
           NEW w \in 0 .. k - 1, NEW v \in 0 .. k - 1, w < v
    PROVE  Stop(w, k) <= Start(v, k)
<1>1. w \in Nat /\ v \in Nat /\ w + 1 <= v
    OBVIOUS
<1>2. (w + 1) * height \in Nat /\ v * height \in Nat /\ (w + 1) * height <= v * height
    BY <1>1
<1> QED
    BY <1>2, StopIs, DivisionGrows DEF Start

\* ... and leave no row out.
LEMMA StripesCover ==
    ASSUME height \in Nat, NEW k \in Nat \ {0}, k <= height, NEW r \in Rows
    PROVE  \E w \in 0 .. k - 1 : Start(w, k) <= r /\ r < Stop(w, k)
<1> DEFINE w == ((r + 1) * k - 1) \div height
<1>1. /\ r \in Nat /\ r + 1 <= height /\ (r + 1) * k \in Nat /\ (r + 1) * k = r * k + k
      /\ r * k \in Nat /\ (r + 1) * k <= height * k /\ height * k \in Nat
      /\ height * k = k * height
    <2>1. r \in Nat /\ r + 1 <= height
        BY DEF Rows
    <2> QED
        BY <2>1
<1>2. (r + 1) * k - 1 \in Nat
    BY <1>1
<1>3. /\ w \in Nat
      /\ height * w <= (r + 1) * k - 1 /\ (r + 1) * k - 1 < height * w + height
    <2>1. height \in Nat \ {0}
        BY <1>1
    <2> QED
        BY <1>2, <2>1, Division
<1> HIDE DEF w
<1>4. height * w = w * height /\ (w + 1) * height = w * height + height /\ w * height \in Nat
      /\ (w + 1) * height \in Nat
    BY <1>3
<1>5. w <= k - 1
    <2> SUFFICES ASSUME k <= w PROVE FALSE
        BY <1>3
    <2>1. k * height <= w * height
        BY <1>3
    <2> QED
        BY <1>1, <1>3, <1>4, <2>1
<1>6. Start(w, k) <= r
    <2>1. k * Start(w, k) <= w * height /\ Start(w, k) \in Nat
        BY <1>4, Division DEF Start
    <2> SUFFICES ASSUME r + 1 <= Start(w, k) PROVE FALSE
        BY <1>1, <2>1
    <2>2. (r + 1) * k <= k * Start(w, k) /\ k * Start(w, k) \in Nat
        BY <1>1, <2>1
    <2> QED
        BY <1>1, <1>3, <1>4, <2>1, <2>2
<1>7. r < Stop(w, k)
    <2>0. w \in 0 .. k - 1
        BY <1>3, <1>5
    <2>1. /\ Stop(w, k) = ((w + 1) * height) \div k /\ Stop(w, k) \in Nat
          /\ (w + 1) * height < k * Stop(w, k) + k
        BY <1>4, <2>0, StopIs, Division
    <2> SUFFICES ASSUME Stop(w, k) <= r PROVE FALSE
        BY <1>1, <2>1
    <2>2. k * Stop(w, k) <= r * k /\ k * Stop(w, k) \in Nat
        BY <1>1, <2>1
    <2> QED
        BY <1>1, <1>3, <1>4, <2>1, <2>2
<1> QED
    BY <1>3, <1>5, <1>6, <1>7

-----------------------------------------------------------------------------
(* The two roundings. *)

\* A clamped amount times the detail of two samples stays above the bias.
LEMMA BiasSuffices ==
    ASSUME NEW a \in 0 .. MaxAmount, NEW s \in Byte, NEW blur \in Byte
    PROVE  a * (s - blur) \in Int /\ Biased(a * (s - blur)) >= 0
<1> DEFINE d == s - blur
<1>1. d \in Int /\ d + 255 >= 0 /\ d + 255 \in Nat /\ a \in Nat /\ a <= 4096
    BY DEF Byte, MaxAmount
<1> HIDE DEF d
<1>2. a * d \in Int /\ a * (d + 255) = a * d + a * 255 /\ a * (d + 255) >= 0
    BY <1>1
<1>3. a * d >= -(4096 * 255)
    BY <1>1, <1>2
<1> QED
    BY <1>2, <1>3 DEF Biased, MaxAmount, d

LEMMA RoundingsAgree ==
    ASSUME NEW v \in Int
    PROVE  FloorDivBiased(v) = FloorDiv(v)
BY DEF FloorDivBiased, FloorDiv, Biased, Quotient, MaxAmount

LEMMA ClampsToRange == \A a \in Int : ClampAmount(a) \in 0 .. MaxAmount
BY DEF ClampAmount, MaxAmount

-----------------------------------------------------------------------------
(* The inductive invariant. *)

PoolInv ==
    /\ height \in Nat \ {0} /\ pref \in 1 .. height /\ n \in 0 .. pref
    /\ life = "new" => n = 0
    /\ life = "up" => n > 0

CallInv ==
    /\ frame \in Nat /\ amount \in 0 .. MaxAmount
    /\ inPlace \in BOOLEAN /\ busy \in BOOLEAN
    /\ busy => frame > 0 /\ amount > 0 /\ life = "up"

IsPlane(p) == p = [r \in Rows |-> p[r]]
PerWorker(f) == f = [w \in Slots |-> f[w]]

ShapeInv ==
    /\ IsPlane(src) /\ IsPlane(dst) /\ IsPlane(writes)
    /\ PerWorker(y) /\ PerWorker(step) /\ PerWorker(up) /\ PerWorker(mid) /\ PerWorker(dn)

Stripe(w) == Start(w, n) .. Stop(w, n) - 1

\* Worker w has done the rows of its stripe below y, and none further.
Progress(w) ==
    /\ y[w] \in Start(w, n) .. Stop(w, n)
    /\ step[w] \in {"up", "mid", "dn", "combine", "done"}
    /\ step[w] = "done" => y[w] = Stop(w, n)
    /\ step[w] # "done" => y[w] < Stop(w, n)
    /\ step[w] \in {"up", "mid"} => y[w] = Start(w, n)
    /\ \A r \in Stripe(w) :
          /\ writes[r] = IF r < y[w] THEN 1 ELSE 0
          /\ Output[r] = IF r < y[w] THEN Reference(frame, r) ELSE Untouched(r)

\* Its blur buffers hold source rows.
Buffers(w) ==
    /\ step[w] \in {"mid", "dn", "combine"} => up[w] = Source(frame, Clamp(y[w] - 1))
    /\ step[w] \in {"dn", "combine"} => mid[w] = Source(frame, y[w])
    /\ step[w] = "combine" => dn[w] = Source(frame, Clamp(y[w] + 1))

\* Its snapshots are of this frame, where there are neighbours to overwrite it.
Snapshots(w) ==
    /\ haloTop[w] = IF inPlace /\ Start(w, n) > 0 THEN Source(frame, Start(w, n) - 1) ELSE Null
    /\ haloBot[w] = IF inPlace /\ Stop(w, n) < height THEN Source(frame, Stop(w, n)) ELSE Null

SweepInv ==
    busy => /\ \A w \in Team : Progress(w) /\ Buffers(w) /\ Snapshots(w)
            /\ ~inPlace => \A r \in Rows : src[r] = Source(frame, r)

IInv == PoolInv /\ CallInv /\ ShapeInv /\ SweepInv /\ ReferenceOutput /\ WrittenOnce

\* The stripes of the team that came up.
LEMMA TeamStripes ==
    ASSUME PoolInv, n > 0
    PROVE  /\ \A w \in Team : /\ Start(w, n) \in Nat /\ Stop(w, n) \in Nat
                              /\ Start(w, n) < Stop(w, n) /\ Stop(w, n) <= height
                              /\ w \in Slots
           /\ \A w, v \in Team : w # v => Stripe(w) \cap Stripe(v) = {}
           /\ \A r \in Rows : \E w \in Team : r \in Stripe(w)
<1>1. n \in Nat \ {0} /\ n <= height /\ n <= pref /\ height \in Nat /\ pref \in Nat
    BY DEF PoolInv
<1>2. \A w \in Team : /\ Start(w, n) \in Nat /\ Stop(w, n) \in Nat
                      /\ Start(w, n) < Stop(w, n) /\ Stop(w, n) <= height
    BY <1>1, StripeBounds DEF Team
<1>3. \A w \in Team : w \in Slots
    BY <1>1 DEF Team, Slots
<1>4. ASSUME NEW w \in Team, NEW v \in Team, w < v
      PROVE  Stripe(w) \cap Stripe(v) = {}
    <2>1. Stop(w, n) <= Start(v, n)
        BY <1>1, <1>4, StripesApart DEF Team
    <2> QED
        BY <1>2, <2>1 DEF Stripe
<1>5. \A w, v \in Team : w # v => Stripe(w) \cap Stripe(v) = {}
    <2> SUFFICES ASSUME NEW w \in Team, NEW v \in Team, w # v
                 PROVE  Stripe(w) \cap Stripe(v) = {}
        OBVIOUS
    <2>1. w < v \/ v < w
        BY DEF Team
    <2> QED
        BY <1>4, <2>1
<1>6. \A r \in Rows : \E w \in Team : r \in Stripe(w)
    <2> SUFFICES ASSUME NEW r \in Rows PROVE \E w \in Team : r \in Stripe(w)
        OBVIOUS
    <2>1. PICK w \in 0 .. n - 1 : Start(w, n) <= r /\ r < Stop(w, n)
        BY <1>1, StripesCover
    <2> QED
        BY <1>2, <2>1 DEF Team, Stripe, Rows
<1> QED
    BY <1>2, <1>3, <1>5, <1>6

\* A worker reads a row of the source, from its stripe or from a snapshot.
LEMMA ReadsSource ==
    ASSUME IInv, busy, NEW w \in Team, step[w] \in {"up", "mid", "dn"}
    PROVE  /\ SourceRow(w, Wanted(w)) = Source(frame, Wanted(w))
           /\ inPlace /\ ~FromHalo(w, Wanted(w)) => Wanted(w) \in Stripe(w)
<1>1. PoolInv /\ n > 0 /\ height \in Nat
    BY DEF IInv, PoolInv, CallInv
<1>2. /\ Start(w, n) \in Nat /\ Stop(w, n) \in Nat /\ Start(w, n) < Stop(w, n)
      /\ Stop(w, n) <= height
    BY <1>1, TeamStripes
<1>3. Progress(w) /\ Snapshots(w) /\ (~inPlace => \A r \in Rows : src[r] = Source(frame, r))
    BY DEF IInv, SweepInv
<1>4. y[w] \in Nat /\ Start(w, n) <= y[w] /\ y[w] < Stop(w, n)
    BY <1>2, <1>3 DEF Progress
<1>5. /\ step[w] = "up" => Wanted(w) = Clamp(y[w] - 1) /\ y[w] = Start(w, n)
      /\ step[w] = "mid" => Wanted(w) = y[w]
      /\ step[w] = "dn" => Wanted(w) = Clamp(y[w] + 1)
    BY <1>3 DEF Wanted, Progress
<1>6. /\ Wanted(w) \in Rows
      /\ Wanted(w) \in Stripe(w) => Wanted(w) >= y[w]
      /\ Wanted(w) \in Stripe(w) \/ (Wanted(w) = Start(w, n) - 1 /\ Start(w, n) > 0)
                                 \/ (Wanted(w) = Stop(w, n) /\ Stop(w, n) < height)
    <2>1. CASE step[w] = "up"
        BY <1>1, <1>2, <1>4, <1>5, <2>1 DEF Clamp, Rows, Stripe
    <2>2. CASE step[w] = "mid"
        BY <1>1, <1>2, <1>4, <1>5, <2>2 DEF Rows, Stripe
    <2>3. CASE step[w] = "dn"
        BY <1>1, <1>2, <1>4, <1>5, <2>3 DEF Clamp, Rows, Stripe
    <2> QED
        BY <2>1, <2>2, <2>3
<1>7. CASE ~inPlace
    <2>1. ~FromHalo(w, Wanted(w))
        BY <1>3, <1>7 DEF Snapshots, FromHalo
    <2> QED
        BY <1>3, <1>6, <1>7, <2>1 DEF SourceRow
<1>8. CASE inPlace /\ Wanted(w) \in Stripe(w)
    <2>1. ~FromHalo(w, Wanted(w))
        BY <1>2, <1>8 DEF FromHalo, Stripe
    <2>2. src[Wanted(w)] = Source(frame, Wanted(w))
        BY <1>3, <1>4, <1>6, <1>8 DEF Progress, Output, Untouched, Stripe
    <2> QED
        BY <1>8, <2>1, <2>2 DEF SourceRow
<1>9. CASE inPlace /\ Wanted(w) = Start(w, n) - 1 /\ Start(w, n) > 0
    <2>1. haloTop[w] = Source(frame, Start(w, n) - 1) /\ haloTop[w] # Null
        BY <1>3, <1>9 DEF Snapshots, Source, Null
    <2> QED
        BY <1>9, <2>1 DEF SourceRow, FromHalo
<1>10. CASE inPlace /\ Wanted(w) = Stop(w, n) /\ Stop(w, n) < height
    <2>1. haloBot[w] = Source(frame, Stop(w, n)) /\ haloBot[w] # Null
        BY <1>3, <1>10 DEF Snapshots, Source, Null
    <2>2. Wanted(w) # Start(w, n) - 1
        BY <1>2, <1>10
    <2> QED
        BY <1>10, <2>1, <2>2 DEF SourceRow, FromHalo
<1> QED
    BY <1>6, <1>7, <1>8, <1>9, <1>10

-----------------------------------------------------------------------------
(* The inductive invariant, action by action. *)

LEMMA Started == Init => IInv
<1> SUFFICES ASSUME Init PROVE IInv
    OBVIOUS
<1>1. PoolInv /\ CallInv
    <2>1. MaxHeight \in Nat /\ MaxWorkers \in Nat
        BY StripesAssumption
    <2>2. height \in Nat \ {0} /\ pref \in Nat /\ 1 <= pref /\ pref <= height
        BY <2>1 DEF Init
    <2>3. PoolInv
        BY <2>2 DEF Init, PoolInv
    <2>4. CallInv
        <3>1. frame \in Nat /\ amount \in 0 .. MaxAmount
            BY DEF Init, MaxAmount
        <3>2. ~busy /\ busy \in BOOLEAN /\ inPlace \in BOOLEAN
            BY DEF Init
        <3> QED
            BY <3>1, <3>2 DEF CallInv
    <2> QED
        BY <2>3, <2>4
<1>2. ShapeInv
    BY DEF Init, ShapeInv, IsPlane, PerWorker
<1>3. SweepInv /\ ReferenceOutput /\ WrittenOnce
    BY DEF Init, SweepInv, ReferenceOutput, WrittenOnce
<1> QED
    BY <1>1, <1>2, <1>3 DEF IInv

\* A call that answers at once: the picture is the one it answers of.
LEMMA AnswersKeep ==
    ASSUME IInv, NEW aliased \in BOOLEAN, NEW a \in Amounts,
           Reject(aliased, a) \/ Identity(aliased, a) \/ StartFails(aliased, a)
    PROVE  IInv'
<1>1. /\ ~busy /\ busy' = busy /\ frame' = frame + 1 /\ inPlace' = aliased
      /\ amount' = ClampAmount(a) /\ a \in Int
      /\ src' = [r \in Rows |-> Source(frame', r)]
      /\ UNCHANGED <<height, pref, n, y, step, up, mid, dn>>
      /\ status' = "unchanged" \/ (status' = "ok" /\ amount' = 0)
      /\ life' = life \/ (life \in {"new", "failed"} /\ life' = "failed")
    BY StripesAssumption DEF Reject, Identity, StartFails, Call, Answers, sweep
<1>2. \/ dst' = [r \in Rows |-> Null] /\ writes' = [r \in Rows |-> 0]
         /\ (status' = "unchanged" \/ aliased)
      \/ dst' = src' /\ writes' = [r \in Rows |-> 1] /\ ~aliased /\ status' = "ok"
    BY DEF Reject, Identity, StartFails, Answers
<1>3. PoolInv' /\ CallInv'
    BY <1>1, ClampsToRange DEF IInv, PoolInv, CallInv
<1>4. ShapeInv'
    BY <1>1, <1>2 DEF IInv, ShapeInv, IsPlane, PerWorker, Rows, Slots
<1>5. SweepInv'
    BY <1>1 DEF SweepInv
<1>6. Rows' = Rows
    BY <1>1 DEF Rows
<1>7. ReferenceOutput'
    <2>1. CASE status' = "unchanged" /\ dst' = [r \in Rows |-> Null]
        BY <1>1, <1>6, <2>1 DEF ReferenceOutput, Output, Untouched
    <2>2. CASE status' = "unchanged" /\ dst' # [r \in Rows |-> Null]
        BY <1>2, <2>2
    <2>3. CASE status' = "ok" /\ amount' = 0
        <3>1. \A r \in Rows : Output'[r] = Source(frame', r)
            BY <1>1, <1>2, <2>3 DEF Output
        <3> QED
            BY <1>6, <2>3, <3>1 DEF ReferenceOutput
    <2> QED
        BY <1>1, <2>1, <2>2, <2>3
<1>8. WrittenOnce'
    <2>1. \A r \in Rows : writes'[r] <= 1
        BY <1>2
    <2>2. ~(status' = "ok" /\ amount' > 0)
        BY <1>1
    <2> QED
        BY <1>6, <2>1, <2>2 DEF WrittenOnce
<1> QED
    BY <1>3, <1>4, <1>5, <1>7, <1>8 DEF IInv

LEMMA DispatchKeeps ==
    ASSUME IInv, NEW aliased \in BOOLEAN, NEW a \in Amounts, Dispatch(aliased, a)
    PROVE  IInv'
<1>1. /\ ~busy /\ busy' = TRUE /\ frame' = frame + 1 /\ inPlace' = aliased /\ life' = "up"
      /\ amount' = ClampAmount(a) /\ a \in Int /\ amount' > 0
      /\ src' = [r \in Rows |-> Source(frame', r)]
      /\ dst' = [r \in Rows |-> Null] /\ writes' = [r \in Rows |-> 0]
      /\ Halos(src', aliased, n')
      /\ y' = [w \in Slots |-> IF w < n' THEN Start(w, n') ELSE 0]
      /\ step' = [w \in Slots |-> IF w < n' THEN "up" ELSE "done"]
      /\ UNCHANGED <<height, pref, up, mid, dn>>
    BY StripesAssumption DEF Dispatch, Call
<1>2. PICK k \in Nat \ {0} : n' = k /\ k <= pref /\ k <= height
    <2>1. n' \in 1 .. pref /\ pref \in 1 .. height /\ height \in Nat
        BY DEF Dispatch, IInv, PoolInv
    <2> QED
        BY <2>1
<1>0. height \in Nat /\ pref \in Nat
    BY DEF IInv, PoolInv
<1>3. PoolInv' /\ CallInv'
    BY <1>1, <1>0, <1>2, ClampsToRange DEF IInv, PoolInv, CallInv
<1>4. ShapeInv'
    BY <1>1 DEF IInv, ShapeInv, IsPlane, PerWorker, Rows, Slots
<1>5. ASSUME NEW w \in 0 .. k - 1
      PROVE  (Progress(w) /\ Buffers(w) /\ Snapshots(w))'
    <2>1. /\ Start(w, k) \in Nat /\ Stop(w, k) \in Nat
          /\ Start(w, k) < Stop(w, k) /\ Stop(w, k) <= height
        BY <1>0, <1>2, StripeBounds
    <2>2. Start(w, n)' = Start(w, k) /\ Stop(w, n)' = Stop(w, k)
        BY <1>1, <1>2 DEF Start, Stop
    <2>3. w \in Slots /\ w < k
        BY <1>0, <1>2 DEF Slots
    <2>4. y'[w] = Start(w, k) /\ step'[w] = "up"
        BY <1>1, <1>2, <2>3
    <2>5. \A r \in Stripe(w)' : r \in Rows /\ ~(r < y'[w])
        BY <1>0, <1>2, <2>1, <2>2, <2>4 DEF Stripe, Rows
    <2>6. Progress(w)'
        BY <1>1, <2>1, <2>2, <2>4, <2>5 DEF Progress, Output, Untouched
    <2>7. Buffers(w)'
        BY <2>4 DEF Buffers
    <2>8. Snapshots(w)'
        <3>1. Start(w, k) > 0 => Start(w, k) - 1 \in Rows
            BY <1>0, <1>2, <2>1 DEF Rows
        <3>2. Stop(w, k) < height => Stop(w, k) \in Rows
            BY <1>0, <1>2, <2>1 DEF Rows
        <3> QED
            BY <1>1, <1>2, <2>2, <2>3, <3>1, <3>2 DEF Snapshots, Halos
    <2> QED
        BY <2>6, <2>7, <2>8
<1>6. SweepInv'
    BY <1>1, <1>2, <1>5 DEF SweepInv, Team, Rows
<1>7. ReferenceOutput' /\ WrittenOnce'
    BY <1>1 DEF ReferenceOutput, WrittenOnce, Rows
<1> QED
    BY <1>3, <1>4, <1>6, <1>7 DEF IInv

\* Nothing but the sweep of worker w moves on.
LEMMA Elsewhere ==
    ASSUME IInv, busy, NEW w \in Team, NEW v \in Team, v # w,
           UNCHANGED <<pool, call, haloTop, haloBot>>,
           y'[v] = y[v] /\ step'[v] = step[v] /\ up'[v] = up[v] /\ mid'[v] = mid[v] /\ dn'[v] = dn[v],
           \A r \in Stripe(v) : writes'[r] = writes[r] /\ Output'[r] = Output[r]
    PROVE  (Progress(v) /\ Buffers(v) /\ Snapshots(v))'
<1>1. Progress(v) /\ Buffers(v) /\ Snapshots(v)
    BY DEF IInv, SweepInv
<1>2. /\ Start(v, n)' = Start(v, n) /\ Stop(v, n)' = Stop(v, n) /\ Stripe(v)' = Stripe(v)
      /\ \A r : Reference(frame, r)' = Reference(frame, r) /\ Untouched(r)' = Untouched(r)
                /\ Clamp(r)' = Clamp(r)
      /\ UNCHANGED <<frame, inPlace, height, n>>
    BY DEF pool, call, Start, Stop, Stripe, Reference, Untouched, Clamp
<1>3. Progress(v)'
    BY <1>1, <1>2 DEF Progress
<1>4. Buffers(v)'
    <2>1. Clamp(y[v] - 1)' = Clamp(y[v] - 1) /\ Clamp(y[v] + 1)' = Clamp(y[v] + 1)
        BY <1>2 DEF Clamp
    <2> QED
        BY <1>1, <1>2, <2>1 DEF Buffers
<1>5. Snapshots(v)'
    BY <1>1, <1>2 DEF Snapshots
<1> QED
    BY <1>3, <1>4, <1>5

\* The parts of the invariant that a step of the sweep leaves alone.
LEMMA Underway ==
    ASSUME IInv, busy, UNCHANGED <<pool, call, busy>>,
           \A r \in Rows : writes'[r] <= 1
    PROVE  PoolInv' /\ CallInv' /\ ReferenceOutput' /\ WrittenOnce' /\ Rows' = Rows /\ Team' = Team
<1>1. UNCHANGED <<height, pref, n, life, frame, amount, inPlace, busy>>
    BY DEF pool, call
<1>2. Rows' = Rows /\ Team' = Team
    BY <1>1 DEF Rows, Team
<1>3. PoolInv'
    BY <1>1 DEF IInv, PoolInv
<1>4. CallInv'
    BY <1>1 DEF IInv, CallInv
<1>5. ReferenceOutput' /\ WrittenOnce'
    BY <1>1, <1>2 DEF ReferenceOutput, WrittenOnce
<1> QED
    BY <1>2, <1>3, <1>4, <1>5

LEMMA BlurKeeps ==
    ASSUME IInv, NEW w \in Team, BlurUp(w) \/ BlurMid(w) \/ BlurDown(w)
    PROVE  IInv'
<1>1. busy /\ step[w] \in {"up", "mid", "dn"}
    BY DEF BlurUp, BlurMid, BlurDown, Goes
<1>2. /\ UNCHANGED <<pool, call, busy, status, src, dst, haloTop, haloBot, y, writes>>
      /\ \/ /\ step[w] = "up" /\ step' = [step EXCEPT ![w] = "mid"]
            /\ up' = [up EXCEPT ![w] = Source(frame, Wanted(w))] /\ UNCHANGED <<mid, dn>>
         \/ /\ step[w] = "mid" /\ step' = [step EXCEPT ![w] = "dn"]
            /\ mid' = [mid EXCEPT ![w] = Source(frame, Wanted(w))] /\ UNCHANGED <<up, dn>>
         \/ /\ step[w] = "dn" /\ step' = [step EXCEPT ![w] = "combine"]
            /\ dn' = [dn EXCEPT ![w] = Source(frame, Wanted(w))] /\ UNCHANGED <<up, mid>>
    BY <1>1, ReadsSource DEF BlurUp, BlurMid, BlurDown, Goes
<1>3. w \in Slots /\ PoolInv /\ n > 0
    BY <1>1, TeamStripes DEF IInv, CallInv, PoolInv
<1>4. ShapeInv /\ Progress(w) /\ Buffers(w) /\ Snapshots(w)
    BY <1>1 DEF IInv, SweepInv
<1>5. ShapeInv'
    BY <1>2, <1>4 DEF ShapeInv, IsPlane, PerWorker, Rows, Slots, pool
<1>6. PoolInv' /\ CallInv' /\ ReferenceOutput' /\ WrittenOnce' /\ Rows' = Rows /\ Team' = Team
    BY <1>1, <1>2, Underway DEF IInv, WrittenOnce
<1>7. ASSUME NEW v \in Team, v # w
      PROVE  (Progress(v) /\ Buffers(v) /\ Snapshots(v))'
    <2>1. v \in Slots
        BY <1>3, TeamStripes
    <2>2. y'[v] = y[v] /\ step'[v] = step[v] /\ up'[v] = up[v] /\ mid'[v] = mid[v] /\ dn'[v] = dn[v]
        BY <1>2, <1>4, <1>7, <2>1 DEF ShapeInv, PerWorker
    <2>3. \A r \in Stripe(v) : writes'[r] = writes[r] /\ Output'[r] = Output[r]
        BY <1>2 DEF Output, call
    <2> QED
        BY <1>1, <1>2, <1>7, <2>2, <2>3, Elsewhere
<1>8. (Progress(w) /\ Buffers(w) /\ Snapshots(w))'
    <2>1. /\ UNCHANGED <<height, n, frame, amount, inPlace>>
          /\ Start(w, n)' = Start(w, n) /\ Stop(w, n)' = Stop(w, n) /\ Stripe(w)' = Stripe(w)
          /\ Output' = Output
          /\ \A r : Reference(frame, r)' = Reference(frame, r) /\ Untouched(r)' = Untouched(r)
        BY <1>2 DEF pool, call, Start, Stop, Stripe, Output, Reference, Untouched, Clamp
    <2>2. step'[w] = IF step[w] = "up" THEN "mid" ELSE IF step[w] = "mid" THEN "dn" ELSE "combine"
        BY <1>2, <1>3, <1>4 DEF ShapeInv, PerWorker
    <2>3. Progress(w)'
        BY <1>1, <1>2, <1>4, <2>1, <2>2 DEF Progress
    <2>4. /\ Clamp(y[w] - 1)' = Clamp(y[w] - 1) /\ Clamp(y[w] + 1)' = Clamp(y[w] + 1)
        BY <1>2, <2>1 DEF Clamp
    <2>5. Buffers(w)'
        <3>1. CASE step[w] = "up"
            <4>1. up'[w] = Source(frame, Clamp(y[w] - 1))
                BY <1>2, <1>3, <1>4, <3>1 DEF ShapeInv, PerWorker, Wanted
            <4> QED
                BY <1>2, <2>1, <2>2, <2>4, <3>1, <4>1 DEF Buffers
        <3>2. CASE step[w] = "mid"
            <4>1. mid'[w] = Source(frame, y[w]) /\ up'[w] = up[w]
                BY <1>2, <1>3, <1>4, <3>2 DEF ShapeInv, PerWorker, Wanted
            <4> QED
                BY <1>2, <1>4, <2>1, <2>2, <2>4, <3>2, <4>1 DEF Buffers
        <3>3. CASE step[w] = "dn"
            <4>1. dn'[w] = Source(frame, Clamp(y[w] + 1)) /\ up'[w] = up[w] /\ mid'[w] = mid[w]
                BY <1>2, <1>3, <1>4, <3>3 DEF ShapeInv, PerWorker, Wanted
            <4> QED
                BY <1>2, <1>4, <2>1, <2>2, <2>4, <3>3, <4>1 DEF Buffers
        <3> QED
            BY <1>1, <3>1, <3>2, <3>3
    <2>6. Snapshots(w)'
        BY <1>2, <1>4, <2>1 DEF Snapshots
    <2> QED
        BY <2>3, <2>5, <2>6
<1>9. SweepInv'
    <2>1. ~inPlace' => \A r \in Rows' : src'[r] = Source(frame', r)
        BY <1>1, <1>2, <1>6 DEF IInv, SweepInv, call
    <2>2. \A v \in Team' : (Progress(v) /\ Buffers(v) /\ Snapshots(v))'
        BY <1>6, <1>7, <1>8
    <2> QED
        BY <2>1, <2>2 DEF SweepInv
<1> QED
    BY <1>5, <1>6, <1>9 DEF IInv

\* The row that is written is the reference row, and no other worker's.
LEMMA CombineKeeps == ASSUME IInv, NEW w \in Team, Combine(w) PROVE IInv'
<1> DEFINE row == Combined(up[w], mid[w], dn[w], src[y[w]], amount)
<1>1. /\ busy /\ step[w] = "combine"
      /\ step' = [step EXCEPT ![w] = IF y[w] + 1 < Stop(w, n) THEN "dn" ELSE "done"]
      /\ IF inPlace THEN src' = [src EXCEPT ![y[w]] = row] /\ dst' = dst
         ELSE dst' = [dst EXCEPT ![y[w]] = row] /\ src' = src
      /\ writes' = [writes EXCEPT ![y[w]] = @ + 1]
      /\ y' = [y EXCEPT ![w] = @ + 1]
      /\ up' = [up EXCEPT ![w] = mid[w]]
      /\ mid' = [mid EXCEPT ![w] = dn[w]]
      /\ dn' = [dn EXCEPT ![w] = up[w]]
      /\ UNCHANGED <<pool, call, busy, status, haloTop, haloBot>>
    BY DEF Combine, Goes
<1>2. PoolInv /\ n > 0 /\ height \in Nat /\ w \in Slots
    BY <1>1, TeamStripes DEF IInv, CallInv, PoolInv
<1>3. /\ ShapeInv /\ Progress(w) /\ Buffers(w) /\ Snapshots(w) /\ inPlace \in BOOLEAN
      /\ ~inPlace => \A r \in Rows : src[r] = Source(frame, r)
    BY <1>1 DEF IInv, SweepInv, CallInv
<1>4. /\ Start(w, n) \in Nat /\ Stop(w, n) \in Nat /\ Stop(w, n) <= height
      /\ y[w] \in Nat /\ Start(w, n) <= y[w] /\ y[w] < Stop(w, n)
      /\ y[w] \in Stripe(w) /\ y[w] \in Rows
    <2>1. /\ Start(w, n) \in Nat /\ Stop(w, n) \in Nat /\ Stop(w, n) <= height
        BY <1>2, TeamStripes
    <2>2. y[w] \in Nat /\ Start(w, n) <= y[w] /\ y[w] < Stop(w, n)
        BY <1>1, <1>3, <2>1 DEF Progress
    <2> QED
        BY <1>2, <2>1, <2>2 DEF Stripe, Rows
<1>5. src[y[w]] = Source(frame, y[w])
    BY <1>3, <1>4 DEF Progress, Output, Untouched
<1>6. row = Reference(frame, y[w])
    BY <1>1, <1>3, <1>5 DEF Buffers, Reference
<1> HIDE DEF row
<1>7. /\ Output'[y[w]] = Reference(frame, y[w])
      /\ \A r \in Rows : r # y[w] => Output'[r] = Output[r]
      /\ \A r \in Rows : r # y[w] => writes'[r] = writes[r]
      /\ writes'[y[w]] = 1
      /\ inPlace' = inPlace
    <2>1. inPlace' = inPlace
        BY <1>1 DEF call
    <2>2. writes[y[w]] = 0
        BY <1>3, <1>4 DEF Progress
    <2>3. writes'[y[w]] = 1 /\ \A r \in Rows : r # y[w] => writes'[r] = writes[r]
        BY <1>1, <1>3, <1>4, <2>2 DEF ShapeInv, IsPlane
    <2>4. CASE inPlace
        BY <1>1, <1>3, <1>4, <1>6, <2>1, <2>3, <2>4 DEF Output, ShapeInv, IsPlane
    <2>5. CASE ~inPlace
        BY <1>1, <1>3, <1>4, <1>6, <2>1, <2>3, <2>5 DEF Output, ShapeInv, IsPlane
    <2> QED
        BY <2>4, <2>5
<1>8. ShapeInv'
    <2>1. Rows' = Rows /\ Slots' = Slots
        BY <1>1 DEF pool, Rows, Slots
    <2>2. IsPlane(src)' /\ IsPlane(dst)' /\ IsPlane(writes)'
        BY <1>1, <1>3, <2>1 DEF ShapeInv, IsPlane
    <2>3. /\ PerWorker(y)' /\ PerWorker(step)' /\ PerWorker(up)' /\ PerWorker(mid)'
          /\ PerWorker(dn)'
        BY <1>1, <1>3, <2>1 DEF ShapeInv, PerWorker
    <2> QED
        BY <2>2, <2>3 DEF ShapeInv
<1>9. \A r \in Rows : writes'[r] <= 1
    <2> SUFFICES ASSUME NEW r \in Rows PROVE writes'[r] <= 1
        OBVIOUS
    <2> QED
        BY <1>7 DEF IInv, WrittenOnce
<1>10. PoolInv' /\ CallInv' /\ ReferenceOutput' /\ WrittenOnce' /\ Rows' = Rows /\ Team' = Team
    BY <1>1, <1>9, Underway
<1>11. ASSUME NEW v \in Team, v # w
       PROVE  (Progress(v) /\ Buffers(v) /\ Snapshots(v))'
    <2>1. v \in Slots /\ Stripe(v) \cap Stripe(w) = {} /\ Stripe(v) \subseteq Rows
        <3>1. /\ v \in Slots /\ Stripe(v) \cap Stripe(w) = {}
              /\ Start(v, n) \in Nat /\ Stop(v, n) \in Nat /\ Stop(v, n) <= height
            BY <1>2, <1>11, TeamStripes
        <3> QED
            BY <1>2, <3>1 DEF Stripe, Rows
    <2>2. y'[v] = y[v] /\ step'[v] = step[v] /\ up'[v] = up[v] /\ mid'[v] = mid[v] /\ dn'[v] = dn[v]
        BY <1>1, <1>3, <1>11, <2>1 DEF ShapeInv, PerWorker
    <2>3. \A r \in Stripe(v) : writes'[r] = writes[r] /\ Output'[r] = Output[r]
        BY <1>4, <1>7, <2>1
    <2> QED
        BY <1>1, <1>11, <2>2, <2>3, Elsewhere
<1>12. (Progress(w) /\ Buffers(w) /\ Snapshots(w))'
    <2>1. /\ UNCHANGED <<height, n, frame, amount, inPlace>>
          /\ Start(w, n)' = Start(w, n) /\ Stop(w, n)' = Stop(w, n) /\ Stripe(w)' = Stripe(w)
          /\ \A r : Reference(frame, r)' = Reference(frame, r) /\ Untouched(r)' = Untouched(r)
        BY <1>1 DEF pool, call, Start, Stop, Stripe, Reference, Untouched, Clamp
    <2>2. /\ y'[w] = y[w] + 1
          /\ step'[w] = IF y[w] + 1 < Stop(w, n) THEN "dn" ELSE "done"
          /\ up'[w] = mid[w] /\ mid'[w] = dn[w]
        BY <1>1, <1>2, <1>3 DEF ShapeInv, PerWorker
    <2>3. \A r \in Stripe(w) : r \in Rows /\ r \in Nat
        BY <1>2, <1>4 DEF Stripe, Rows
    <2>4. \A r \in Stripe(w) :
              /\ writes'[r] = IF r < y'[w] THEN 1 ELSE 0
              /\ Output'[r] = IF r < y'[w] THEN Reference(frame, r) ELSE Untouched(r)
        <3> SUFFICES ASSUME NEW r \in Stripe(w)
                     PROVE  /\ writes'[r] = IF r < y'[w] THEN 1 ELSE 0
                            /\ Output'[r] = IF r < y'[w] THEN Reference(frame, r) ELSE Untouched(r)
            OBVIOUS
        <3>1. CASE r = y[w]
            BY <1>4, <1>7, <2>2, <3>1
        <3>2. CASE r # y[w]
            <4>1. r < y'[w] <=> r < y[w]
                BY <1>4, <2>2, <2>3, <3>2
            <4>2. writes'[r] = writes[r] /\ Output'[r] = Output[r]
                BY <1>7, <2>3, <3>2
            <4> QED
                BY <1>3, <4>1, <4>2 DEF Progress
        <3> QED
            BY <3>1, <3>2
    <2>5. Progress(w)'
        <3>1. y'[w] \in Start(w, n) .. Stop(w, n)
            BY <1>4, <2>2
        <3>2. step'[w] = "done" => y'[w] = Stop(w, n)
            BY <1>4, <2>2
        <3>3. step'[w] # "done" => y'[w] < Stop(w, n)
            BY <1>4, <2>2
        <3> QED
            BY <2>1, <2>2, <2>4, <3>1, <3>2, <3>3 DEF Progress
    <2>6. Buffers(w)'
        <3>1. step'[w] = "dn" => Clamp(y[w] + 1) = y[w] + 1 /\ Clamp(y[w]) = y[w]
            BY <1>2, <1>4, <2>2 DEF Clamp
        <3>2. /\ mid[w] = Source(frame, y[w]) /\ dn[w] = Source(frame, Clamp(y[w] + 1))
            BY <1>1, <1>3 DEF Buffers
        <3>3. Clamp(y[w] - 1)' = Clamp(y[w])
            BY <1>4, <2>1, <2>2 DEF Clamp
        <3> QED
            BY <2>1, <2>2, <3>1, <3>2, <3>3 DEF Buffers
    <2>7. Snapshots(w)'
        BY <1>1, <1>3, <2>1 DEF Snapshots
    <2> QED
        BY <2>5, <2>6, <2>7
<1>13. SweepInv'
    <2>1. ~inPlace' => \A r \in Rows' : src'[r] = Source(frame', r)
        BY <1>1, <1>3, <1>10 DEF call
    <2>2. \A v \in Team' : (Progress(v) /\ Buffers(v) /\ Snapshots(v))'
        BY <1>10, <1>11, <1>12
    <2> QED
        BY <2>1, <2>2 DEF SweepInv
<1> QED
    BY <1>8, <1>10, <1>13 DEF IInv

\* The answer of a dispatch is true of every stripe, and the stripes are the plane.
LEMMA ReturnKeeps == ASSUME IInv, ReturnOk \/ ReturnUncertain PROVE IInv'
<1>1. /\ busy /\ busy' = FALSE
      /\ UNCHANGED <<height, pref, n, call, src, dst, sweep, writes>>
      /\ \/ /\ \A w \in Team : step[w] = "done"
            /\ status' = "ok" /\ life' = life
         \/ /\ \A w \in Team : step[w] \in {"up", "done"}
            /\ status' = "uncertain" /\ life' = "broken"
    BY DEF ReturnOk, ReturnUncertain, Returns
<1>2. /\ PoolInv /\ n > 0 /\ amount > 0 /\ frame > 0 /\ amount \in Nat
      /\ \A w \in Team : Progress(w)
    BY <1>1 DEF IInv, SweepInv, CallInv, PoolInv
<1>3. /\ UNCHANGED <<height, pref, n, frame, amount, inPlace, src, dst, y, step, up, mid, dn, writes>>
      /\ Rows' = Rows
    BY <1>1 DEF call, sweep, Rows
<1>4. PoolInv' /\ CallInv' /\ ShapeInv' /\ SweepInv'
    BY <1>1, <1>2, <1>3 DEF IInv, PoolInv, CallInv, ShapeInv, IsPlane, PerWorker, Rows, Slots, SweepInv
<1>5. ASSUME NEW r \in Rows
      PROVE  /\ \/ Output[r] = Reference(frame, r) /\ writes[r] = 1
                \/ Output[r] = Untouched(r) /\ status' = "uncertain"
             /\ writes[r] <= 1
    <2>1. PICK w \in Team : r \in Stripe(w)
        BY <1>2, TeamStripes
    <2>2. /\ writes[r] = IF r < y[w] THEN 1 ELSE 0
          /\ Output[r] = IF r < y[w] THEN Reference(frame, r) ELSE Untouched(r)
        BY <1>2, <2>1 DEF Progress
    <2>3. step[w] = "done" => r < y[w]
        <3>1. step[w] = "done" => y[w] = Stop(w, n)
            BY <1>2 DEF Progress
        <3>2. Start(w, n) \in Nat /\ Stop(w, n) \in Nat
            BY <1>2, TeamStripes
        <3> QED
            BY <2>1, <3>1, <3>2 DEF Stripe
    <2>4. step[w] \in {"up", "done"} /\ (step[w] = "done" \/ status' = "uncertain")
        BY <1>1
    <2>5. CASE r < y[w]
        BY <2>2, <2>5
    <2>6. CASE ~(r < y[w])
        <3>1. status' = "uncertain"
            BY <2>3, <2>4, <2>6
        <3>2. writes[r] = 0 /\ Output[r] = Untouched(r)
            BY <2>2, <2>6
        <3> QED
            BY <3>1, <3>2
    <2> QED
        BY <2>5, <2>6
<1>6. Output' = Output /\ \A r : Reference(frame, r)' = Reference(frame, r) /\ Untouched(r)' = Untouched(r)
    BY <1>3 DEF Output, Reference, Untouched, Clamp
<1>7. ReferenceOutput'
    <2>1. amount' > 0 /\ frame' > 0 /\ ~busy'
        BY <1>1, <1>2, <1>3
    <2>2. CASE status' = "ok"
        <3>1. \A r \in Rows : Output'[r] = Reference(frame, r)'
            BY <1>5, <1>6, <2>2
        <3> QED
            BY <1>3, <2>1, <2>2, <3>1 DEF ReferenceOutput
    <2>3. CASE status' = "uncertain"
        <3>1. \A r \in Rows : Output'[r] \in {Untouched(r)', Reference(frame, r)'}
            BY <1>5, <1>6
        <3> QED
            BY <1>3, <2>1, <2>3, <3>1 DEF ReferenceOutput
    <2> QED
        BY <1>1, <2>2, <2>3
<1>8. WrittenOnce'
    BY <1>3, <1>5 DEF WrittenOnce
<1> QED
    BY <1>4, <1>7, <1>8 DEF IInv

LEMMA NothingKeeps == ASSUME IInv, UNCHANGED vars PROVE IInv'
<1>1. UNCHANGED <<height, pref, n, life, frame, amount, inPlace, busy, status, src, dst, haloTop,
                  haloBot, y, step, up, mid, dn, writes>>
    BY DEF vars, pool, call, sweep
<1>2. PoolInv' /\ CallInv' /\ ShapeInv'
    BY <1>1 DEF IInv, PoolInv, CallInv, ShapeInv, IsPlane, PerWorker, Rows, Slots
<1>3. SweepInv'
    BY <1>1 DEF IInv, SweepInv, Progress, Buffers, Snapshots, Output, Untouched, Reference, Stripe,
                Start, Stop, Clamp, Rows, Team
<1>4. /\ Rows' = Rows /\ Output' = Output
      /\ \A r : Reference(frame, r)' = Reference(frame, r) /\ Untouched(r)' = Untouched(r)
    BY <1>1 DEF Rows, Output, Untouched, Reference, Clamp
<1>5. \A r : Source(frame, r)' = Source(frame, r)
    BY <1>1 DEF Source
<1>6. ReferenceOutput'
    <2> SUFFICES ASSUME frame' > 0, ~busy', NEW r \in Rows'
                 PROVE  Output'[r] \in CASE status' = "ok" /\ amount' > 0 -> {Reference(frame, r)'}
                            [] status' = "ok" /\ amount' = 0 -> {Source(frame, r)'}
                            [] status' = "unchanged"        -> {Untouched(r)'}
                            [] status' = "uncertain"        -> {Untouched(r)', Reference(frame, r)'}
        BY DEF ReferenceOutput
    <2>1. frame > 0 /\ ~busy /\ r \in Rows /\ status' = status /\ amount' = amount
        BY <1>1, <1>4
    <2>2. Output[r] \in CASE status = "ok" /\ amount > 0 -> {Reference(frame, r)}
                            [] status = "ok" /\ amount = 0 -> {Source(frame, r)}
                            [] status = "unchanged"        -> {Untouched(r)}
                            [] status = "uncertain"        -> {Untouched(r), Reference(frame, r)}
        BY <2>1 DEF IInv, ReferenceOutput
    <2> QED
        BY <1>4, <1>5, <2>1, <2>2
<1>7. WrittenOnce'
    BY <1>1, <1>4 DEF IInv, WrittenOnce
<1> QED
    BY <1>2, <1>3, <1>6, <1>7 DEF IInv

LEMMA Inductive == IInv /\ [Next]_vars => IInv'
<1> SUFFICES ASSUME IInv, [Next]_vars PROVE IInv'
    OBVIOUS
<1>1. ASSUME NEW aliased \in BOOLEAN, NEW a \in Amounts, Apply(aliased, a) PROVE IInv'
    BY <1>1, AnswersKeep, DispatchKeeps DEF Apply
<1>2. ASSUME NEW w \in Team, BlurUp(w) \/ BlurMid(w) \/ BlurDown(w) \/ Combine(w) PROVE IInv'
    BY <1>2, BlurKeeps, CombineKeeps
<1>3. CASE ReturnOk \/ ReturnUncertain
    BY <1>3, ReturnKeeps
<1>4. CASE Finished \/ UNCHANGED vars
    BY <1>4, NothingKeeps DEF Finished
<1> QED
    BY <1>1, <1>2, <1>3, <1>4 DEF Next

THEOREM Invariance == Spec => []IInv
BY Started, Inductive, PTL DEF Spec

\* ReferenceOutput for every plane, team and interleaving: what a call answers is
\* true of the picture, and ok means the single-threaded result.
THEOREM OutputIsReference == Spec => []ReferenceOutput
<1>1. IInv => ReferenceOutput
    BY DEF IInv
<1> QED
    BY <1>1, Invariance, PTL

\* WrittenOnce for every plane and team.
THEOREM RowsWrittenOnce == Spec => []WrittenOnce
<1>1. IInv => WrittenOnce
    BY DEF IInv
<1> QED
    BY <1>1, Invariance, PTL

\* NoRace for every plane and team: the halo snapshots are all the protection that
\* sharpening in place needs.
THEOREM SweepsDoNotRace == Spec => []NoRace
<1>1. IInv => NoRace
    BY ReadsSource DEF NoRace, Stripe
<1> QED
    BY <1>1, Invariance, PTL

\* The blur of three samples is a sample, so RoundingAgrees is about every blur.
THEOREM TapsAreSamples == \A a, b, c \in Byte : Taps(a, b, c) \in Byte
BY DEF Taps, Byte

\* RoundingAgrees for every sample and every amount a caller may pass.
THEOREM RoundingNeverShows == Spec => []RoundingAgrees
<1>1. IInv => RoundingAgrees
    <2> SUFFICES ASSUME IInv, NEW s \in Samples, NEW blur \in Samples
                 PROVE  /\ Biased(amount * (s - blur)) >= 0
                        /\ Sharpen(s, blur, amount, TRUE) = Sharpen(s, blur, amount, FALSE)
        BY DEF RoundingAgrees
    <2>1. amount \in 0 .. MaxAmount /\ s \in Byte /\ blur \in Byte
        BY StripesAssumption DEF IInv, CallInv
    <2>2. amount * (s - blur) \in Int /\ Biased(amount * (s - blur)) >= 0
        BY <2>1, BiasSuffices
    <2>3. FloorDivBiased(amount * (s - blur)) = FloorDiv(amount * (s - blur))
        BY <2>2, RoundingsAgree
    <2> QED
        BY <2>2, <2>3 DEF Sharpen
<1> QED
    BY <1>1, Invariance, PTL
=============================================================================
