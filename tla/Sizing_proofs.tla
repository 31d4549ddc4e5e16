--------------------------- MODULE Sizing_proofs ---------------------------
(***************************************************************************)
(* Proofs about Sizing, for every source size, option and machine.  The    *)
(* inductive invariant only remembers where the numbers came from; the     *)
(* rest is arithmetic, in lemmas about one division each.                  *)
(***************************************************************************)
EXTENDS Sizing, TLAPS

ThePlan(r) == TargetDims(r.width, r.height, TargetHeight(r.height, r.preset, r.cores))

Asked(r) ==
    /\ r.width \in Nat \ {0} /\ r.height \in Nat \ {0}
    /\ r.preset \in Presets
    /\ r.cores \in 1 .. MaxCpus
    /\ r.threads \in Nat /\ r.rows \in Nat

Computed ==
    /\ Accepted => Engages(request) /\ target = ThePlan(request)
    /\ stage = "shared" =>
          LET count == DecideUsm(request.threads, request.cores, target)
          IN  /\ pool = PoolThreads(count, target.height, request.rows)
              /\ request.threads = 0 =>
                    tuner = TunerStart(count, request.cores, target.height, request.rows)

IInv == stage \in {"asked", "declined", "sized", "shared"} /\ Asked(request) /\ Computed

-----------------------------------------------------------------------------
(* Arithmetic. *)

LEMMA Division == ASSUME NEW a \in Nat, NEW b \in Nat \ {0}
                  PROVE  /\ a \div b \in Nat
                         /\ (a \div b) * b <= a
                         /\ a < (a \div b) * b + b
OBVIOUS

LEMMA DivisionAtLeast == ASSUME NEW a \in Nat, NEW b \in Nat \ {0}, NEW q \in Nat, q * b <= a
                         PROVE  q <= a \div b
OBVIOUS

LEMMA Evened == ASSUME NEW x \in Nat
                PROVE  /\ EvenDown(x) \in Nat /\ EvenDown(x) % 2 = 0
                       /\ EvenDown(x) <= x /\ x <= EvenDown(x) + 1
BY DEF EvenDown

\* The rounding of both axes moves the aspect by less than two lines of the
\* source one way, and by one column the other.
LEMMA AspectKept == ASSUME NEW w \in Nat \ {0}, NEW s \in Nat \ {0}, NEW h \in Nat
                    PROVE  LET d == TargetDims(w, s, h)
                               skew == d.width * s - w * d.height
                           IN  skew > -2 * s /\ skew <= w
<1> DEFINE q == (w * h) \div s
           x == EvenDown(q)
           y == EvenDown(h)
<1>1. w * h \in Nat
    OBVIOUS
<1>2. q \in Nat /\ q * s <= w * h /\ w * h < q * s + s
    BY <1>1, Division
<1>3. x \in Nat /\ x <= q /\ q <= x + 1 /\ y \in Nat /\ y <= h /\ h <= y + 1
    BY <1>2, Evened
<1>4. x * s <= q * s /\ q * s <= (x + 1) * s
    <2> HIDE DEF q, x
    <2> QED
        BY <1>2, <1>3
<1>5. w * y <= w * h /\ w * h <= w * (y + 1)
    <2> HIDE DEF y
    <2> QED
        BY <1>3
<1>6. x * s - w * y > -2 * s /\ x * s - w * y <= w
    <2> HIDE DEF q, x, y
    <2>1. (x + 1) * s = x * s + s /\ w * (y + 1) = w * y + w
        BY <1>3
    <2>2. x * s \in Int /\ q * s \in Int /\ w * y \in Int /\ w * h \in Int
        BY <1>2, <1>3
    <2> QED
        BY <1>2, <1>4, <1>5, <2>1, <2>2
<1> QED
    BY <1>6 DEF TargetDims

\* Cutting h lines into p parts leaves every part r lines when they fit.
LEMMA PartsThick == ASSUME NEW h \in Nat, NEW p \in Nat \ {0}, NEW r \in Nat, p * r <= h, NEW w \in Nat
                    PROVE  ((w + 1) * h) \div p - (w * h) \div p >= r
<1> DEFINE a == (w * h) \div p
<1>1. a \in Nat /\ a * p <= w * h
    BY Division
<1>2. (a + r) * p <= (w + 1) * h
    <2> HIDE DEF a
    <2>1. (a + r) * p = a * p + p * r /\ (w + 1) * h = w * h + h
        BY <1>1
    <2> QED
        BY <1>1, <2>1
<1>3. a + r <= ((w + 1) * h) \div p
    <2> HIDE DEF a
    <2> QED
        BY <1>1, <1>2, DivisionAtLeast
<1>4. ((w + 1) * h) \div p \in Nat
    BY Division
<1> QED
    <2> HIDE DEF a
    <2>1. ((w + 1) * h) \div p - a >= r
        BY <1>1, <1>3, <1>4
    <2> QED
        BY <2>1 DEF a
-----------------------------------------------------------------------------
(* The decision. *)

LEMMA HeightWithin == ASSUME NEW r, Asked(r)
                      PROVE  LET h == TargetHeight(r.height, r.preset, r.cores)
                             IN  /\ h \in Nat /\ h <= MaxRatio * r.height
                                 /\ r.preset = 0 /\ h > r.height => h <= 1080
<1>1. CASE r.preset = 0
    BY <1>1 DEF Asked, TargetHeight, AutoHeight, AtMost, AtLeast, MaxRatio
<1>2. CASE r.preset # 0
    <2>1. PresetHeight[r.preset] \in Nat
        BY <1>2 DEF Asked, Presets, PresetHeight
    <2> QED
        BY <1>2, <2>1 DEF Asked, TargetHeight, AtMost, AtLeast, MaxRatio
<1> QED
    BY <1>1, <1>2

\* A source that is accepted is enlarged as PlanEnlarges says.
LEMMA Enlarged == ASSUME Asked(request), Engages(request), target = ThePlan(request)
                  PROVE  PlanEnlarges
<1> DEFINE h == TargetHeight(request.height, request.preset, request.cores)
<1>1. h \in Nat /\ h <= MaxRatio * request.height /\ (request.preset = 0 /\ h > request.height => h <= 1080)
    BY HeightWithin
<1>2. h > request.height /\ Upscales(request.width, request.height, target)
    BY DEF Engages, ThePlan
<1> HIDE DEF h
<1>3. target = TargetDims(request.width, request.height, h)
    BY DEF ThePlan, h
<1>4. LET q == (request.width * h) \div request.height
      IN  q \in Nat /\ target.width = EvenDown(q) /\ target.height = EvenDown(h)
    <2>1. request.width * h \in Nat
        BY <1>1 DEF Asked
    <2> QED
        BY <1>3, <2>1, Division DEF TargetDims, Asked
<1>5. /\ target.width % 2 = 0 /\ target.height % 2 = 0
      /\ target.width \in Nat /\ target.height \in Nat /\ target.height <= h
    BY <1>1, <1>4, Evened
<1>6. LET skew == target.width * request.height - request.width * target.height
      IN  skew > -2 * request.height /\ skew <= request.width
    BY <1>1, <1>3, AspectKept DEF Asked
<1>7. /\ target.width \in request.width .. MaxDim /\ target.height \in request.height .. MaxDim
      /\ target.width > request.width \/ target.height > request.height
    <2>1. request.width \in Nat /\ request.height \in Nat
        BY DEF Asked
    <2>2. /\ target.width \in 1 .. MaxDim /\ target.height \in 1 .. MaxDim
          /\ target.width >= request.width /\ target.height >= request.height
          /\ target.width > request.width \/ target.height > request.height
        BY <1>2 DEF Upscales
    <2>3. MaxDim \in Nat
        BY DEF MaxDim
    <2> QED
        BY <2>1, <2>2, <2>3
<1>8. /\ target.height <= MaxRatio * request.height
      /\ request.preset = 0 => target.height <= 1080
    BY <1>1, <1>2, <1>5 DEF Asked, MaxRatio
<1> QED
    BY <1>5, <1>6, <1>7, <1>8 DEF PlanEnlarges

-----------------------------------------------------------------------------
(* The counts. *)

LEMMA CountWithin == ASSUME NEW p \in Nat, NEW c \in 1 .. MaxCpus
                     PROVE  Decide(p, c) \in 1 .. c /\ Decide(p, c) <= MaxThreads
                            /\ (p > 0 => Decide(p, c) = AtMost(AtMost(p, c), MaxThreads))
BY DEF Decide, AtMost, AtLeast, MaxThreads, AutoThreads, MaxCpus

\* Without a count asked for, it is one of three, within the processors.
LEMMA AutomaticCount == ASSUME NEW c \in 1 .. MaxCpus, NEW d
                        PROVE  \E k \in {8, 12, 16} : DecideUsm(0, c, d) = Decide(k, c)
BY DEF DecideUsm

LEMMA UsmCountWithin == ASSUME NEW p \in Nat, NEW c \in 1 .. MaxCpus, NEW d
                        PROVE  DecideUsm(p, c, d) \in Nat \ {0}
<1>1. CASE p = 0
    <2>1. PICK k \in {8, 12, 16} : DecideUsm(p, c, d) = Decide(k, c)
        BY <1>1, AutomaticCount
    <2>2. Decide(k, c) \in 1 .. c
        BY CountWithin
    <2> QED
        BY <2>1, <2>2 DEF MaxCpus
<1>2. CASE p > 0
    <2>1. Decide(p, c) \in 1 .. c
        BY CountWithin
    <2>2. DecideUsm(p, c, d) = Decide(p, c)
        BY <1>2 DEF DecideUsm
    <2> QED
        BY <2>1, <2>2 DEF MaxCpus
<1> QED
    BY <1>1, <1>2

\* A pool of more than one stripe has room for that many of the asked rows.
LEMMA PoolFits == ASSUME NEW count \in Nat \ {0}, NEW h \in Nat, NEW rows \in Nat
                  PROVE  LET p == PoolThreads(count, h, rows)
                         IN  p \in Nat \ {0} /\ (p > 1 => p * RowsOr8(rows) <= h)
<1> DEFINE q == h \div RowsOr8(rows)
           p == PoolThreads(count, h, rows)
<1>1. RowsOr8(rows) \in Nat \ {0}
    BY DEF RowsOr8
<1>2. q \in Nat /\ q * RowsOr8(rows) <= h
    BY <1>1, Division
<1>3. p = AtMost(AtMost(count, MaxThreads), AtLeast(q, 1))
    BY DEF PoolThreads
<1> HIDE DEF q, p
<1>4. p \in Nat \ {0} /\ (p > 1 => p <= q)
    BY <1>2, <1>3 DEF AtMost, AtLeast, MaxThreads
<1>5. p <= q => p * RowsOr8(rows) <= q * RowsOr8(rows)
    BY <1>1, <1>2, <1>4
<1>6. p * RowsOr8(rows) \in Int
    BY <1>1, <1>4
<1>7. p \in Nat \ {0} /\ (p > 1 => p * RowsOr8(rows) <= h)
    BY <1>1, <1>2, <1>4, <1>5, <1>6
<1> QED
    BY <1>7 DEF p

\* The pool and the search apply the same three bounds in another order.
LEMMA SameCount == ASSUME NEW c \in 1 .. MaxCpus, NEW k \in {8, 12, 16}, NEW h \in Nat, NEW rows \in Nat
                   PROVE  LET count == Decide(k, c)
                              t == TunerStart(count, c, h, rows)
                              p == PoolThreads(count, h, rows)
                          IN  p = t.best /\ t.limit <= c /\ p <= t.limit
<1> DEFINE q == h \div RowsOr8(rows)
<1>1. q \in Nat
    BY Division DEF RowsOr8
<1>2. /\ Decide(k, c) = AtMost(AtMost(k, c), MaxThreads)
      /\ Decide(MaxThreads, c) = AtMost(AtMost(MaxThreads, c), MaxThreads)
    BY CountWithin DEF MaxThreads
<1>3. /\ PoolThreads(Decide(k, c), h, rows) = AtMost(AtMost(Decide(k, c), MaxThreads), AtLeast(q, 1))
      /\ TunerStart(Decide(k, c), c, h, rows).limit = AtLeast(AtMost(Decide(MaxThreads, c), q), 1)
      /\ TunerStart(Decide(k, c), c, h, rows).best
            = AtMost(Decide(k, c), AtLeast(AtMost(Decide(MaxThreads, c), q), 1))
    BY DEF PoolThreads, TunerStart
<1> HIDE DEF q
<1> QED
    BY <1>1, <1>2, <1>3 DEF AtMost, AtLeast, MaxThreads, MaxCpus

-----------------------------------------------------------------------------
(* The machine. *)

LEMMA MachineCounted == \A m \in Masks, o \in Onlines : Detected(m, o) \in 1 .. MaxCpus
BY SizingAssumption DEF Detected, AtMost, AtLeast, MaxCpus

LEMMA Started == Init => IInv
BY SizingAssumption, MachineCounted DEF Init, IInv, Asked, Computed, Accepted

LEMMA Inductive == IInv /\ [Next]_vars => IInv'
<1> SUFFICES ASSUME IInv, [Next]_vars PROVE IInv'
    OBVIOUS
<1>1. CASE Decline
    BY <1>1 DEF Decline, IInv, Asked, Computed, Accepted
<1>2. CASE Size
    BY <1>2 DEF Size, IInv, Asked, Computed, Accepted, ThePlan
<1>3. CASE Share
    BY <1>3 DEF Share, IInv, Asked, Computed, Accepted
<1>4. CASE Done \/ UNCHANGED vars
    BY <1>4 DEF Done, vars, IInv, Asked, Computed, Accepted
<1> QED
    BY <1>1, <1>2, <1>3, <1>4 DEF Next

\* The invariant holds in every reachable state.
THEOREM Invariance == Spec => []IInv
BY Started, Inductive, PTL DEF Spec

\* PlanEnlarges for every source, preset and machine.
THEOREM PlansEnlarge == Spec => []PlanEnlarges
<1>1. IInv => PlanEnlarges
    BY Enlarged DEF IInv, Computed, PlanEnlarges
<1> QED
    BY <1>1, Invariance, PTL

LEMMA TargetTyped == ASSUME IInv, stage = "shared" PROVE target.height \in Nat
BY Enlarged DEF IInv, Asked, Computed, Accepted, PlanEnlarges

\* StripesThick for every frame, count and minimum.
THEOREM StripesStayThick == Spec => []StripesThick
<1>1. IInv => StripesThick
    <2> SUFFICES ASSUME IInv, stage = "shared", pool > 1, NEW w \in 0 .. pool - 1
                 PROVE  ((w + 1) * target.height) \div pool - (w * target.height) \div pool
                            >= RowsOr8(request.rows)
        BY DEF StripesThick
    <2> DEFINE count == DecideUsm(request.threads, request.cores, target)
    <2>1. Asked(request) /\ target.height \in Nat
        BY TargetTyped DEF IInv
    <2>2. count \in Nat \ {0}
        BY <2>1, UsmCountWithin DEF Asked
    <2>3. pool = PoolThreads(count, target.height, request.rows)
        BY DEF IInv, Computed
    <2> HIDE DEF count
    <2>4. pool \in Nat \ {0} /\ pool * RowsOr8(request.rows) <= target.height
        BY <2>1, <2>2, <2>3, PoolFits DEF Asked
    <2>5. RowsOr8(request.rows) \in Nat
        BY <2>1 DEF Asked, RowsOr8
    <2>6. w \in Nat
        BY <2>4
    <2> QED
        BY <2>1, <2>4, <2>5, <2>6, PartsThick
<1> QED
    BY <1>1, Invariance, PTL

\* CountsAgree for every frame and machine.
THEOREM CountsStayInStep == Spec => []CountsAgree
<1>1. IInv => CountsAgree
    <2> SUFFICES ASSUME IInv, stage = "shared", request.threads = 0
                 PROVE  pool = tuner.best /\ tuner.limit <= request.cores /\ pool <= tuner.limit
        BY DEF CountsAgree
    <2>1. Asked(request) /\ target.height \in Nat
        BY TargetTyped DEF IInv
    <2>2. PICK k \in {8, 12, 16} : DecideUsm(request.threads, request.cores, target) = Decide(k, request.cores)
        BY <2>1, AutomaticCount DEF Asked
    <2>3. /\ pool = PoolThreads(Decide(k, request.cores), target.height, request.rows)
          /\ tuner = TunerStart(Decide(k, request.cores), request.cores, target.height, request.rows)
        BY <2>2 DEF IInv, Computed
    <2> QED
        BY <2>1, <2>3, SameCount DEF Asked
<1> QED
    BY <1>1, Invariance, PTL
=============================================================================
