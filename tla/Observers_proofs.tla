-------------------------- MODULE Observers_proofs --------------------------
(***************************************************************************)
(* Proofs about the two observers of a playback, for every size, grid,     *)
(* window and course of the clocks: a sweep of the content probe stays     *)
(* inside the plane (SweepInside), the metrics report what happened        *)
(* (SamplesTrue), and the probe decides on what it saw (VerdictOnEvidence).*)
(***************************************************************************)
EXTENDS Observers, FiniteSetTheorems, TLAPS

\* A Laplacian and its four neighbours (up_probe__lap_row).
LEMMA LapInside ==
    ASSUME NEW w \in Nat, NEW h \in Nat, NEW a \in LapAt(w, h)
    PROVE  {a, <<a[1] - 1, a[2]>>, <<a[1] + 1, a[2]>>, <<a[1], a[2] - 1>>, <<a[1], a[2] + 1>>}
               \subseteq (0 .. w - 1) \X (0 .. h - 1)
<1>1. PICK x \in GridStep .. w - 2, y \in 0 .. h - 1 :
          a = <<x, y>> /\ y >= GridStep /\ y + 1 < h
    BY DEF LapAt, SampledRows
<1>2. x - 1 \in 0 .. w - 1 /\ x \in 0 .. w - 1 /\ x + 1 \in 0 .. w - 1
    BY <1>1, ProbeAssumption
<1>3. y - 1 \in 0 .. h - 1 /\ y \in 0 .. h - 1 /\ y + 1 \in 0 .. h - 1
    BY <1>1, ProbeAssumption
<1> QED
    BY <1>1, <1>2, <1>3

\* The two pixels across an edge (up_probe__edge_rows).
LEMMA EdgesInside ==
    ASSUME NEW w \in Nat, NEW h \in Nat
    PROVE  /\ \A a \in RightOfEdge(w, h) :
                  {a, <<a[1] - 1, a[2]>>} \subseteq (0 .. w - 1) \X (0 .. h - 1)
           /\ \A a \in BelowEdge(w, h) :
                  {a, <<a[1], a[2] - 1>>} \subseteq (0 .. w - 1) \X (0 .. h - 1)
<1>1. ASSUME NEW a \in RightOfEdge(w, h)
      PROVE  {a, <<a[1] - 1, a[2]>>} \subseteq (0 .. w - 1) \X (0 .. h - 1)
    <2>1. PICK x \in BlockSize .. w - 1, y \in 0 .. h - 1 : a = <<x, y>>
        BY <1>1 DEF RightOfEdge, SampledRows
    <2>2. x \in 0 .. w - 1 /\ x - 1 \in 0 .. w - 1
        BY <2>1, ProbeAssumption
    <2> QED
        BY <2>1, <2>2
<1>2. ASSUME NEW a \in BelowEdge(w, h)
      PROVE  {a, <<a[1], a[2] - 1>>} \subseteq (0 .. w - 1) \X (0 .. h - 1)
    <2>1. PICK x \in 0 .. w - 1, y \in 0 .. h - 1 : a = <<x, y>> /\ y >= BlockSize
        BY <1>2 DEF BelowEdge, SampledRows
    <2>2. y - 1 \in 0 .. h - 1
        BY <2>1, ProbeAssumption
    <2> QED
        BY <2>1, <2>2
<1> QED
    BY <1>1, <1>2

LEMMA ReadsInside ==
    ASSUME NEW w \in Nat, NEW h \in Nat
    PROVE  ReadAt(w, h) \subseteq (0 .. w - 1) \X (0 .. h - 1)
<1>1. \A a \in LapAt(w, h) :
          {a, <<a[1] - 1, a[2]>>, <<a[1] + 1, a[2]>>, <<a[1], a[2] - 1>>, <<a[1], a[2] + 1>>}
              \subseteq (0 .. w - 1) \X (0 .. h - 1)
    BY LapInside
<1>2. /\ \A a \in RightOfEdge(w, h) :
             {a, <<a[1] - 1, a[2]>>} \subseteq (0 .. w - 1) \X (0 .. h - 1)
      /\ \A a \in BelowEdge(w, h) :
             {a, <<a[1], a[2] - 1>>} \subseteq (0 .. w - 1) \X (0 .. h - 1)
    BY EdgesInside
<1> DEFINE In == (0 .. w - 1) \X (0 .. h - 1)
           Cross(a) == {a, <<a[1] - 1, a[2]>>, <<a[1] + 1, a[2]>>, <<a[1], a[2] - 1>>, <<a[1], a[2] + 1>>}
           Left(a) == {a, <<a[1] - 1, a[2]>>}
           Above(a) == {a, <<a[1], a[2] - 1>>}
<1>3. ReadAt(w, h) = (UNION {Cross(a) : a \in LapAt(w, h)})
                     \cup (UNION {Left(a) : a \in RightOfEdge(w, h)})
                     \cup (UNION {Above(a) : a \in BelowEdge(w, h)})
    BY Zenon DEF ReadAt
<1>4. /\ \A a \in LapAt(w, h) : Cross(a) \subseteq In
      /\ \A a \in RightOfEdge(w, h) : Left(a) \subseteq In
      /\ \A a \in BelowEdge(w, h) : Above(a) \subseteq In
    BY <1>1, <1>2
<1> HIDE DEF In, Cross, Left, Above
<1>5. UNION {Cross(a) : a \in LapAt(w, h)} \subseteq In
    BY <1>4
<1>6. UNION {Left(a) : a \in RightOfEdge(w, h)} \subseteq In
    BY <1>4
<1>7. UNION {Above(a) : a \in BelowEdge(w, h)} \subseteq In
    BY <1>4
<1>8. ReadAt(w, h) \subseteq In
    BY <1>3, <1>5, <1>6, <1>7
<1> QED
    BY <1>8 DEF In

\* No call changes the size of the playback.
LEMMA PlaybackKept == ASSUME [Next]_vars PROVE playback' = playback
<1>1. ASSUME NEW pic, Probe(pic) PROVE playback' = playback
    BY <1>1 DEF Probe, RunProbe
<1>2. ASSUME NEW bad, Begin(bad) \/ End(bad) PROVE playback' = playback
    BY <1>2 DEF Begin, End, probeVars
<1>3. ASSUME NEW bad, NEW s, NEW from, NEW to,
             MarkStage(from, to, bad) \/ EndStage(s, from, to, bad)
      PROVE  playback' = playback
    BY <1>3 DEF MarkStage, EndStage, probeVars
<1>4. ASSUME NEW pic, NoProbe(pic) PROVE playback' = playback
    BY <1>4 DEF NoProbe
<1>5. CASE Unusable \/ Drops \/ TimePasses \/ Over \/ UNCHANGED vars
    BY <1>5 DEF Unusable, Drops, TimePasses, Over, vars, probeVars
<1> QED
    BY <1>1, <1>2, <1>3, <1>4, <1>5 DEF Next

\* SweepInside, for every playback: the probe reads no pixel outside the plane.
THEOREM SweepStaysInside == Spec => []SweepInside
<1>1. Init => playback \in Playbacks
    BY DEF Init, ProbeInit
<1>2. playback \in Playbacks /\ [Next]_vars => (playback \in Playbacks)'
    BY PlaybackKept
<1>3. playback \in Playbacks => SweepInside
    <2> SUFFICES ASSUME playback \in Playbacks PROVE SweepInside
        OBVIOUS
    <2>1. playback.w \in Nat /\ playback.h \in Nat
        BY ObserversAssumption
    <2> QED
        BY <2>1, ReadsInside DEF SweepInside
<1> QED
    BY <1>1, <1>2, <1>3, PTL DEF Spec

-----------------------------------------------------------------------------
(* SamplesTrue: what the metrics keep of a call is what a perfect observer *)
(* of the same call measures, for as long as every clock could be read.    *)

Sample == [scale : Nat, usm : Nat, total : Nat, cpu : Nat]
Measurement == [startWall : Nat, startCpu : Nat, scale : Nat, usm : Nat, attempts : Nat,
                failed : Nat, invalid : Nat, samples : Seq(Sample), valid : BOOLEAN]
Truth == [wall : Nat, cpu : Nat, from : Nat, scale : Nat, usm : Nat, clean : BOOLEAN]

MetricsTyped ==
    /\ m \in Measurement /\ truth \in Truth
    /\ wall \in Nat /\ cpu \in Nat /\ mark \in Nat

\* During a call, the measurement stands where the observer stands.
InStep ==
    /\ m.valid <=> truth.clean
    /\ truth.wall <= wall /\ truth.cpu <= cpu
    /\ truth.clean => /\ m.startWall = truth.wall /\ m.startCpu = truth.cpu
                      /\ m.scale = truth.scale /\ m.usm = truth.usm

\* How much of the call the stages so far can have taken.
StagesFit ==
    /\ at \in {"called", "probed", "scaling"} => truth.scale = 0
    /\ at \in {"called", "probed", "scaling", "scaled", "sharpening"} => truth.usm = 0
    /\ at \in {"scaling", "sharpening"} =>
          /\ truth.wall + truth.scale <= truth.from /\ truth.from <= wall
          /\ truth.clean => mark = truth.from
    /\ truth.wall + truth.scale + truth.usm <= wall

MeasuringInv == playback.metrics /\ at # "out" => InStep /\ StagesFit

SamplesInv ==
    /\ m.samples = good
    /\ \A i \in 1 .. Len(m.samples) : m.samples[i].scale + m.samples[i].usm <= m.samples[i].total

CountsInv ==
    /\ m.attempts < ReportWindow
    /\ Len(m.samples) + m.failed <= m.attempts
    /\ Len(m.samples) + m.failed + m.invalid >= m.attempts

MInv == MetricsTyped /\ MeasuringInv /\ SamplesInv /\ CountsInv

LEMMA MetricsStarted == Init => MInv
<1> SUFFICES ASSUME Init PROVE MInv
    OBVIOUS
<1>1. m.samples = <<>> /\ good = <<>> /\ m.attempts = 0 /\ m.failed = 0 /\ m.invalid = 0 /\ at = "out"
    BY DEF Init, MetricsInit
<1>2. MetricsTyped
    BY DEF Init, MetricsInit, MetricsTyped, Measurement, Truth
<1> QED
    BY <1>1, <1>2, MetricsAssumption DEF MInv, MeasuringInv, SamplesInv, CountsInv

\* Without metrics nothing is measured.
LEMMA Unmeasured ==
    ASSUME MInv, ~playback.metrics, playback' = playback, UNCHANGED metricsVars
    PROVE  MInv'
BY DEF MInv, MetricsTyped, MeasuringInv, SamplesInv, CountsInv, metricsVars

\* The call moves on between two reads.
LEMMA Moves ==
    ASSUME MInv, UNCHANGED <<playback, metricsVars>>,
           \/ at = "called" /\ at' = "probed"
           \/ at \in {"called", "probed", "scaled", "sharpened"} /\ at' = "dropping"
           \/ at' = at
    PROVE  MInv'
BY DEF MInv, MetricsTyped, MeasuringInv, InStep, StagesFit, SamplesInv, CountsInv, metricsVars

LEMMA BeginMeasures ==
    ASSUME MInv, NEW bad \in SUBSET {"wall", "cpu"}, at' = "called", playback' = playback,
           MetricsBegin(bad)
    PROVE  MInv'
<1> USE DEF MetricsBegin, Reads, Read
<1>1. MetricsTyped'
    BY DEF MInv, MetricsTyped, Measurement, Truth
<1>2. /\ m'.scale = 0 /\ m'.usm = 0 /\ (m'.valid <=> bad = {})
      /\ bad = {} => m'.startWall = wall /\ m'.startCpu = cpu
    BY DEF MInv, MetricsTyped, Measurement
<1>3. /\ truth' = [wall |-> wall, cpu |-> cpu, from |-> wall, scale |-> 0, usm |-> 0,
                   clean |-> bad = {}]
      /\ UNCHANGED <<wall, cpu>> /\ wall \in Nat /\ cpu \in Nat
    BY DEF MInv, MetricsTyped
<1>4. InStep' /\ StagesFit'
    BY <1>2, <1>3 DEF InStep, StagesFit
<1>5. SamplesInv' /\ CountsInv'
    BY DEF MInv, MetricsTyped, Measurement, SamplesInv, CountsInv
<1> QED
    BY <1>1, <1>4, <1>5 DEF MInv, MeasuringInv

LEMMA MarkMeasures ==
    ASSUME MInv, NEW bad \in SUBSET {"wall"}, playback.metrics, playback' = playback, Mark(bad),
           (at = "probed" /\ at' = "scaling") \/ (at = "scaled" /\ at' = "sharpening")
    PROVE  MInv'
<1>1. InStep /\ StagesFit
    BY DEF MInv, MeasuringInv
<1>2. /\ m'.scale = m.scale /\ m'.usm = m.usm /\ (m'.valid <=> m.valid /\ bad = {})
      /\ m'.startWall = m.startWall /\ m'.startCpu = m.startCpu
      /\ m'.samples = m.samples /\ m'.attempts = m.attempts
      /\ m'.failed = m.failed /\ m'.invalid = m.invalid /\ m' \in Measurement
    BY DEF MInv, MetricsTyped, Measurement, Mark
<1>3. /\ truth'.wall = truth.wall /\ truth'.cpu = truth.cpu /\ truth'.from = wall
      /\ truth'.scale = truth.scale /\ truth'.usm = truth.usm
      /\ (truth'.clean <=> truth.clean /\ bad = {}) /\ truth' \in Truth
    BY DEF MInv, MetricsTyped, Truth, Mark
<1>4. /\ mark' \in Nat /\ (bad = {} => mark' = wall)
      /\ UNCHANGED <<wall, cpu, good>> /\ wall \in Nat /\ cpu \in Nat
    BY DEF MInv, MetricsTyped, Mark, Reads, Read
<1>5. MetricsTyped'
    BY <1>2, <1>3, <1>4 DEF MetricsTyped
<1>6. InStep'
    BY <1>1, <1>2, <1>3, <1>4 DEF InStep
<1>7. StagesFit'
    <2>1. truth \in Truth
        BY DEF MInv, MetricsTyped
    <2> QED
        BY <1>1, <1>3, <1>4, <2>1 DEF StagesFit, Truth
<1>8. SamplesInv' /\ CountsInv'
    BY <1>2, <1>4 DEF MInv, SamplesInv, CountsInv
<1> QED
    BY <1>5, <1>6, <1>7, <1>8 DEF MInv, MeasuringInv

LEMMA StageMeasures ==
    ASSUME MInv, NEW bad \in SUBSET {"wall"}, NEW stage \in {"scale", "usm"},
           playback.metrics, playback' = playback, Stage(stage, bad),
           \/ stage = "scale" /\ at = "scaling" /\ at' = "scaled"
           \/ stage = "usm" /\ at = "sharpening" /\ at' = "sharpened"
    PROVE  MInv'
<1> DEFINE end == Read(wall, 0, bad, "wall")
           other == IF stage = "scale" THEN "usm" ELSE "scale"
<1>1. end \in Nat /\ (bad = {} => end = wall)
    BY DEF MInv, MetricsTyped, Read
<1>2. InStep /\ StagesFit
    BY DEF MInv, MeasuringInv
<1>3. /\ m \in Measurement /\ truth \in Truth
      /\ wall \in Nat /\ cpu \in Nat /\ mark \in Nat
    BY DEF MInv, MetricsTyped
<1>4. UNCHANGED <<mark, good, wall, cpu>>
    BY DEF Stage, Reads
<1>5. end < mark => ~truth.clean \/ bad # {}
    BY <1>1, <1>2, <1>3 DEF Truth, StagesFit
<1>6. /\ m' \in Measurement
      /\ m'.startWall = m.startWall /\ m'.startCpu = m.startCpu
      /\ m'.samples = m.samples /\ m'.attempts = m.attempts
      /\ m'.failed = m.failed /\ m'.invalid = m.invalid
      /\ m'[other] = m[other]
      /\ m'.valid <=> m.valid /\ bad = {} /\ end >= mark
      /\ end >= mark => m'[stage] = end - mark
    <2>1. m' = IF end < mark THEN [m EXCEPT !.valid = FALSE]
               ELSE [m EXCEPT ![stage] = end - mark, !.valid = @ /\ bad = {}]
        BY DEF Stage
    <2> HIDE DEF end
    <2>2. end < mark \/ end >= mark
        BY <1>1, <1>3
    <2>3. CASE end < mark
        <3>1. m' = [m EXCEPT !.valid = FALSE] /\ ~(end >= mark)
            BY <2>1, <2>3, <1>1, <1>3
        <3>2. CASE stage = "scale"
            BY <3>1, <3>2, <1>3 DEF Measurement
        <3>3. CASE stage = "usm"
            BY <3>1, <3>3, <1>3 DEF Measurement
        <3> QED
            BY <3>2, <3>3
    <2>4. CASE end >= mark
        <3>1. ~(end < mark) /\ end - mark \in Nat
            BY <2>4, <1>1, <1>3
        <3>2. CASE stage = "scale"
            <4>1. m' = [m EXCEPT !.scale = end - mark, !.valid = @ /\ bad = {}]
                BY <2>1, <3>1, <3>2
            <4> QED
                BY <4>1, <3>1, <3>2, <2>4, <1>3 DEF Measurement
        <3>3. CASE stage = "usm"
            <4>1. m' = [m EXCEPT !.usm = end - mark, !.valid = @ /\ bad = {}]
                BY <2>1, <3>1, <3>3
            <4> QED
                BY <4>1, <3>1, <3>3, <2>4, <1>3 DEF Measurement
        <3> QED
            BY <3>2, <3>3
    <2> QED
        BY <2>2, <2>3, <2>4
<1>7. /\ truth' \in Truth
      /\ truth'.wall = truth.wall /\ truth'.cpu = truth.cpu /\ truth'.from = truth.from
      /\ truth'[other] = truth[other] /\ truth'[stage] = wall - truth.from
      /\ (truth'.clean <=> truth.clean /\ bad = {})
    <2>1. truth' = [truth EXCEPT ![stage] = wall - truth.from, !.clean = @ /\ bad = {}]
        BY DEF Stage
    <2>2. wall - truth.from \in Nat
        BY <1>2, <1>3 DEF StagesFit, Truth
    <2>3. CASE stage = "scale"
        BY <2>1, <2>2, <2>3, <1>3 DEF Truth
    <2>4. CASE stage = "usm"
        BY <2>1, <2>2, <2>4, <1>3 DEF Truth
    <2> QED
        BY <2>3, <2>4
<1> HIDE DEF end
<1>8. MetricsTyped'
    BY <1>3, <1>4, <1>6, <1>7 DEF MetricsTyped
<1>9. InStep'
    <2>1. m'.valid <=> truth'.clean
        <3>1. end < mark \/ end >= mark
            BY <1>1, <1>3
        <3> QED
            BY <3>1, <1>2, <1>5, <1>6, <1>7, Zenon DEF InStep
    <2>2. ASSUME truth'.clean PROVE m'[stage] = truth'[stage]
        BY <2>2, <2>1, <1>1, <1>2, <1>6, <1>7 DEF StagesFit
    <2>3. truth'.clean => m'.scale = truth'.scale /\ m'.usm = truth'.usm
        BY <2>2, <1>2, <1>6, <1>7 DEF InStep
    <2> QED
        BY <2>1, <2>3, <1>2, <1>4, <1>6, <1>7 DEF InStep
<1>10. StagesFit'
    <2>1. CASE stage = "scale"
        BY <2>1, <1>2, <1>3, <1>4, <1>7 DEF StagesFit, Truth
    <2>2. CASE stage = "usm"
        BY <2>2, <1>2, <1>3, <1>4, <1>7 DEF StagesFit, Truth
    <2> QED
        BY <2>1, <2>2
<1>11. SamplesInv' /\ CountsInv'
    BY <1>4, <1>6 DEF MInv, SamplesInv, CountsInv
<1> QED
    BY <1>8, <1>9, <1>10, <1>11 DEF MInv, MeasuringInv

LEMMA TimeMeasures ==
    ASSUME MInv, Passes, UNCHANGED <<playback, at>>
    PROVE  MInv'
<1>1. cpu' >= cpu /\ cpu' \in Nat /\ wall' >= wall /\ wall' \in Nat /\ UNCHANGED <<m, mark, truth, good>>
    BY DEF Passes, MInv, MetricsTyped
<1>2. MetricsTyped'
    BY <1>1 DEF MInv, MetricsTyped
<1>3. MeasuringInv'
    BY <1>1 DEF MInv, MetricsTyped, Truth, MeasuringInv, InStep, StagesFit
<1>4. SamplesInv' /\ CountsInv'
    BY <1>1 DEF MInv, SamplesInv, CountsInv
<1> QED
    BY <1>2, <1>3, <1>4 DEF MInv

LEMMA OneMoreFailed ==
    ASSUME NEW l \in Nat, NEW f \in Nat, NEW i \in Nat, NEW a \in Nat, l + f <= a, l + f + i >= a
    PROVE  /\ l + (f + 1) <= a + 1
           /\ l + (f + 1) + i >= a + 1 /\ l + (f + 1) + (i + 1) >= a + 1
OBVIOUS

\* The end of a call: the metrics keep a sample exactly if the observer does, and
\* the same one; a full window starts the counts anew.
LEMMA EndMeasures ==
    ASSUME MInv, NEW bad \in SUBSET {"wall", "cpu"}, NEW delivered \in BOOLEAN,
           playback.metrics, playback' = playback, MetricsEnd(delivered, bad),
           at \in {"sharpened", "dropping"}, at' = "out"
    PROVE  MInv'
<1> DEFINE endWall == Read(wall, 0, bad, "wall")
           endCpu  == Read(cpu, 0, bad, "cpu")
           valid   == m.valid /\ bad = {} /\ endWall >= m.startWall /\ endCpu >= m.startCpu
           counted == [m EXCEPT !.valid = valid, !.attempts = @ + 1,
                                !.failed = IF delivered THEN @ ELSE @ + 1,
                                !.invalid = IF valid THEN @ ELSE @ + 1]
           sample  == [scale |-> m.scale, usm |-> m.usm,
                       total |-> endWall - m.startWall, cpu |-> endCpu - m.startCpu]
           stored  == IF ~delivered \/ ~valid \/ Len(m.samples) >= ReportWindow THEN counted
                      ELSE [counted EXCEPT !.samples = Append(@, sample)]
           report  == stored.attempts >= ReportWindow
           seenSample == [scale |-> truth.scale, usm |-> truth.usm,
                          total |-> wall - truth.wall, cpu |-> cpu - truth.cpu]
<1>1. /\ m \in Measurement /\ truth \in Truth /\ m.samples \in Seq(Sample)
      /\ wall \in Nat /\ cpu \in Nat /\ mark \in Nat /\ InStep /\ StagesFit
    BY DEF MInv, MetricsTyped, MeasuringInv, Measurement
<1>2. Len(m.samples) < ReportWindow /\ ReportWindow \in Nat \ {0}
    BY <1>1, MetricsAssumption DEF MInv, CountsInv, Measurement
<1>3. /\ m' = IF report
              THEN [stored EXCEPT !.attempts = 0, !.failed = 0, !.invalid = 0, !.samples = <<>>]
              ELSE stored
      /\ good' = IF report THEN <<>>
                 ELSE IF delivered /\ truth.clean /\ bad = {} THEN Append(good, seenSample)
                 ELSE good
      /\ UNCHANGED <<mark, truth, wall, cpu>>
    BY DEF MetricsEnd, Reads
<1>4. valid \in BOOLEAN /\ (valid <=> truth.clean /\ bad = {})
    <2>1. bad = {} => endWall = wall /\ endCpu = cpu
        BY DEF Read
    <2>2. truth.clean => wall >= m.startWall /\ cpu >= m.startCpu
        BY <1>1 DEF InStep, Truth
    <2>3. truth.clean /\ bad = {} => endWall >= m.startWall /\ endCpu >= m.startCpu
        BY <2>1, <2>2
    <2> HIDE DEF endWall, endCpu
    <2> QED
        BY <1>1, <2>3, Zenon DEF InStep
<1>5. valid => /\ sample = seenSample /\ sample \in Sample
               /\ sample.scale + sample.usm <= sample.total
    <2> SUFFICES ASSUME valid
                 PROVE  sample = seenSample /\ sample \in Sample
                        /\ sample.scale + sample.usm <= sample.total
        OBVIOUS
    <2>1. endWall = wall /\ endCpu = cpu /\ truth.clean
        BY <1>4 DEF Read
    <2>2. m.startWall = truth.wall /\ m.startCpu = truth.cpu
          /\ m.scale = truth.scale /\ m.usm = truth.usm
        BY <1>1, <2>1 DEF InStep
    <2>3. /\ {truth.wall, truth.cpu, truth.scale, truth.usm} \subseteq Nat
          /\ truth.wall <= wall /\ truth.cpu <= cpu /\ truth.wall + truth.scale + truth.usm <= wall
        BY <1>1 DEF InStep, StagesFit, Truth
    <2> HIDE DEF endWall, endCpu, valid
    <2> QED
        BY <1>1, <2>1, <2>2, <2>3 DEF Sample
<1> HIDE DEF endWall, endCpu, valid, sample, seenSample
<1>6. /\ counted \in Measurement /\ counted.samples = m.samples
      /\ counted.attempts = m.attempts + 1
      /\ counted.failed = (IF delivered THEN m.failed ELSE m.failed + 1)
      /\ counted.invalid = (IF valid THEN m.invalid ELSE m.invalid + 1)
    <2> DEFINE failed == IF delivered THEN m.failed ELSE m.failed + 1
               invalid == IF valid THEN m.invalid ELSE m.invalid + 1
    <2>1. {m.attempts, m.failed, m.invalid} \subseteq Nat
        BY <1>1 DEF Measurement
    <2>2. failed \in Nat /\ invalid \in Nat /\ m.attempts + 1 \in Nat
        BY <2>1
    <2>3. counted = [m EXCEPT !.valid = valid, !.attempts = m.attempts + 1,
                              !.failed = failed, !.invalid = invalid]
        OBVIOUS
    <2> HIDE DEF failed, invalid, counted
    <2>4. /\ counted \in Measurement /\ counted.samples = m.samples
          /\ counted.attempts = m.attempts + 1
          /\ counted.failed = failed /\ counted.invalid = invalid
        <3>1. CASE valid
            <4>1. counted = [m EXCEPT !.valid = TRUE, !.attempts = m.attempts + 1,
                                      !.failed = failed, !.invalid = invalid]
                BY <3>1, <2>3, <1>4, Zenon
            <4> QED
                BY <4>1, <2>2, <1>1 DEF Measurement
        <3>2. CASE ~valid
            <4>1. counted = [m EXCEPT !.valid = FALSE, !.attempts = m.attempts + 1,
                                      !.failed = failed, !.invalid = invalid]
                BY <3>2, <2>3, <1>4, Zenon
            <4> QED
                BY <4>1, <2>2, <1>1 DEF Measurement
        <3> QED
            BY <3>1, <3>2
    <2> QED
        BY <2>4 DEF failed, invalid
<1> HIDE DEF counted
<1>7. /\ stored \in Measurement /\ stored.attempts = counted.attempts
      /\ stored.failed = counted.failed /\ stored.invalid = counted.invalid
      /\ stored.samples = (IF delivered /\ valid THEN Append(m.samples, sample) ELSE m.samples)
    <2>1. CASE delivered /\ valid
        <3>1. stored = [counted EXCEPT !.samples = Append(@, sample)]
            BY <2>1, <1>1, <1>2, <1>6
        <3>2. Append(m.samples, sample) \in Seq(Sample)
            BY <1>1, <1>5, <2>1
        <3> QED
            BY <2>1, <3>1, <3>2, <1>6 DEF Measurement
    <2>2. CASE ~(delivered /\ valid)
        BY <2>2, <1>6
    <2> QED
        BY <2>1, <2>2
<1> HIDE DEF stored
<1>8. Len(stored.samples) = (IF delivered /\ valid THEN Len(m.samples) + 1 ELSE Len(m.samples))
    BY <1>1, <1>7
<1>9. \A i \in 1 .. Len(stored.samples) :
          stored.samples[i].scale + stored.samples[i].usm <= stored.samples[i].total
    <2>1. \A i \in 1 .. Len(m.samples) : m.samples[i].scale + m.samples[i].usm <= m.samples[i].total
        BY DEF MInv, SamplesInv
    <2>2. CASE delivered /\ valid
        <3>1. \A i \in 1 .. Len(m.samples) : stored.samples[i] = m.samples[i]
            BY <1>1, <1>7, <2>2
        <3>2. stored.samples[Len(m.samples) + 1] = sample
            BY <1>1, <1>7, <2>2
        <3>3. Len(m.samples) \in Nat /\ Len(stored.samples) = Len(m.samples) + 1
            BY <1>1, <1>8, <2>2
        <3> SUFFICES ASSUME NEW i \in 1 .. Len(m.samples) + 1
                     PROVE  stored.samples[i].scale + stored.samples[i].usm
                                <= stored.samples[i].total
            BY <3>3
        <3>4. CASE i = Len(m.samples) + 1
            BY <3>2, <3>4, <2>2, <1>5
        <3>5. CASE i # Len(m.samples) + 1
            <4>1. i \in 1 .. Len(m.samples)
                BY <3>3, <3>5
            <4> QED
                BY <4>1, <3>1, <2>1
        <3> QED
            BY <3>4, <3>5
    <2> QED
        BY <2>1, <2>2, <1>7
<1>10. CASE report
    <2>1. /\ m' \in Measurement /\ m'.samples = <<>> /\ good' = <<>>
          /\ m'.attempts = 0 /\ m'.failed = 0 /\ m'.invalid = 0
        <3>1. m' = [stored EXCEPT !.attempts = 0, !.failed = 0, !.invalid = 0, !.samples = <<>>]
              /\ good' = <<>>
            BY <1>3, <1>10
        <3>2. stored \in Measurement /\ <<>> \in Seq(Sample)
            BY <1>7
        <3> HIDE DEF report
        <3> QED
            BY <3>1, <3>2 DEF Measurement
    <2> QED
        BY <2>1, <1>1, <1>2, <1>3
           DEF MInv, MetricsTyped, MeasuringInv, SamplesInv, CountsInv
<1>11. CASE ~report
    <2>1. m' = stored
        BY <1>3, <1>11
    <2>2. MetricsTyped'
        BY <2>1, <1>1, <1>3, <1>7 DEF MetricsTyped
    <2>3. good' = stored.samples
        <3>1. good' = IF delivered /\ valid THEN Append(good, seenSample) ELSE good
            BY <1>3, <1>4, <1>11
        <3>2. m.samples = good
            BY DEF MInv, SamplesInv
        <3> QED
            BY <3>1, <3>2, <1>5, <1>7
    <2>4. SamplesInv'
        BY <2>1, <2>3, <1>9 DEF SamplesInv
    <2>5. /\ m.failed \in Nat /\ m.invalid \in Nat /\ m.attempts \in Nat /\ Len(m.samples) \in Nat
          /\ Len(m.samples) + m.failed <= m.attempts
          /\ Len(m.samples) + m.failed + m.invalid >= m.attempts
        BY <1>1 DEF MInv, CountsInv, Measurement
    <2>6. m'.attempts < ReportWindow /\ m'.attempts = m.attempts + 1
        BY <2>1, <2>5, <1>2, <1>6, <1>7, <1>11
    <2>7. /\ m'.failed = (IF delivered THEN m.failed ELSE m.failed + 1)
          /\ m'.invalid = (IF valid THEN m.invalid ELSE m.invalid + 1)
          /\ Len(m'.samples) = (IF delivered /\ valid THEN Len(m.samples) + 1 ELSE Len(m.samples))
        BY <2>1, <1>6, <1>7, <1>8
    <2>8. CountsInv'
        <3>1. CASE delivered /\ valid
            <4>1. m'.failed = m.failed /\ m'.invalid = m.invalid
                  /\ Len(m'.samples) = Len(m.samples) + 1
                BY <3>1, <2>7
            <4> QED
                BY <4>1, <2>5, <2>6 DEF CountsInv
        <3>2. CASE delivered /\ ~valid
            <4>1. m'.failed = m.failed /\ m'.invalid = m.invalid + 1
                  /\ Len(m'.samples) = Len(m.samples)
                BY <3>2, <2>7
            <4> QED
                BY <4>1, <2>5, <2>6 DEF CountsInv
        <3>3. CASE ~delivered
            <4>1. m'.failed = m.failed + 1 /\ Len(m'.samples) = Len(m.samples)
                BY <3>3, <2>7
            <4>2. m'.invalid = m.invalid \/ m'.invalid = m.invalid + 1
                BY <2>7
            <4>3. /\ Len(m'.samples) + m'.failed <= m'.attempts
                  /\ Len(m'.samples) + m'.failed + m'.invalid >= m'.attempts
                <5>1. /\ Len(m.samples) + (m.failed + 1) <= m.attempts + 1
                      /\ Len(m.samples) + (m.failed + 1) + m.invalid >= m.attempts + 1
                      /\ Len(m.samples) + (m.failed + 1) + (m.invalid + 1) >= m.attempts + 1
                    BY <2>5, OneMoreFailed
                <5> QED
                    BY <4>1, <4>2, <2>6, <5>1, Zenon
            <4> QED
                BY <4>3, <2>6 DEF CountsInv
        <3> QED
            BY <3>1, <3>2, <3>3
    <2> QED
        BY <2>2, <2>4, <2>8 DEF MInv, MeasuringInv
<1> QED
    BY <1>10, <1>11

\* Every step of a playback keeps the metrics in step.
LEMMA MetricsKept == ASSUME MInv, [Next]_vars PROVE MInv'
<1>1. playback' = playback
    BY PlaybackKept
<1>2. Failing({"wall", "cpu"}) \subseteq SUBSET {"wall", "cpu"}
      /\ Failing({"wall"}) \subseteq SUBSET {"wall"}
    BY DEF Failing
<1>3. ASSUME NEW bad \in Failing({"wall", "cpu"}), Begin(bad) PROVE MInv'
    BY <1>1, <1>2, <1>3, Unmeasured, BeginMeasures DEF Begin, Goes, Measured
<1>4. ASSUME NEW bad \in Failing({"wall", "cpu"}), End(bad) PROVE MInv'
    <2>1. (at = "sharpened") \in BOOLEAN
        OBVIOUS
    <2> QED
        BY <1>1, <1>2, <1>4, <2>1, Unmeasured, EndMeasures DEF End, Measured
<1>5. ASSUME NEW bad \in Failing({"wall"}),
             MarkStage("probed", "scaling", bad) \/ MarkStage("scaled", "sharpening", bad)
      PROVE  MInv'
    BY <1>1, <1>2, <1>5, Unmeasured, MarkMeasures DEF MarkStage, Goes, Measured
<1>6. ASSUME NEW bad \in Failing({"wall"}),
             \/ EndStage("scale", "scaling", "scaled", bad)
             \/ EndStage("usm", "sharpening", "sharpened", bad)
      PROVE  MInv'
    BY <1>1, <1>2, <1>6, Unmeasured, StageMeasures DEF EndStage, Goes, Measured
<1>7. ASSUME NEW pic, Probe(pic) \/ NoProbe(pic) PROVE MInv'
    BY <1>1, <1>7, Moves DEF Probe, NoProbe, Goes
<1>8. CASE Unusable \/ Drops \/ Over \/ UNCHANGED vars
    BY <1>1, <1>8, Moves DEF Unusable, Drops, Over, Goes, vars, probeVars
<1>9. CASE TimePasses
    BY <1>1, <1>9, TimeMeasures DEF TimePasses
<1> QED
    BY <1>3, <1>4, <1>5, <1>6, <1>7, <1>8, <1>9 DEF Next

\* SamplesTrue, for every window, every course of the clocks and every failure to
\* read them: the report is about the clean calls, each with its own durations.
THEOREM SamplesStayTrue == Spec => []SamplesTrue
<1>1. MInv => SamplesTrue
    <2> SUFFICES ASSUME MInv PROVE SamplesTrue
        OBVIOUS
    <2>1. m.samples \in Seq(Sample)
        BY DEF MInv, MetricsTyped, Measurement
    <2>2. DOMAIN m.samples = 1 .. Len(m.samples)
        BY <2>1
    <2> QED
        BY <2>2 DEF MInv, SamplesInv, CountsInv, SamplesTrue
<1> QED
    BY <1>1, MetricsStarted, MetricsKept, PTL DEF Spec

-----------------------------------------------------------------------------
(* VerdictOnEvidence: a sum over the samples of pictures that all stay on  *)
(* one side of a bound stays on that side of as many times the bound, so   *)
(* the quotients the verdicts compare do too.                              *)

LEMMA NoMore == ASSUME NEW s \in Nat, NEW n \in Nat \ {0}, NEW t \in Nat, s <= t * n
                PROVE  s \div n <= t
<1>1. s \div n \in Nat /\ (s \div n) * n <= s
    OBVIOUS
<1> DEFINE q == s \div n
<1>2. q \in Nat /\ q * n <= s
    BY <1>1
<1> HIDE DEF q
<1>3. q * n <= t * n
    <2>1. q * n \in Int /\ t * n \in Int
        BY <1>2
    <2> QED
        BY <1>2, <2>1
<1>4. q <= t
    BY <1>2, <1>3
<1> QED
    BY <1>4 DEF q

LEMMA NoLess == ASSUME NEW s \in Nat, NEW n \in Nat \ {0}, NEW t \in Nat, s >= t * n
                PROVE  s \div n >= t
OBVIOUS

LEMMA Spread == ASSUME NEW t \in Nat, NEW n \in Nat, NEW c \in Nat
                PROVE  t * (n + c) = t * n + t * c /\ t * n \in Nat /\ t * c \in Nat
OBVIOUS

LEMMA Times == ASSUME NEW v \in Nat, NEW t \in Nat, NEW c \in Nat, v <= t
               PROVE  v * c <= t * c /\ v * c \in Nat /\ t * c \in Nat
OBVIOUS

LEMMA AddsBelow ==
    ASSUME NEW s \in Nat, NEW n \in Nat, NEW c \in Nat, NEW v \in Nat, NEW t \in Nat,
           s <= t * n, v <= t
    PROVE  s + v * c <= t * (n + c)
<1>1. t * (n + c) = t * n + t * c /\ t * n \in Nat /\ t * c \in Nat
    BY Spread
<1>2. v * c <= t * c /\ v * c \in Nat
    BY Times
<1> QED
    BY <1>1, <1>2

LEMMA AddsAbove ==
    ASSUME NEW s \in Nat, NEW n \in Nat, NEW c \in Nat, NEW v \in Nat, NEW t \in Nat,
           s >= t * n, v >= t
    PROVE  s + v * c >= t * (n + c)
<1>1. t * (n + c) = t * n + t * c /\ t * n \in Nat /\ t * c \in Nat
    BY Spread
<1>2. t * c <= v * c /\ v * c \in Nat
    BY Times
<1> QED
    BY <1>1, <1>2

Picture == [lap : Nat, edge : Nat]
Accumulated == [lapSum : Nat, lap : Nat, edgeSum : Nat, edge : Nat, frames : Nat]

\* Every usable picture that was probed is in seen, and in the sums.
SumsInv ==
    /\ accum \in Accumulated
    /\ accum.frames = Len(seen)
    /\ LapCount > 0 /\ Len(seen) > 0 => accum.lap > 0
    /\ \A t \in Nat :
          /\ (\A i \in 1 .. Len(seen) : seen[i].lap <= t) => accum.lapSum <= t * accum.lap
          /\ (\A i \in 1 .. Len(seen) : seen[i].lap >= t) => accum.lapSum >= t * accum.lap
          /\ (\A i \in 1 .. Len(seen) : seen[i].edge <= t) => accum.edgeSum <= t * accum.edge

\* Before the window is full there is no verdict; afterwards it is that of the sums.
VerdictInv ==
    /\ active => Len(seen) < ProbeWindow /\ ~skip /\ ~advised
    /\ ~active => /\ Len(seen) = ProbeWindow
                  /\ skip <=> SkipsSharp(accum)
                  /\ advised <=> playback.advice /\ Bypass(accum)

PInv ==
    /\ playback \in Playbacks
    /\ seen \in Seq(Picture) /\ Len(seen) <= ProbeWindow
    /\ IF Needed(playback) THEN SumsInv /\ VerdictInv ELSE ~active /\ ~skip /\ ~advised

LEMMA CountsAreNatural ==
    ASSUME playback \in Playbacks PROVE LapCount \in Nat /\ EdgeCount \in Nat
<1> DEFINE w == playback.w
           h == playback.h
<1>1. w \in Nat /\ h \in Nat /\ GridStep \in Nat /\ BlockSize \in Nat
    BY ObserversAssumption, ProbeAssumption
<1> HIDE DEF w, h
<1>2. IsFiniteSet(0 .. w - 1) /\ IsFiniteSet(0 .. h - 1)
    BY <1>1, FS_Interval
<1>3. IsFiniteSet((0 .. w - 1) \X (0 .. h - 1))
    BY <1>2, FS_Product
<1>4. /\ LapAt(w, h) \subseteq (0 .. w - 1) \X (0 .. h - 1)
      /\ RightOfEdge(w, h) \subseteq (0 .. w - 1) \X (0 .. h - 1)
      /\ BelowEdge(w, h) \subseteq (0 .. w - 1) \X (0 .. h - 1)
    BY <1>1 DEF LapAt, RightOfEdge, BelowEdge, SampledRows
<1>5. /\ Cardinality(LapAt(w, h)) \in Nat /\ Cardinality(RightOfEdge(w, h)) \in Nat
      /\ Cardinality(BelowEdge(w, h)) \in Nat
    BY <1>3, <1>4, FS_Subset, FS_CardinalityType
<1> QED
    BY <1>5 DEF LapCount, EdgeCount, w, h

LEMMA ProbeStarted == Init => PInv
<1> SUFFICES ASSUME Init PROVE PInv
    OBVIOUS
<1>1. playback \in Playbacks /\ seen = <<>> /\ accum = NothingSeen /\ ~advised /\ ~skip
      /\ (active <=> Needed(playback))
    BY DEF Init, ProbeInit
<1>2. Len(seen) = 0 /\ ProbeWindow \in Nat \ {0} /\ seen \in Seq(Picture)
    BY <1>1, ProbeAssumption
<1>3. SumsInv
    BY <1>1, <1>2 DEF SumsInv, Accumulated, NothingSeen
<1> QED
    BY <1>1, <1>2, <1>3 DEF PInv, VerdictInv

LEMMA ProbeStep ==
    ASSUME PInv, NEW pic \in Pictures, RunProbe(pic), Remember(pic)
    PROVE  PInv'
<1>1. playback' = playback /\ playback \in Playbacks /\ playback' \in Playbacks
    BY DEF PInv, RunProbe
<1>2. Needed(playback) /\ active /\ SumsInv /\ VerdictInv
    BY DEF PInv, RunProbe
<1>3. pic \in Picture /\ seen \in Seq(Picture) /\ Len(seen) \in Nat
      /\ ProbeWindow \in Nat /\ Len(seen) < ProbeWindow /\ ~skip /\ ~advised
    BY <1>2, ObserversAssumption, ProbeAssumption DEF PInv, VerdictInv, Picture
<1>4. seen' = Append(seen, pic) /\ seen' \in Seq(Picture) /\ Len(seen') = Len(seen) + 1
    BY <1>3 DEF Remember
<1>5. /\ \A i \in 1 .. Len(seen) : seen'[i] = seen[i] /\ i \in 1 .. Len(seen')
      /\ seen'[Len(seen) + 1] = pic /\ Len(seen) + 1 \in 1 .. Len(seen')
    BY <1>3, <1>4
<1>6. LapCount \in Nat /\ EdgeCount \in Nat /\ LapCount' = LapCount
    BY <1>1, CountsAreNatural DEF LapCount
<1>7. /\ {accum.lapSum, accum.lap, accum.edgeSum, accum.edge, accum.frames} \subseteq Nat
      /\ pic.lap \in Nat /\ pic.edge \in Nat
    BY <1>2, <1>3 DEF SumsInv, Accumulated, Picture
<1>8. /\ accum'.lapSum = accum.lapSum + pic.lap * LapCount
      /\ accum'.lap = accum.lap + LapCount
      /\ accum'.edgeSum = accum.edgeSum + pic.edge * EdgeCount
      /\ accum'.edge = accum.edge + EdgeCount
      /\ accum'.frames = accum.frames + 1
      /\ accum' \in Accumulated
    <2>1. pic.lap * LapCount \in Nat /\ pic.edge * EdgeCount \in Nat
        BY <1>6, <1>7
    <2>2. accum' = [lapSum |-> accum.lapSum + pic.lap * LapCount, lap |-> accum.lap + LapCount,
                    edgeSum |-> accum.edgeSum + pic.edge * EdgeCount,
                    edge |-> accum.edge + EdgeCount, frames |-> accum.frames + 1]
        BY DEF RunProbe, With
    <2> QED
        BY <1>6, <1>7, <2>1, <2>2 DEF Accumulated
<1>9. SumsInv'
    <2>1. accum'.frames = Len(seen')
        BY <1>2, <1>4, <1>8 DEF SumsInv
    <2>2. LapCount' > 0 /\ Len(seen') > 0 => accum'.lap > 0
        BY <1>6, <1>7, <1>8
    <2>3. ASSUME NEW t \in Nat, \A i \in 1 .. Len(seen') : seen'[i].lap <= t
          PROVE  accum'.lapSum <= t * accum'.lap
        <3>1. pic.lap <= t /\ \A i \in 1 .. Len(seen) : seen[i].lap <= t
            BY <2>3, <1>5
        <3>2. accum.lapSum <= t * accum.lap
            BY <3>1, <1>2 DEF SumsInv
        <3>3. accum.lapSum + pic.lap * LapCount <= t * (accum.lap + LapCount)
            BY <3>1, <3>2, <1>6, <1>7, AddsBelow
        <3> QED
            BY <3>3, <1>8
    <2>4. ASSUME NEW t \in Nat, \A i \in 1 .. Len(seen') : seen'[i].lap >= t
          PROVE  accum'.lapSum >= t * accum'.lap
        <3>1. pic.lap >= t /\ \A i \in 1 .. Len(seen) : seen[i].lap >= t
            BY <2>4, <1>5
        <3>2. accum.lapSum >= t * accum.lap
            BY <3>1, <1>2 DEF SumsInv
        <3>3. accum.lapSum + pic.lap * LapCount >= t * (accum.lap + LapCount)
            BY <3>1, <3>2, <1>6, <1>7, AddsAbove
        <3> QED
            BY <3>3, <1>8
    <2>5. ASSUME NEW t \in Nat, \A i \in 1 .. Len(seen') : seen'[i].edge <= t
          PROVE  accum'.edgeSum <= t * accum'.edge
        <3>1. pic.edge <= t /\ \A i \in 1 .. Len(seen) : seen[i].edge <= t
            BY <2>5, <1>5
        <3>2. accum.edgeSum <= t * accum.edge
            BY <3>1, <1>2 DEF SumsInv
        <3>3. accum.edgeSum + pic.edge * EdgeCount <= t * (accum.edge + EdgeCount)
            BY <3>1, <3>2, <1>6, <1>7, AddsBelow
        <3> QED
            BY <3>3, <1>8
    <2> QED
        BY <1>8, <2>1, <2>2, <2>3, <2>4, <2>5 DEF SumsInv
<1>10. VerdictInv'
    <2>1. /\ active' <=> accum'.frames < ProbeWindow
          /\ skip' <=> skip \/ (~active' /\ SkipsSharp(accum'))
          /\ advised' <=> advised \/ (~active' /\ playback.advice /\ Bypass(accum'))
        BY Zenon DEF RunProbe
    <2>2. accum'.frames = Len(seen')
        BY <1>9 DEF SumsInv
    <2>3. SkipsSharp(accum)' <=> SkipsSharp(accum')
        BY <1>1 DEF SkipsSharp
    <2>4. Bypass(accum)' <=> Bypass(accum')
        BY DEF Bypass
    <2>5. active' => Len(seen') < ProbeWindow
        BY <2>1, <2>2
    <2>6. ~active' => Len(seen') = ProbeWindow
        BY <1>3, <1>4, <2>1, <2>2
    <2> QED
        BY <1>1, <1>3, <2>1, <2>3, <2>4, <2>5, <2>6, Zenon DEF VerdictInv
<1>11. Needed(playback)'
    BY <1>1, <1>2 DEF Needed
<1> QED
    BY <1>1, <1>3, <1>4, <1>9, <1>10, <1>11 DEF PInv

\* The other steps leave the probe alone; a picture is only remembered after it.
LEMMA ProbeRests ==
    ASSUME PInv, UNCHANGED <<playback, active, accum, advised, skip>>,
           seen' = seen \/ \E pic \in Pictures : ~active /\ Remember(pic)
    PROVE  PInv'
<1>1. LapCount' = LapCount /\ (Needed(playback)' <=> Needed(playback))
      /\ (SkipsSharp(accum)' <=> SkipsSharp(accum)) /\ (Bypass(accum)' <=> Bypass(accum))
    BY DEF LapCount, Needed, SkipsSharp, Bypass
<1>2. CASE seen' = seen
    BY <1>1, <1>2 DEF PInv, SumsInv, VerdictInv
<1>3. ASSUME NEW pic \in Pictures, ~active, Remember(pic) PROVE PInv'
    <2>1. CASE Needed(playback)
        <3>1. Len(seen) = ProbeWindow
            BY <1>3, <2>1 DEF PInv, VerdictInv
        <3>2. seen' = seen
            BY <1>3, <3>1, ProbeAssumption DEF Remember
        <3> QED
            BY <3>2, <1>2
    <2>2. CASE ~Needed(playback)
        <3>1. pic \in Picture
            BY ObserversAssumption DEF Picture
        <3>2. seen' \in Seq(Picture) /\ Len(seen') <= ProbeWindow
            BY <1>3, <3>1, ProbeAssumption DEF PInv, Remember
        <3> QED
            BY <3>2, <2>2, <1>1 DEF PInv
    <2> QED
        BY <2>1, <2>2
<1> QED
    BY <1>2, <1>3

LEMMA ProbeKept == ASSUME PInv, [Next]_vars PROVE PInv'
<1>1. ASSUME NEW pic \in Pictures, Probe(pic) PROVE PInv'
    BY <1>1, ProbeStep DEF Probe
<1>2. ASSUME NEW pic \in Pictures, NoProbe(pic) PROVE PInv'
    BY <1>2, ProbeRests DEF NoProbe
<1>3. ASSUME NEW bad, Begin(bad) \/ End(bad) PROVE PInv'
    BY <1>3, ProbeRests DEF Begin, End, probeVars
<1>4. ASSUME NEW bad, NEW s, NEW from, NEW to,
             MarkStage(from, to, bad) \/ EndStage(s, from, to, bad)
      PROVE  PInv'
    BY <1>4, ProbeRests DEF MarkStage, EndStage, probeVars
<1>5. CASE Unusable \/ Drops \/ TimePasses \/ Over \/ UNCHANGED vars
    BY <1>5, ProbeRests DEF Unusable, Drops, TimePasses, Over, vars, probeVars
<1> QED
    BY <1>1, <1>2, <1>3, <1>4, <1>5 DEF Next

LEMMA VerdictHolds == PInv => VerdictOnEvidence
<1> SUFFICES ASSUME PInv PROVE VerdictOnEvidence
    OBVIOUS
<1>1. DOMAIN seen = 1 .. Len(seen) /\ Len(seen) \in Nat
      /\ \A i \in 1 .. Len(seen) : seen[i].lap \in Nat /\ seen[i].edge \in Nat
    <2>1. seen \in Seq(Picture)
        BY DEF PInv
    <2>2. \A i \in 1 .. Len(seen) : seen[i] \in Picture
        BY <2>1
    <2> QED
        BY <2>1, <2>2 DEF Picture
<1>2. /\ playback.threshold \in Nat /\ SoftMean \in Nat /\ BlockyMean \in Nat
      /\ MinSamples \in Nat \ {0} /\ ProbeWindow \in Nat \ {0}
    BY ObserversAssumption, ProbeAssumption DEF PInv
<1>3. CASE ~Needed(playback)
    BY <1>3 DEF PInv, Needed, VerdictOnEvidence
<1>4. CASE Needed(playback)
    <2>1. SumsInv /\ VerdictInv
        BY <1>4 DEF PInv
    <2>2. {accum.lapSum, accum.lap, accum.edgeSum, accum.edge} \subseteq Nat
        BY <2>1 DEF SumsInv, Accumulated
    <2>3. ASSUME skip
          PROVE  Len(seen) = ProbeWindow /\ \E i \in 1 .. Len(seen) : seen[i].lap > playback.threshold
        <3>1. Len(seen) = ProbeWindow /\ SkipsSharp(accum)
            BY <2>1, <2>3 DEF VerdictInv
        <3>2. SUFFICES ASSUME \A i \in 1 .. Len(seen) : ~(seen[i].lap > playback.threshold)
                       PROVE  FALSE
            BY <3>1
        <3>3. \A i \in 1 .. Len(seen) : seen[i].lap <= playback.threshold
            BY <3>2, <1>1, <1>2
        <3>4. accum.lapSum <= playback.threshold * accum.lap
            BY <3>3, <2>1, <1>2 DEF SumsInv
        <3>5. accum.lapSum \div accum.lap <= playback.threshold
            BY <3>1, <3>4, <1>2, <2>2, NoMore DEF SkipsSharp
        <3>6. accum.lap \in Nat \ {0} /\ accum.lapSum \div accum.lap > playback.threshold
            BY <3>1, <2>2 DEF SkipsSharp
        <3>7. accum.lapSum \div accum.lap \in Nat
            BY <3>6, <2>2
        <3> DEFINE q == accum.lapSum \div accum.lap
        <3>8. q \in Nat /\ q <= playback.threshold /\ q > playback.threshold
            BY <3>5, <3>6, <3>7
        <3> HIDE DEF q
        <3> QED
            BY <3>8, <1>2
    <2>4. ASSUME Len(seen) = ProbeWindow, playback.threshold > 0, LapCount > 0,
                 \A i \in 1 .. Len(seen) : seen[i].lap > playback.threshold
          PROVE  skip
        <3>1. ~active
            BY <2>1, <2>4, <1>1 DEF VerdictInv
        <3>2. accum.lap \in Nat \ {0}
            BY <2>1, <2>2, <2>4, <1>2 DEF SumsInv
        <3>3. \A i \in 1 .. Len(seen) : seen[i].lap >= playback.threshold + 1
            BY <2>4, <1>1, <1>2
        <3>4. accum.lapSum >= (playback.threshold + 1) * accum.lap
            BY <3>3, <2>1, <1>2 DEF SumsInv
        <3>5. accum.lapSum \div accum.lap >= playback.threshold + 1
            BY <3>2, <3>4, <1>2, <2>2, NoLess
        <3>6. accum.lapSum \div accum.lap \in Nat
            BY <3>2, <2>2
        <3> DEFINE q == accum.lapSum \div accum.lap
        <3>7. q \in Nat /\ q >= playback.threshold + 1
            BY <3>5, <3>6
        <3>8. q > playback.threshold
            <4> HIDE DEF q
            <4> QED
                BY <3>7, <1>2
        <3>9. SkipsSharp(accum)
            BY <3>2, <3>8, <2>4 DEF SkipsSharp
        <3> QED
            BY <3>1, <3>9, <2>1 DEF VerdictInv
    <2>5. ASSUME advised
          PROVE  /\ Len(seen) = ProbeWindow /\ playback.advice
                 /\ \E i \in 1 .. Len(seen) : seen[i].lap < SoftMean
                 /\ \E i \in 1 .. Len(seen) : seen[i].edge > BlockyMean
        <3>1. Len(seen) = ProbeWindow /\ playback.advice /\ Bypass(accum)
            BY <2>1, <2>5 DEF VerdictInv
        <3>2. accum.lap \in Nat \ {0} /\ accum.edge \in Nat \ {0}
            BY <3>1, <2>2, <1>2 DEF Bypass
        <3>3. accum.lapSum \div accum.lap \in Nat /\ accum.edgeSum \div accum.edge \in Nat
            BY <3>2, <2>2
        <3> DEFINE p == accum.lapSum \div accum.lap
                   q == accum.edgeSum \div accum.edge
        <3>4. p \in Nat /\ q \in Nat /\ p < SoftMean /\ q > BlockyMean
            BY <3>1, <3>3 DEF Bypass
        <3>5. ASSUME \A i \in 1 .. Len(seen) : ~(seen[i].lap < SoftMean) PROVE FALSE
            <4>1. \A i \in 1 .. Len(seen) : seen[i].lap >= SoftMean
                BY <3>5, <1>1, <1>2
            <4>2. accum.lapSum >= SoftMean * accum.lap
                BY <4>1, <2>1, <1>2 DEF SumsInv
            <4>3. p >= SoftMean
                BY <4>2, <3>2, <2>2, <1>2, NoLess
            <4> HIDE DEF p, q
            <4> QED
                BY <4>3, <3>4, <1>2
        <3>6. ASSUME \A i \in 1 .. Len(seen) : ~(seen[i].edge > BlockyMean) PROVE FALSE
            <4>1. \A i \in 1 .. Len(seen) : seen[i].edge <= BlockyMean
                BY <3>6, <1>1, <1>2
            <4>2. accum.edgeSum <= BlockyMean * accum.edge
                BY <4>1, <2>1, <1>2 DEF SumsInv
            <4>3. q <= BlockyMean
                BY <4>2, <3>2, <2>2, <1>2, NoMore
            <4> HIDE DEF p, q
            <4> QED
                BY <4>3, <3>4, <1>2
        <3> QED
            BY <3>1, <3>5, <3>6
    <2>6. playback.luma
        BY <1>4 DEF Needed
    <2> QED
        BY <1>1, <2>3, <2>4, <2>5, <2>6 DEF VerdictOnEvidence
<1> QED
    BY <1>3, <1>4

\* VerdictOnEvidence, for every window, threshold and sequence of pictures: what
\* the probe decides follows from pictures it has seen, all of them if it skips.
THEOREM VerdictsRestOnEvidence == Spec => []VerdictOnEvidence
BY ProbeStarted, ProbeKept, VerdictHolds, PTL DEF Spec
=============================================================================
