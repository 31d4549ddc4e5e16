------------------------- MODULE UsmAdaptive_proofs -------------------------
(***************************************************************************)
(* Proofs about the adaptive sharpening driver, for every limit, window    *)
(* size, warm-up, cooldown and set of frame times.                         *)
(*                                                                         *)
(* The inductive invariant has four parts: where the search stands (which  *)
(* count runs, on what the scores were measured, what of the ladder was    *)
(* tried), which pools are held for it, what has become of the frame in    *)
(* hand, and on which pool the frames of the open window ran.              *)
(***************************************************************************)
EXTENDS UsmAdaptive, SequenceTheorems, TLAPS

\* The search: only a trial runs another count than the best one, scores were
\* taken on the counts they stand for, and the ladder was tried up to cursor.
SearchInv ==
    /\ phase \in {"base", "trial", "confirm", "settled"}
    /\ best \in Counts /\ candidate \in 0 .. Limit /\ cursor \in 0 .. Limit
    /\ phase # "trial" => current = best
    /\ phase = "trial" => current = candidate /\ candidate = cursor /\ candidate # best
    /\ phase \in {"trial", "confirm"} => candidate # 0 /\ base.by = best
    /\ phase = "confirm" => trial.by = candidate
    /\ \A r \in Rungs : r <= cursor /\ (phase = "trial" => r # cursor) => r \in tried
    /\ phase = "settled" => Rungs \subseteq tried

\* The pools, besides PoolsAccounted.
HoldInv ==
    /\ {bestPool, trialPool} \subseteq Pools \cup {None}
    /\ trialCount \in Nat
    /\ asked \in [Pools -> Nat]
    /\ trialPool = None => trialCount = 0
    /\ at # "idle" \/ enabled => bestPool # None

\* The pool the search wants the next frame to run on.
Target == IF current = best THEN bestPool ELSE trialPool

\* The frame in hand: how often it was swept, what its status says, which pool
\* it runs on, and that a failure of the best pool itself is never retained.
FrameInv ==
    /\ at \in {"idle", "begun", "apply", "recover", "account", "return"}
    /\ at \in {"begun", "apply"} => passes = 0
    /\ at = "recover" => status \in {"unchanged", "uncertain"}
    /\ at = "account" => status = "ok" /\ enabled
    /\ at = "return" => status \in {"ok", "unchanged", "uncertain"}
    /\ at \in {"recover", "account", "return"} => passes = (IF status = "unchanged" THEN 0 ELSE 1)
    /\ retained => at \in {"idle", "begun", "return"}
    /\ retained /\ at = "return" => status # "unchanged"
    /\ enabled /\ at \in {"apply", "account"} =>
          selected = Target /\ (current # best => trialCount = current)

\* No frame has been measured since the count changed.
Fresh == warmup = Warmup /\ samples = <<>>

\* The open window ran on the wanted pool, warm-up included.
WindowInv ==
    /\ warmup \in 0 .. Warmup
    /\ samples \in Seq(Times) /\ Len(samples) < Samples
    /\ warmup > 0 => samples = <<>>
    /\ streak \in 0 .. StreakCap
    /\ streak >= (Warmup - warmup) + Len(samples)
    /\ enabled /\ ~Fresh => ran = Target /\ (current # best => trialCount = current)

IInv == SearchInv /\ HoldInv /\ PoolsAccounted /\ FrameInv /\ WindowInv

-----------------------------------------------------------------------------
(* The ladder and the search. *)

LEMMA Sizes ==
    /\ Limit \in Nat /\ 1 <= Limit /\ Limit <= 64
    /\ Samples \in Nat /\ 1 <= Samples /\ Warmup \in Nat
    /\ StreakCap = Warmup + Samples
    /\ Counts = 1 .. Limit
BY TunerAssumption DEF MaxThreads, StreakCap, Counts

\* up_tuner_next_count climbs without leaving a rung out, and ends at the limit.
LEMMA NextRung ==
    ASSUME NEW previous \in Nat
    PROVE  /\ previous >= Limit => NextCount(previous) = 0
           /\ previous < Limit => /\ NextCount(previous) \in Counts
                                  /\ NextCount(previous) > previous
                                  /\ \A r \in Rungs : r > previous => NextCount(previous) <= r
<1>1. CASE previous >= Limit
    <2>1. NextCount(previous) = 0
        BY <1>1 DEF NextCount
    <2> QED
        BY <1>1, <2>1, Sizes
<1>2. CASE previous < Limit
    <2> DEFINE Next_(c) == c > previous /\ \A d \in Ladder : d > previous => c <= d
               rung == CHOOSE c \in Ladder : Next_(c)
    <2>1. \E c \in Ladder : Next_(c)
        BY <1>2, Sizes DEF Ladder, MaxThreads
    <2>2. rung \in Ladder /\ Next_(rung)
        BY <2>1
    <2>3. NextCount(previous) = IF rung < Limit THEN rung ELSE Limit
        BY <1>2, Sizes DEF NextCount
    <2> HIDE DEF rung
    <2>4. rung \in Nat
        BY <2>2 DEF Ladder, MaxThreads
    <2>5. \A r \in Rungs : r \in Nat /\ r <= Limit /\ (r \in Ladder \/ r = Limit)
        BY Sizes DEF Rungs, Ladder, MaxThreads
    <2>6. \A r \in Rungs : r > previous => NextCount(previous) <= r
        BY <2>2, <2>3, <2>4, <2>5, Sizes
    <2> QED
        BY <1>2, <2>2, <2>3, <2>4, <2>6, Sizes
<1> QED
    BY <1>1, <1>2, Sizes

\* The next candidate is never the best count, and every rung up to it was
\* measured or is the best count.
LEMMA NextTrial ==
    ASSUME SearchInv
    PROVE  /\ NextCandidate # 0 =>
                 /\ NextCandidate \in Counts /\ NextCandidate # best
                 /\ \A r \in Rungs : r < NextCandidate => r <= cursor \/ r = best
           /\ NextCandidate = 0 => \A r \in Rungs : r <= cursor \/ r = best
<1>1. /\ cursor \in Nat /\ best \in Nat /\ best # 0
      /\ \A r \in Rungs : r \in Nat /\ r <= Limit
    BY Sizes DEF SearchInv, Rungs, Ladder, MaxThreads
<1>2. CASE NextCount(cursor) = best
    <2>1. NextCandidate = NextCount(best)
        BY <1>2 DEF NextCandidate
    <2>2. \A r \in Rungs : r < best => r <= cursor
        BY <1>1, <1>2, NextRung, Sizes
    <2> QED
        BY <1>1, <1>2, <2>1, <2>2, NextRung, Sizes
<1>3. CASE NextCount(cursor) # best
    <2>1. NextCandidate = NextCount(cursor)
        BY <1>3 DEF NextCandidate
    <2> QED
        BY <1>1, <1>3, <2>1, NextRung, Sizes
<1> QED
    BY <1>2, <1>3

\* What a closed window may do to the search; n is the count it ran on.
DecisionOk ==
    /\ best' # best => phase = "confirm" /\ phase' = "base" /\ best' = candidate
    /\ phase' = "confirm" => phase \in {"trial", "confirm"} /\ candidate' = candidate
    /\ current' = current => best' = best

LEMMA Decided ==
    ASSUME SearchInv, NEW s, Decide(s, current)
    PROVE  SearchInv' /\ DecisionOk
           /\ (current' = current => current = best)
<1> DEFINE score == Score(s, current)
<1>0. score.by = current
    BY DEF Score
<1> HIDE DEF score
<1>1. Rungs' = Rungs /\ \A r \in Rungs : r \in Nat /\ 0 < r /\ r <= Limit
    BY Sizes DEF Rungs, Ladder, MaxThreads
<1>2. CASE BeginTrial(score, Left)
    <2>1. /\ phase = "base" /\ phase' = "trial" /\ current = best /\ best' = best
          /\ cursor' = NextCandidate /\ candidate' = NextCandidate /\ current' = NextCandidate
          /\ NextCandidate # 0 /\ base' = score /\ trial' = trial
        BY <1>2 DEF BeginTrial, SearchInv
    <2>2. tried' = tried \cup {best}
        BY <2>1 DEF Decide
    <2> QED
        BY <1>0, <1>1, <2>1, <2>2, NextTrial, Sizes DEF SearchInv, DecisionOk
<1>3. CASE Settle(score)
    <2>1. /\ phase = "base" /\ phase' = "settled" /\ current = best /\ best' = best
          /\ cursor' = 0 /\ candidate' = candidate /\ current' = best
          /\ NextCandidate = 0
        BY <1>3 DEF Settle, SearchInv
    <2>2. tried' = tried \cup {best}
        BY <2>1 DEF Decide
    <2> QED
        BY <1>0, <1>1, <2>1, <2>2, NextTrial, Sizes DEF SearchInv, DecisionOk
<1>4. CASE EndTrial(score, Left)
    <2>1. /\ phase = "trial" /\ phase' = "confirm" /\ current = candidate /\ best' = best
          /\ cursor' = cursor /\ candidate' = candidate /\ current' = best
          /\ base' = base /\ trial' = score
        BY <1>4 DEF EndTrial, SearchInv
    <2>2. tried' = tried \cup {candidate}
        BY <2>1 DEF Decide
    <2> QED
        BY <1>0, <1>1, <2>1, <2>2, Sizes DEF SearchInv, DecisionOk
<1>5. CASE Confirm(score, Left)
    <2>1. /\ phase = "confirm" /\ phase' = "base" /\ current = best
          /\ best' \in {candidate, best} /\ current' = best'
          /\ cursor' = cursor /\ candidate' = candidate
        BY <1>5 DEF Confirm, SearchInv
    <2>2. tried' = tried \cup {best}
        BY <2>1 DEF Decide
    <2> QED
        BY <1>1, <2>1, <2>2, Sizes DEF SearchInv, DecisionOk
<1>6. CASE Monitor(score, Left)
    <2>1. /\ phase = "settled" /\ current = best /\ best' = best /\ current' = current
          /\ candidate' = candidate
          /\ \/ phase' = "settled" /\ cursor' = cursor /\ tried' = tried \cup {best}
             \/ phase' = "base" /\ cursor' = 0 /\ tried' = {}
        BY <1>6 DEF Monitor, SearchInv, Decide
    <2> QED
        BY <1>1, <2>1, Sizes DEF SearchInv, DecisionOk
<1> QED
    BY <1>2, <1>3, <1>4, <1>5, <1>6 DEF Decide, score

\* A measured frame on the count the search asked for keeps the search sound.
LEMMA Observed ==
    ASSUME SearchInv, NEW t, Observe(t, current)
    PROVE  SearchInv' /\ DecisionOk
<1>1. CASE Ignore
    <2>1. UNCHANGED <<phase, best, current, candidate, cursor, base, trial, tried>>
        BY <1>1 DEF Ignore
    <2> QED
        BY <2>1 DEF SearchInv, DecisionOk, Counts, Rungs
<1>2. CASE Gather(t)
    <2>1. UNCHANGED <<phase, best, current, candidate, cursor, base, trial, tried>>
        BY <1>2 DEF Gather
    <2> QED
        BY <2>1 DEF SearchInv, DecisionOk, Counts, Rungs
<1>3. CASE Window(t, current)
    BY <1>3, Decided DEF Window
<1> QED
    BY <1>1, <1>2, <1>3 DEF Observe

-----------------------------------------------------------------------------
(* The inductive invariant, action by action. *)

\* What leaves the search alone, and does not change the pool under a window
\* that is under way, keeps the search and its window.
LEMMA Quiet ==
    ASSUME SearchInv, WindowInv, UNCHANGED tunerVars, UNCHANGED <<ran, streak>>,
           enabled' => /\ enabled
                       /\ ~Fresh => /\ bestPool' = bestPool
                                    /\ trialPool' = trialPool /\ trialCount' = trialCount
    PROVE  SearchInv' /\ WindowInv'
<1>1. SearchInv'
    BY DEF SearchInv, tunerVars, Counts, Rungs
<1>2. WindowInv'
    BY DEF WindowInv, Fresh, Target, tunerVars
<1> QED
    BY <1>1, <1>2

LEMMA Started == Init => IInv
<1> SUFFICES ASSUME Init PROVE IInv
    OBVIOUS
<1>1. PICK p \in Pools : /\ bestPool = p /\ alive = {p}
                         /\ asked = [q \in Pools |-> IF q = p THEN best ELSE 0]
    BY DEF Init
<1>2. SearchInv
    BY Sizes DEF Init, TunerInit, SearchInv, Rungs, Ladder, MaxThreads
<1>3. HoldInv /\ PoolsAccounted
    BY <1>1, <1>2, Sizes, AdaptiveAssumption DEF Init, TunerInit, HoldInv, PoolsAccounted, SearchInv
<1>4. FrameInv
    BY DEF Init, FrameInv
<1>5. WindowInv
    <2>1. samples = <<>> /\ warmup = Warmup /\ streak = 0
        BY DEF Init, TunerInit
    <2>2. samples \in Seq(Times) /\ Len(samples) = 0
        BY <2>1
    <2> QED
        BY <2>1, <2>2, Sizes DEF WindowInv, Fresh
<1> QED
    BY <1>2, <1>3, <1>4, <1>5 DEF IInv

LEMMA BeginKeeps == ASSUME IInv, Begin PROVE IInv'
<1>1. /\ at = "idle" /\ bestPool # None /\ at' = "begun" /\ passes' = 0
      /\ UNCHANGED <<tunerVars, status, bestPool, trialPool, trialCount, alive, asked,
                     enabled, retained, ran, streak>>
    BY DEF Begin, pools, mode
<1>2. SearchInv' /\ WindowInv'
    BY <1>1, Quiet DEF IInv
<1>3. HoldInv' /\ PoolsAccounted'
    BY <1>1 DEF IInv, HoldInv, PoolsAccounted, tunerVars
<1>4. FrameInv'
    BY <1>1 DEF IInv, FrameInv
<1> QED
    BY <1>2, <1>3, <1>4 DEF IInv

LEMMA NotSharpenedKeeps == ASSUME IInv, NotSharpened PROVE IInv'
<1>1. /\ at' = "idle"
      /\ UNCHANGED <<tunerVars, status, bestPool, trialPool, trialCount, alive, asked,
                     enabled, retained, ran, streak>>
    BY DEF NotSharpened, pools, mode, hist
<1>2. SearchInv' /\ WindowInv'
    BY <1>1, Quiet DEF IInv
<1>3. HoldInv' /\ PoolsAccounted'
    BY <1>1 DEF IInv, HoldInv, PoolsAccounted, tunerVars, NotSharpened
<1>4. FrameInv'
    BY <1>1 DEF IInv, FrameInv
<1> QED
    BY <1>2, <1>3, <1>4 DEF IInv

LEMMA SelectKeeps == ASSUME IInv, SelectBest \/ SelectTrial PROVE IInv'
<1>1. /\ at = "begun" /\ at' = "apply" /\ retained' = FALSE
      /\ enabled => selected' = Target /\ (current # best => trialCount = current)
      /\ UNCHANGED <<tunerVars, bestPool, trialPool, trialCount, alive, asked,
                     enabled, ran, streak, passes>>
    BY DEF SelectBest, SelectTrial, Target, pools, hist
<1>2. SearchInv' /\ WindowInv'
    BY <1>1, Quiet DEF IInv
<1>3. HoldInv' /\ PoolsAccounted'
    BY <1>1 DEF IInv, HoldInv, PoolsAccounted, tunerVars
<1>4. FrameInv'
    BY <1>1 DEF IInv, FrameInv, Target, tunerVars
<1> QED
    BY <1>2, <1>3, <1>4 DEF IInv

\* The new pool is not the best one, which is alive and not the old trial.
LEMMA CreateTrialKeeps == ASSUME IInv, CreateTrial PROVE IInv'
<1>1. PICK p \in Pools \ (alive \ {trialPool}) :
          /\ alive' = (alive \ {trialPool}) \cup {p}
          /\ trialPool' = p /\ selected' = p
          /\ asked' = [asked EXCEPT ![p] = current]
    BY DEF CreateTrial
<1>2. /\ at = "begun" /\ at' = "apply" /\ retained' = FALSE
      /\ enabled /\ current # best /\ trialCount # current /\ trialCount' = current
      /\ UNCHANGED <<tunerVars, bestPool, enabled, ran, streak, passes>>
    BY DEF CreateTrial, hist
<1>3. Fresh
    BY <1>2 DEF IInv, WindowInv
<1>4. current \in Nat /\ current # 0
    BY <1>2, Sizes DEF IInv, SearchInv
<1>5. bestPool # None /\ bestPool \in Pools /\ p # bestPool /\ p # None
    BY <1>1, <1>2, AdaptiveAssumption DEF IInv, HoldInv, PoolsAccounted
<1>6. SearchInv' /\ WindowInv'
    BY <1>2, <1>3, Quiet DEF IInv
<1>7. HoldInv'
    BY <1>1, <1>2, <1>4, <1>5 DEF IInv, HoldInv
<1>8. PoolsAccounted'
    <2>1. asked'[p] = current /\ asked'[bestPool] = asked[bestPool]
        BY <1>1, <1>5 DEF IInv, HoldInv
    <2>2. alive' = {bestPool, p}
        BY <1>1, <1>5 DEF IInv, PoolsAccounted
    <2> QED
        BY <1>1, <1>2, <1>5, <2>1, <2>2 DEF IInv, PoolsAccounted, SearchInv, tunerVars
<1>9. FrameInv'
    BY <1>1, <1>2 DEF IInv, FrameInv, Target, tunerVars
<1> QED
    BY <1>6, <1>7, <1>8, <1>9 DEF IInv

\* up_usm_adaptive_stop leaves the best pool alone.
LEMMA Stopping ==
    ASSUME IInv, Stop, UNCHANGED <<tunerVars, bestPool, asked, ran, streak>>, at # "idle"
    PROVE  SearchInv' /\ WindowInv' /\ HoldInv' /\ PoolsAccounted'
           /\ ~enabled' /\ trialPool' = None
<1>1. /\ alive' = alive \ {trialPool} /\ trialPool' = None /\ trialCount' = 0
      /\ enabled' = FALSE
    BY DEF Stop, ClearTrial
<1>2. SearchInv' /\ WindowInv'
    BY <1>1, Quiet DEF IInv
<1>3. HoldInv'
    BY <1>1 DEF IInv, HoldInv
<1>4. PoolsAccounted'
    BY <1>1 DEF IInv, HoldInv, PoolsAccounted
<1> QED
    BY <1>1, <1>2, <1>3, <1>4

LEMMA CreateFailsKeeps == ASSUME IInv, CreateFails PROVE IInv'
<1>1. /\ at = "begun" /\ at' = "apply" /\ retained' = FALSE
      /\ Stop /\ UNCHANGED <<tunerVars, bestPool, asked, ran, streak, passes>>
    BY DEF CreateFails, hist
<1>2. SearchInv' /\ WindowInv' /\ HoldInv' /\ PoolsAccounted' /\ ~enabled'
    BY <1>1, Stopping
<1>3. FrameInv'
    BY <1>1, <1>2 DEF IInv, FrameInv
<1> QED
    BY <1>2, <1>3 DEF IInv

LEMMA ApplyKeeps == ASSUME IInv, Apply PROVE IInv'
<1>1. PICK s \in {"ok", "unchanged", "uncertain"} :
          Applied(s) /\ at = "apply" /\ passes' = (IF s = "unchanged" THEN passes ELSE passes + 1)
    BY DEF Apply, ApplyOk, ApplyUnchanged, ApplyUncertain
<1>2. /\ status' = s
      /\ at' = IF s # "ok" THEN IF selected # bestPool THEN "recover" ELSE "return"
               ELSE IF enabled THEN "account" ELSE "return"
      /\ UNCHANGED <<tunerVars, selected, bestPool, trialPool, trialCount, alive, asked,
                     enabled, retained, ran, streak>>
    BY <1>1 DEF Applied, mode
<1>3. SearchInv' /\ WindowInv'
    BY <1>2, Quiet DEF IInv
<1>4. HoldInv' /\ PoolsAccounted'
    BY <1>1, <1>2 DEF IInv, HoldInv, PoolsAccounted, tunerVars
<1>5. FrameInv'
    BY <1>1, <1>2 DEF IInv, FrameInv, Target, tunerVars
<1> QED
    BY <1>3, <1>4, <1>5 DEF IInv

LEMMA RecoverKeeps == ASSUME IInv, Recover PROVE IInv'
<1>1. /\ at = "recover" /\ Stop
      /\ IF status = "uncertain" THEN retained' = TRUE /\ at' = "return"
         ELSE at' = "apply" /\ selected' = bestPool /\ UNCHANGED retained
      /\ UNCHANGED <<tunerVars, status, bestPool, asked, ran, streak, passes>>
    BY DEF Recover, hist
<1>2. SearchInv' /\ WindowInv' /\ HoldInv' /\ PoolsAccounted' /\ ~enabled'
    BY <1>1, Stopping
<1>3. FrameInv'
    BY <1>1, <1>2 DEF IInv, FrameInv
<1> QED
    BY <1>2, <1>3 DEF IInv

LEMMA GiveUpKeeps == ASSUME IInv, GiveUp PROVE IInv'
<1>1. /\ at = "account" /\ at' = "return" /\ Stop
      /\ UNCHANGED <<tunerVars, status, bestPool, asked, retained, ran, streak, passes>>
    BY DEF GiveUp, hist
<1>2. SearchInv' /\ WindowInv' /\ HoldInv' /\ PoolsAccounted' /\ ~enabled'
    BY <1>1, Stopping
<1>3. FrameInv'
    BY <1>1, <1>2 DEF IInv, FrameInv
<1> QED
    BY <1>2, <1>3 DEF IInv

\* DisableUsm, between calls or at the end of one.
LEMMA Disabling == ASSUME IInv, Disable, at' = "idle" PROVE IInv'
<1>1. /\ alive' = alive \ {trialPool, bestPool}
      /\ bestPool' = None /\ trialPool' = None /\ trialCount' = 0 /\ enabled' = FALSE
      /\ UNCHANGED <<tunerVars, status, asked, retained, ran, streak, passes>>
    BY DEF Disable, hist
<1>2. SearchInv' /\ WindowInv'
    BY <1>1, Quiet DEF IInv
<1>3. HoldInv' /\ PoolsAccounted'
    BY <1>1 DEF IInv, HoldInv, PoolsAccounted
<1>4. FrameInv'
    BY <1>1 DEF IInv, FrameInv
<1> QED
    BY <1>2, <1>3, <1>4 DEF IInv

LEMMA ReturnKeeps == ASSUME IInv, Return PROVE IInv'
<1>1. CASE Disable
    BY <1>1, Disabling DEF Return
<1>2. CASE UNCHANGED <<tunerVars, selected, status, pools, mode, clock, hist>>
    <2>1. at' = "idle"
        BY DEF Return
    <2>2. SearchInv' /\ WindowInv'
        BY <1>2, Quiet DEF IInv, pools, mode, hist
    <2>3. HoldInv' /\ PoolsAccounted'
        BY <1>2, <2>1 DEF IInv, HoldInv, PoolsAccounted, pools, mode, tunerVars, Return
    <2>4. FrameInv'
        BY <1>2, <2>1 DEF IInv, FrameInv, mode
    <2> QED
        BY <2>2, <2>3, <2>4 DEF IInv
<1> QED
    BY <1>1, <1>2 DEF Return

LEMMA NothingKeeps == ASSUME IInv, UNCHANGED vars PROVE IInv'
BY DEF IInv, SearchInv, HoldInv, PoolsAccounted, FrameInv, WindowInv, Fresh, Target, Counts,
       Rungs, vars, tunerVars, pools, mode, hist

-----------------------------------------------------------------------------
(* The measured frame. *)

\* A decision is not the end of the window alone: what the account step knows.
LEMMA Accounted ==
    ASSUME IInv, NEW t \in Times, Accept(t)
    PROVE  /\ at = "account" /\ at' = "return" /\ enabled /\ status = "ok"
           /\ selected = Target /\ (current # best => trialCount = current)
           /\ up[selected] = current /\ Observe(t, current)
           /\ SearchInv' /\ DecisionOk
           /\ current \in Counts /\ current # 0
           /\ UNCHANGED <<status, asked, enabled, retained, passes>>
<1>1. /\ at = "account" /\ at' = "return" /\ up[selected] = current
      /\ Observe(t, up[selected])
      /\ UNCHANGED <<status, asked, enabled, retained, passes>>
    BY DEF Accept, Measured, mode
<1>2. /\ enabled /\ status = "ok" /\ selected = Target
      /\ (current # best => trialCount = current)
    BY <1>1 DEF IInv, FrameInv
<1>3. SearchInv' /\ DecisionOk
    BY <1>1, Observed DEF IInv
<1>4. current \in Counts /\ current # 0
    BY Sizes DEF IInv, SearchInv
<1> QED
    BY <1>1, <1>2, <1>3, <1>4

LEMMA AcceptKeepsPools ==
    ASSUME IInv, NEW t \in Times, Accept(t)
    PROVE  HoldInv' /\ PoolsAccounted'
<1>1. /\ bestPool # None /\ bestPool # trialPool /\ alive = {bestPool, trialPool} \ {None}
      /\ asked[bestPool] = best /\ (trialPool # None => asked[trialPool] = trialCount)
      /\ trialPool = None => trialCount = 0
      /\ trialCount \in Nat /\ asked \in [Pools -> Nat]
      /\ {bestPool, trialPool} \subseteq Pools \cup {None}
    BY Accounted DEF IInv, HoldInv, PoolsAccounted
<1>2. CASE best' # best
    <2>1. phase = "confirm" /\ phase' = "base" /\ best' = candidate
        BY <1>2, Accounted DEF DecisionOk
    <2>2. trialPool # None /\ trialCount = candidate
        BY <2>1, Accounted DEF IInv, PoolsAccounted
    <2>3. /\ bestPool' = trialPool /\ alive' = alive \ {bestPool}
          /\ trialPool' = None /\ trialCount' = 0
        BY <1>2 DEF Accept
    <2> QED
        BY <1>1, <2>1, <2>2, <2>3, Accounted DEF HoldInv, PoolsAccounted
<1>3. CASE best' = best /\ phase = "confirm" /\ phase' = "base"
    <2>1. ClearTrial /\ UNCHANGED bestPool
        BY <1>3 DEF Accept
    <2> QED
        BY <1>1, <1>3, <2>1, Accounted DEF HoldInv, PoolsAccounted, ClearTrial
<1>4. CASE best' = best /\ ~(phase = "confirm" /\ phase' = "base")
    <2>1. UNCHANGED <<bestPool, trialPool, trialCount, alive>>
        BY <1>4 DEF Accept
    <2>2. phase' = "confirm" => trialPool # None /\ trialCount = candidate'
        <3> SUFFICES ASSUME phase' = "confirm" PROVE trialPool # None /\ trialCount = candidate'
            OBVIOUS
        <3>1. phase \in {"trial", "confirm"} /\ candidate' = candidate
            BY Accounted DEF DecisionOk
        <3>2. CASE phase = "confirm"
            BY <3>1, <3>2, Accounted DEF IInv, PoolsAccounted
        <3>3. CASE phase = "trial"
            <4>1. current = candidate /\ candidate # best
                BY <3>3 DEF IInv, SearchInv
            <4> QED
                BY <1>1, <3>1, <4>1, Accounted
        <3> QED
            BY <3>1, <3>2, <3>3
    <2> QED
        BY <1>1, <1>4, <2>1, <2>2, Accounted DEF HoldInv, PoolsAccounted
<1> QED
    BY <1>2, <1>3, <1>4

\* The streak after a measured frame: it covers the frame, and all before it
\* unless the window had only begun.
LEMMA Streaks ==
    ASSUME IInv, NEW t \in Times, Accept(t)
    PROVE  /\ ran' = selected /\ streak' \in 0 .. StreakCap
           /\ Fresh \/ ran = selected
           /\ streak' >= 1
           /\ ran = selected => streak' = StreakCap \/ streak' = streak + 1
<1>1. /\ ran' = selected
      /\ streak' = IF ran # selected THEN 1 ELSE IF streak < StreakCap THEN streak + 1 ELSE streak
    BY DEF Accept, Measured
<1>2. streak \in 0 .. StreakCap /\ (~Fresh => ran = selected)
    BY Accounted DEF IInv, WindowInv
<1> QED
    BY <1>1, <1>2, Sizes

LEMMA AcceptKeepsWindow ==
    ASSUME IInv, NEW t \in Times, Accept(t)
    PROVE  WindowInv'
<1>1. /\ warmup \in 0 .. Warmup /\ samples \in Seq(Times) /\ Len(samples) < Samples
      /\ streak \in 0 .. StreakCap /\ streak >= (Warmup - warmup) + Len(samples)
      /\ warmup > 0 => samples = <<>>
      /\ Len(samples) \in Nat /\ (Fresh => warmup = Warmup /\ Len(samples) = 0)
    BY DEF IInv, WindowInv, Fresh
<1>2. CASE Ignore
    <2>1. /\ warmup > 0 /\ warmup' = warmup - 1
          /\ UNCHANGED <<samples, current, best, phase>>
        BY <1>2 DEF Ignore
    <2>2. UNCHANGED <<bestPool, trialPool, trialCount>>
        BY <2>1 DEF Accept
    <2>3. streak' >= (Warmup - warmup') + Len(samples)
        BY <1>1, <2>1, Streaks, Sizes
    <2>4. warmup' \in 0 .. Warmup
        BY <1>1, <2>1, Sizes
    <2> QED
        BY <1>1, <2>1, <2>2, <2>3, <2>4, Streaks, Accounted DEF WindowInv, Target
<1>3. CASE Gather(t)
    <2>1. /\ warmup = 0 /\ warmup' = 0 /\ samples' = Append(samples, t) /\ Len(samples') < Samples
          /\ UNCHANGED <<current, best, phase>>
        BY <1>3 DEF Gather
    <2>2. UNCHANGED <<bestPool, trialPool, trialCount>>
        BY <2>1 DEF Accept
    <2>3. samples' \in Seq(Times) /\ Len(samples') = Len(samples) + 1
        BY <1>1, <2>1
    <2>4. streak' >= (Warmup - warmup') + Len(samples')
        BY <1>1, <2>1, <2>3, Streaks, Sizes
    <2> QED
        BY <1>1, <2>1, <2>2, <2>3, <2>4, Streaks, Accounted DEF WindowInv, Target
<1>4. CASE Window(t, current)
    <2>1. /\ warmup = 0 /\ samples' = <<>>
          /\ warmup' = IF current' # current THEN Warmup ELSE 0
          /\ Decide(Append(samples, t), current)
        BY <1>4 DEF Window
    <2>2. samples' \in Seq(Times) /\ Len(samples') = 0
        BY <2>1
    <2>3. CASE current' # current
        BY <2>1, <2>2, <2>3, Streaks, Sizes DEF WindowInv, Fresh
    <2>4. CASE current' = current
        <3>1. current = best /\ best' = best /\ current' = best'
            BY <2>1, <2>4, Decided DEF IInv, DecisionOk
        <3>2. bestPool' = bestPool
            BY <3>1 DEF Accept
        <3>3. streak' >= Warmup
            BY <1>1, <2>1, Streaks, Sizes
        <3> QED
            BY <2>1, <2>2, <2>4, <3>1, <3>2, <3>3, Streaks, Accounted, Sizes DEF WindowInv, Target
    <2> QED
        BY <2>3, <2>4
<1> QED
    BY <1>2, <1>3, <1>4, Accounted DEF Observe

LEMMA AcceptKeeps == ASSUME IInv, NEW t \in Times, Accept(t) PROVE IInv'
<1>1. FrameInv'
    BY Accounted DEF IInv, FrameInv
<1> QED
    BY <1>1, Accounted, AcceptKeepsPools, AcceptKeepsWindow DEF IInv

-----------------------------------------------------------------------------
LEMMA Inductive == IInv /\ [Next]_vars => IInv'
<1> SUFFICES ASSUME IInv, [Next]_vars PROVE IInv'
    OBVIOUS
<1>1. CASE Begin \/ NotSharpened
    BY <1>1, BeginKeeps, NotSharpenedKeeps
<1>2. CASE SelectBest \/ SelectTrial \/ CreateTrial \/ CreateFails
    BY <1>2, SelectKeeps, CreateTrialKeeps, CreateFailsKeeps
<1>3. CASE Apply \/ Recover
    BY <1>3, ApplyKeeps, RecoverKeeps
<1>4. CASE GiveUp \/ \E t \in Times : Accept(t)
    BY <1>4, GiveUpKeeps, AcceptKeeps
<1>5. CASE Return
    BY <1>5, ReturnKeeps
<1>6. CASE Abandon
    BY <1>6, Disabling DEF Abandon
<1>7. CASE Off \/ UNCHANGED vars
    BY <1>7, NothingKeeps DEF Off
<1> QED
    BY <1>1, <1>2, <1>3, <1>4, <1>5, <1>6, <1>7 DEF Next

THEOREM Invariance == Spec => []IInv
BY Started, Inductive, PTL DEF Spec

\* PoolsAccounted for every limit and every set of pools.
THEOREM PoolsStayAccounted == Spec => []PoolsAccounted
<1>1. IInv => PoolsAccounted
    BY DEF IInv
<1> QED
    BY <1>1, Invariance, PTL

\* WindowPure for every window size and warm-up.
THEOREM WindowsStayPure == Spec => []WindowPure
<1>1. IInv => WindowPure
    <2> SUFFICES ASSUME IInv, samples # <<>> PROVE streak >= Warmup + Len(samples)
        BY DEF WindowPure
    <2>1. /\ warmup \in 0 .. Warmup /\ streak \in 0 .. StreakCap /\ Len(samples) \in Nat
          /\ streak >= (Warmup - warmup) + Len(samples)
        BY DEF IInv, WindowInv
    <2>2. warmup = 0
        BY <2>1, Sizes DEF IInv, WindowInv
    <2> QED
        BY <2>1, <2>2, Sizes
<1> QED
    BY <1>1, Invariance, PTL

\* SettledExhaustive for every limit.
THEOREM SettledIsExhaustive == Spec => []SettledExhaustive
<1>1. IInv => SettledExhaustive
    BY DEF IInv, SearchInv, SettledExhaustive
<1> QED
    BY <1>1, Invariance, PTL

-----------------------------------------------------------------------------
(* What a step may do. *)

\* AdoptedOnEvidence for every window size and set of frame times: only the
\* window that closes a confirmation moves the best count, and the counts the
\* compared scores stand for are the ones that ran.
THEOREM AdoptionOnEvidence == Spec => AdoptedOnEvidence
<1>1. ASSUME IInv, NEW t \in Times, Accept(t), best' # best
      PROVE  /\ base.by = best /\ trial.by = best' /\ up[selected] = best
             /\ Improves(trial, base)
             /\ Improves(trial, Score(Append(samples, t), best))
    <2>1. /\ phase = "confirm" /\ best' = candidate
          /\ Observe(t, current) /\ up[selected] = current
        BY <1>1, Accounted DEF DecisionOk
    <2>2. current = best /\ base.by = best /\ trial.by = candidate
        BY <1>1, <2>1 DEF IInv, SearchInv
    <2>3. Decide(Append(samples, t), current)
        BY <1>1, <2>1 DEF Observe, Ignore, Gather, Window
    <2>4. Confirm(Score(Append(samples, t), current), Left)
        BY <2>1, <2>3 DEF Decide, BeginTrial, Settle, EndTrial, Monitor
    <2>5. Improves(trial, base) /\ Improves(trial, Score(Append(samples, t), current))
        BY <1>1, <2>4 DEF Confirm
    <2> QED
        BY <2>1, <2>2, <2>5
<1>2. ASSUME [Next]_vars, best' # best
      PROVE  \E t \in Times : Accept(t)
    BY <1>2 DEF Next, vars, tunerVars, Begin, NotSharpened, SelectBest, SelectTrial, CreateTrial,
             CreateFails, Apply, ApplyOk, ApplyUnchanged, ApplyUncertain, Applied, Recover, GiveUp,
             Return, Disable, Abandon, Off
<1>3. IInv /\ [Next]_vars =>
        [best' # best =>
          /\ base.by = best /\ trial.by = best' /\ up[selected] = best
          /\ Improves(trial, base)
          /\ \E t \in Times : Improves(trial, Score(Append(samples, t), best))]_vars
    BY <1>1, <1>2
<1> QED
    BY <1>3, Invariance, PTL DEF Spec, AdoptedOnEvidence

-----------------------------------------------------------------------------
(* The refinement of the sharpening stage. *)

\* The stage as the filter sees it.
Service == IF bestPool = None THEN "off" ELSE "on"
Picture == IF at = "idle" THEN "none"
           ELSE IF passes = 0 THEN "raw"
           ELSE IF passes > 1 THEN "twice"
           ELSE IF status = "ok" THEN "sharp" ELSE "torn"
Answered == IF at = "return" THEN status ELSE "none"

\* The picture in hand is the one the status tells of, at every step of a frame.
Told ==
    /\ at = "idle" => Picture = "none"
    /\ at # "idle" => Service = "on"
    /\ at \in {"begun", "apply"} => Picture = "raw"
    /\ at \in {"recover", "account", "return"} =>
          \/ status = "unchanged" /\ Picture = "raw"
          \/ status = "ok"        /\ Picture = "sharp"
          \/ status = "uncertain" /\ Picture = "torn"
    /\ at = "recover" => status # "ok"
    /\ at = "account" => status = "ok"
    /\ Answered = IF at = "return" THEN status ELSE "none"

LEMMA Seen == IInv => Told
BY DEF IInv, FrameInv, HoldInv, Service, Picture, Answered, Told

LEMMA SeenNext == IInv' => Told'
BY Seen, PTL

\* The steps of the stage, on what the filter sees.
Taken    == Service = "on" /\ Picture = "none" /\ Picture' = "raw" /\ Answered' = Answered
Refused  == Picture = "raw" /\ Answered = "none" /\ Picture' = "none" /\ Answered' = Answered
Swept    == /\ Picture = "raw" /\ Answered = "none"
            /\ \/ Picture' = "sharp" /\ Answered' \in {"none", "ok"}
               \/ Picture' = "torn"  /\ Answered' \in {"none", "uncertain"}
Answers  == /\ Picture' = Picture /\ Answered = "none"
            /\ \/ Picture = "raw"   /\ Answered' = "unchanged"
               \/ Picture = "sharp" /\ Answered' = "ok"
               \/ Picture = "torn"  /\ Answered' = "uncertain"
Unseen   == Picture' = Picture /\ Answered' = Answered

\* Every step of a frame but its last leaves the stage in service.
LEMMA Frames ==
    ASSUME IInv, IInv', Begin \/ NotSharpened \/ SelectBest \/ SelectTrial \/ CreateTrial
                        \/ CreateFails \/ Apply \/ Recover \/ GiveUp \/ \E t \in Times : Accept(t)
    PROVE  Service' = Service /\ (Taken \/ Refused \/ Swept \/ Answers \/ Unseen)
<1>0. Told /\ Told'
    BY Seen, SeenNext
<1>1. CASE Begin
    <2>1. at = "idle" /\ at' = "begun" /\ bestPool # None /\ bestPool' = bestPool
        BY <1>1 DEF Begin, pools
    <2> QED
        BY <1>0, <2>1 DEF Told, Service, Taken
<1>2. CASE NotSharpened
    <2>1. at = "begun" /\ at' = "idle" /\ bestPool' = bestPool
        BY <1>2 DEF NotSharpened, pools
    <2> QED
        BY <1>0, <2>1 DEF Told, Service, Refused
<1>3. CASE SelectBest \/ SelectTrial \/ CreateTrial \/ CreateFails
    <2>1. at = "begun" /\ at' = "apply"
        BY <1>3 DEF SelectBest, SelectTrial, CreateTrial, CreateFails
    <2> QED
        BY <1>0, <2>1 DEF Told, Unseen
<1>4. CASE Apply
    <2>1. /\ at = "apply" /\ at' \in {"recover", "account", "return"}
        BY <1>4 DEF Apply, ApplyOk, ApplyUnchanged, ApplyUncertain, Applied
    <2> QED
        BY <1>0, <2>1 DEF Told, Swept, Answers, Unseen
<1>5. CASE Recover
    <2>1. /\ at = "recover" /\ status' = status
          /\ at' = IF status = "uncertain" THEN "return" ELSE "apply"
        BY <1>5 DEF Recover
    <2> QED
        BY <1>0, <2>1 DEF Told, Answers, Unseen
<1>6. CASE GiveUp \/ \E t \in Times : Accept(t)
    <2>1. at = "account" /\ at' = "return" /\ status' = status
        BY <1>6 DEF GiveUp, Accept
    <2> QED
        BY <1>0, <2>1 DEF Told, Answers
<1> QED
    BY <1>1, <1>2, <1>3, <1>4, <1>5, <1>6

\* The last step of a frame: a stage that did nothing is over.
LEMMA Returned ==
    ASSUME IInv, IInv', Return
    PROVE  /\ Answered \in {"ok", "unchanged", "uncertain"}
           /\ Picture' = "none" /\ Answered' = "none"
           /\ Service' \in (CASE Answered = "ok"        -> {Service}
                              [] Answered = "unchanged" -> {"off"}
                              [] Answered = "uncertain" -> {Service, "off"})
<1>1. /\ at = "return" /\ at' = "idle"
      /\ IF status # "ok" /\ ~retained THEN bestPool' = None ELSE bestPool' = bestPool
    BY DEF Return, Disable, pools
<1>2. /\ status \in {"ok", "unchanged", "uncertain"} /\ (status = "unchanged" => ~retained)
      /\ Answered = status /\ Answered' = "none" /\ Picture' = "none"
    BY <1>1, Seen, SeenNext DEF IInv, FrameInv, Told
<1> QED
    BY <1>1, <1>2 DEF Service

\* Between frames the stage is only ever switched off.
LEMMA Switched ==
    ASSUME IInv, IInv', Abandon \/ Off \/ UNCHANGED vars
    PROVE  /\ Unseen
           /\ Service' = Service \/ (Picture = "none" /\ Service' = "off")
<1>1. CASE Abandon
    <2>1. at = "idle" /\ at' = "idle" /\ bestPool' = None
        BY <1>1 DEF Abandon, Disable
    <2> QED
        BY <2>1, Seen, SeenNext DEF Told, Unseen, Service
<1>2. CASE Off \/ UNCHANGED vars
    BY <1>2 DEF Off, vars, pools, hist, Unseen, Service, Picture, Answered
<1> QED
    BY <1>1, <1>2

\* ImplementsSharpener for every limit, window and set of pools.
THEOREM SharpenerImplemented == Spec => ImplementsSharpener
<1>1. Init => Stage!Init
    BY AdaptiveAssumption DEF Init, Stage!Init
<1>2. IInv /\ IInv' /\ [Next]_vars => [Stage!Next]_(Stage!vars)
    <2> SUFFICES ASSUME IInv, IInv', [Next]_vars
                 PROVE  Stage!Next \/ UNCHANGED (Stage!vars)
        OBVIOUS
    <2>1. ASSUME Service' = Service, Taken PROVE Stage!Take
        BY <2>1 DEF Taken, Service, Picture, Answered, Stage!Take
    <2>2. ASSUME Service' = Service, Refused PROVE Stage!Refuse
        BY <2>2 DEF Refused, Service, Picture, Answered, Stage!Refuse
    <2>3. ASSUME Service' = Service, Swept PROVE Stage!Sweep
        BY <2>3 DEF Swept, Service, Picture, Answered, Stage!Sweep, Stage!Verdict
    <2>4. ASSUME Service' = Service, Answers PROVE Stage!Answer
        BY <2>4 DEF Answers, Service, Picture, Answered, Stage!Answer, Stage!Verdict
    <2>5. ASSUME Service' = Service, Unseen PROVE UNCHANGED (Stage!vars)
        BY <2>5 DEF Unseen, Service, Picture, Answered, Stage!vars
    <2>6. ASSUME Return PROVE Stage!Give
        BY <2>6, Returned DEF Service, Picture, Answered, Stage!Give
    <2>7. ASSUME Unseen, Picture = "none", Service' = "off" PROVE Stage!SwitchOff
        BY <2>7 DEF Unseen, Service, Picture, Answered, Stage!SwitchOff
    <2> QED
        BY <2>1, <2>2, <2>3, <2>4, <2>5, <2>6, <2>7, Frames, Switched DEF Next, Stage!Next
<1> QED
    BY <1>1, <1>2, Invariance, PTL DEF Spec, ImplementsSharpener, Stage!Spec

-----------------------------------------------------------------------------
(* Searches run out of frames, and so does the rest between two of them.    *)

\* The windows a search still needs, the open one included: three for each rung
\* that the cursor may still reach, and the one that finds the ladder exhausted.
WindowsLeft ==
    3 * (Limit - cursor) + (IF phase = "base" THEN 1 ELSE IF phase = "trial" THEN 3 ELSE 2)

\* The frames that the open window still needs, and the most any window needs.
WindowLeft == warmup + (Samples - Len(samples))
WindowMost == Warmup + Samples

\* The most measured frames that an open search may still take.
FramesToSettle == IF phase = "settled" THEN 0 ELSE (WindowsLeft - 1) * WindowMost + WindowLeft

\* A settled search counts frames down, and looks at the count as windows close.
RestLeft == remaining * (Samples + 1) + WindowLeft

\* The frames counted down, and a confirmation has a rung behind it.
RestInv == remaining \in 0 .. Recheck /\ (phase = "confirm" => cursor # 0)

\* One step of the driver in an open search, and between two searches.
SearchRunsDown ==
    phase # "settled" => /\ FramesToSettle' <= FramesToSettle
                         /\ (\E t \in Times : Accept(t)) => FramesToSettle' < FramesToSettle

RestRunsDown ==
    phase = "settled" => \/ phase' = "base"
                         \/ /\ phase' = "settled" /\ RestLeft' <= RestLeft
                            /\ (\E t \in Times : Accept(t)) => RestLeft' < RestLeft

\* How a product moves with a factor; the provers need it in so many words.
LEMMA Products ==
    ASSUME NEW k \in Nat, NEW a \in Int, NEW b \in Int
    PROVE  /\ a * k \in Int
           /\ a <= b => a * k <= b * k
           /\ a < b => a * k + k <= b * k
           /\ 0 <= a => 0 <= a * k
<1>1. ASSUME a <= b PROVE a * k <= b * k
    <2>1. b - a \in Nat /\ (b - a) * k >= 0
        BY <1>1
    <2> QED
        BY <2>1
<1>2. ASSUME a < b PROVE a * k + k <= b * k
    <2>1. b - a - 1 \in Nat /\ (b - a - 1) * k >= 0
        BY <1>2
    <2> QED
        BY <2>1
<1> QED
    BY <1>1, <1>2

\* The same for the frames of a rest.
LEMMA RestProducts ==
    ASSUME NEW a \in Int, NEW b \in Int
    PROVE  /\ a <= b => a * (Samples + 1) <= b * (Samples + 1)
           /\ a < b => a * (Samples + 1) + (Samples + 1) <= b * (Samples + 1)
<1> DEFINE k == Samples + 1
<1>1. k \in Nat
    BY Sizes
<1> HIDE DEF k
<1>2. /\ a <= b => a * k <= b * k
      /\ a < b => a * k + k <= b * k
    BY <1>1, Products
<1> QED
    BY <1>2 DEF k

\* The ranges of the measures, before and after a step.
LEMMA Measures ==
    ASSUME IInv, RestInv
    PROVE  /\ WindowLeft \in 1 .. WindowMost /\ WindowMost \in Nat
           /\ phase # "settled" => WindowsLeft \in 1 .. 3 * Limit + 1
<1>1. /\ warmup \in 0 .. Warmup /\ Len(samples) \in Nat /\ Len(samples) < Samples
      /\ warmup > 0 => Len(samples) = 0
    BY DEF IInv, WindowInv
<1>2. /\ phase \in {"base", "trial", "confirm", "settled"} /\ cursor \in 0 .. Limit
      /\ phase \in {"trial", "confirm"} => cursor # 0
    BY DEF IInv, SearchInv, RestInv
<1>3. WindowLeft \in 1 .. WindowMost /\ WindowMost \in Nat
    BY <1>1, Sizes DEF WindowLeft, WindowMost
<1>4. phase # "settled" => WindowsLeft \in 1 .. 3 * Limit + 1
    BY <1>2, Sizes DEF WindowsLeft
<1> QED
    BY <1>3, <1>4

LEMMA MeasuresNext ==
    ASSUME IInv', RestInv'
    PROVE  /\ WindowLeft' \in 1 .. WindowMost /\ WindowMost' = WindowMost
           /\ phase' # "settled" => WindowsLeft' \in 1 .. 3 * Limit + 1
<1>1. /\ warmup' \in 0 .. Warmup /\ Len(samples') \in Nat /\ Len(samples') < Samples
      /\ warmup' > 0 => Len(samples') = 0
    BY DEF IInv, WindowInv
<1>2. /\ phase' \in {"base", "trial", "confirm", "settled"} /\ cursor' \in 0 .. Limit
      /\ phase' \in {"trial", "confirm"} => cursor' # 0
    BY DEF IInv, SearchInv, RestInv
<1>3. WindowLeft' \in 1 .. WindowMost /\ WindowMost' = WindowMost
    BY <1>1, Sizes DEF WindowLeft, WindowMost
<1>4. phase' # "settled" => WindowsLeft' \in 1 .. 3 * Limit + 1
    <2> DEFINE left == WindowsLeft
    <2>1. /\ phase' = "base" => left' = 3 * (Limit - cursor') + 1
          /\ phase' = "trial" => left' = 3 * (Limit - cursor') + 3
          /\ phase' = "confirm" => left' = 3 * (Limit - cursor') + 2
        BY DEF WindowsLeft
    <2> HIDE DEF left
    <2>2. phase' # "settled" => left' \in 1 .. 3 * Limit + 1
        BY <1>2, <2>1, Sizes
    <2> QED
        BY <2>2 DEF left
<1> QED
    BY <1>3, <1>4

\* A closed window is one less, unless the search settles or opens again.
LEMMA WindowCloses ==
    ASSUME IInv, RestInv, NEW t, Window(t, current)
    PROVE  /\ RestInv'
           /\ samples' = <<>> /\ (phase = "settled" => warmup' = 0)
           /\ phase \notin {"settled"} /\ phase' # "settled" => WindowsLeft' < WindowsLeft
           /\ phase = "settled" /\ phase' # "base" => phase' = "settled" /\ remaining > 1 /\ remaining' = remaining - 1
<1> DEFINE s == Append(samples, t)
           score == Score(s, current)
<1>0. /\ Decide(s, current) /\ samples' = <<>> /\ warmup = 0
      /\ warmup' = IF current' # current THEN Warmup ELSE 0
    BY DEF Window
<1> HIDE DEF s
<1> HIDE DEF score
<1>1. /\ phase \in {"base", "trial", "confirm", "settled"} /\ cursor \in 0 .. Limit
      /\ remaining \in 0 .. Recheck /\ Recheck \in Nat /\ Left \in 0 .. Recheck
      /\ phase = "confirm" => cursor # 0
      /\ phase = "trial" => cursor # 0
    BY TunerAssumption DEF IInv, SearchInv, RestInv, Left
<1>2. CASE BeginTrial(score, Left)
    <2>1. NextCandidate > cursor /\ NextCandidate <= Limit /\ NextCandidate \in Nat
        <3>1. /\ NextCandidate # 0 /\ best \in Nat /\ cursor \in Nat
            BY <1>2, Sizes DEF BeginTrial, IInv, SearchInv
        <3>2. \A n \in Nat : /\ NextCount(n) = 0 \/ (NextCount(n) > n /\ NextCount(n) \in 1 .. Limit)
            BY NextRung, Sizes
        <3>3. CASE NextCount(cursor) = best
            <4>1. best > cursor /\ NextCandidate = NextCount(best)
                BY <3>1, <3>2, <3>3, <1>2, Sizes DEF NextCandidate, IInv, SearchInv
            <4>2. NextCandidate > best /\ NextCandidate \in 1 .. Limit
                BY <3>1, <3>2, <4>1
            <4> QED
                BY <3>1, <4>1, <4>2, Sizes
        <3>4. CASE NextCount(cursor) # best
            BY <3>1, <3>2, <3>4, Sizes DEF NextCandidate
        <3> QED
            BY <3>3, <3>4
    <2>2. phase = "base" /\ phase' = "trial" /\ cursor' = NextCandidate /\ remaining' = Left
        BY <1>2 DEF BeginTrial
    <2> QED
        BY <1>0, <1>1, <2>1, <2>2, Sizes DEF WindowsLeft, RestInv
<1>3. CASE Settle(score)
    <2>1. phase = "base" /\ phase' = "settled" /\ remaining' = Recheck
        BY <1>3 DEF Settle
    <2> QED
        BY <1>0, <1>1, <2>1 DEF RestInv
<1>4. CASE EndTrial(score, Left)
    <2>1. phase = "trial" /\ phase' = "confirm" /\ cursor' = cursor /\ remaining' = Left
        BY <1>4 DEF EndTrial
    <2> QED
        BY <1>0, <1>1, <2>1, Sizes DEF WindowsLeft, RestInv
<1>5. CASE Confirm(score, Left)
    <2>1. phase = "confirm" /\ phase' = "base" /\ cursor' = cursor /\ remaining' = Left
        BY <1>5 DEF Confirm
    <2> QED
        BY <1>0, <1>1, <2>1, Sizes DEF WindowsLeft, RestInv
<1>6. CASE Monitor(score, Left)
    <2>1. /\ phase = "settled" /\ remaining' = Left /\ current' = current
          /\ \/ phase' = "base"
             \/ phase' = "settled" /\ (Cooling(Left) \/ Left > 0)
        BY <1>6 DEF Monitor
    <2>2. Cooling(Left) => Left > 0
        BY <1>1, TunerAssumption DEF Cooling
    <2>3. Left > 0 => remaining > 1 /\ Left = remaining - 1
        BY <1>1 DEF Left
    <2> QED
        BY <1>0, <1>1, <2>1, <2>2, <2>3 DEF RestInv
<1> QED
    BY <1>0, <1>2, <1>3, <1>4, <1>5, <1>6 DEF Decide, score

\* A measured frame is one less of whatever is under way.
LEMMA FrameTaken ==
    ASSUME IInv, RestInv, IInv', NEW t, Observe(t, current)
    PROVE  /\ RestInv'
           /\ phase # "settled" => FramesToSettle' < FramesToSettle
           /\ phase = "settled" => phase' = "base" \/ (phase' = "settled" /\ RestLeft' < RestLeft)
<1>1. /\ WindowLeft \in 1 .. WindowMost /\ WindowMost \in Nat
      /\ phase # "settled" => WindowsLeft \in 1 .. 3 * Limit + 1
    BY Measures
<1>2. /\ warmup \in 0 .. Warmup /\ Len(samples) \in Nat /\ Len(samples) < Samples
      /\ samples \in Seq(Times) /\ remaining \in 0 .. Recheck /\ Recheck \in Nat
    BY TunerAssumption DEF IInv, WindowInv, RestInv
<1>3. /\ phase # "settled" => (WindowsLeft - 1) * WindowMost \in Nat
      /\ remaining * (Samples + 1) \in Nat
    BY <1>1, <1>2, Products, Sizes
<1>4. CASE Ignore
    <2>1. UNCHANGED <<phase, cursor, remaining, samples>> /\ warmup' = warmup - 1
        BY <1>4 DEF Ignore
    <2>2. WindowLeft' = WindowLeft - 1 /\ WindowsLeft' = WindowsLeft /\ WindowMost' = WindowMost
        BY <1>2, <2>1, Sizes DEF WindowLeft, WindowsLeft, WindowMost
    <2> QED
        BY <1>1, <1>3, <2>1, <2>2 DEF FramesToSettle, RestLeft, RestInv
<1>5. CASE Gather(t)
    <2>1. /\ UNCHANGED <<phase, cursor, warmup>>
          /\ samples' = Append(samples, t) /\ remaining' = Left
        BY <1>5 DEF Gather
    <2>2. Len(samples') = Len(samples) + 1
        BY <1>2, <2>1
    <2>3. WindowLeft' = WindowLeft - 1 /\ WindowsLeft' = WindowsLeft /\ WindowMost' = WindowMost
        BY <1>2, <2>1, <2>2, Sizes DEF WindowLeft, WindowsLeft, WindowMost
    <2>4. remaining' \in 0 .. Recheck /\ remaining' <= remaining
        BY <1>2, <2>1 DEF Left
    <2>5. remaining' * (Samples + 1) <= remaining * (Samples + 1)
        BY <1>2, <2>4, RestProducts
    <2> QED
        BY <1>1, <1>3, <2>1, <2>3, <2>4, <2>5, Products, Sizes DEF FramesToSettle, RestLeft, RestInv
<1>6. CASE Window(t, current)
    <2>0. RestInv'
        BY <1>6, WindowCloses
    <2>1. /\ WindowLeft' \in 1 .. WindowMost /\ WindowMost' = WindowMost
          /\ phase' # "settled" => WindowsLeft' \in 1 .. 3 * Limit + 1
        BY <2>0, MeasuresNext
    <2>2. CASE phase # "settled" /\ phase' # "settled"
        <3>1. WindowsLeft' < WindowsLeft
            BY <1>6, <2>2, WindowCloses
        <3>2. (WindowsLeft' - 1) * WindowMost + WindowMost <= (WindowsLeft - 1) * WindowMost
            <4> DEFINE a == WindowsLeft' - 1
                       b == WindowsLeft - 1
            <4>1. a \in Int /\ b \in Int /\ a < b
                BY <1>1, <2>1, <2>2, <3>1
            <4> HIDE DEF a, b
            <4>2. a * WindowMost + WindowMost <= b * WindowMost
                BY <1>1, <4>1, Products
            <4> QED
                BY <4>2 DEF a, b
        <3>3. (WindowsLeft' - 1) * WindowMost \in Int
            BY <1>1, <2>1, <2>2, Products
        <3> QED
            BY <1>1, <1>3, <2>0, <2>1, <2>2, <3>2, <3>3 DEF FramesToSettle
    <2>3. CASE phase # "settled" /\ phase' = "settled"
        BY <1>1, <1>3, <2>0, <2>3 DEF FramesToSettle
    <2>4. CASE phase = "settled" /\ phase' # "base"
        <3>1. /\ phase' = "settled" /\ remaining > 1 /\ remaining' = remaining - 1
              /\ samples' = <<>> /\ warmup' = 0
            BY <1>6, <2>4, WindowCloses
        <3>2. remaining' * (Samples + 1) + (Samples + 1) <= remaining * (Samples + 1)
            <4>1. remaining' \in Int /\ remaining \in Int /\ remaining' < remaining
                BY <1>2, <3>1
            <4> QED
                BY <4>1, RestProducts
        <3>3. WindowLeft' = Samples
            BY <3>1, Sizes DEF WindowLeft
        <3>4. remaining' * (Samples + 1) \in Int
            BY <1>2, <3>1, Products, Sizes
        <3> QED
            BY <1>1, <1>3, <2>0, <2>4, <3>1, <3>2, <3>3, <3>4, Sizes DEF RestLeft
    <2>5. CASE phase = "settled" /\ phase' = "base"
        BY <2>0, <2>5
    <2> QED
        BY <2>2, <2>3, <2>4, <2>5
<1> QED
    BY <1>4, <1>5, <1>6 DEF Observe

LEMMA Integral ==
    /\ IInv /\ RestInv => FramesToSettle \in Int /\ RestLeft \in Int
    /\ IInv' /\ RestInv' => FramesToSettle' \in Int /\ RestLeft' \in Int
<1>1. ASSUME IInv, RestInv PROVE FramesToSettle \in Int /\ RestLeft \in Int
    <2>1. /\ WindowLeft \in Int /\ WindowMost \in Nat /\ remaining \in Int /\ Samples + 1 \in Nat
          /\ phase # "settled" => WindowsLeft - 1 \in Int
        BY <1>1, Measures, Sizes DEF RestInv
    <2>2. remaining * (Samples + 1) \in Int /\ (phase # "settled" => (WindowsLeft - 1) * WindowMost \in Int)
        BY <2>1, Products
    <2> QED
        BY <2>1, <2>2 DEF FramesToSettle, RestLeft
<1>2. ASSUME IInv', RestInv' PROVE FramesToSettle' \in Int /\ RestLeft' \in Int
    <2>1. /\ WindowLeft' \in Int /\ WindowMost' \in Nat /\ remaining' \in Int /\ Samples + 1 \in Nat
          /\ phase' # "settled" => WindowsLeft' - 1 \in Int
        BY <1>2, MeasuresNext, Sizes DEF RestInv, WindowMost
    <2>2. remaining' * (Samples + 1) \in Int /\ (phase' # "settled" => (WindowsLeft' - 1) * WindowMost' \in Int)
        BY <2>1, Products
    <2> QED
        BY <2>1, <2>2 DEF FramesToSettle, RestLeft
<1> QED
    BY <1>1, <1>2

LEMMA RunsDown ==
    ASSUME IInv, RestInv, [Next]_vars
    PROVE  RestInv' /\ SearchRunsDown /\ RestRunsDown
<1>0. IInv'
    BY Inductive
<1>1. CASE \E t \in Times : Accept(t)
    <2>1. PICK t \in Times : Accept(t)
        BY <1>1
    <2>2. Observe(t, current)
        BY <2>1, Accounted
    <2>3. /\ RestInv'
          /\ phase # "settled" => FramesToSettle' < FramesToSettle
          /\ phase = "settled" => phase' = "base" \/ (phase' = "settled" /\ RestLeft' < RestLeft)
        BY <1>0, <2>2, FrameTaken
    <2>4. FramesToSettle \in Int /\ FramesToSettle' \in Int /\ RestLeft \in Int /\ RestLeft' \in Int
        BY <1>0, <2>3, Integral
    <2> QED
        BY <2>3, <2>4 DEF SearchRunsDown, RestRunsDown
<1>2. CASE ~ \E t \in Times : Accept(t)
    <2>1. UNCHANGED tunerVars
        BY <1>2 DEF Next, vars, Begin, NotSharpened, SelectBest, SelectTrial, CreateTrial,
                    CreateFails, Apply, ApplyOk, ApplyUnchanged, ApplyUncertain, Applied,
                    Recover, GiveUp, Return, Disable, Abandon, Off
    <2>2. /\ UNCHANGED <<phase, cursor, samples, warmup, remaining>>
        BY <2>1 DEF tunerVars
    <2>3. /\ FramesToSettle' = FramesToSettle /\ RestLeft' = RestLeft
        BY <2>2 DEF FramesToSettle, RestLeft, WindowsLeft, WindowLeft, WindowMost
    <2>4. FramesToSettle \in Int /\ RestLeft \in Int
        BY Integral
    <2> QED
        BY <1>2, <2>2, <2>3, <2>4 DEF RestInv, SearchRunsDown, RestRunsDown
<1> QED
    BY <1>1, <1>2

LEMMA RestStarts == Init => RestInv
BY TunerAssumption DEF Init, TunerInit, RestInv

\* Both at once: the steps are the same.
LEMMA RunsDownAlways == Spec => []RestInv /\ [][SearchRunsDown /\ RestRunsDown]_vars
<1>1. ASSUME IInv, RestInv, [Next]_vars PROVE RestInv' /\ [SearchRunsDown /\ RestRunsDown]_vars
    BY <1>1, RunsDown
<1> QED
    BY <1>1, RestStarts, Invariance, PTL DEF Spec

\* The measure behind SearchEnds, for every limit, window and warm-up: an open
\* search may take at most three windows for each count up to the limit and one
\* more; whatever the frame times, failures and skipped frames, no step adds to
\* the frames that it may still take and each measured frame takes one.
THEOREM SearchesRunOut ==
    Spec => /\ [](FramesToSettle \in 0 .. (3 * Limit + 1) * WindowMost)
            /\ [][SearchRunsDown]_vars
<1>1. ASSUME IInv, RestInv PROVE FramesToSettle \in 0 .. (3 * Limit + 1) * WindowMost
    <2>1. /\ WindowLeft \in 1 .. WindowMost /\ WindowMost \in Nat
          /\ phase # "settled" => WindowsLeft \in 1 .. 3 * Limit + 1
        BY <1>1, Measures
    <2>2. CASE phase = "settled"
        <3>1. (3 * Limit + 1) * WindowMost \in Nat
            BY <2>1, Products, Sizes
        <3> QED
            BY <2>2, <3>1 DEF FramesToSettle
    <2>3. CASE phase # "settled"
        <3> DEFINE a == WindowsLeft - 1
                   b == 3 * Limit + 1
        <3>1. a \in Int /\ b \in Int /\ 0 <= a /\ a < b
            BY <2>1, <2>3, Sizes
        <3>2. FramesToSettle = a * WindowMost + WindowLeft
            BY <2>3 DEF FramesToSettle
        <3> HIDE DEF a, b
        <3>3. /\ a * WindowMost \in Int /\ 0 <= a * WindowMost /\ b * WindowMost \in Int
              /\ a * WindowMost + WindowMost <= b * WindowMost
            BY <2>1, <3>1, Products
        <3>4. FramesToSettle \in 0 .. b * WindowMost
            BY <2>1, <3>2, <3>3
        <3> QED
            BY <3>4 DEF b
    <2> QED
        BY <2>2, <2>3
<1>2. [SearchRunsDown /\ RestRunsDown]_vars => [SearchRunsDown]_vars
    OBVIOUS
<1> QED
    BY <1>1, <1>2, RunsDownAlways, Invariance, PTL

\* The measure behind SearchReopens, for every limit, window and recheck: a
\* settled search that is not opened again keeps running down, frame by frame,
\* whether or not anything drifts.
THEOREM RestsRunOut == Spec => [](RestLeft \in Nat) /\ [][RestRunsDown]_vars
<1>1. ASSUME IInv, RestInv PROVE RestLeft \in Nat
    <2>1. WindowLeft \in Nat /\ remaining \in Nat /\ Samples + 1 \in Nat
        BY <1>1, Measures, Sizes, TunerAssumption DEF RestInv
    <2>2. remaining * (Samples + 1) \in Nat
        BY <2>1, Products
    <2> QED
        BY <2>1, <2>2 DEF RestLeft
<1>2. [SearchRunsDown /\ RestRunsDown]_vars => [RestRunsDown]_vars
    OBVIOUS
<1> QED
    BY <1>1, <1>2, RunsDownAlways, Invariance, PTL
=============================================================================
