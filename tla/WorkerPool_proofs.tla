-------------------------- MODULE WorkerPool_proofs --------------------------
(***************************************************************************)
(* Proofs about WorkerPool: for every number of workers, of dispatches, of *)
(* failing pthread calls and with or without timeouts, IInv is inductive,  *)
(* and from it follow the types, the exactness of the completion barrier,  *)
(* the safety of the storage, that the pool implements ForkJoin, and that  *)
(* nobody waits in vain.                                                   *)
(*                                                                         *)
(* One lemma per part of IInv, one step per action; actions that a part    *)
(* cannot see are taken together.                                          *)
(***************************************************************************)
EXTENDS WorkerPool, TLAPS, FiniteSetTheorems

\* The intervals the slots and the team are.
LEMMA Intervals ==
  /\ 1 .. 0 = {}
  /\ \A n \in Nat : (1 .. n) \cup {n + 1} = 1 .. (n + 1)
OBVIOUS

\* A wait that ends well finds pending = 0, so nobody owes: every member of the
\* team has run this generation and none still runs.
LEMMA Drained ==
  ASSUME IInv, WaitEnd, mpc' = "dispatched"
  PROVE  /\ Quiet
         /\ \A w \in 1 .. nWorkers : ran[w] = generation
<1>1. pending = 0 /\ ~freed
  BY DEF WaitEnd, CallerMoves, IInv, SlotsInv
<1>2. Owing = {}
  <2>1. IsFiniteSet(1 .. nWorkers)
    BY FS_Interval DEF IInv, TypeOK, GateTypeOK, PlacesOK, PoolTypeOK, Workers
  <2>2. IsFiniteSet(Owing)
    BY <2>1, FS_Subset DEF Owing
  <2> QED
    BY <1>1, <2>2, FS_EmptySet DEF IInv, PendingCountsOwing
<1>3. ~Inline
  BY DEF IInv, ControlInv, Armed, WaitEnd, CallerMoves
<1>4. 1 .. nWorkers \subseteq Workers
  BY GateAssumption DEF IInv, TypeOK, GateTypeOK, PlacesOK, PoolTypeOK, Workers
<1>5. \A w \in 1 .. nWorkers : ran[w] = generation /\ wpc[w] # "finish"
  BY <1>2, <1>3, <1>4 DEF Owing, IInv, TypeOK, GateTypeOK, PlacesOK, PoolTypeOK, ThreadsInv
<1>6. \A w \in Workers : Alive(w) => w \in 1 .. nWorkers
  BY DEF WaitEnd, CallerMoves, IInv, ThreadsInv, SlotsInv
<1> QED
  BY <1>3, <1>5, <1>6 DEF Quiet, IInv, TypeOK, GateTypeOK, PlacesOK, PoolTypeOK, ThreadsInv

\* What a worker can do to the caller: wake it.
LEMMA WorkerFrame ==
  ASSUME NEW w \in Workers, GateWorker(w)
  PROVE  /\ UNCHANGED generation
         /\ mpc' = mpc \/ (mpc = "waiting" /\ mpc' = "waitWoken")
<1> USE DEF CallerSignalled
<1>1. CASE WorkerBoot(w) \/ WorkerRefused(w) \/ WorkerEnter(w) \/ WorkerPark(w) \/
             WorkerWakesSpuriously(w)
  BY <1>1 DEF WorkerBoot, WorkerMoves, WorkerRefused, Report, Fault, WorkerEnter,
       WorkerPark, WorkerWakesSpuriously
<1>2. CASE WorkerWaitFails(w) \/ WorkerGo(w) \/ WorkerLeave(w) \/
             WorkerUnlockFails(w) \/ WorkerCancelled(w) \/ WorkerDone(w)
  BY <1>2 DEF WorkerWaitFails, Report, Fault, WorkerGo, WorkerMoves, WorkerLeave,
       WorkerUnlockFails, WorkerCancelled, WorkerDone
<1>3. CASE NotifyLock(w) \/ NotifyLockFails(w) \/ NotifySignal(w) \/
             NotifySignalFails(w)
  BY <1>3 DEF NotifyLock, NotifyLockFails, AfterNotify, Fault, NotifySignal,
       CallerSignalled, NotifySignalFails
<1> QED
  BY <1>1, <1>2, <1>3 DEF GateWorker

\* The gate never takes the caller into or out of a start or a destroyed pool.
LEMMA CallerFrame ==
  ASSUME GateCaller
  PROVE  /\ mpc \notin {"construct", "closed"} /\ mpc' \notin {"construct", "closed"}
         /\ Stopping' <=> Stopping
<1> USE DEF CallerMoves, UnlockBroadcast, UnlockBroadcastFails, Stopping
<1>1. CASE GateArm(nWorkers) \/ GateLockFails \/ GateOpen \/ GateOpenFails
  BY <1>1 DEF GateArm, CallerMoves, GateLockFails, Fault, GateOpen, UnlockBroadcast, Woken,
       GateOpenFails, UnlockBroadcastFails
<1>2. CASE WaitCheck \/ WaitFails \/ WaitLock \/ WaitTest \/ WaitSleep
  BY <1>2 DEF WaitCheck, CallerMoves, WaitFails, Fault, WaitLock, WaitTest, WaitSleep
<1>3. CASE WaitInterrupted \/ WaitTimeout \/ WaitLate \/ WaitEnd
  BY <1>3 DEF WaitInterrupted, CallerMoves, Fault, WaitTimeout, WaitLate, WaitEnd
<1>4. CASE ExitLock \/ ExitLockFails \/ ExitOpen \/ ExitOpenFails
  BY <1>4 DEF ExitLock, CallerMoves, ExitLockFails, Fault, ExitOpen, UnlockBroadcast,
       Woken, ExitOpenFails, UnlockBroadcastFails
<1> QED
  BY <1>1, <1>2, <1>3, <1>4 DEF GateCaller

\* A worker about to count itself is one of those that pending counts.
LEMMA Counting ==
  ASSUME IInv, NEW w \in Workers, wpc[w] = "finish"
  PROVE  /\ ~freed /\ ~Inline
         /\ w \in Owing
         /\ pending > 0
         /\ Cardinality(Owing \ {w}) = pending - 1
<1>1. Alive(w) /\ mpc # "construct"
  BY DEF Alive, IInv, QuietInv, Quiet, Armed, Stopping
<1>2. w \in 1 .. nWorkers /\ ~freed /\ ~Inline
  BY <1>1, Intervals DEF IInv, ThreadsInv, SlotsInv
<1>3. w \in Owing
  BY <1>2 DEF Owing
<1>4. IsFiniteSet(Owing)
  <2>1. IsFiniteSet(1 .. nWorkers)
    BY FS_Interval DEF IInv, TypeOK, GateTypeOK, PlacesOK, PoolTypeOK, Workers
  <2> QED
    BY <2>1, FS_Subset DEF Owing
<1>5. Cardinality(Owing) \in Nat /\ Cardinality(Owing) # 0
  BY <1>3, <1>4, FS_CardinalityType, FS_EmptySet
<1>6. Cardinality(Owing \ {w}) = Cardinality(Owing) - 1
  BY <1>3, <1>4, FS_RemoveElement
<1>7. pending = Cardinality(Owing)
  BY <1>2 DEF IInv, PendingCountsOwing
<1> QED
  BY <1>2, <1>3, <1>5, <1>6, <1>7

\* Before the first dispatch nobody owes, whatever the team is.
LEMMA NothingOwed ==
  ASSUME IInv, generation = 0, ~Armed, ~(Stopping /\ stopFor = "poison"),
         UNCHANGED <<ran, wpc, generation>>, nPref' = nPref, nWorkers' \in 0 .. nPref
  PROVE  Owing = {} /\ Owing' = {}
<1>1. \A w \in Workers : ~(ran[w] < generation) /\ wpc[w] # "finish"
  BY DEF IInv, TypeOK, GateTypeOK, PlacesOK, PoolTypeOK, QuietInv, Quiet, Alive
<1>2. (1 .. nWorkers) \cup (1 .. nWorkers') \subseteq Workers
  BY GateAssumption DEF IInv, TypeOK, GateTypeOK, PlacesOK, PoolTypeOK, Workers
<1> QED
  BY <1>1, <1>2 DEF Owing

\* A step that touches neither callbacks nor the barrier keeps the count.
LEMMA SameOwing ==
  ASSUME IInv, UNCHANGED <<pending, generation, nWorkers, freed, ran>>,
         \A w \in Workers : wpc'[w] = "finish" <=> wpc[w] = "finish"
  PROVE  PendingCountsOwing'
<1>1. 1 .. nWorkers \subseteq Workers
  BY GateAssumption DEF IInv, TypeOK, GateTypeOK, PlacesOK, PoolTypeOK, Workers
<1>2. Owing' = Owing
  BY <1>1 DEF Owing
<1> QED
  BY <1>2 DEF IInv, PendingCountsOwing

\* What ForkJoin does not see.
LEMMA Stutter ==
  ASSUME UNCHANGED <<calls, ran, result>>, Call' = Call, Team' = Team, Running' = Running
  PROVE  UNCHANGED FJ!vars
BY DEF FJ!vars

\* Slots and thread records follow the team through start, retire and destroy.
LEMMA SlotsStep ==
  ASSUME IInv, [Next]_vars
  PROVE  SlotsInv'
<1> USE GateAssumption DEF IInv, SlotsInv, TypeOK, GateTypeOK, PlacesOK, PoolTypeOK,
        Workers, Inline, Stopping
<1>1. ASSUME NEW w \in Workers, GateWorker(w), UNCHANGED poolVars
      PROVE  SlotsInv'
  BY <1>1, WorkerFrame DEF poolVars
<1>2. ASSUME NEW w \in Workers, CallbackEnd(w)
      PROVE  SlotsInv'
  BY <1>2 DEF CallbackEnd, WorkerMoves, GateRest
<1>3. CASE GateCaller /\ UNCHANGED poolVars
  BY <1>3, CallerFrame DEF poolVars
<1>4. CASE PoolCaller
  <2>1. CASE Begin
    BY <2>1 DEF Begin, EntryPoint, GateRest
  <2>2. CASE Setup
    BY <2>2, Intervals DEF Setup, CallerMoves, GateRest, ControlInv
  <2>3. CASE SetupFails
    BY <2>3 DEF SetupFails, Returns, Fault, GateRest
  <2>4. CASE Construct
    <3>1. slots' = 1 .. next
      BY <2>4, Intervals DEF Construct, ControlInv
    <3>2. slots' = 1 .. (next' - 1) /\ mpc' = "construct"
      BY <2>4, <3>1 DEF Construct
    <3>3. started' \subseteq slots'
      BY <2>4 DEF Construct
    <3> QED
      BY <2>4, <3>2, <3>3 DEF Construct, GateRest, ControlInv
  <2>5. CASE Built
    BY <2>5 DEF Built, BuildOk, MayFault, Fault, EntryPoint, GateRest, ControlInv
  <2>6. CASE InlineStart
    BY <2>6 DEF InlineStart, CallerMoves, poolVars, GateRest
  <2>7. CASE InlineEnd
    BY <2>7 DEF InlineEnd, CallerMoves, GateRest
  <2>8. CASE DispatchOk
    BY <2>8 DEF DispatchOk, Returns, GateRest
  <2>9. CASE Poison
    BY <2>9 DEF Poison, GateRest
  <2>10. CASE Cancel
    BY <2>10 DEF Cancel, CallerMoves, GateRest
  <2>11. CASE Join
    BY <2>11 DEF Join, GateRest
  <2>12. CASE JoinFails
    BY <2>12 DEF JoinFails, Fault, GateRest
  <2>13. CASE Retired
    <3>1. slots = 1 .. nWorkers
      BY <2>13 DEF Retired, Stopped
    <3>2. slots' = 1 .. nWorkers'
      BY <2>13, <3>1, Intervals DEF Retired, Stopped
    <3>3. ~joinFailed => started = {}
      BY <2>13 DEF Retired, Stopped, ControlInv
    <3> QED
      BY <2>13, <3>2, <3>3 DEF Retired, Stopped, Returns, GateRest, ControlInv
  <2>14. CASE Poisoned
    BY <2>14 DEF Poisoned, Stopped, Returns, GateRest
  <2>15. CASE Destroy
    BY <2>15 DEF Destroy, GateRest
  <2>16. CASE Destroyed
    <3>1. slots = 1 .. nWorkers
      BY <2>16 DEF Destroyed, Stopped
    <3>2. slots' = 1 .. nWorkers'
      BY <2>16, <3>1, Intervals DEF Destroyed, Stopped
    <3>3. ~joinFailed => started = {}
      BY <2>16 DEF Destroyed, Stopped, ControlInv
    <3> QED
      BY <2>16, <3>2, <3>3 DEF Destroyed, Stopped, GateRest, ControlInv
  <2> QED
    BY <1>4, <2>1, <2>2, <2>3, <2>4, <2>5, <2>6, <2>7, <2>8, <2>9, <2>10, <2>11, <2>12,
       <2>13, <2>14, <2>15, <2>16 DEF PoolCaller
<1>5. CASE UNCHANGED vars
  BY <1>5 DEF vars, gateVars, poolVars
<1> QED
  BY <1>1, <1>2, <1>3, <1>4, <1>5 DEF Next, Gone

\* What a worker has run and seen, against the generation.
LEMMA ThreadsStep ==
  ASSUME IInv, [Next]_vars
  PROVE  ThreadsInv'
<1> USE GateAssumption DEF IInv, ThreadsInv, TypeOK, GateTypeOK, PlacesOK, PoolTypeOK,
        Workers, Ready, Alive, Inline
<1>1. ASSUME NEW w \in Workers, GateWorker(w), UNCHANGED poolVars
      PROVE  ThreadsInv'
  <2> USE <1>1 DEF poolVars
  <2>1. CASE WorkerBoot(w)
    BY <2>1 DEF WorkerBoot, WorkerMoves
  <2>2. CASE WorkerRefused(w)
    BY <2>2 DEF WorkerRefused, Report, Fault
  <2>3. CASE WorkerEnter(w)
    BY <2>3 DEF WorkerEnter
  <2>4. CASE WorkerPark(w)
    BY <2>4 DEF WorkerPark, WorkerMoves
  <2>5. CASE WorkerWakesSpuriously(w)
    BY <2>5 DEF WorkerWakesSpuriously, WorkerMoves, Fault
  <2>6. CASE WorkerWaitFails(w)
    BY <2>6 DEF WorkerWaitFails, Report, Fault
  <2>7. CASE WorkerGo(w)
    <3>1. Alive(w) /\ ran[w] = seen[w] /\ generation = seen[w] + 1
      BY <2>7 DEF WorkerGo, WorkerMoves
    <3>2. ~Inline
      BY <3>1 DEF SlotsInv
    <3>3. seen' = [seen EXCEPT ![w] = generation] /\ wpc' = [wpc EXCEPT ![w] = "run"]
          /\ UNCHANGED generation
      BY <2>7 DEF WorkerGo, WorkerMoves
    <3> QED
      BY <3>1, <3>2, <3>3
  <2>8. CASE WorkerLeave(w)
    BY <2>8 DEF WorkerLeave, WorkerMoves
  <2>9. CASE WorkerUnlockFails(w)
    BY <2>9 DEF WorkerUnlockFails, Report, Fault
  <2>10. CASE WorkerCancelled(w)
    BY <2>10 DEF WorkerCancelled
  <2>11. CASE WorkerDone(w)
    BY <2>11 DEF WorkerDone
  <2>12. CASE NotifyLock(w)
    BY <2>12 DEF NotifyLock
  <2>13. CASE NotifyLockFails(w)
    BY <2>13 DEF NotifyLockFails, AfterNotify, Fault
  <2>14. CASE NotifySignal(w)
    BY <2>14 DEF NotifySignal, AfterNotify, CallerSignalled
  <2>15. CASE NotifySignalFails(w)
    BY <2>15 DEF NotifySignalFails, AfterNotify, CallerSignalled, Fault
  <2> QED
    BY <1>1, <2>1, <2>2, <2>3, <2>4, <2>5, <2>6, <2>7, <2>8, <2>9, <2>10, <2>11, <2>12,
       <2>13, <2>14, <2>15 DEF GateWorker
<1>2. ASSUME NEW w \in Workers, CallbackEnd(w)
      PROVE  ThreadsInv'
  BY <1>2 DEF CallbackEnd, WorkerMoves, GateRest
<1>3. CASE GateCaller /\ UNCHANGED poolVars
  <2> USE <1>3 DEF poolVars
  <2>1. CASE GateOpen \/ GateOpenFails \/ ExitOpen \/ ExitOpenFails
    BY <2>1 DEF GateOpen, UnlockBroadcast, CallerMoves, Woken, GateOpenFails,
       UnlockBroadcastFails, Fault, ExitOpen, ExitOpenFails
  <2>2. CASE WaitCheck \/ WaitFails \/ WaitLock \/ WaitTest \/ WaitSleep \/
             WaitInterrupted \/ WaitTimeout \/ WaitLate
    BY <2>2 DEF WaitCheck, CallerMoves, WaitFails, Fault, WaitLock, WaitTest, WaitSleep,
       WaitInterrupted, WaitTimeout, WaitLate
  <2>3. CASE GateLockFails \/ ExitLock \/ ExitLockFails
    BY <2>3 DEF GateLockFails, CallerMoves, Fault, ExitLock, ExitLockFails
  <2>4. CASE GateArm(nWorkers)
    BY <2>4 DEF GateArm, CallerMoves, QuietInv, Quiet, Armed, Stopping
  <2>5. CASE WaitEnd
    BY <2>5 DEF WaitEnd, CallerMoves
  <2> QED
    BY <1>3, <2>1, <2>2, <2>3, <2>4, <2>5 DEF GateCaller
<1>4. CASE PoolCaller
  <2>1. CASE Begin \/ Setup \/ SetupFails
    BY <2>1 DEF Begin, EntryPoint, GateRest, Setup, CallerMoves, SetupFails, Returns, Fault
  <2>2. CASE Poison \/ Cancel \/ JoinFails
    BY <2>2 DEF Poison, GateRest, Cancel, CallerMoves, JoinFails, Fault
  <2>3. CASE Destroy \/ DispatchOk \/ Poisoned
    BY <2>3 DEF Destroy, GateRest, DispatchOk, Returns, Poisoned, Stopped
  <2>4. CASE Construct
    BY <2>4 DEF Construct, GateRest, CallsInv, ControlInv
  <2>5. CASE Built
    BY <2>5 DEF Built, BuildOk, MayFault, Fault, EntryPoint, GateRest
  <2>6. CASE InlineStart
    BY <2>6 DEF InlineStart, CallerMoves, poolVars, GateRest
  <2>7. CASE InlineEnd
    BY <2>7 DEF InlineEnd, CallerMoves, GateRest, SlotsInv, ControlInv
  <2>8. CASE Join
    BY <2>8 DEF Join, GateRest
  <2>9. CASE Retired
    BY <2>9 DEF Retired, Stopped, Returns, GateRest
  <2>10. CASE Destroyed
    BY <2>10 DEF Destroyed, Stopped, GateRest
  <2> QED
    BY <1>4, <2>1, <2>2, <2>3, <2>4, <2>5, <2>6, <2>7, <2>8, <2>9, <2>10 DEF PoolCaller
<1>5. CASE UNCHANGED vars
  BY <1>5 DEF vars, gateVars, poolVars
<1> QED
  BY <1>1, <1>2, <1>3, <1>4, <1>5 DEF Next, Gone

\* A completed dispatch and a finished poison leave no callback behind.
LEMMA QuietStep ==
  ASSUME IInv, [Next]_vars
  PROVE  QuietInv'
<1> USE GateAssumption DEF IInv, QuietInv, Quiet, ThreadsInv, TypeOK, GateTypeOK,
        PlacesOK, PoolTypeOK, Workers, Armed, Stopping, Alive
<1>1. ASSUME NEW w \in Workers, GateWorker(w), UNCHANGED poolVars
      PROVE  QuietInv'
  <2> USE <1>1 DEF poolVars
  <2>1. CASE WorkerBoot(w) \/ WorkerEnter(w) \/ WorkerPark(w) \/
             WorkerWakesSpuriously(w) \/ WorkerLeave(w) \/ WorkerCancelled(w)
    BY <2>1 DEF WorkerBoot, WorkerMoves, WorkerEnter, WorkerPark, WorkerWakesSpuriously,
       Fault, WorkerLeave, WorkerCancelled
  <2>2. CASE WorkerRefused(w) \/ WorkerWaitFails(w) \/ WorkerUnlockFails(w)
    BY <2>2 DEF WorkerRefused, Report, Fault, WorkerWaitFails, WorkerUnlockFails
  <2>3. CASE NotifyLock(w) \/ NotifyLockFails(w) \/ NotifySignal(w) \/
             NotifySignalFails(w)
    BY <2>3 DEF NotifyLock, NotifyLockFails, AfterNotify, Fault, NotifySignal,
       CallerSignalled, NotifySignalFails
  <2>4. CASE WorkerGo(w)
    BY <2>4 DEF WorkerGo, WorkerMoves
  <2>5. CASE WorkerDone(w)
    BY <2>5 DEF WorkerDone
  <2> QED
    BY <1>1, <2>1, <2>2, <2>3, <2>4, <2>5 DEF GateWorker
<1>2. ASSUME NEW w \in Workers, CallbackEnd(w)
      PROVE  QuietInv'
  BY <1>2 DEF CallbackEnd, WorkerMoves, GateRest
<1>3. CASE GateCaller /\ UNCHANGED poolVars
  <2> USE <1>3 DEF poolVars
  <2>1. CASE GateOpen \/ GateOpenFails \/ ExitOpen \/ ExitOpenFails
    BY <2>1 DEF GateOpen, UnlockBroadcast, CallerMoves, Woken, GateOpenFails,
       UnlockBroadcastFails, Fault, ExitOpen, ExitOpenFails
  <2>2. CASE WaitCheck \/ WaitFails \/ WaitLock \/ WaitTest \/ WaitSleep \/
             WaitInterrupted \/ WaitTimeout \/ WaitLate
    BY <2>2 DEF WaitCheck, CallerMoves, WaitFails, Fault, WaitLock, WaitTest, WaitSleep,
       WaitInterrupted, WaitTimeout, WaitLate
  <2>3. CASE GateLockFails \/ ExitLock \/ ExitLockFails
    BY <2>3 DEF GateLockFails, CallerMoves, Fault, ExitLock, ExitLockFails
  <2>4. CASE GateArm(nWorkers)
    BY <2>4 DEF GateArm, CallerMoves
  <2>5. CASE WaitEnd
    BY <2>5, Drained DEF WaitEnd, CallerMoves
  <2> QED
    BY <1>3, <2>1, <2>2, <2>3, <2>4, <2>5 DEF GateCaller
<1>4. CASE PoolCaller
  <2>1. CASE Begin \/ Setup \/ SetupFails
    BY <2>1 DEF Begin, EntryPoint, GateRest, Setup, CallerMoves, SetupFails, Returns, Fault
  <2>2. CASE Poison \/ Cancel \/ JoinFails
    BY <2>2 DEF Poison, GateRest, Cancel, CallerMoves, JoinFails, Fault
  <2>3. CASE Destroy \/ DispatchOk \/ Poisoned
    BY <2>3 DEF Destroy, GateRest, DispatchOk, Returns, Poisoned, Stopped
  <2>4. CASE Construct
    BY <2>4 DEF Construct, GateRest
  <2>5. CASE Built
    BY <2>5 DEF Built, BuildOk, MayFault, Fault, EntryPoint, GateRest
  <2>6. CASE InlineStart
    BY <2>6 DEF InlineStart, CallerMoves, poolVars, GateRest
  <2>7. CASE InlineEnd
    BY <2>7 DEF InlineEnd, CallerMoves, GateRest
  <2>8. CASE Join
    BY <2>8 DEF Join, GateRest
  <2>9. CASE Retired
    BY <2>9 DEF Retired, Stopped, Returns, GateRest
  <2>10. CASE Destroyed
    BY <2>10 DEF Destroyed, Stopped, GateRest
  <2> QED
    BY <1>4, <2>1, <2>2, <2>3, <2>4, <2>5, <2>6, <2>7, <2>8, <2>9, <2>10 DEF PoolCaller
<1>5. CASE UNCHANGED vars
  BY <1>5 DEF vars, gateVars, poolVars
<1> QED
  BY <1>1, <1>2, <1>3, <1>4, <1>5 DEF Next, Gone

\* The states of the pool in which the caller can be at each place.
LEMMA ControlStep ==
  ASSUME IInv, [Next]_vars
  PROVE  ControlInv'
<1> USE GateAssumption DEF IInv, ControlInv, SlotsInv, TypeOK, GateTypeOK, PlacesOK,
        PoolTypeOK, Workers, Armed, Stopping, Inline
<1>1. ASSUME NEW w \in Workers, GateWorker(w), UNCHANGED poolVars
      PROVE  ControlInv'
  BY <1>1, WorkerFrame DEF poolVars
<1>2. ASSUME NEW w \in Workers, CallbackEnd(w)
      PROVE  ControlInv'
  BY <1>2 DEF CallbackEnd, WorkerMoves, GateRest, QuietInv, Quiet, ThreadsInv, Alive
<1>3. CASE GateCaller /\ UNCHANGED poolVars
  <2> USE <1>3 DEF poolVars
  <2>1. CASE GateArm(nWorkers)
    BY <2>1 DEF GateArm, CallerMoves
  <2>2. CASE GateLockFails
    BY <2>2 DEF GateLockFails, CallerMoves, Fault
  <2>3. CASE GateOpen
    BY <2>3 DEF GateOpen, UnlockBroadcast, CallerMoves, Woken
  <2>4. CASE GateOpenFails
    BY <2>4 DEF GateOpenFails, UnlockBroadcastFails, CallerMoves, Woken, Fault
  <2>5. CASE WaitCheck
    BY <2>5 DEF WaitCheck, CallerMoves
  <2>6. CASE WaitFails
    BY <2>6 DEF WaitFails, Fault
  <2>7. CASE WaitLock
    BY <2>7 DEF WaitLock
  <2>8. CASE WaitTest
    BY <2>8 DEF WaitTest
  <2>9. CASE WaitSleep
    BY <2>9 DEF WaitSleep, CallerMoves
  <2>10. CASE WaitInterrupted
    BY <2>10 DEF WaitInterrupted, CallerMoves, Fault
  <2>11. CASE WaitTimeout
    BY <2>11 DEF WaitTimeout, CallerMoves
  <2>12. CASE WaitLate
    BY <2>12 DEF WaitLate, CallerMoves
  <2>13. CASE WaitEnd
    BY <2>13, Drained DEF WaitEnd, CallerMoves
  <2>14. CASE ExitLock
    BY <2>14 DEF ExitLock, CallerMoves
  <2>15. CASE ExitLockFails
    BY <2>15 DEF ExitLockFails, CallerMoves, Fault
  <2>16. CASE ExitOpen
    BY <2>16 DEF ExitOpen, UnlockBroadcast, CallerMoves, Woken
  <2>17. CASE ExitOpenFails
    BY <2>17 DEF ExitOpenFails, UnlockBroadcastFails, CallerMoves, Woken, Fault
  <2> QED
    BY <1>3, <2>1, <2>2, <2>3, <2>4, <2>5, <2>6, <2>7, <2>8, <2>9, <2>10, <2>11, <2>12,
       <2>13, <2>14, <2>15, <2>16, <2>17 DEF GateCaller
<1>4. CASE PoolCaller
  <2>1. CASE Begin
    BY <2>1 DEF Begin, EntryPoint, GateRest
  <2>2. CASE Setup
    BY <2>2 DEF Setup, CallerMoves, GateRest
  <2>3. CASE SetupFails
    BY <2>3 DEF SetupFails, Returns, Fault, GateRest
  <2>4. CASE Construct
    BY <2>4 DEF Construct, GateRest
  <2>5. CASE Built
    BY <2>5 DEF Built, BuildOk, MayFault, Fault, EntryPoint, GateRest
  <2>6. CASE InlineStart
    BY <2>6 DEF InlineStart, CallerMoves, poolVars, GateRest
  <2>7. CASE InlineEnd
    BY <2>7 DEF InlineEnd, CallerMoves, GateRest
  <2>8. CASE DispatchOk
    BY <2>8 DEF DispatchOk, Returns, GateRest
  <2>9. CASE Poison
    BY <2>9 DEF Poison, GateRest
  <2>10. CASE Cancel
    BY <2>10 DEF Cancel, CallerMoves, GateRest
  <2>11. CASE Join
    BY <2>11 DEF Join, GateRest
  <2>12. CASE JoinFails
    BY <2>12 DEF JoinFails, Fault, GateRest
  <2>13. CASE Retired
    BY <2>13 DEF Retired, Stopped, Returns, GateRest
  <2>14. CASE Poisoned
    BY <2>14 DEF Poisoned, Stopped, Returns, GateRest
  <2>15. CASE Destroy
    BY <2>15 DEF Destroy, GateRest
  <2>16. CASE Destroyed
    BY <2>16 DEF Destroyed, Stopped, GateRest
  <2> QED
    BY <1>4, <2>1, <2>2, <2>3, <2>4, <2>5, <2>6, <2>7, <2>8, <2>9, <2>10, <2>11, <2>12,
       <2>13, <2>14, <2>15, <2>16 DEF PoolCaller
<1>5. CASE UNCHANGED vars
  BY <1>5 DEF vars, gateVars, poolVars
<1> QED
  BY <1>1, <1>2, <1>3, <1>4, <1>5 DEF Next, Gone

\* Generations and inline callbacks are counted against the dispatches.
LEMMA CallsStep ==
  ASSUME IInv, [Next]_vars
  PROVE  CallsInv'
<1> USE GateAssumption DEF IInv, CallsInv, TypeOK, GateTypeOK, PlacesOK, PoolTypeOK,
        Workers, Armed, Stopping, Inline, ControlInv
<1>1. ASSUME NEW w \in Workers, GateWorker(w), UNCHANGED poolVars
      PROVE  CallsInv'
  BY <1>1, WorkerFrame DEF poolVars
<1>2. ASSUME NEW w \in Workers, CallbackEnd(w)
      PROVE  CallsInv'
  BY <1>2 DEF CallbackEnd, WorkerMoves, GateRest, SlotsInv, ThreadsInv, Alive
<1>3. CASE GateCaller /\ UNCHANGED poolVars
  <2> USE <1>3 DEF poolVars
  <2>1. CASE GateOpen \/ GateOpenFails \/ ExitOpen \/ ExitOpenFails
    BY <2>1 DEF GateOpen, UnlockBroadcast, CallerMoves, Woken, GateOpenFails,
       UnlockBroadcastFails, Fault, ExitOpen, ExitOpenFails
  <2>2. CASE WaitCheck \/ WaitFails \/ WaitLock \/ WaitTest \/ WaitSleep \/
             WaitInterrupted \/ WaitTimeout \/ WaitLate
    BY <2>2 DEF WaitCheck, CallerMoves, WaitFails, Fault, WaitLock, WaitTest, WaitSleep,
       WaitInterrupted, WaitTimeout, WaitLate
  <2>3. CASE GateLockFails \/ ExitLock \/ ExitLockFails
    BY <2>3 DEF GateLockFails, CallerMoves, Fault, ExitLock, ExitLockFails
  <2>4. CASE GateArm(nWorkers)
    BY <2>4 DEF GateArm, CallerMoves
  <2>5. CASE WaitEnd
    BY <2>5 DEF WaitEnd, CallerMoves
  <2> QED
    BY <1>3, <2>1, <2>2, <2>3, <2>4, <2>5 DEF GateCaller
<1>4. CASE PoolCaller
  <2>1. CASE Begin
    BY <2>1 DEF Begin, EntryPoint, GateRest
  <2>2. CASE Setup
    BY <2>2 DEF Setup, CallerMoves, GateRest
  <2>3. CASE SetupFails
    BY <2>3 DEF SetupFails, Returns, Fault, GateRest
  <2>4. CASE Construct
    BY <2>4 DEF Construct, GateRest
  <2>5. CASE Built
    BY <2>5 DEF Built, BuildOk, MayFault, Fault, EntryPoint, GateRest
  <2>6. CASE InlineStart
    BY <2>6 DEF InlineStart, CallerMoves, poolVars, GateRest
  <2>7. CASE InlineEnd
    BY <2>7 DEF InlineEnd, CallerMoves, GateRest
  <2>8. CASE DispatchOk
    BY <2>8 DEF DispatchOk, Returns, GateRest
  <2>9. CASE Poison
    BY <2>9 DEF Poison, GateRest
  <2>10. CASE Cancel
    BY <2>10 DEF Cancel, CallerMoves, GateRest
  <2>11. CASE Join
    BY <2>11 DEF Join, GateRest
  <2>12. CASE JoinFails
    BY <2>12 DEF JoinFails, Fault, GateRest
  <2>13. CASE Retired
    BY <2>13 DEF Retired, Stopped, Returns, GateRest
  <2>14. CASE Poisoned
    BY <2>14 DEF Poisoned, Stopped, Returns, GateRest
  <2>15. CASE Destroy
    BY <2>15 DEF Destroy, GateRest
  <2>16. CASE Destroyed
    BY <2>16 DEF Destroyed, Stopped, GateRest
  <2> QED
    BY <1>4, <2>1, <2>2, <2>3, <2>4, <2>5, <2>6, <2>7, <2>8, <2>9, <2>10, <2>11, <2>12,
       <2>13, <2>14, <2>15, <2>16 DEF PoolCaller
<1>5. CASE UNCHANGED vars
  BY <1>5 DEF vars, gateVars, poolVars
<1> QED
  BY <1>1, <1>2, <1>3, <1>4, <1>5 DEF Next, Gone

\* The barrier count, action by action.
LEMMA PendingStep ==
  ASSUME IInv, [Next]_vars
  PROVE  PendingCountsOwing'
<1> USE GateAssumption DEF GateRest
<1>1. ASSUME NEW w \in Workers, GateWorker(w), UNCHANGED poolVars
      PROVE  PendingCountsOwing'
  <2> USE <1>1 DEF poolVars
  <2>1. CASE WorkerBoot(w) \/ WorkerEnter(w) \/ WorkerPark(w) \/
             WorkerWakesSpuriously(w) \/ WorkerLeave(w) \/ WorkerCancelled(w)
    BY <2>1, SameOwing DEF WorkerBoot, WorkerMoves, WorkerEnter, WorkerPark,
       WorkerWakesSpuriously, Fault, WorkerLeave, WorkerCancelled, IInv, TypeOK, PlacesOK
  <2>2. CASE WorkerRefused(w) \/ WorkerWaitFails(w) \/ WorkerUnlockFails(w)
    BY <2>2, SameOwing DEF WorkerRefused, Report, Fault, WorkerWaitFails, WorkerUnlockFails,
       IInv, TypeOK, PlacesOK
  <2>3. CASE NotifyLock(w) \/ NotifyLockFails(w) \/ NotifySignal(w) \/
             NotifySignalFails(w)
    BY <2>3, SameOwing DEF NotifyLock, NotifyLockFails, AfterNotify, Fault, NotifySignal,
       CallerSignalled, NotifySignalFails, IInv, TypeOK, PlacesOK
  <2>4. CASE WorkerGo(w)
    BY <2>4, SameOwing DEF WorkerGo, WorkerMoves, IInv, TypeOK, PlacesOK
  <2>5. CASE WorkerDone(w)
    <3>1. Owing' = Owing \ {w}
      BY <2>5, Counting DEF WorkerDone, Owing, IInv, TypeOK, GateTypeOK, PlacesOK, PoolTypeOK, ThreadsInv
    <3> QED
      BY <2>5, <3>1, Counting DEF WorkerDone, PendingCountsOwing
  <2> QED
    BY <1>1, <2>1, <2>2, <2>3, <2>4, <2>5 DEF GateWorker
<1>2. ASSUME NEW w \in Workers, CallbackEnd(w)
      PROVE  PendingCountsOwing'
  <2>1. UNCHANGED <<pending, generation, nWorkers, freed>>
    BY <1>2 DEF CallbackEnd, WorkerMoves
  <2>2. Owing' = Owing
    BY <1>2 DEF CallbackEnd, WorkerMoves, Owing, IInv, TypeOK, GateTypeOK, PlacesOK, PoolTypeOK, ThreadsInv, Workers
  <2> QED
    BY <2>1, <2>2 DEF IInv, PendingCountsOwing
<1>3. CASE GateCaller /\ UNCHANGED poolVars
  <2> USE <1>3 DEF poolVars
  <2>1. CASE GateOpen \/ GateOpenFails \/ ExitOpen \/ ExitOpenFails
    BY <2>1, SameOwing DEF GateOpen, UnlockBroadcast, CallerMoves, Woken, GateOpenFails,
       UnlockBroadcastFails, Fault, ExitOpen, ExitOpenFails, IInv, TypeOK, PlacesOK
  <2>2. CASE WaitCheck \/ WaitFails \/ WaitLock \/ WaitTest \/ WaitSleep \/
             WaitInterrupted \/ WaitTimeout \/ WaitLate
    BY <2>2, SameOwing DEF WaitCheck, CallerMoves, WaitFails, Fault, WaitLock, WaitTest,
       WaitSleep, WaitInterrupted, WaitTimeout, WaitLate, IInv, TypeOK, PlacesOK
  <2>3. CASE GateLockFails \/ ExitLock \/ ExitLockFails
    BY <2>3, SameOwing DEF GateLockFails, CallerMoves, Fault, ExitLock, ExitLockFails, IInv,
       TypeOK, PlacesOK
  <2>4. CASE GateArm(nWorkers)
    <3>1. Owing' = 1 .. nWorkers
      BY <2>4 DEF GateArm, CallerMoves, Owing, IInv, TypeOK, GateTypeOK, PlacesOK, PoolTypeOK, ThreadsInv, ControlInv, Workers
    <3>2. Cardinality(1 .. nWorkers) = nWorkers
      BY FS_Interval DEF IInv, TypeOK, GateTypeOK, PlacesOK, PoolTypeOK
    <3> QED
      BY <2>4, <3>1, <3>2 DEF GateArm, PendingCountsOwing
  <2>5. CASE WaitEnd
    BY <2>5, SameOwing DEF WaitEnd, CallerMoves, IInv, TypeOK, PlacesOK
  <2> QED
    BY <1>3, <2>1, <2>2, <2>3, <2>4, <2>5 DEF GateCaller
<1>4. CASE PoolCaller
  <2>1. CASE Begin \/ Setup \/ SetupFails
    BY <2>1, SameOwing DEF Begin, EntryPoint, GateRest, Setup, CallerMoves, SetupFails,
       Returns, Fault, IInv, TypeOK, PlacesOK
  <2>2. CASE Poison \/ Cancel \/ JoinFails
    BY <2>2, SameOwing DEF Poison, GateRest, Cancel, CallerMoves, JoinFails, Fault, IInv,
       TypeOK, PlacesOK
  <2>3. CASE Destroy \/ DispatchOk \/ Poisoned
    BY <2>3, SameOwing DEF Destroy, GateRest, DispatchOk, Returns, Poisoned, Stopped, IInv,
       TypeOK, PlacesOK
  <2>4. CASE Construct
    <3>1. nWorkers' = nWorkers /\ nWorkers = 0
      BY <2>4 DEF Construct, IInv, SlotsInv, ControlInv, Stopping
    <3>2. Owing = {} /\ Owing' = {}
      BY <3>1, Intervals DEF Owing
    <3> QED
      BY <2>4, <3>2 DEF Construct, IInv, PendingCountsOwing
  <2>5. CASE Built
    <3>1. nWorkers' \in 0 .. nPref
      BY <2>5 DEF Built, IInv, TypeOK, GateTypeOK, PlacesOK, PoolTypeOK, Workers
    <3>2. generation = 0 /\ ~Armed /\ ~(Stopping /\ stopFor = "poison")
      BY <2>5 DEF Built, IInv, CallsInv, ControlInv, Armed, Stopping
    <3>3. Owing = {} /\ Owing' = {}
      BY <2>5, <3>1, <3>2, NothingOwed DEF Built
    <3> QED
      BY <2>5, <3>3 DEF Built, GateRest, IInv, PendingCountsOwing
  <2>6. CASE InlineStart
    BY <2>6, SameOwing DEF InlineStart, CallerMoves, poolVars, GateRest, IInv, TypeOK,
       PlacesOK
  <2>7. CASE InlineEnd
    <3>1. nWorkers' = nWorkers /\ Owing' = Owing
      BY <2>7 DEF InlineEnd, CallerMoves, Owing, IInv, TypeOK, GateTypeOK, PlacesOK, PoolTypeOK, CallsInv, ControlInv, Workers, Inline
    <3> QED
      BY <2>7, <3>1 DEF InlineEnd, IInv, PendingCountsOwing
  <2>8. CASE Join
    BY <2>8, SameOwing DEF Join, GateRest, IInv, TypeOK, PlacesOK
  <2>9. CASE Retired
    <3>1. nWorkers' \in 0 .. nPref
      BY <2>9 DEF Retired, IInv, TypeOK, GateTypeOK, PlacesOK, PoolTypeOK, Workers
    <3>2. generation = 0 /\ ~Armed /\ ~(Stopping /\ stopFor = "poison")
      BY <2>9 DEF Retired, Stopped, IInv, CallsInv, ControlInv, Armed, Stopping
    <3>3. Owing = {} /\ Owing' = {}
      BY <2>9, <3>1, <3>2, NothingOwed DEF Retired
    <3> QED
      BY <2>9, <3>3 DEF Retired, Stopped, GateRest, IInv, PendingCountsOwing
  <2>10. CASE Destroyed
    <3>1. CASE joinFailed
      BY <2>10, <3>1, SameOwing DEF Destroyed
    <3>2. CASE ~joinFailed
      BY <2>10, <3>2 DEF Destroyed, PendingCountsOwing
    <3> QED
      BY <3>1, <3>2
  <2> QED
    BY <1>4, <2>1, <2>2, <2>3, <2>4, <2>5, <2>6, <2>7, <2>8, <2>9, <2>10 DEF PoolCaller
<1>5. CASE UNCHANGED vars
  BY <1>5, SameOwing DEF vars, gateVars, poolVars
<1> QED
  BY <1>1, <1>2, <1>3, <1>4, <1>5 DEF Next, Gone

\* Types of the gate.
LEMMA GateTypeStep ==
  ASSUME IInv, [Next]_vars
  PROVE  GateTypeOK'
<1> USE GateAssumption, PoolAssumption DEF TypeOK, GateTypeOK, PlacesOK, PoolTypeOK,
        Workers, NoOne, Caller
<1>0. TypeOK /\ ThreadsInv /\ CallsInv /\ ControlInv
  BY DEF IInv
<1> USE <1>0
<1>1. ASSUME NEW w \in Workers, GateWorker(w), UNCHANGED poolVars
      PROVE  GateTypeOK'
  <2> USE <1>1 DEF poolVars
  <2>1. CASE WorkerBoot(w)
    BY <2>1 DEF WorkerBoot, WorkerMoves
  <2>2. CASE WorkerRefused(w)
    BY <2>2 DEF WorkerRefused, Report, Fault
  <2>3. CASE WorkerEnter(w)
    BY <2>3 DEF WorkerEnter
  <2>4. CASE WorkerPark(w)
    BY <2>4 DEF WorkerPark, WorkerMoves
  <2>5. CASE WorkerWakesSpuriously(w)
    BY <2>5 DEF WorkerWakesSpuriously, WorkerMoves, Fault
  <2>6. CASE WorkerWaitFails(w)
    BY <2>6 DEF WorkerWaitFails, Report, Fault
  <2>7. CASE WorkerGo(w)
    BY <2>7 DEF WorkerGo, WorkerMoves
  <2>8. CASE WorkerLeave(w)
    BY <2>8 DEF WorkerLeave, WorkerMoves
  <2>9. CASE WorkerUnlockFails(w)
    BY <2>9 DEF WorkerUnlockFails, Report, Fault
  <2>10. CASE WorkerCancelled(w)
    BY <2>10 DEF WorkerCancelled
  <2>11. CASE WorkerDone(w)
    <3>1. pending > 0
      BY <2>11, Counting DEF WorkerDone
    <3> QED
      BY <2>11, <3>1 DEF WorkerDone
  <2>12. CASE NotifyLock(w)
    BY <2>12 DEF NotifyLock
  <2>13. CASE NotifyLockFails(w)
    BY <2>13 DEF NotifyLockFails, AfterNotify, Fault
  <2>14. CASE NotifySignal(w)
    BY <2>14 DEF NotifySignal, AfterNotify, CallerSignalled
  <2>15. CASE NotifySignalFails(w)
    <3>1. lock' \in 0 .. NoOne
      BY <2>15 DEF NotifySignalFails, AfterNotify
    <3> QED
      BY <2>15, <3>1 DEF NotifySignalFails, Fault
  <2> QED
    BY <1>1, <2>1, <2>2, <2>3, <2>4, <2>5, <2>6, <2>7, <2>8, <2>9, <2>10, <2>11, <2>12,
       <2>13, <2>14, <2>15 DEF GateWorker
<1>2. ASSUME NEW w \in Workers, CallbackEnd(w)
      PROVE  GateTypeOK'
  BY <1>2 DEF CallbackEnd, WorkerMoves, GateRest
<1>3. CASE GateCaller /\ UNCHANGED poolVars
  <2> USE <1>3 DEF poolVars
  <2>1. CASE GateArm(nWorkers)
    BY <2>1 DEF GateArm, CallerMoves, CallsInv
  <2>2. CASE GateLockFails
    BY <2>2 DEF GateLockFails, CallerMoves, Fault
  <2>3. CASE GateOpen
    BY <2>3 DEF GateOpen, UnlockBroadcast, CallerMoves, Woken
  <2>4. CASE GateOpenFails
    BY <2>4 DEF GateOpenFails, UnlockBroadcastFails, CallerMoves, Woken, Fault
  <2>5. CASE WaitCheck
    BY <2>5 DEF WaitCheck, CallerMoves
  <2>6. CASE WaitFails
    BY <2>6 DEF WaitFails, Fault
  <2>7. CASE WaitLock
    BY <2>7 DEF WaitLock
  <2>8. CASE WaitTest
    BY <2>8 DEF WaitTest
  <2>9. CASE WaitSleep
    BY <2>9 DEF WaitSleep, CallerMoves
  <2>10. CASE WaitInterrupted
    BY <2>10 DEF WaitInterrupted, CallerMoves, Fault
  <2>11. CASE WaitTimeout
    BY <2>11 DEF WaitTimeout, CallerMoves
  <2>12. CASE WaitLate
    BY <2>12 DEF WaitLate, CallerMoves
  <2>13. CASE WaitEnd
    BY <2>13 DEF WaitEnd, CallerMoves
  <2>14. CASE ExitLock
    BY <2>14 DEF ExitLock, CallerMoves
  <2>15. CASE ExitLockFails
    BY <2>15 DEF ExitLockFails, CallerMoves, Fault
  <2>16. CASE ExitOpen
    BY <2>16 DEF ExitOpen, UnlockBroadcast, CallerMoves, Woken
  <2>17. CASE ExitOpenFails
    BY <2>17 DEF ExitOpenFails, UnlockBroadcastFails, CallerMoves, Woken, Fault
  <2> QED
    BY <1>3, <2>1, <2>2, <2>3, <2>4, <2>5, <2>6, <2>7, <2>8, <2>9, <2>10, <2>11, <2>12,
       <2>13, <2>14, <2>15, <2>16, <2>17 DEF GateCaller
<1>4. CASE PoolCaller
  <2>1. CASE Begin \/ Setup \/ InlineStart \/ InlineEnd \/ DispatchOk \/ Poison \/
             Join \/ Retired \/ Poisoned \/ Destroy \/ Destroyed
    BY <2>1 DEF Begin, EntryPoint, GateRest, Setup, CallerMoves, InlineStart, poolVars,
       InlineEnd, DispatchOk, Returns, Poison, Join, Retired, Stopped, Poisoned, Destroy,
       Destroyed
  <2>2. CASE SetupFails
    BY <2>2 DEF SetupFails, Returns, Fault, GateRest
  <2>3. CASE Construct
    BY <2>3 DEF Construct, GateRest
  <2>4. CASE Built
    BY <2>4 DEF Built, BuildOk, MayFault, Fault, EntryPoint, GateRest
  <2>5. CASE Cancel
    BY <2>5 DEF Cancel, CallerMoves, GateRest
  <2>6. CASE JoinFails
    BY <2>6 DEF JoinFails, Fault, GateRest
  <2> QED
    BY <1>4, <2>1, <2>2, <2>3, <2>4, <2>5, <2>6 DEF PoolCaller
<1>5. CASE UNCHANGED vars
  BY <1>5 DEF vars, gateVars, poolVars
<1> QED
  BY <1>1, <1>2, <1>3, <1>4, <1>5 DEF Next, Gone

\* Types of the program counters.
LEMMA PlacesStep ==
  ASSUME IInv, [Next]_vars
  PROVE  PlacesOK'
<1> USE DEF TypeOK, GateTypeOK, PlacesOK, PoolTypeOK, WorkerStates, CallerStates
<1>0. TypeOK /\ ThreadsInv /\ CallsInv /\ ControlInv
  BY DEF IInv
<1> USE <1>0
<1>1. ASSUME NEW w \in Workers, GateWorker(w), UNCHANGED poolVars
      PROVE  PlacesOK'
  <2> USE <1>1 DEF poolVars
  <2>1. CASE WorkerBoot(w) \/ WorkerEnter(w) \/ WorkerPark(w) \/
             WorkerWakesSpuriously(w) \/ WorkerLeave(w) \/ WorkerCancelled(w)
    BY <2>1 DEF WorkerBoot, WorkerMoves, WorkerEnter, WorkerPark, WorkerWakesSpuriously,
       Fault, WorkerLeave, WorkerCancelled
  <2>2. CASE WorkerRefused(w) \/ WorkerWaitFails(w) \/ WorkerUnlockFails(w)
    BY <2>2 DEF WorkerRefused, Report, Fault, WorkerWaitFails, WorkerUnlockFails
  <2>3. CASE NotifyLock(w) \/ NotifyLockFails(w) \/ NotifySignal(w) \/
             NotifySignalFails(w)
    BY <2>3 DEF NotifyLock, NotifyLockFails, AfterNotify, Fault, NotifySignal,
       CallerSignalled, NotifySignalFails
  <2>4. CASE WorkerGo(w)
    BY <2>4 DEF WorkerGo, WorkerMoves
  <2>5. CASE WorkerDone(w)
    BY <2>5 DEF WorkerDone
  <2> QED
    BY <1>1, <2>1, <2>2, <2>3, <2>4, <2>5 DEF GateWorker
<1>2. ASSUME NEW w \in Workers, CallbackEnd(w)
      PROVE  PlacesOK'
  BY <1>2 DEF CallbackEnd, WorkerMoves, GateRest
<1>3. CASE GateCaller /\ UNCHANGED poolVars
  <2> USE <1>3 DEF poolVars
  <2>1. CASE GateOpen \/ GateOpenFails \/ ExitOpen \/ ExitOpenFails
    BY <2>1 DEF GateOpen, UnlockBroadcast, CallerMoves, Woken, GateOpenFails,
       UnlockBroadcastFails, Fault, ExitOpen, ExitOpenFails
  <2>2. CASE WaitCheck \/ WaitFails \/ WaitLock \/ WaitTest \/ WaitSleep \/
             WaitInterrupted \/ WaitTimeout \/ WaitLate
    BY <2>2 DEF WaitCheck, CallerMoves, WaitFails, Fault, WaitLock, WaitTest, WaitSleep,
       WaitInterrupted, WaitTimeout, WaitLate
  <2>3. CASE GateLockFails \/ ExitLock \/ ExitLockFails
    BY <2>3 DEF GateLockFails, CallerMoves, Fault, ExitLock, ExitLockFails
  <2>4. CASE GateArm(nWorkers)
    BY <2>4 DEF GateArm, CallerMoves
  <2>5. CASE WaitEnd
    BY <2>5 DEF WaitEnd, CallerMoves
  <2> QED
    BY <1>3, <2>1, <2>2, <2>3, <2>4, <2>5 DEF GateCaller
<1>4. CASE PoolCaller
  <2>1. CASE Begin \/ Setup \/ SetupFails
    BY <2>1 DEF Begin, EntryPoint, GateRest, Setup, CallerMoves, SetupFails, Returns, Fault
  <2>2. CASE Poison \/ Cancel \/ JoinFails
    BY <2>2 DEF Poison, GateRest, Cancel, CallerMoves, JoinFails, Fault
  <2>3. CASE Destroy \/ DispatchOk \/ Poisoned
    BY <2>3 DEF Destroy, GateRest, DispatchOk, Returns, Poisoned, Stopped
  <2>4. CASE Construct
    BY <2>4 DEF Construct, GateRest
  <2>5. CASE Built
    BY <2>5 DEF Built, BuildOk, MayFault, Fault, EntryPoint, GateRest
  <2>6. CASE InlineStart
    BY <2>6 DEF InlineStart, CallerMoves, poolVars, GateRest
  <2>7. CASE InlineEnd
    BY <2>7 DEF InlineEnd, CallerMoves, GateRest
  <2>8. CASE Join
    BY <2>8 DEF Join, GateRest
  <2>9. CASE Retired
    BY <2>9 DEF Retired, Stopped, Returns, GateRest
  <2>10. CASE Destroyed
    BY <2>10 DEF Destroyed, Stopped, GateRest
  <2> QED
    BY <1>4, <2>1, <2>2, <2>3, <2>4, <2>5, <2>6, <2>7, <2>8, <2>9, <2>10 DEF PoolCaller
<1>5. CASE UNCHANGED vars
  BY <1>5 DEF vars, gateVars, poolVars
<1> QED
  BY <1>1, <1>2, <1>3, <1>4, <1>5 DEF Next, Gone

\* Types of the pool.
LEMMA PoolTypeStep ==
  ASSUME IInv, [Next]_vars
  PROVE  PoolTypeOK'
<1> USE GateAssumption, PoolAssumption DEF TypeOK, GateTypeOK, PlacesOK, PoolTypeOK,
        Workers
<1>0. TypeOK /\ ThreadsInv /\ CallsInv /\ ControlInv
  BY DEF IInv
<1> USE <1>0
<1>1. CASE UNCHANGED poolVars
  BY <1>1 DEF poolVars
<1>2. ASSUME NEW w \in Workers, CallbackEnd(w)
      PROVE  PoolTypeOK'
  BY <1>2 DEF CallbackEnd, WorkerMoves, GateRest, ThreadsInv
<1>3. CASE PoolCaller
  <2>1. CASE Begin
    BY <2>1 DEF Begin, EntryPoint, GateRest
  <2>2. CASE Setup
    BY <2>2 DEF Setup, CallerMoves, GateRest
  <2>3. CASE SetupFails
    BY <2>3 DEF SetupFails, Returns, Fault, GateRest
  <2>4. CASE Construct
    <3>1. next \in 1 .. nPref
      BY <2>4 DEF Construct
    <3>2. slots' \in SUBSET (1 .. nPref)
      BY <2>4, <3>1 DEF Construct
    <3>3. started' \in SUBSET (1 .. nPref)
      BY <2>4, <3>1 DEF Construct
    <3>4. next' \in 1 .. nPref + 1
      BY <2>4, <3>1 DEF Construct
    <3> QED
      BY <2>4, <3>2, <3>3, <3>4 DEF Construct
  <2>5. CASE Built
    <3>1. nWorkers' \in 0 .. nPref
      BY <2>5 DEF Built
    <3>2. next' \in 1 .. nPref + 1
      BY <2>5 DEF Built
    <3>3. lazy' \in {"no", "done", "failed"} /\ joinFailed' \in BOOLEAN
          /\ stopFor' \in {"none", "poison", "retire", "destroy"}
      BY <2>5 DEF Built
    <3> QED
      BY <2>5, <3>1, <3>2, <3>3 DEF Built
  <2>6. CASE InlineStart
    BY <2>6 DEF InlineStart, CallerMoves, poolVars, GateRest
  <2>7. CASE InlineEnd
    BY <2>7 DEF InlineEnd, CallerMoves, GateRest, CallsInv, ControlInv
  <2>8. CASE DispatchOk
    BY <2>8 DEF DispatchOk, Returns, GateRest
  <2>9. CASE Poison
    <3>1. next' \in 1 .. nPref + 1
      BY <2>9 DEF Poison
    <3> QED
      BY <2>9, <3>1 DEF Poison
  <2>10. CASE Cancel
    BY <2>10 DEF Cancel, CallerMoves, GateRest
  <2>11. CASE Join
    BY <2>11 DEF Join, GateRest
  <2>12. CASE JoinFails
    BY <2>12 DEF JoinFails, Fault, GateRest
  <2>13. CASE Retired
    <3>1. slots' \in SUBSET (1 .. nPref)
      BY <2>13 DEF Retired
    <3>2. nWorkers' \in 0 .. nPref
      BY <2>13 DEF Retired
    <3> QED
      BY <2>13, <3>1, <3>2 DEF Retired, Stopped, Returns
  <2>14. CASE Poisoned
    BY <2>14 DEF Poisoned, Stopped, Returns, GateRest
  <2>15. CASE Destroy
    <3>1. next' \in 1 .. nPref + 1
      BY <2>15 DEF Destroy
    <3> QED
      BY <2>15, <3>1 DEF Destroy
  <2>16. CASE Destroyed
    <3>1. slots' \in SUBSET (1 .. nPref)
      BY <2>16 DEF Destroyed
    <3>2. nWorkers' \in 0 .. nPref
      BY <2>16 DEF Destroyed
    <3>3. freed' \in BOOLEAN /\ gateReady' \in BOOLEAN
      BY <2>16 DEF Destroyed
    <3> QED
      BY <2>16, <3>1, <3>2, <3>3 DEF Destroyed
  <2> QED
    BY <1>3, <2>1, <2>2, <2>3, <2>4, <2>5, <2>6, <2>7, <2>8, <2>9, <2>10, <2>11, <2>12,
       <2>13, <2>14, <2>15, <2>16 DEF PoolCaller
<1> QED
  BY <1>1, <1>2, <1>3 DEF Next, Gone, vars

\* Every step of the pool is a step of ForkJoin or changes nothing it sees.
LEMMA RefineStep ==
  ASSUME IInv, [Next]_vars
  PROVE  [FJ!Next]_(FJ!vars)
<1> USE GateAssumption DEF IInv, TypeOK, GateTypeOK, PlacesOK, PoolTypeOK, Workers
<1>1. ASSUME NEW w \in Workers, GateWorker(w), UNCHANGED poolVars
      PROVE  [FJ!Next]_(FJ!vars)
  <2> USE <1>1 DEF poolVars
  <2>1. CASE WorkerBoot(w) \/ WorkerEnter(w) \/ WorkerPark(w) \/
             WorkerWakesSpuriously(w) \/ WorkerLeave(w) \/ WorkerCancelled(w)
    BY <2>1, Stutter DEF WorkerBoot, WorkerMoves, WorkerEnter, WorkerPark,
       WorkerWakesSpuriously, Fault, WorkerLeave, WorkerCancelled, Call, Team, Running
  <2>2. CASE WorkerRefused(w) \/ WorkerWaitFails(w) \/ WorkerUnlockFails(w)
    BY <2>2, Stutter DEF WorkerRefused, Report, Fault, WorkerWaitFails, WorkerUnlockFails,
       Call, Team, Running
  <2>3. CASE NotifyLock(w) \/ NotifyLockFails(w) \/ NotifySignal(w) \/
             NotifySignalFails(w)
    BY <2>3, Stutter DEF NotifyLock, NotifyLockFails, AfterNotify, Fault, NotifySignal,
       CallerSignalled, NotifySignalFails, Call, Team, Running
  <2>4. CASE WorkerGo(w)
    <3>1. seen[w] < generation /\ seen[w] # generation /\ wpc[w] = "held"
      BY <2>4 DEF WorkerGo, WorkerMoves, ThreadsInv
    <3>0. Alive(w)
      BY <3>1 DEF Alive
    <3>2. Alive(w) /\ ~Quiet
      BY <3>1, <3>0 DEF Quiet
    <3>3. Call = "in" /\ Call' = "in" /\ lazy = "done" /\ mpc # "inlineRun"
      BY <2>4, <3>2 DEF WorkerGo, QuietInv, ControlInv, Call, Armed, Stopping
    <3>4. w \in Team /\ ~Inline
      BY <3>2, <3>3 DEF Team, ThreadsInv, SlotsInv, ControlInv
    <3>5. ran[w] < calls
      BY <3>1, <3>4 DEF CallsInv, ThreadsInv
    <3>6. w \notin Running /\ Running' = Running \cup {w} /\ Team' = Team
      BY <2>4, <3>1, <3>3 DEF Running, Team, WorkerGo, WorkerMoves
    <3>7. FJ!Start(w)
      BY <2>4, <3>3, <3>4, <3>5, <3>6 DEF FJ!Start, WorkerGo
    <3> QED
      BY <3>7 DEF FJ!Next
  <2>5. CASE WorkerDone(w)
    BY <2>5, Stutter DEF WorkerDone, Call, Team, Running
  <2> QED
    BY <1>1, <2>1, <2>2, <2>3, <2>4, <2>5 DEF GateWorker
<1>2. ASSUME NEW w \in Workers, CallbackEnd(w)
      PROVE  [FJ!Next]_(FJ!vars)
  <2>1. mpc # "inlineRun"
    BY <1>2 DEF CallbackEnd, WorkerMoves, Alive, ThreadsInv, SlotsInv, ControlInv
  <2>2. w \in Running /\ Running' = Running \ {w}
    BY <1>2, <2>1 DEF CallbackEnd, WorkerMoves, Running
  <2>3. FJ!End(w)
    BY <1>2, <2>2 DEF CallbackEnd, Call, Team, FJ!End
  <2> QED
    BY <2>3 DEF FJ!Next
<1>3. CASE GateCaller /\ UNCHANGED poolVars
  <2> USE <1>3 DEF poolVars
  <2>1. CASE GateOpen \/ GateOpenFails \/ ExitOpen \/ ExitOpenFails
    BY <2>1, Stutter DEF GateOpen, UnlockBroadcast, CallerMoves, Woken, GateOpenFails,
       UnlockBroadcastFails, Fault, ExitOpen, ExitOpenFails, Call, Team, Running
  <2>2. CASE WaitCheck \/ WaitFails \/ WaitLock \/ WaitTest \/ WaitSleep \/
             WaitInterrupted \/ WaitTimeout \/ WaitLate
    BY <2>2, Stutter DEF WaitCheck, CallerMoves, WaitFails, Fault, WaitLock, WaitTest,
       WaitSleep, WaitInterrupted, WaitTimeout, WaitLate, Call, Team, Running
  <2>3. CASE GateLockFails \/ ExitLock \/ ExitLockFails
    BY <2>3, Stutter DEF GateLockFails, CallerMoves, Fault, ExitLock, ExitLockFails, Call,
       Team, Running
  <2>4. CASE GateArm(nWorkers)
    BY <2>4, Stutter DEF GateArm, CallerMoves, Call, Team, Running
  <2>5. CASE WaitEnd
    BY <2>5, Stutter DEF WaitEnd, CallerMoves, Call, Team, Running
  <2> QED
    BY <1>3, <2>1, <2>2, <2>3, <2>4, <2>5 DEF GateCaller
<1>4. CASE PoolCaller
  <2>1. CASE Begin
    BY <2>1 DEF Begin, EntryPoint, GateRest, Call, Team, Running, FJ!Dispatch, FJ!Next,
       ControlInv
  <2>2. CASE Poison
    BY <2>2 DEF Poison, GateRest, Call, Team, Running, FJ!Break, FJ!Withdraw, FJ!Next
  <2>3. CASE Destroy
    BY <2>3 DEF Destroy, GateRest, Call, Team, Running, FJ!Leave, FJ!Next
  <2>4. CASE Setup
    BY <2>4, Stutter DEF Setup, CallerMoves, GateRest, Call, Team, Running
  <2>5. CASE SetupFails
    BY <2>5 DEF SetupFails, Returns, Fault, GateRest, Call, Team, Running, FJ!Fail, FJ!Next,
       ControlInv, QuietInv, Quiet, Armed, Stopping, Alive
  <2>6. CASE Construct
    <3>0. next \in Workers /\ next \notin slots
      BY <2>6 DEF Construct, SlotsInv
    <3>1. next \in Workers /\ wpc[next] # "run"
      BY <3>0 DEF ThreadsInv, SlotsInv, Alive
    <3>2. Running' = Running
      BY <2>6, <3>1 DEF Construct, Running
    <3> QED
      BY <2>6, <3>2, Stutter DEF Construct, Call, Team
  <2>7. CASE Built
    <3>1. Call = "in" /\ Call' = "in" /\ Running' = Running
      BY <2>7 DEF Built, EntryPoint, GateRest, Call, Running
    <3>2. CASE BuildOk(next - 1)
      <4> DEFINE S == 1 .. (next - 1)
      <4>1. Team = {} /\ Team' = S
        BY <2>7, <3>2 DEF Built, Team, ControlInv
      <4>2. 1 \in S /\ S \in SUBSET Workers
        BY <3>2 DEF BuildOk
      <4>3. FJ!Assemble(S)
        BY <2>7, <3>1, <4>1, <4>2 DEF Built, FJ!Assemble
      <4> QED
        BY <4>2, <4>3 DEF FJ!Next
    <3>3. CASE ~BuildOk(next - 1)
      BY <2>7, <3>1, <3>3, Stutter DEF Built, Team, ControlInv
    <3> QED
      BY <3>2, <3>3
  <2>8. CASE InlineStart
    <3>1. Inline /\ lazy = "done" /\ ~freed
      BY <2>8 DEF InlineStart, CallerMoves, ControlInv, SlotsInv
    <3>2. 1 \in Workers /\ 1 \in Team /\ ran[1] < calls
      BY <2>8, <3>1 DEF InlineStart, CallerMoves, Team, SlotsInv, CallsInv
    <3>3. 1 \notin Running /\ Running' = Running \cup {1}
      BY <2>8, <3>1, <3>2 DEF InlineStart, CallerMoves, GateRest, Running, ThreadsInv, SlotsInv, Alive
    <3>4. FJ!Start(1)
      BY <2>8, <3>2, <3>3 DEF InlineStart, CallerMoves, poolVars, Call, Team, FJ!Start
    <3> QED
      BY <3>2, <3>4 DEF FJ!Next
  <2>9. CASE InlineEnd
    <3>1. Inline /\ 1 \in Workers
      BY <2>9 DEF InlineEnd, CallerMoves, ControlInv
    <3>2. wpc[1] # "run"
      BY <3>1 DEF ThreadsInv, SlotsInv, Alive
    <3>3. 1 \in Running /\ Running' = Running \ {1}
      BY <2>9, <3>2 DEF InlineEnd, CallerMoves, GateRest, Running
    <3>4. FJ!End(1)
      BY <2>9, <3>3 DEF InlineEnd, CallerMoves, Call, Team, FJ!End
    <3> QED
      BY <3>1, <3>4 DEF FJ!Next
  <2>10. CASE DispatchOk
    <3>1. Running = {}
      BY <2>10 DEF DispatchOk, Running, QuietInv, Quiet, Armed, Stopping, Alive
    <3>2. lazy = "done" /\ nWorkers > 0
      BY <2>10 DEF DispatchOk, ControlInv, SlotsInv
    <3>3. Team = 1 .. nWorkers /\ 1 \in Team
      BY <3>2 DEF Team
    <3>4. \A s \in Team : ran[s] = calls
      BY <2>10, <3>3 DEF DispatchOk, ControlInv, CallsInv, Inline
    <3>5. FJ!Succeed
      BY <2>10, <3>1, <3>3, <3>4 DEF DispatchOk, Returns, GateRest, Call, Team, Running, FJ!Succeed
    <3> QED
      BY <3>5 DEF FJ!Next
  <2>11. CASE Cancel
    BY <2>11, Stutter DEF Cancel, CallerMoves, GateRest, Call, Team, Running
  <2>12. CASE Join
    BY <2>12, Stutter DEF Join, GateRest, Call, Team, Running
  <2>13. CASE JoinFails
    BY <2>13, Stutter DEF JoinFails, Fault, GateRest, Call, Team, Running
  <2>14. CASE Retired
    BY <2>14 DEF Retired, Stopped, Returns, GateRest, Call, Team, Running, FJ!Fail, FJ!Next,
       ControlInv, QuietInv, Quiet, Armed, Stopping, Alive
  <2>15. CASE Poisoned
    BY <2>15 DEF Poisoned, Stopped, Returns, GateRest, Call, Team, Running, FJ!Fail, FJ!Next,
       ThreadsInv, Alive
  <2>16. CASE Destroyed
    <3>1. Call = "gone" /\ Call' = "gone" /\ Running' = Running
      BY <2>16 DEF Destroyed, Stopped, GateRest, Call, Running
    <3>2. CASE joinFailed \/ lazy # "done"
      BY <2>16, <3>1, <3>2, Stutter DEF Destroyed, Team
    <3>3. CASE ~joinFailed /\ lazy = "done"
      <4>1. Team' = {}
        BY <2>16, <3>3, Intervals DEF Destroyed, Team
      <4>2. FJ!Forget
        BY <2>16, <3>1, <4>1 DEF Destroyed, FJ!Forget
      <4> QED
        BY <4>2 DEF FJ!Next
    <3> QED
      BY <3>2, <3>3
  <2> QED
    BY <1>4, <2>1, <2>2, <2>3, <2>4, <2>5, <2>6, <2>7, <2>8, <2>9, <2>10, <2>11, <2>12,
       <2>13, <2>14, <2>15, <2>16 DEF PoolCaller
<1>5. CASE UNCHANGED vars
  BY <1>5 DEF vars, gateVars, poolVars, FJ!vars, Call, Team, Running
<1> QED
  BY <1>1, <1>2, <1>3, <1>4, <1>5 DEF Next, Gone

\* IInv holds initially.
LEMMA InvInit ==
  ASSUME Init
  PROVE  IInv
<1>1. TypeOK
  <2>1. GateTypeOK
    <3>1. 0 \in 0 .. MaxCalls /\ 0 \in 0 .. MaxWorkers /\ NoOne \in 0 .. NoOne
          /\ MaxFaults \in 0 .. MaxFaults
      BY GateAssumption, PoolAssumption DEF NoOne, GateAssumption, PoolAssumption
    <3> QED
      BY <3>1 DEF Init, GateInit, GateTypeOK
  <2>2. PlacesOK
    BY DEF Init, PlacesOK, WorkerStates, CallerStates
  <2>3. PoolTypeOK
    <3>1. 0 \in 0 .. MaxCalls /\ 0 \in 0 .. nPref /\ 1 \in 1 .. nPref + 1
      BY GateAssumption, PoolAssumption DEF Init, Workers, GateAssumption, PoolAssumption
    <3> QED
      BY <3>1 DEF Init, PoolTypeOK
  <2> QED
    BY <2>1, <2>2, <2>3 DEF TypeOK
<1>2. ThreadsInv /\ QuietInv
  BY DEF Init, GateInit, ThreadsInv, QuietInv, Quiet, Alive, Ready
<1>3. SlotsInv
  BY Intervals DEF Init, GateInit, SlotsInv, Inline
<1>4. ControlInv /\ CallsInv
  BY GateAssumption DEF Init, GateInit, ControlInv, CallsInv, Armed, Stopping, Inline, Workers
<1>5. PendingCountsOwing
  <2>1. Owing = {}
    BY Intervals DEF Init, Owing
  <2> QED
    BY <2>1, FS_EmptySet DEF Init, GateInit, PendingCountsOwing
<1> QED
  BY <1>1, <1>2, <1>3, <1>4, <1>5 DEF IInv

\* IInv is inductive.
LEMMA InvStep ==
  ASSUME IInv, [Next]_vars
  PROVE  IInv'
BY GateTypeStep, PlacesStep, PoolTypeStep, ThreadsStep, QuietStep, SlotsStep, ControlStep,
   CallsStep, PendingStep DEF IInv, TypeOK

\* The inductive invariant holds in every reachable state.
THEOREM Invariance == Spec => []IInv
BY InvInit, InvStep, PTL DEF Spec

\* Types and ranges: pending within the team, next within the records.
THEOREM TypeCorrect == Spec => []TypeOK
<1>1. IInv => TypeOK
  BY DEF IInv
<1> QED
  BY <1>1, Invariance, PTL

\* The completion barrier counts exactly the workers that still owe the armed
\* generation, so up_pool_gate_wait_all never reports a frame that is not whole.
THEOREM BarrierCountsOwing == Spec => []PendingCountsOwing
<1>1. IInv => PendingCountsOwing
  BY DEF IInv
<1> QED
  BY <1>1, Invariance, PTL

\* No slot, record or gate object is released while a thread can use it: start,
\* poison, destroy and quarantine, whichever pthread calls fail.
THEOREM StorageOutlivesWorkers == Spec => []NothingFreedInUse
<1>1. IInv => NothingFreedInUse
  <2> SUFFICES ASSUME IInv PROVE NothingFreedInUse
    OBVIOUS
  <2>1. \A w \in Workers : Alive(w) => w \in slots
    BY DEF IInv, ThreadsInv, SlotsInv
  <2>2. freed => slots = {}
    BY Intervals DEF IInv, SlotsInv
  <2> QED
    BY <2>1, <2>2 DEF NothingFreedInUse
<1> QED
  BY <1>1, Invariance, PTL

\* An unstarted pool is an unused ForkJoin.
LEMMA RefineInit ==
  ASSUME Init
  PROVE  FJ!Init
<1>1. Call = "out" /\ Team = {}
  BY DEF Init, Call, Team
<1>2. Running = {}
  BY DEF Init, Running
<1> QED
  BY <1>1, <1>2 DEF Init, FJ!Init

\* The pool implements ForkJoin: in particular no callback runs once a call
\* returned, even when gate, join or cancellation failed (UB-13).
THEOREM PoolIsForkJoin == Spec => ImplementsForkJoin
BY Invariance, RefineInit, RefineStep, PTL DEF Spec, ImplementsForkJoin, FJ!Spec

-----------------------------------------------------------------------------
(* Nobody waits for ever on somebody who waits.                             *)

\* The worker has a step of WorkerProgress to take, no mutex it needs is held.
WorkerReady(w) ==
    \/ wpc[w] \in {"boot", "held", "run", "finish", "notifying", "reporting"}
    \/ wpc[w] \in {"enter", "woken"} /\ lock = NoOne
    \/ wpc[w] = "parked" /\ w \in cancelled /\ lock = NoOne
    \/ wpc[w] \in {"notify", "report"} /\ doneLock = NoOne

\* Nothing has failed yet, and nobody was woken for nothing.
Untouched == faults = MaxFaults

\* The caller has a step of CallerProgress to take, and the deadline of its wait
\* passes only when something has failed.
CallerReady ==
    \/ mpc \in {"setup", "construct", "inline", "inlineRun", "opening", "waitCheck", "waitHeld",
                "waitSleep", "waitEnd", "dispatched", "gateFailed", "exiting", "cancel"}
    \/ mpc \in {"dispatch", "stop"} /\ lock = NoOne
    \/ mpc \in {"waitLock", "waitWoken", "waitLate"} /\ doneLock = NoOne
    \/ mpc = "waiting" /\ TimeoutPossible /\ ~Untouched
    \/ mpc = "join" /\ next <= nPref /\ (next \in started => wpc[next] = "exited")
    \/ mpc = "join" /\ next > nPref /\ (stopFor = "poison" => \A w \in started : wpc[w] = "exited")

SomebodyReady == CallerReady \/ \E w \in Workers : WorkerReady(w)

\* Only the deadline can end a wait whose signal was lost to a failing call.
NeverStuck ==
    InCall /\ (mpc = "waiting" => TimeoutPossible \/ Untouched) => SomebodyReady

\* Who holds a mutex has a step to take, or waits for one whose holder has.
HoldersInv ==
    /\ \A w \in Workers : lock = w => wpc[w] \in {"held", "report", "reporting"}
    /\ lock = Caller => mpc \in {"opening", "exiting"}
    /\ \A w \in Workers : doneLock = w <=> wpc[w] \in {"notifying", "reporting"}
    /\ doneLock = Caller <=> mpc \in {"waitHeld", "waitSleep"}

\* Whom a stop waits for has been told, by the exit request or by cancellation.
StopInv ==
    /\ ~gateReady => started = {}
    /\ mpc = "construct" /\ ~Inline => gateReady
    /\ Stopping => stopFor # "none"
    /\ mpc = "exiting" => exitRequested
    /\ mpc = "join" => \A w \in started : exitRequested \/ w \in cancelled
    /\ \A w \in Workers : wpc[w] = "parked" /\ exitRequested =>
                              mpc \in {"exiting", "cancel"} \/ w \in cancelled
    /\ exitRequested => Stopping \/ broken \/ lazy = "failed" \/ mpc \in {"closed", "quarantined"}
    /\ cancelled # {} => broken

\* As long as nothing has failed, members of the team live until they are told
\* to leave, none sleeps through a generation, and none of them having anything
\* left to do means that the last one is about to signal.
WakeInv ==
    /\ ~Inline => \A w \in slots : wpc[w] # "none"
    /\ Untouched =>
        /\ \A w \in Workers : wpc[w] = "exited" => exitRequested \/ broken
        /\ \A w \in Workers : wpc[w] \notin {"report", "reporting"}
        /\ \A w \in Workers : wpc[w] = "parked" /\ seen[w] # generation => mpc = "opening"
        /\ mpc \in {"waitSleep", "waiting"} /\ pending = 0 =>
              \E w \in Workers : wpc[w] \in {"notify", "notifying"}

\* Mutexes are given back where they were taken.
LEMMA HoldersStep ==
  ASSUME IInv, HoldersInv, [Next]_vars
  PROVE  HoldersInv'
<1> USE GateAssumption DEF HoldersInv, Workers, Caller, NoOne
<1>0. /\ wpc \in [Workers -> WorkerStates] /\ MaxWorkers \in Nat
      /\ \A w \in Workers : Alive(w) => w \in started
  BY DEF IInv, TypeOK, PlacesOK, ThreadsInv
<1>1. ASSUME NEW w \in Workers, GateWorker(w), UNCHANGED poolVars
      PROVE  HoldersInv'
  <2>1. CASE WorkerBoot(w) \/ WorkerRefused(w) \/ WorkerEnter(w)
    BY <1>0, <2>1 DEF WorkerBoot, WorkerMoves, WorkerRefused, Report, WorkerEnter
  <2>2. CASE WorkerPark(w) \/ WorkerWakesSpuriously(w) \/ WorkerWaitFails(w)
    BY <1>0, <2>2 DEF WorkerPark, WorkerMoves, WorkerWakesSpuriously, WorkerWaitFails, Report
  <2>3. CASE WorkerGo(w) \/ WorkerLeave(w) \/ WorkerUnlockFails(w)
    BY <1>0, <2>3 DEF WorkerGo, WorkerMoves, WorkerLeave, WorkerUnlockFails, Report
  <2>4. CASE WorkerCancelled(w) \/ WorkerDone(w)
    BY <1>0, <2>4 DEF WorkerCancelled, WorkerDone
  <2>5. CASE NotifyLock(w)
    BY <1>0, <2>5 DEF NotifyLock
  <2>6. CASE NotifyLockFails(w)
    BY <1>0, <2>6 DEF NotifyLockFails, AfterNotify
  <2>7. CASE NotifySignal(w)
    BY <1>0, <2>7 DEF NotifySignal, AfterNotify, CallerSignalled
  <2>8. CASE NotifySignalFails(w)
    BY <1>0, <2>8 DEF NotifySignalFails, AfterNotify, CallerSignalled
  <2> QED
    BY <1>1, <2>1, <2>2, <2>3, <2>4, <2>5, <2>6, <2>7, <2>8 DEF GateWorker
<1>2. ASSUME NEW w \in Workers, CallbackEnd(w)
      PROVE  HoldersInv'
  BY <1>0, <1>2 DEF CallbackEnd, WorkerMoves, GateRest
<1>3. CASE GateCaller /\ UNCHANGED poolVars
  <2>1. CASE GateArm(nWorkers) \/ GateLockFails
    BY <1>0, <2>1 DEF GateArm, GateLockFails, CallerMoves
  <2>2. CASE GateOpen \/ GateOpenFails \/ ExitOpen \/ ExitOpenFails
    BY <1>0, <2>2 DEF GateOpen, GateOpenFails, ExitOpen, ExitOpenFails, UnlockBroadcast,
                      UnlockBroadcastFails, CallerMoves, Woken
  <2>3. CASE WaitCheck \/ WaitFails \/ WaitLock \/ WaitTest \/ WaitSleep
    BY <1>0, <2>3 DEF WaitCheck, WaitFails, WaitLock, WaitTest, WaitSleep, CallerMoves
  <2>4. CASE WaitInterrupted \/ WaitTimeout \/ WaitLate \/ WaitEnd
    BY <1>0, <2>4 DEF WaitInterrupted, WaitTimeout, WaitLate, WaitEnd, CallerMoves
  <2>5. CASE ExitLock \/ ExitLockFails
    BY <1>0, <2>5 DEF ExitLock, ExitLockFails, CallerMoves
  <2> QED
    BY <1>3, <2>1, <2>2, <2>3, <2>4, <2>5 DEF GateCaller
<1>4. CASE PoolCaller
  <2>1. CASE Construct
    <3>1. next \in Workers /\ ~Alive(next)
      BY <2>1, <1>0, Intervals DEF Construct, IInv, SlotsInv, TypeOK, PoolTypeOK
    <3>2. lock # next /\ doneLock # next
      BY <1>0, <3>1 DEF Alive
    <3> QED
      BY <1>0, <2>1, <3>1, <3>2 DEF Construct
  <2>2. CASE Begin \/ Setup \/ SetupFails \/ Built \/ InlineStart \/ InlineEnd
    BY <2>2 DEF Begin, Setup, SetupFails, Built, InlineStart, InlineEnd, EntryPoint, GateRest,
                CallerMoves, Returns
  <2>3. CASE DispatchOk \/ Poison \/ Cancel \/ Join \/ JoinFails
    BY <2>3 DEF DispatchOk, Poison, Cancel, Join, JoinFails, GateRest, CallerMoves, Returns
  <2>4. CASE Retired \/ Poisoned \/ Destroy \/ Destroyed
    BY <2>4 DEF Retired, Poisoned, Destroy, Destroyed, Stopped, GateRest, Returns
  <2> QED
    BY <1>4, <2>1, <2>2, <2>3, <2>4 DEF PoolCaller
<1>5. CASE UNCHANGED vars
  BY <1>5 DEF vars, gateVars
<1> QED
  BY <1>1, <1>2, <1>3, <1>4, <1>5 DEF Next, Gone

\* An exit request or a cancellation reaches whoever sleeps, then or later.
LEMMA StopStep ==
  ASSUME IInv, StopInv, [Next]_vars
  PROVE  StopInv'
<1> USE DEF StopInv, Stopping, Inline
<1>0. /\ wpc \in [Workers -> WorkerStates] /\ started \subseteq 1 .. nPref
      /\ next \in 1 .. nPref + 1 /\ nPref \in Nat /\ next \in Nat
      /\ stopFor \in {"none", "poison", "retire", "destroy"}
      /\ \A w \in Workers : Alive(w) => w \in started
      /\ Inline => started = {}
      /\ mpc = "construct" => ~broken /\ lazy = "no"
  BY GateAssumption DEF IInv, TypeOK, PlacesOK, PoolTypeOK, ThreadsInv, SlotsInv, ControlInv, Workers
<1>1. ASSUME NEW w \in Workers, GateWorker(w), UNCHANGED poolVars
      PROVE  StopInv'
  <2> USE <1>1 DEF poolVars
  <2>1. CASE WorkerBoot(w) \/ WorkerRefused(w) \/ WorkerEnter(w)
    BY <1>0, <2>1 DEF WorkerBoot, WorkerMoves, WorkerRefused, Report, WorkerEnter
  <2>2. CASE WorkerPark(w) \/ WorkerWakesSpuriously(w) \/ WorkerWaitFails(w)
    BY <1>0, <2>2 DEF WorkerPark, WorkerMoves, WorkerWakesSpuriously, WorkerWaitFails, Report
  <2>3. CASE WorkerGo(w) \/ WorkerLeave(w) \/ WorkerUnlockFails(w)
    BY <1>0, <2>3 DEF WorkerGo, WorkerMoves, WorkerLeave, WorkerUnlockFails, Report
  <2>4. CASE WorkerCancelled(w) \/ WorkerDone(w) \/ NotifyLock(w)
    BY <1>0, <2>4 DEF WorkerCancelled, WorkerDone, NotifyLock
  <2>5. CASE NotifyLockFails(w)
    BY <1>0, <2>5 DEF NotifyLockFails, AfterNotify
  <2>6. CASE NotifySignal(w) \/ NotifySignalFails(w)
    BY <1>0, <2>6 DEF NotifySignal, NotifySignalFails, AfterNotify, CallerSignalled
  <2> QED
    BY <1>1, <2>1, <2>2, <2>3, <2>4, <2>5, <2>6 DEF GateWorker
<1>2. ASSUME NEW w \in Workers, CallbackEnd(w)
      PROVE  StopInv'
  BY <1>0, <1>2 DEF CallbackEnd, WorkerMoves, GateRest
<1>3. CASE GateCaller /\ UNCHANGED poolVars
  <2> USE <1>3 DEF poolVars
  <2>1. CASE GateArm(nWorkers) \/ GateLockFails
    BY <1>0, <2>1 DEF GateArm, GateLockFails, CallerMoves
  <2>2. CASE GateOpen \/ GateOpenFails
    BY <1>0, <2>2 DEF GateOpen, GateOpenFails, UnlockBroadcast, UnlockBroadcastFails,
                      CallerMoves, Woken
  <2>3. CASE WaitCheck \/ WaitFails \/ WaitLock \/ WaitTest \/ WaitSleep
    BY <1>0, <2>3 DEF WaitCheck, WaitFails, WaitLock, WaitTest, WaitSleep, CallerMoves
  <2>4. CASE WaitInterrupted \/ WaitTimeout \/ WaitLate \/ WaitEnd
    BY <1>0, <2>4 DEF WaitInterrupted, WaitTimeout, WaitLate, WaitEnd, CallerMoves
  <2>5. CASE ExitLock \/ ExitLockFails
    BY <1>0, <2>5 DEF ExitLock, ExitLockFails, CallerMoves
  <2>6. CASE ExitOpen
    BY <1>0, <2>6 DEF ExitOpen, UnlockBroadcast, CallerMoves, Woken
  <2>7. CASE ExitOpenFails
    BY <1>0, <2>7 DEF ExitOpenFails, UnlockBroadcastFails, CallerMoves, Woken
  <2> QED
    BY <1>3, <2>1, <2>2, <2>3, <2>4, <2>5, <2>6, <2>7 DEF GateCaller
<1>4. CASE PoolCaller
  <2>1. CASE Construct
    BY <1>0, <2>1 DEF Construct
  <2>2. CASE Begin
    BY <1>0, <2>2 DEF Begin, EntryPoint, GateRest
  <2>3. CASE Setup
    BY <1>0, <2>3 DEF Setup, GateRest, CallerMoves
  <2>4. CASE SetupFails
    BY <1>0, <2>4 DEF SetupFails, GateRest, Returns
  <2>5. CASE Built
    BY <1>0, <2>5 DEF Built, EntryPoint, GateRest
  <2>6. CASE InlineStart
    BY <1>0, <2>6 DEF InlineStart, poolVars, GateRest, CallerMoves
  <2>7. CASE InlineEnd
    BY <1>0, <2>7 DEF InlineEnd, GateRest, CallerMoves
  <2>8. CASE DispatchOk
    BY <1>0, <2>8 DEF DispatchOk, GateRest, Returns
  <2>9. CASE Poison
    BY <1>0, <2>9 DEF Poison, GateRest
  <2>10. CASE Destroy
    BY <1>0, <2>10 DEF Destroy, GateRest
  <2>11. CASE Cancel
    BY <1>0, <2>11 DEF Cancel, CallerMoves, Alive
  <2>12. CASE Join
    BY <1>0, <2>12 DEF Join, GateRest
  <2>13. CASE JoinFails
    BY <1>0, <2>13 DEF JoinFails, GateRest
  <2>14. CASE Retired
    BY <1>0, <2>14 DEF Retired, Stopped, GateRest, Returns
  <2>15. CASE Poisoned
    <3>1. broken
      BY <2>15 DEF Poisoned, Stopped, IInv, ControlInv
    <3> QED
      BY <1>0, <2>15, <3>1 DEF Poisoned, Stopped, GateRest, Returns
  <2>16. CASE Destroyed
    <3>1. ~joinFailed => started = {}
      BY <1>0, <2>16 DEF Destroyed, Stopped, IInv, ControlInv
    <3> QED
      BY <1>0, <2>16, <3>1 DEF Destroyed, Stopped, GateRest
  <2> QED
    BY <1>4, <2>1, <2>2, <2>3, <2>4, <2>5, <2>6, <2>7, <2>8, <2>9, <2>10,
       <2>11, <2>12, <2>13, <2>14, <2>15, <2>16 DEF PoolCaller
<1>5. CASE UNCHANGED vars
  BY <1>5 DEF vars, gateVars, poolVars
<1> QED
  BY <1>1, <1>2, <1>3, <1>4, <1>5 DEF Next, Gone

\* Nothing that has failed is forgotten.
LEMMA FaultsStay ==
  ASSUME IInv, [Next]_vars
  PROVE  Untouched' => Untouched /\ faults' = faults
<1> USE GateAssumption DEF Untouched, Fault
<1>0. faults \in 0 .. MaxFaults /\ MaxFaults \in Nat
  BY DEF IInv, TypeOK, GateTypeOK
<1>1. ASSUME NEW w \in Workers, GateWorker(w)
      PROVE  faults' = faults \/ faults' = faults - 1
  <2>1. CASE WorkerBoot(w) \/ WorkerRefused(w) \/ WorkerEnter(w) \/ WorkerPark(w)
             \/ WorkerWakesSpuriously(w) \/ WorkerWaitFails(w) \/ WorkerGo(w)
    BY <2>1 DEF WorkerBoot, WorkerRefused, WorkerEnter, WorkerPark, WorkerWakesSpuriously,
                WorkerWaitFails, WorkerGo, Report
  <2>2. CASE WorkerLeave(w) \/ WorkerUnlockFails(w) \/ WorkerCancelled(w) \/ WorkerDone(w)
             \/ NotifyLock(w) \/ NotifyLockFails(w) \/ NotifySignal(w) \/ NotifySignalFails(w)
    BY <2>2 DEF WorkerLeave, WorkerUnlockFails, WorkerCancelled, WorkerDone, NotifyLock,
                NotifyLockFails, NotifySignal, NotifySignalFails, Report
  <2> QED
    BY <1>1, <2>1, <2>2 DEF GateWorker
<1>2. ASSUME GateCaller PROVE faults' = faults \/ faults' = faults - 1
  BY <1>2 DEF GateCaller, GateArm, GateLockFails, GateOpen, GateOpenFails, UnlockBroadcast,
              UnlockBroadcastFails, WaitCheck, WaitFails, WaitLock, WaitTest, WaitSleep,
              WaitInterrupted, WaitTimeout, WaitLate, WaitEnd, ExitLock, ExitLockFails,
              ExitOpen, ExitOpenFails
<1>3. ASSUME PoolCaller PROVE faults' = faults \/ faults' = faults - 1
  BY <1>3 DEF PoolCaller, Begin, Setup, SetupFails, Construct, Built, MayFault, InlineStart,
              InlineEnd, DispatchOk, Poison, Cancel, Join, JoinFails, Retired, Poisoned,
              Destroy, Destroyed
<1>4. faults' = faults \/ faults' = faults - 1
  BY <1>1, <1>2, <1>3 DEF Next, CallbackEnd, Gone, vars, gateVars
<1> QED
  BY <1>0, <1>4

\* A sleeper is woken by each generation, and the last to finish signals.
LEMMA WakeStep ==
  ASSUME IInv, HoldersInv, StopInv, WakeInv, [Next]_vars
  PROVE  WakeInv'
<1> USE DEF WakeInv, Inline
<1>0. /\ wpc \in [Workers -> WorkerStates] /\ faults \in 0 .. MaxFaults /\ MaxFaults \in Nat
      /\ pending \in Nat /\ slots \subseteq Workers
  BY GateAssumption DEF IInv, TypeOK, GateTypeOK, PlacesOK, PoolTypeOK, Workers
<1>6. Untouched' => Untouched /\ faults' = faults
  BY FaultsStay
<1>7. Untouched' => faults' # faults - 1
  BY <1>0, <1>6
<1> USE <1>6 DEF Fault
<1>1. ASSUME NEW w \in Workers, GateWorker(w), UNCHANGED poolVars
      PROVE  WakeInv'
  <2> USE <1>1 DEF poolVars
  <2>1. CASE WorkerBoot(w)
    BY <1>0, <2>1 DEF WorkerBoot, WorkerMoves
  <2>2. CASE WorkerEnter(w)
    BY <1>0, <2>2 DEF WorkerEnter
  <2>3. CASE WorkerRefused(w) \/ WorkerWaitFails(w) \/ WorkerUnlockFails(w)
    BY <1>0, <1>7, <2>3 DEF WorkerRefused, WorkerWaitFails, WorkerUnlockFails, Report
  <2>4. CASE WorkerPark(w)
    BY <1>0, <2>4 DEF WorkerPark, WorkerMoves
  <2>5. CASE WorkerWakesSpuriously(w)
    BY <1>0, <1>7, <2>5 DEF WorkerWakesSpuriously, WorkerMoves
  <2>6. CASE WorkerGo(w)
    BY <1>0, <2>6 DEF WorkerGo, WorkerMoves
  <2>7. CASE WorkerLeave(w)
    BY <1>0, <2>7 DEF WorkerLeave, WorkerMoves
  <2>8. CASE WorkerCancelled(w)
    <3>1. broken
      BY <2>8 DEF WorkerCancelled, StopInv
    <3> QED
      BY <1>0, <2>8, <3>1 DEF WorkerCancelled
  <2>9. CASE WorkerDone(w)
    BY <1>0, <2>9 DEF WorkerDone
  <2>10. CASE NotifyLock(w)
    BY <1>0, <2>10 DEF NotifyLock
  <2>11. CASE NotifyLockFails(w)
    BY <1>0, <1>7, <2>11 DEF NotifyLockFails, AfterNotify
  <2>12. CASE NotifySignal(w)
    <3>1. mpc' \notin {"waitSleep", "waiting"} \/ mpc \notin {"waitSleep", "waiting"}
      BY <2>12 DEF NotifySignal, CallerSignalled, HoldersInv, Workers, Caller
    <3> QED
      BY <1>0, <2>12, <3>1 DEF NotifySignal, AfterNotify, CallerSignalled
  <2>13. CASE NotifySignalFails(w)
    BY <1>0, <1>7, <2>13 DEF NotifySignalFails, AfterNotify, CallerSignalled
  <2> QED
    BY <1>1, <2>1, <2>2, <2>3, <2>4, <2>5, <2>6, <2>7, <2>8, <2>9, <2>10, <2>11, <2>12,
       <2>13 DEF GateWorker
<1>2. ASSUME NEW w \in Workers, CallbackEnd(w)
      PROVE  WakeInv'
  BY <1>0, <1>2 DEF CallbackEnd, WorkerMoves, GateRest
<1>3. CASE GateCaller /\ UNCHANGED poolVars
  <2> USE <1>3 DEF poolVars
  <2>1. CASE GateArm(nWorkers)
    BY <1>0, <2>1 DEF GateArm, CallerMoves
  <2>2. CASE GateOpen
    BY <1>0, <2>2 DEF GateOpen, UnlockBroadcast, CallerMoves, Woken
  <2>3. CASE ExitOpen
    BY <1>0, <2>3 DEF ExitOpen, UnlockBroadcast, CallerMoves, Woken
  <2>4. CASE GateOpenFails \/ ExitOpenFails
    BY <1>0, <1>7, <2>4 DEF GateOpenFails, ExitOpenFails, UnlockBroadcastFails, CallerMoves, Woken
  <2>5. CASE WaitTest
    BY <1>0, <2>5 DEF WaitTest
  <2>6. CASE WaitSleep
    BY <1>0, <2>6 DEF WaitSleep, CallerMoves
  <2>7. CASE GateLockFails \/ WaitCheck \/ WaitFails \/ WaitLock
    BY <1>0, <2>7 DEF GateLockFails, WaitCheck, WaitFails, WaitLock, CallerMoves
  <2>8. CASE WaitInterrupted \/ WaitTimeout \/ WaitLate \/ WaitEnd
    BY <1>0, <2>8 DEF WaitInterrupted, WaitTimeout, WaitLate, WaitEnd, CallerMoves
  <2>9. CASE ExitLock \/ ExitLockFails
    BY <1>0, <2>9 DEF ExitLock, ExitLockFails, CallerMoves
  <2> QED
    BY <1>3, <2>1, <2>2, <2>3, <2>4, <2>5, <2>6, <2>7, <2>8, <2>9 DEF GateCaller
<1>4. CASE PoolCaller
  <2>0. UNCHANGED pending /\ mpc' \notin {"waitSleep", "waiting"}
    BY <1>4 DEF PoolCaller, Begin, EntryPoint, Setup, SetupFails, Construct, Built, InlineStart,
         InlineEnd, DispatchOk, Poison, Cancel, Join, JoinFails, Retired, Poisoned, Destroy,
         Destroyed, GateRest, CallerMoves, Returns
  <2>1. CASE Construct
    <3>1. next \in Workers /\ UNCHANGED <<exitRequested, broken, generation, nPref, mpc>>
      BY <2>1, GateAssumption DEF Construct, IInv, TypeOK, PoolTypeOK, Workers
    <3>2. CASE Inline
      BY <1>0, <2>0, <2>1, <3>1, <3>2 DEF Construct
    <3>3. CASE ~Inline
      <4>1. wpc' = [wpc EXCEPT ![next] = "boot"] /\ slots' = slots \cup {next}
            /\ seen' = [seen EXCEPT ![next] = generation]
        BY <2>1, <3>3 DEF Construct
      <4>2. \A w \in Workers \ {next} : wpc'[w] = wpc[w] /\ seen'[w] = seen[w]
        BY <4>1, <1>0 DEF IInv, TypeOK, GateTypeOK
      <4>3. wpc'[next] = "boot"
        BY <3>1, <4>1, <1>0
      <4> QED
        BY <1>0, <2>0, <3>1, <4>1, <4>2, <4>3
    <3> QED
      BY <3>2, <3>3
  <2>2. CASE ~Construct
    <3>1. UNCHANGED <<wpc, seen, generation, exitRequested, nPref>> /\ slots' \subseteq slots
          /\ (broken => broken')
      BY <1>4, <2>2 DEF PoolCaller, Begin, Setup, SetupFails, Built, InlineStart, poolVars,
         InlineEnd, DispatchOk, Poison, Cancel, Join, JoinFails, Retired, Poisoned, Destroy,
         Destroyed, GateRest
    <3>2. mpc # "opening"
      BY <1>4 DEF PoolCaller, Begin, Setup, SetupFails, Construct, Built, InlineStart,
         InlineEnd, DispatchOk, Poison, Cancel, Join, JoinFails, Retired, Poisoned, Destroy,
         Destroyed, CallerMoves, Stopped
    <3> QED
      BY <1>0, <2>0, <3>1, <3>2
  <2> QED
    BY <2>1, <2>2
<1>5. CASE UNCHANGED vars
  BY <1>5 DEF vars, gateVars, poolVars, Untouched
<1> QED
  BY <1>1, <1>2, <1>3, <1>4, <1>5 DEF Next, Gone

\* A mutex that is held is held by somebody with a step to take, or by a worker
\* that reports a failure and waits for such a one.
LEMMA HeldIsReady ==
  ASSUME IInv, HoldersInv
  PROVE  (lock = NoOne \/ SomebodyReady) /\ (doneLock = NoOne \/ SomebodyReady)
<1>1. lock \in {Caller, NoOne} \cup Workers /\ doneLock \in {Caller, NoOne} \cup Workers
  BY GateAssumption DEF IInv, TypeOK, GateTypeOK, Workers, Caller, NoOne
<1>2. doneLock = NoOne \/ SomebodyReady
  <2>1. CASE doneLock = Caller
    BY <2>1 DEF HoldersInv, SomebodyReady, CallerReady
  <2>2. CASE doneLock \in Workers
    BY <2>2 DEF HoldersInv, SomebodyReady, WorkerReady
  <2> QED
    BY <1>1, <2>1, <2>2
<1>3. lock = NoOne \/ SomebodyReady
  <2>1. CASE lock = Caller
    BY <2>1 DEF HoldersInv, SomebodyReady, CallerReady
  <2>2. CASE lock \in Workers
    <3>1. wpc[lock] \in {"held", "report", "reporting"}
      BY <2>2 DEF HoldersInv
    <3> QED
      BY <1>2, <2>2, <3>1 DEF SomebodyReady, WorkerReady
  <2> QED
    BY <1>1, <2>1, <2>2
<1> QED
  BY <1>2, <1>3

\* Only a worker that sleeps and was not cancelled may have to be waited for.
LEMMA AwakeIsReady ==
  ASSUME IInv, HoldersInv, NEW w \in Workers, Alive(w), wpc[w] = "parked" => w \in cancelled
  PROVE  SomebodyReady
<1>1. wpc[w] \in WorkerStates
  BY DEF IInv, TypeOK, PlacesOK
<1> QED
  BY <1>1, HeldIsReady DEF WorkerStates, Alive, SomebodyReady, WorkerReady

\* A stop waits only for workers that are on their way out.
LEMMA JoinEnds ==
  ASSUME IInv, HoldersInv, StopInv, WakeInv, mpc = "join"
  PROVE  SomebodyReady
<1>1. /\ next \in Nat /\ nPref \in Nat /\ started \subseteq Workers /\ started \subseteq slots
      /\ Inline => started = {}
  BY GateAssumption DEF IInv, TypeOK, PoolTypeOK, SlotsInv, Workers
<1>2. ASSUME NEW w \in started, wpc[w] # "exited"
      PROVE  SomebodyReady
  <2>1. Alive(w) /\ w \in Workers
    BY <1>1, <1>2 DEF Alive, WakeInv
  <2>2. wpc[w] = "parked" => w \in cancelled
    BY <1>2, <2>1 DEF StopInv
  <2> QED
    BY <2>1, <2>2, AwakeIsReady
<1>3. CASE \A w \in started : wpc[w] = "exited"
  BY <1>1, <1>3 DEF SomebodyReady, CallerReady
<1> QED
  BY <1>2, <1>3

\* Without a failure, a worker that still owes is awake, and if none owes the
\* last one to finish is about to signal.
LEMMA WaitEnds ==
  ASSUME IInv, HoldersInv, StopInv, WakeInv, mpc = "waiting", Untouched
  PROVE  SomebodyReady
<1>1. /\ ~freed /\ ~Inline /\ pending = Cardinality(Owing) /\ slots = 1 .. nWorkers
      /\ lazy = "done" /\ ~broken
  BY DEF IInv, PendingCountsOwing, SlotsInv, ControlInv, Armed
<1>2. ~exitRequested
  BY <1>1 DEF StopInv, Stopping
<1>3. CASE Owing = {}
  <2>1. pending = 0
    BY <1>1, <1>3, FS_EmptySet
  <2>2. PICK w \in Workers : wpc[w] \in {"notify", "notifying"}
    BY <2>1 DEF WakeInv
  <2> QED
    BY <2>2, AwakeIsReady DEF Alive
<1>4. CASE Owing # {}
  <2>1. PICK w \in 1 .. nWorkers : ran[w] < generation \/ wpc[w] = "finish"
    BY <1>4 DEF Owing
  <2>2. w \in Workers
    BY <2>1, GateAssumption DEF IInv, TypeOK, PoolTypeOK, Workers
  <2>3. Alive(w)
    BY <1>1, <1>2, <2>1, <2>2 DEF Alive, WakeInv
  <2>4. wpc[w] # "parked"
    <3>1. ASSUME wpc[w] = "parked" PROVE FALSE
      <4>1. ran[w] = seen[w] /\ seen[w] = generation
        BY <2>2, <3>1 DEF IInv, ThreadsInv, Ready, WakeInv
      <4>2. generation \in Nat
        BY DEF IInv, TypeOK, GateTypeOK
      <4> QED
        BY <2>1, <3>1, <4>1, <4>2
    <3> QED
      BY <3>1
  <2> QED
    BY <2>2, <2>3, <2>4, AwakeIsReady
<1> QED
  BY <1>3, <1>4

\* No deadlock and no lost wakeup, for every number of workers and whichever
\* calls fail: as long as a call of the owner is under way, the caller or some
\* worker has a step to take that needs no failure and no spurious wakeup, and
\* if nothing has failed it needs no timeout either.  This is the part of
\* EveryCallReturns and HealthyDispatchSucceeds that is not temporal.
THEOREM NobodyIsStuck == Spec => []NeverStuck
<1>1. Init => HoldersInv /\ StopInv /\ WakeInv
  BY GateAssumption DEF Init, GateInit, HoldersInv, StopInv, WakeInv, Workers, Caller, NoOne,
                        Stopping
<1>2. IInv /\ HoldersInv /\ StopInv /\ WakeInv /\ [Next]_vars => HoldersInv' /\ StopInv' /\ WakeInv'
  BY HoldersStep, StopStep, WakeStep
<1>3. ASSUME IInv, HoldersInv, StopInv, WakeInv PROVE NeverStuck
  <2> SUFFICES ASSUME InCall, mpc = "waiting" => TimeoutPossible \/ Untouched
               PROVE  SomebodyReady
    BY DEF NeverStuck
  <2>1. mpc \in CallerStates \ {"idle", "closed", "quarantined"}
    BY <1>3 DEF IInv, TypeOK, PlacesOK, InCall
  <2>2. CASE mpc = "join"
    BY <1>3, <2>2, JoinEnds
  <2>3. CASE mpc = "waiting"
    <3>1. CASE TimeoutPossible /\ ~Untouched
      BY <2>3, <3>1 DEF SomebodyReady, CallerReady
    <3>2. CASE Untouched
      BY <1>3, <2>3, <3>2, WaitEnds
    <3> QED
      BY <2>3, <3>1, <3>2
  <2>4. CASE mpc \in {"dispatch", "stop", "waitLock", "waitWoken", "waitLate"}
    BY <1>3, <2>4, HeldIsReady DEF SomebodyReady, CallerReady
  <2>5. CASE mpc \notin {"join", "waiting", "dispatch", "stop", "waitLock", "waitWoken", "waitLate"}
    BY <2>1, <2>5 DEF SomebodyReady, CallerReady, CallerStates
  <2> QED
    BY <2>2, <2>3, <2>4, <2>5
<1> QED
  BY <1>1, <1>2, <1>3, Invariance, PTL DEF Spec

-----------------------------------------------------------------------------
(* A call runs out of steps.                                                *)

\* How far a worker is from the end of what its last wakeup sets off.  A team
\* that is not there yet comes to life once.
Errand(w) ==
    CASE wpc[w] = "run"                              -> 7
      [] wpc[w] = "finish"                           -> 6
      [] wpc[w] \in {"none", "notify"}               -> 5
      [] wpc[w] \in {"boot", "notifying"}            -> 4
      [] wpc[w] \in {"enter", "woken"}               -> 3
      [] wpc[w] \in {"held", "report"}               -> 2
      [] wpc[w] \in {"parked", "reporting"}          -> 1
      [] wpc[w] = "exited"                           -> 0

\* A generation that was not seen yet may still be run.
Unseen(w) == IF seen[w] # generation THEN 6 ELSE 0

\* What the caller will still do to a worker in this call: arm a generation, open
\* the gate, request the exit.
Ahead == (IF mpc \in {"setup", "construct", "dispatch"} THEN 6 ELSE 0)
         + (IF mpc \in {"setup", "construct", "dispatch", "opening"} THEN 2 ELSE 0)
         + (IF InCall /\ mpc \notin {"cancel", "join"} THEN 2 ELSE 0)

WorkerLeft(w) == Errand(w) + Unseen(w) + Ahead
WorkerMost == 23

WorkersLeft == Cardinality({s \in Workers \X (1 .. WorkerMost) : s[2] <= WorkerLeft(s[1])})

\* How far the caller is from the end of its call if no worker sends it round the
\* waiting loop once more.
CallerLeft ==
    CASE mpc = "setup"                     -> 2 * MaxWorkers + 16
      [] mpc = "construct"                 -> MaxWorkers + 15 + (nPref + 1 - next)
      [] mpc = "dispatch"                  -> MaxWorkers + 14
      [] mpc = "opening"                   -> MaxWorkers + 13
      [] mpc = "waitCheck"                 -> MaxWorkers + 12
      [] mpc \in {"waitLock", "waitWoken"} -> MaxWorkers + 11
      [] mpc = "waitHeld"                  -> MaxWorkers + 10
      [] mpc = "waitSleep"                 -> MaxWorkers + 9
      [] mpc = "waiting"                   -> MaxWorkers + 8
      [] mpc \in {"waitLate", "inline"}    -> MaxWorkers + 7
      [] mpc \in {"waitEnd", "inlineRun"}  -> MaxWorkers + 6
      [] mpc \in {"gateFailed", "dispatched"} -> MaxWorkers + 5
      [] mpc = "stop"                      -> MaxWorkers + 4
      [] mpc = "exiting"                   -> MaxWorkers + 3
      [] mpc = "cancel"                    -> MaxWorkers + 2
      [] mpc = "join"                      -> nPref + 2 - next
      [] OTHER                             -> 0

CallerMost == 2 * MaxWorkers + 16

\* One step in a call: failing calls and spurious wakeups aside, it takes one of
\* the steps left, of the workers or else of the caller.
CallRunsDown ==
    InCall /\ faults' = faults =>
        \/ WorkersLeft' < WorkersLeft
        \/ WorkersLeft' <= WorkersLeft /\ CallerLeft' < CallerLeft

\* Before the pool is started no thread was made but those of its slots.
MadeInv ==
    lazy = "no" /\ ~(Stopping /\ stopFor = "retire") =>
        \A w \in Workers : w \in slots \/ wpc[w] = "none"

LEMMA MadeStep ==
  ASSUME IInv, MadeInv, [Next]_vars
  PROVE  MadeInv'
<1> USE DEF MadeInv, Stopping
<1>0. wpc \in [Workers -> WorkerStates]
  BY DEF IInv, TypeOK, PlacesOK
<1>1. ASSUME NEW w \in Workers, GateWorker(w), UNCHANGED poolVars
      PROVE  MadeInv'
  <2>1. \A v \in Workers : wpc[v] = "none" => wpc'[v] = "none"
    BY <1>0, <1>1 DEF GateWorker, WorkerBoot, WorkerRefused, WorkerEnter, WorkerPark,
         WorkerWakesSpuriously, WorkerWaitFails, WorkerGo, WorkerLeave, WorkerUnlockFails,
         WorkerCancelled, WorkerDone, NotifyLock, NotifyLockFails, NotifySignal,
         NotifySignalFails, AfterNotify, WorkerMoves, Report
  <2> QED
    BY <1>1, <2>1, WorkerFrame DEF poolVars
<1>2. ASSUME NEW w \in Workers, CallbackEnd(w)
      PROVE  MadeInv'
  BY <1>0, <1>2 DEF CallbackEnd, WorkerMoves
<1>3. CASE GateCaller /\ UNCHANGED poolVars
  <2>1. \A v \in Workers : wpc[v] = "none" => wpc'[v] = "none"
    BY <1>0, <1>3 DEF GateCaller, GateArm, GateLockFails, GateOpen, GateOpenFails,
         UnlockBroadcast, UnlockBroadcastFails, WaitCheck, WaitFails, WaitLock, WaitTest,
         WaitSleep, WaitInterrupted, WaitTimeout, WaitLate, WaitEnd, ExitLock, ExitLockFails,
         ExitOpen, ExitOpenFails, Woken
  <2> QED
    BY <1>3, <2>1, CallerFrame DEF poolVars
<1>4. CASE PoolCaller
  <2>1. CASE Construct
    BY <1>0, <2>1 DEF Construct
  <2>2. CASE Begin \/ Setup \/ SetupFails
    BY <2>2 DEF Begin, EntryPoint, Setup, SetupFails, CallerMoves, Returns
  <2>3. CASE Built
    BY <2>3 DEF Built
  <2>4. CASE InlineStart \/ InlineEnd \/ DispatchOk
    BY <2>4 DEF InlineStart, InlineEnd, DispatchOk, CallerMoves, Returns, poolVars
  <2>5. CASE Poison
    <3>1. lazy = "done"
      BY <2>5 DEF Poison, IInv, ControlInv, Armed
    <3> QED
      BY <2>5, <3>1 DEF Poison
  <2>6. CASE Cancel \/ Join \/ JoinFails
    BY <2>6 DEF Cancel, Join, JoinFails, CallerMoves
  <2>7. CASE Retired \/ Poisoned
    BY <2>7 DEF Retired, Poisoned, Stopped, Returns, IInv, ControlInv
  <2>8. CASE Destroy
    BY <2>8 DEF Destroy
  <2>9. CASE Destroyed
    <3>1. lazy = "no" => slots \cap Workers = {}
      BY <2>9, Intervals DEF Destroyed, Stopped, IInv, SlotsInv, Stopping
    <3> QED
      BY <2>9, <3>1 DEF Destroyed, Stopped
  <2> QED
    BY <1>4, <2>1, <2>2, <2>3, <2>4, <2>5, <2>6, <2>7, <2>8, <2>9 DEF PoolCaller
<1>5. CASE UNCHANGED vars
  BY <1>5 DEF vars, gateVars, poolVars
<1> QED
  BY <1>1, <1>2, <1>3, <1>4, <1>5 DEF Next, Gone

\* Piles of steps: a lower pile has fewer.
LEMMA Piles ==
  ASSUME NEW f \in [Workers -> 0 .. WorkerMost], NEW g \in [Workers -> 0 .. WorkerMost],
         \A w \in Workers : g[w] <= f[w]
  PROVE  LET Pile(h) == {s \in Workers \X (1 .. WorkerMost) : s[2] <= h[s[1]]}
         IN  /\ Cardinality(Pile(f)) \in Nat /\ Cardinality(Pile(g)) \in Nat
             /\ Cardinality(Pile(f)) <= MaxWorkers * WorkerMost
             /\ Cardinality(Pile(g)) <= Cardinality(Pile(f))
             /\ \A w \in Workers : g[w] < f[w] => Cardinality(Pile(g)) < Cardinality(Pile(f))
<1> DEFINE all == Workers \X (1 .. WorkerMost)
           Pile(h) == {s \in all : s[2] <= h[s[1]]}
<1>1. IsFiniteSet(all) /\ Cardinality(all) = MaxWorkers * WorkerMost
  <2>1. IsFiniteSet(Workers) /\ Cardinality(Workers) = MaxWorkers
    BY FS_Interval, GateAssumption DEF Workers
  <2>2. IsFiniteSet(1 .. WorkerMost) /\ Cardinality(1 .. WorkerMost) = WorkerMost
    <3>1. \A n \in Nat \ {0} : IsFiniteSet(1 .. n) /\ Cardinality(1 .. n) = n
      BY FS_Interval
    <3>2. WorkerMost \in Nat \ {0}
      BY DEF WorkerMost
    <3> QED
      BY <3>1, <3>2
  <2> QED
    BY <2>1, <2>2, FS_Product
<1>2. Pile(f) \subseteq all /\ Pile(g) \subseteq Pile(f)
  <2>1. ASSUME NEW s \in all, s[2] <= g[s[1]] PROVE s[2] <= f[s[1]]
    <3>1. s[1] \in Workers /\ s[2] \in 1 .. WorkerMost
      OBVIOUS
    <3>2. f[s[1]] \in Int /\ g[s[1]] \in Int /\ g[s[1]] <= f[s[1]] /\ s[2] \in Int
      BY <3>1 DEF WorkerMost
    <3> QED
      BY <2>1, <3>2
  <2> QED
    BY <2>1
<1>3. /\ IsFiniteSet(Pile(f)) /\ Cardinality(Pile(f)) <= Cardinality(all)
      /\ Cardinality(Pile(g)) <= Cardinality(Pile(f)) /\ IsFiniteSet(Pile(g))
      /\ Cardinality(Pile(g)) = Cardinality(Pile(f)) => Pile(g) = Pile(f)
  <2> HIDE DEF Pile, all
  <2>1. IsFiniteSet(Pile(f)) /\ Cardinality(Pile(f)) <= Cardinality(all)
    BY <1>1, <1>2, FS_Subset
  <2> QED
    BY <1>2, <2>1, FS_Subset
<1>4. Cardinality(Pile(f)) \in Nat /\ Cardinality(Pile(g)) \in Nat
  BY <1>3, FS_CardinalityType
<1>5. ASSUME NEW w \in Workers, g[w] < f[w] PROVE Pile(g) # Pile(f)
  <2> DEFINE s == <<w, f[w]>>
  <2>1. f[w] \in 1 .. WorkerMost /\ g[w] \in Int /\ ~(f[w] <= g[w]) /\ f[w] <= f[w]
    BY <1>5 DEF WorkerMost
  <2>2. s \in Pile(f) /\ s \notin Pile(g)
    BY <2>1
  <2> QED
    BY <2>2
<1> HIDE DEF Pile
<1>6. ASSUME NEW w \in Workers, g[w] < f[w] PROVE Cardinality(Pile(g)) < Cardinality(Pile(f))
  BY <1>3, <1>4, <1>5, <1>6
<1> QED
  BY <1>1, <1>3, <1>4, <1>6 DEF Pile

\* The range of a worker's errand, before and after a step.
LEMMA Weights ==
  /\ IInv => \A w \in Workers : WorkerLeft(w) \in 0 .. WorkerMost /\ Errand(w) \in 0 .. 7
  /\ IInv' => \A w \in Workers : WorkerLeft(w)' \in 0 .. WorkerMost /\ Errand(w)' \in 0 .. 7
  /\ Ahead \in 0 .. 10 /\ Ahead' \in 0 .. 10
  /\ \A w \in Workers : Unseen(w) \in {0, 6} /\ Unseen(w)' \in {0, 6}
<1>1. Ahead \in 0 .. 10 /\ Ahead' \in 0 .. 10
  BY DEF Ahead
<1>2. \A w \in Workers : Unseen(w) \in {0, 6} /\ Unseen(w)' \in {0, 6}
  BY DEF Unseen
<1>3. ASSUME IInv, NEW w \in Workers PROVE Errand(w) \in 0 .. 7
  <2>1. wpc[w] \in WorkerStates
    BY <1>3 DEF IInv, TypeOK, PlacesOK
  <2> QED
    BY <2>1 DEF WorkerStates, Errand
<1>4. ASSUME IInv', NEW w \in Workers PROVE Errand(w)' \in 0 .. 7
  <2>1. wpc'[w] \in WorkerStates
    BY <1>4 DEF IInv, TypeOK, PlacesOK
  <2> QED
    BY <2>1 DEF WorkerStates, Errand
<1> QED
  BY <1>1, <1>2, <1>3, <1>4 DEF WorkerLeft, WorkerMost

\* What the workers have left follows what each of them has.
LEMMA Together ==
  ASSUME IInv, IInv', \A w \in Workers : WorkerLeft(w)' <= WorkerLeft(w)
  PROVE  /\ WorkersLeft' <= WorkersLeft
         /\ \A w \in Workers : WorkerLeft(w)' < WorkerLeft(w) => WorkersLeft' < WorkersLeft
<1> DEFINE f == [w \in Workers |-> WorkerLeft(w)]
           g == [w \in Workers |-> WorkerLeft(w)']
           Pile(h) == {s \in Workers \X (1 .. WorkerMost) : s[2] <= h[s[1]]}
<1>1. f \in [Workers -> 0 .. WorkerMost] /\ g \in [Workers -> 0 .. WorkerMost]
  BY Weights
<1>2. \A w \in Workers : f[w] = WorkerLeft(w) /\ g[w] = WorkerLeft(w)'
  OBVIOUS
<1>3. WorkersLeft = Cardinality(Pile(f))
  <2>1. Pile(f) = {s \in Workers \X (1 .. WorkerMost) : s[2] <= WorkerLeft(s[1])}
    BY <1>2
  <2> QED
    BY <2>1 DEF WorkersLeft
<1>4. WorkersLeft' = Cardinality(Pile(g))
  <2>1. Pile(g) = {s \in Workers \X (1 .. WorkerMost) : s[2] <= WorkerLeft(s[1])'}
    BY <1>2
  <2>2. Workers' = Workers /\ WorkerMost' = WorkerMost
    BY DEF Workers, WorkerMost
  <2> QED
    BY <2>1, <2>2 DEF WorkersLeft
<1>5. \A w \in Workers : g[w] <= f[w]
  BY <1>2
<1> HIDE DEF f, g
<1>6. /\ Cardinality(Pile(g)) <= Cardinality(Pile(f))
      /\ \A w \in Workers : g[w] < f[w] => Cardinality(Pile(g)) < Cardinality(Pile(f))
  BY <1>1, <1>5, Piles
<1> QED
  BY <1>2, <1>3, <1>4, <1>6

\* What the arithmetic of a step needs to know.
LEMMA CallRanges ==
  ASSUME IInv, IInv'
  PROVE  /\ wpc \in [Workers -> WorkerStates] /\ seen \in [Workers -> Nat] /\ generation \in Nat
         /\ faults \in Nat /\ MaxWorkers \in Nat
         /\ next \in 1 .. nPref + 1 /\ nPref \in 1 .. MaxWorkers
         /\ Stopping /\ mpc # "join" => next = 1
         /\ \A v \in Workers : /\ WorkerLeft(v) \in Int /\ WorkerLeft(v)' \in Int
                               /\ Errand(v) \in Int /\ Errand(v)' \in Int
                               /\ Unseen(v) \in {0, 6} /\ Unseen(v)' \in {0, 6}
         /\ Ahead \in Int /\ Ahead' \in Int
<1>1. /\ wpc \in [Workers -> WorkerStates] /\ seen \in [Workers -> Nat] /\ generation \in Nat
      /\ faults \in Nat /\ MaxWorkers \in Nat
      /\ next \in 1 .. nPref + 1 /\ nPref \in 1 .. MaxWorkers
  <2>1. MaxWorkers \in Nat
    BY GateAssumption
  <2>2. wpc \in [Workers -> WorkerStates]
    BY DEF IInv, TypeOK, PlacesOK
  <2>3. generation \in Nat /\ faults \in Nat /\ seen \in [Workers -> 0 .. MaxCalls]
    BY DEF IInv, TypeOK, GateTypeOK
  <2>4. 0 .. MaxCalls \subseteq Nat
    OBVIOUS
  <2>5. seen \in [Workers -> Nat]
    BY <2>3, <2>4
  <2>6. next \in 1 .. nPref + 1 /\ nPref \in 1 .. MaxWorkers
    BY DEF IInv, TypeOK, PoolTypeOK, Workers
  <2> QED
    BY <2>1, <2>2, <2>3, <2>5, <2>6
<1>2. Stopping /\ mpc # "join" => next = 1
  BY DEF IInv, ControlInv
<1>3. \A v \in Workers : /\ WorkerLeft(v) \in Int /\ WorkerLeft(v)' \in Int
                        /\ Errand(v) \in Int /\ Errand(v)' \in Int
                        /\ Unseen(v) \in {0, 6} /\ Unseen(v)' \in {0, 6}
  BY Weights DEF WorkerMost
<1>4. Ahead \in Int /\ Ahead' \in Int
  BY Weights
<1> QED
  BY <1>1, <1>2, <1>3, <1>4

\* A worker's step takes one of its own, and leaves the others' alone.
LEMMA WorkerRunsDown ==
  ASSUME IInv, IInv', NEW w \in Workers, InCall, faults' = faults,
         (GateWorker(w) /\ UNCHANGED poolVars) \/ CallbackEnd(w)
  PROVE  WorkersLeft' < WorkersLeft
<1>0. /\ wpc \in [Workers -> WorkerStates] /\ seen \in [Workers -> Nat] /\ generation \in Nat
      /\ faults \in Nat
      /\ \A v \in Workers : /\ WorkerLeft(v) \in Int /\ WorkerLeft(v)' \in Int
                            /\ Errand(v) \in Int /\ Errand(v)' \in Int
                            /\ Unseen(v) \in {0, 6} /\ Unseen(v)' \in {0, 6}
      /\ Ahead \in Int /\ Ahead' \in Int
      /\ wpc[w] \in {"run", "finish"} => seen[w] = generation
  BY Weights, GateAssumption DEF IInv, TypeOK, GateTypeOK, PlacesOK, WorkerMost, ThreadsInv
<1>1. generation' = generation /\ Ahead' = Ahead
  <2>1. CASE GateWorker(w)
    <3>1. generation' = generation /\ (mpc' = mpc \/ (mpc = "waiting" /\ mpc' = "waitWoken"))
      BY <2>1, WorkerFrame
    <3> QED
      BY <3>1 DEF Ahead, InCall
  <2>2. CASE CallbackEnd(w)
    BY <2>2 DEF CallbackEnd, GateRest, Ahead, InCall
  <2> QED
    BY <2>1, <2>2
<1>2. /\ \A v \in Workers \ {w} : wpc'[v] = wpc[v] /\ seen'[v] = seen[v]
      /\ Errand(w)' + Unseen(w)' < Errand(w) + Unseen(w)
  <2> USE DEF Errand, Unseen, Fault
  <2>1. CASE WorkerBoot(w) \/ WorkerEnter(w)
    BY <1>0, <1>1, <2>1 DEF WorkerBoot, WorkerEnter, WorkerMoves
  <2>2. CASE WorkerRefused(w) \/ WorkerWakesSpuriously(w) \/ WorkerWaitFails(w)
             \/ WorkerUnlockFails(w) \/ NotifyLockFails(w) \/ NotifySignalFails(w)
    <3>1. faults' = faults - 1
      BY <2>2 DEF WorkerRefused, WorkerWakesSpuriously, WorkerWaitFails, WorkerUnlockFails,
                  NotifyLockFails, NotifySignalFails, Report
    <3> QED
      BY <1>0, <3>1
  <2>3. CASE WorkerPark(w)
    BY <1>0, <1>1, <2>3 DEF WorkerPark, WorkerMoves
  <2>4. CASE WorkerGo(w)
    BY <1>0, <1>1, <2>4 DEF WorkerGo, WorkerMoves
  <2>5. CASE WorkerLeave(w)
    BY <1>0, <1>1, <2>5 DEF WorkerLeave, WorkerMoves
  <2>6. CASE WorkerCancelled(w)
    BY <1>0, <1>1, <2>6 DEF WorkerCancelled
  <2>7. CASE WorkerDone(w)
    BY <1>0, <1>1, <2>7 DEF WorkerDone
  <2>8. CASE NotifyLock(w)
    BY <1>0, <1>1, <2>8 DEF NotifyLock
  <2>9. CASE NotifySignal(w)
    BY <1>0, <1>1, <2>9 DEF NotifySignal, AfterNotify
  <2>10. CASE CallbackEnd(w)
    BY <1>0, <1>1, <2>10 DEF CallbackEnd, WorkerMoves, GateRest
  <2> QED
    BY <2>1, <2>2, <2>3, <2>4, <2>5, <2>6, <2>7, <2>8, <2>9, <2>10 DEF GateWorker
<1>3. \A v \in Workers \ {w} : WorkerLeft(v)' = WorkerLeft(v)
  BY <1>1, <1>2 DEF WorkerLeft, Errand, Unseen
<1>4. WorkerLeft(w)' < WorkerLeft(w)
  BY <1>0, <1>1, <1>2 DEF WorkerLeft
<1>5. \A v \in Workers : WorkerLeft(v)' <= WorkerLeft(v)
  BY <1>0, <1>3, <1>4
<1> QED
  BY <1>4, <1>5, Together

\* The caller's step takes one of its own, and adds nothing to the workers'
\* that was not counted ahead.
LEMMA GateRunsDown ==
  ASSUME IInv, IInv', InCall, faults' = faults, GateCaller, UNCHANGED poolVars
  PROVE  WorkersLeft' <= WorkersLeft /\ CallerLeft' < CallerLeft
<1>0. /\ wpc \in [Workers -> WorkerStates] /\ seen \in [Workers -> Nat] /\ generation \in Nat
      /\ faults \in Nat /\ MaxWorkers \in Nat
      /\ next \in 1 .. nPref + 1 /\ nPref \in 1 .. MaxWorkers
      /\ Stopping /\ mpc # "join" => next = 1
      /\ \A v \in Workers : /\ WorkerLeft(v) \in Int /\ WorkerLeft(v)' \in Int
                            /\ Errand(v) \in Int /\ Errand(v)' \in Int
                            /\ Unseen(v) \in {0, 6} /\ Unseen(v)' \in {0, 6}
      /\ Ahead \in Int /\ Ahead' \in Int
  BY CallRanges
<1>1. CASE GateLockFails \/ GateOpenFails \/ WaitFails \/ WaitInterrupted \/ ExitLockFails
           \/ ExitOpenFails
  <2>1. faults' = faults - 1
    BY <1>1 DEF GateLockFails, GateOpenFails, WaitFails, WaitInterrupted, ExitLockFails,
                ExitOpenFails, UnlockBroadcastFails, Fault
  <2> QED
    BY <1>0, <2>1
<1>2. CASE GateArm(nWorkers)
  <2>1. /\ mpc = "dispatch" /\ mpc' = "opening" /\ UNCHANGED <<wpc, seen, next, nPref>>
    BY <1>2 DEF GateArm, CallerMoves, poolVars
  <2>2. Ahead' = Ahead - 6
    BY <2>1 DEF Ahead, InCall
  <2>3. \A v \in Workers : WorkerLeft(v)' <= WorkerLeft(v)
    <3>1. \A v \in Workers : Errand(v)' = Errand(v)
      BY <2>1 DEF Errand
    <3> QED
      BY <1>0, <2>2, <3>1 DEF WorkerLeft
  <2>4. CallerLeft' < CallerLeft
    BY <1>0, <2>1 DEF CallerLeft
  <2> QED
    BY <2>3, <2>4, Together
<1>3. CASE GateOpen \/ ExitOpen
  <2>1. /\ (mpc = "opening" /\ mpc' = "waitCheck") \/ (mpc = "exiting" /\ mpc' = "join")
        /\ wpc' = Woken /\ UNCHANGED <<generation, seen, next, nPref>>
    BY <1>3 DEF GateOpen, ExitOpen, UnlockBroadcast, CallerMoves, poolVars
  <2>2. Ahead' = Ahead - 2
    BY <2>1 DEF Ahead, InCall
  <2>3. \A v \in Workers : WorkerLeft(v)' <= WorkerLeft(v)
    <3>1. \A v \in Workers : Errand(v)' <= Errand(v) + 2
      <4> SUFFICES ASSUME NEW v \in Workers PROVE Errand(v)' <= Errand(v) + 2
        OBVIOUS
      <4>1. CASE wpc[v] = "parked"
        BY <2>1, <4>1 DEF Woken, Errand
      <4>2. CASE wpc[v] # "parked"
        <5>1. wpc'[v] = wpc[v]
          BY <2>1, <4>2 DEF Woken
        <5>2. Errand(v)' = Errand(v)
          BY <5>1 DEF Errand
        <5> QED
          BY <1>0, <5>2
      <4> QED
        BY <4>1, <4>2
    <3>2. \A v \in Workers : Unseen(v)' = Unseen(v)
      BY <2>1 DEF Unseen
    <3> QED
      BY <1>0, <2>2, <3>1, <3>2 DEF WorkerLeft
  <2>4. CallerLeft' < CallerLeft
    BY <1>0, <2>1 DEF CallerLeft, Stopping
  <2> QED
    BY <2>3, <2>4, Together
<1>4. CASE WaitCheck \/ WaitLock \/ WaitTest \/ WaitSleep \/ WaitTimeout \/ WaitLate \/ WaitEnd
           \/ ExitLock
  <2>1. UNCHANGED <<wpc, seen, generation, next, nPref>>
    BY <1>4 DEF WaitCheck, WaitLock, WaitTest, WaitSleep, WaitTimeout, WaitLate, WaitEnd,
                ExitLock, poolVars
  <2>2. /\ mpc \in {"waitCheck", "waitLock", "waitWoken", "waitHeld", "waitSleep", "waiting",
                    "waitLate", "waitEnd", "stop"}
        /\ mpc' \in {"waitLock", "waitHeld", "waitSleep", "waiting", "waitLate", "waitEnd",
                     "dispatched", "gateFailed", "exiting"}
        /\ CallerLeft' < CallerLeft
    BY <1>0, <1>4 DEF WaitCheck, WaitLock, WaitTest, WaitSleep, WaitTimeout, WaitLate, WaitEnd,
                ExitLock, CallerMoves, CallerLeft
  <2>3. Ahead' = Ahead
    BY <2>2 DEF Ahead, InCall
  <2>4. \A v \in Workers : WorkerLeft(v)' = WorkerLeft(v)
    BY <2>1, <2>3 DEF WorkerLeft, Errand, Unseen
  <2> QED
    BY <1>0, <2>2, <2>4, Together
<1> QED
  BY <1>1, <1>2, <1>3, <1>4 DEF GateCaller

LEMMA PoolRunsDown ==
  ASSUME IInv, IInv', MadeInv, InCall, faults' = faults, PoolCaller
  PROVE  WorkersLeft' <= WorkersLeft /\ CallerLeft' < CallerLeft
<1>0. /\ wpc \in [Workers -> WorkerStates] /\ seen \in [Workers -> Nat] /\ generation \in Nat
      /\ faults \in Nat /\ MaxWorkers \in Nat
      /\ next \in 1 .. nPref + 1 /\ nPref \in 1 .. MaxWorkers
      /\ Stopping /\ mpc # "join" => next = 1
      /\ \A v \in Workers : /\ WorkerLeft(v) \in Int /\ WorkerLeft(v)' \in Int
                            /\ Errand(v) \in Int /\ Errand(v)' \in Int
                            /\ Unseen(v) \in {0, 6} /\ Unseen(v)' \in {0, 6}
      /\ Ahead \in Int /\ Ahead' \in Int
  BY CallRanges
<1>1. ASSUME UNCHANGED <<wpc, seen, generation>>, Ahead' <= Ahead, CallerLeft' < CallerLeft
      PROVE  WorkersLeft' <= WorkersLeft /\ CallerLeft' < CallerLeft
  <2>1. \A v \in Workers : Errand(v)' = Errand(v) /\ Unseen(v)' = Unseen(v)
    BY <1>1 DEF Errand, Unseen
  <2>2. \A v \in Workers : WorkerLeft(v)' <= WorkerLeft(v)
    BY <1>0, <1>1, <2>1 DEF WorkerLeft
  <2> QED
    BY <1>1, <2>2, Together
<1>2. CASE SetupFails \/ JoinFails
  <2>1. faults' = faults - 1
    BY <1>2 DEF SetupFails, JoinFails, Fault
  <2> QED
    BY <1>0, <2>1
<1>3. CASE Begin \/ Destroy
  BY <1>3 DEF Begin, Destroy, InCall
<1>4. CASE Setup
  BY <1>0, <1>1, <1>4 DEF Setup, GateRest, CallerMoves, Ahead, InCall, CallerLeft
<1>5. CASE Construct
  <2>1. /\ mpc = "construct" /\ mpc' = "construct" /\ next \in Workers /\ next' = next + 1
        /\ nPref' = nPref /\ next <= nPref
    BY <1>0, <1>5 DEF Construct, Workers
  <2>2. Ahead' = Ahead /\ CallerLeft' < CallerLeft
    BY <1>0, <2>1 DEF Ahead, InCall, CallerLeft
  <2>3. CASE Inline
    BY <1>0, <1>1, <1>5, <2>2, <2>3 DEF Construct
  <2>4. CASE ~Inline
    <3>1. /\ wpc' = [wpc EXCEPT ![next] = "boot"] /\ seen' = [seen EXCEPT ![next] = generation]
          /\ generation' = generation
      BY <1>5, <2>4 DEF Construct
    <3>2. wpc[next] = "none"
      <4>1. lazy = "no" /\ slots = 1 .. (next - 1)
        BY <2>1 DEF IInv, ControlInv, SlotsInv
      <4> QED
        BY <1>0, <2>1, <4>1 DEF MadeInv, Stopping
    <3>3. \A v \in Workers \ {next} : Errand(v)' = Errand(v) /\ Unseen(v)' = Unseen(v)
      BY <1>0, <3>1 DEF Errand, Unseen
    <3>4. PICK v \in Workers : v = next
      BY <2>1
    <3>5. wpc[v] = "none" /\ wpc'[v] = "boot" /\ seen'[v] = generation'
      BY <1>0, <3>1, <3>2, <3>4
    <3>6. Errand(v) = 5 /\ Errand(v)' = 4 /\ Unseen(v)' = 0
      BY <3>5 DEF Errand, Unseen
    <3>7. WorkerLeft(v)' <= WorkerLeft(v)
      BY <1>0, <2>2, <3>6 DEF WorkerLeft
    <3>8. \A u \in Workers \ {v} : WorkerLeft(u)' <= WorkerLeft(u)
      BY <1>0, <2>2, <3>3, <3>4 DEF WorkerLeft
    <3>9. \A u \in Workers : WorkerLeft(u)' <= WorkerLeft(u)
      BY <3>7, <3>8
    <3> QED
      BY <2>2, <3>9, Together
  <2> QED
    BY <2>3, <2>4
<1>6. CASE Built
  BY <1>0, <1>1, <1>6 DEF Built, EntryPoint, GateRest, Ahead, InCall, CallerLeft
<1>7. CASE InlineStart
  BY <1>0, <1>1, <1>7 DEF InlineStart, poolVars, GateRest, CallerMoves, Ahead, InCall, CallerLeft
<1>8. CASE InlineEnd
  BY <1>0, <1>1, <1>8 DEF InlineEnd, GateRest, CallerMoves, Ahead, InCall, CallerLeft
<1>9. CASE DispatchOk
  BY <1>0, <1>1, <1>9 DEF DispatchOk, GateRest, Returns, Ahead, InCall, CallerLeft
<1>10. CASE Poison
  BY <1>0, <1>1, <1>10 DEF Poison, GateRest, Ahead, InCall, CallerLeft
<1>11. CASE Cancel
  BY <1>0, <1>1, <1>11 DEF Cancel, CallerMoves, Ahead, InCall, CallerLeft, Stopping
<1>12. CASE Join
  BY <1>0, <1>1, <1>12 DEF Join, GateRest, Ahead, InCall, CallerLeft
<1>13. CASE Retired
  BY <1>0, <1>1, <1>13 DEF Retired, Stopped, GateRest, Returns, Ahead, InCall, CallerLeft
<1>14. CASE Poisoned
  BY <1>0, <1>1, <1>14 DEF Poisoned, Stopped, GateRest, Returns, Ahead, InCall, CallerLeft
<1>15. CASE Destroyed
  BY <1>0, <1>1, <1>15 DEF Destroyed, Stopped, GateRest, Ahead, InCall, CallerLeft
<1> QED
  BY <1>2, <1>3, <1>4, <1>5, <1>6, <1>7, <1>8, <1>9, <1>10, <1>11, <1>12, <1>13, <1>14,
     <1>15 DEF PoolCaller

\* Every call is short, for every number of workers and whichever calls fail: at
\* any time the workers have at most 23 steps each to take and the caller, but
\* for being woken by a worker, at most 16 and two for each thread record.  Every
\* step that is not a failure takes one of the workers' steps, or adds none to
\* them and takes one of the caller's.  With NobodyIsStuck this is EveryCallReturns,
\* but for the temporal step from a falling measure to its end.
THEOREM CallsRunOut ==
    Spec => /\ [](/\ WorkersLeft \in 0 .. MaxWorkers * WorkerMost
                  /\ CallerLeft \in 0 .. CallerMost)
            /\ [][CallRunsDown]_vars
<1>1. Init => MadeInv
  BY DEF Init, MadeInv
<1>2. ASSUME IInv PROVE WorkersLeft \in 0 .. MaxWorkers * WorkerMost
  <2> DEFINE f == [w \in Workers |-> WorkerLeft(w)]
             Pile(h) == {s \in Workers \X (1 .. WorkerMost) : s[2] <= h[s[1]]}
  <2>1. f \in [Workers -> 0 .. WorkerMost] /\ \A w \in Workers : f[w] <= f[w]
    BY <1>2, Weights DEF WorkerMost
  <2>2. WorkersLeft = Cardinality(Pile(f))
    <3>1. Pile(f) = {s \in Workers \X (1 .. WorkerMost) : s[2] <= WorkerLeft(s[1])}
      OBVIOUS
    <3> QED
      BY <3>1 DEF WorkersLeft
  <2> HIDE DEF f
  <2>3. Cardinality(Pile(f)) \in Nat /\ Cardinality(Pile(f)) <= MaxWorkers * WorkerMost
    BY <2>1, Piles
  <2> QED
    BY <2>2, <2>3, GateAssumption DEF WorkerMost
<1>3. ASSUME IInv PROVE CallerLeft \in 0 .. CallerMost
  <2>1. next \in 1 .. nPref + 1 /\ nPref \in 1 .. MaxWorkers /\ MaxWorkers \in Nat
    BY <1>3, GateAssumption DEF IInv, TypeOK, PoolTypeOK, Workers
  <2>2. CASE mpc \in {"setup", "construct", "join"}
    <3>1. \/ CallerLeft = 2 * MaxWorkers + 16
          \/ CallerLeft = MaxWorkers + 15 + (nPref + 1 - next)
          \/ CallerLeft = nPref + 2 - next
      BY <2>2 DEF CallerLeft
    <3> QED
      BY <2>1, <3>1 DEF CallerMost
  <2>3. CASE mpc \in CallerStates \ {"setup", "construct", "join"}
    <3>1. \/ CallerLeft = 0
          \/ \E k \in 2 .. 14 : CallerLeft = MaxWorkers + k
      BY <2>3 DEF CallerLeft, CallerStates
    <3> QED
      BY <2>1, <3>1 DEF CallerMost
  <2>4. mpc \in CallerStates
    BY <1>3 DEF IInv, TypeOK, PlacesOK
  <2> QED
    BY <2>2, <2>3, <2>4
<1>4. ASSUME IInv, MadeInv, [Next]_vars PROVE MadeInv' /\ [CallRunsDown]_vars
  <2>1. IInv'
    BY <1>4, InvStep
  <2>2. MadeInv'
    BY <1>4, MadeStep
  <2>3. CASE InCall /\ faults' = faults /\ Next
    <3>1. CASE \E w \in Workers : (GateWorker(w) /\ UNCHANGED poolVars) \/ CallbackEnd(w)
      BY <1>4, <2>1, <2>2, <2>3, <3>1, WorkerRunsDown DEF CallRunsDown
    <3>2. CASE GateCaller /\ UNCHANGED poolVars
      BY <1>4, <2>1, <2>2, <2>3, <3>2, GateRunsDown DEF CallRunsDown
    <3>3. CASE PoolCaller
      BY <1>4, <2>1, <2>2, <2>3, <3>3, PoolRunsDown DEF CallRunsDown
    <3> QED
      BY <2>3, <3>1, <3>2, <3>3 DEF Next, Gone, InCall
  <2> QED
    BY <1>4, <2>2, <2>3 DEF CallRunsDown
<1> QED
  BY <1>1, <1>2, <1>3, <1>4, Invariance, PTL DEF Spec
=============================================================================
