----------------------------- MODULE WorkerPool -----------------------------
(***************************************************************************)
(* The worker-pool lifecycle of src/src/worker_pool.h over the gate of     *)
(* PoolGate: lazy start with sticky failure and partial spawn, dispatch,   *)
(* poison, stop with join or cancellation, and destroy.                    *)
(*                                                                         *)
(* The owner (usm_pool.c, scaler_zimg.c) is sequential: it calls the pool  *)
(* while mpc is "idle", and never dispatches on a pool that is broken or   *)
(* that failed to start (both owners test that first).  A worker's "run"   *)
(* is the owner callback that reads and writes pictures borrowed from the  *)
(* caller of the dispatch.                                                 *)
(***************************************************************************)
EXTENDS PoolGate

CONSTANT MaxCalls    \* bound: dispatches in one behaviour

ASSUME PoolAssumption == MaxCalls \in Nat

VARIABLES
    nPref,        \* workers requested; 1 means the inline pool
    allOrNothing, \* ops->all_or_nothing: zimg TRUE, USM FALSE
    nWorkers,     \* workers that came up
    lazy,         \* lazy_done / lazy_failed
    broken,       \* poisoned
    gateReady,    \* up_pool_gate_ready: the gate is initialised
    started,      \* thread records whose started flag is set
    slots,        \* constructed slots that were not released
    freed,        \* the slot and thread arrays and the gate are gone
    next,         \* loop index of construct_all and of stop's join loop
    stopFor,      \* who called up_worker_pool_stop
    joinFailed,   \* stop's result so far
    result,       \* what the last dispatch returned
    calls,        \* history: dispatches begun
    ran           \* history, per slot: callbacks completed

poolVars == <<nPref, allOrNothing, nWorkers, lazy, broken, gateReady, started,
              slots, freed, next, stopFor, joinFailed, result, calls, ran>>
vars == <<gateVars, poolVars>>

Inline == nPref = 1

\* Where up_worker_pool_dispatch starts, by its first test.
EntryPoint == IF Inline THEN "inline" ELSE "dispatch"

Returns(r) == mpc' = "idle" /\ result' = r

\* What a pool operation leaves alone of the gate while only the caller moves.
GateRest == <<generation, exitRequested, pending, syncFailed, lock, doneLock,
              seen, cancelled>>

Init ==
    /\ GateInit
    /\ seen = [w \in Workers |-> 0]
    /\ cancelled = {}
    /\ wpc = [w \in Workers |-> "none"]
    /\ mpc = "idle"
    /\ faults = MaxFaults
    /\ nPref \in Workers
    /\ allOrNothing \in BOOLEAN
    /\ nWorkers = 0
    /\ lazy = "no"
    /\ broken = FALSE
    /\ gateReady = FALSE
    /\ started = {}
    /\ slots = {}
    /\ freed = FALSE
    /\ next = 1
    /\ stopFor = "none"
    /\ joinFailed = FALSE
    /\ result = "none"
    /\ calls = 0
    /\ ran = [w \in Workers |-> 0]

-----------------------------------------------------------------------------
(* Start: up_worker_pool_ensure_started and up_worker_pool_start. *)

\* The owner dispatches a frame: on a started pool at once, else it is started.
Begin ==
    /\ mpc = "idle" /\ ~broken /\ lazy # "failed" /\ calls < MaxCalls
    /\ calls' = calls + 1
    /\ mpc' = IF lazy = "no" THEN "setup" ELSE EntryPoint
    /\ UNCHANGED <<GateRest, wpc, faults, nPref, allOrNothing, nWorkers, lazy, broken,
                   gateReady, started, slots, freed, next, stopFor, joinFailed, result, ran>>

\* up__pool_setup: prepare hook, arrays, gate.  The gate is ready only if all
\* of it succeeds; an inline pool has none.
Setup ==
    /\ CallerMoves("setup", "construct")
    /\ gateReady' = ~Inline
    /\ next' = 1
    /\ UNCHANGED <<GateRest, wpc, faults, nPref, allOrNothing, nWorkers, lazy, broken,
                   started, slots, freed, stopFor, joinFailed, result, calls, ran>>

SetupFails ==
    /\ mpc = "setup"
    /\ Fault
    /\ lazy' = "failed"
    /\ Returns("failed")
    /\ UNCHANGED <<GateRest, wpc, nPref, allOrNothing, nWorkers, broken, gateReady,
                   started, slots, freed, next, stopFor, joinFailed, calls, ran>>

\* up__pool_construct_one: build the slot and, unless inline, spawn its worker
\* with the current generation already seen.
Construct ==
    /\ mpc = "construct" /\ next <= nPref
    /\ slots' = slots \cup {next}
    /\ IF Inline
       THEN UNCHANGED <<started, wpc, seen>>
       ELSE /\ started' = started \cup {next}
            /\ wpc' = [wpc EXCEPT ![next] = "boot"]
            /\ seen' = [seen EXCEPT ![next] = generation]
    /\ next' = next + 1
    /\ UNCHANGED <<generation, exitRequested, pending, syncFailed, lock, doneLock,
                   cancelled, mpc, faults, nPref, allOrNothing, nWorkers, lazy,
                   broken, gateReady, freed, stopFor, joinFailed, result, calls, ran>>

\* The end of the construct_all loop, or a construct or spawn failure that ends
\* it early (a slot without a thread is released at once), and up__pool_build_ok.
BuildOk(built) == built > 0 /\ (allOrNothing => built = nPref)

Built ==
    /\ mpc = "construct"
    /\ MayFault(next <= nPref)
    /\ LET built == next - 1 IN
        /\ nWorkers' = built
        /\ IF BuildOk(built)
           THEN /\ lazy' = "done"
                /\ mpc' = EntryPoint
                /\ UNCHANGED <<stopFor, joinFailed>>
           ELSE /\ mpc' = IF gateReady THEN "stop" ELSE "join"
                /\ stopFor' = "retire"
                /\ joinFailed' = FALSE
                /\ UNCHANGED lazy
    /\ next' = 1
    /\ UNCHANGED <<GateRest, wpc, nPref, allOrNothing, broken, gateReady,
                   started, slots, freed, result, calls, ran>>

-----------------------------------------------------------------------------
(* Dispatch: up_worker_pool_dispatch, and the owner's poison after it. *)

\* PERF-1: the only slot runs on the calling thread.
InlineStart ==
    /\ CallerMoves("inline", "inlineRun")
    /\ UNCHANGED <<GateRest, wpc, faults, poolVars>>

InlineEnd ==
    /\ CallerMoves("inlineRun", "dispatched")
    /\ ran' = [ran EXCEPT ![1] = @ + 1]
    /\ UNCHANGED <<GateRest, wpc, faults, nPref, allOrNothing, nWorkers, lazy, broken,
                   gateReady, started, slots, freed, next, stopFor, joinFailed,
                   result, calls>>

\* The owner callback returns on a worker.
CallbackEnd(w) ==
    /\ WorkerMoves(w, "run", "finish")
    /\ ran' = [ran EXCEPT ![w] = @ + 1]
    /\ UNCHANGED <<GateRest, mpc, faults, nPref, allOrNothing, nWorkers, lazy, broken,
                   gateReady, started, slots, freed, next, stopFor, joinFailed,
                   result, calls>>

DispatchOk ==
    /\ mpc = "dispatched"
    /\ Returns("ok")
    /\ UNCHANGED <<GateRest, wpc, faults, nPref, allOrNothing, nWorkers, lazy, broken,
                   gateReady, started, slots, freed, next, stopFor, joinFailed, calls, ran>>

\* up_worker_pool_poison: after a gate failure, or by the owner when a worker
\* reported an error in its slot after a dispatch that completed.
Poison ==
    /\ mpc = "gateFailed" \/ (mpc = "idle" /\ result = "ok" /\ ~broken /\ ~freed)
    /\ broken' = TRUE
    /\ result' = "failed"
    /\ mpc' = IF gateReady THEN "stop" ELSE "join"
    /\ stopFor' = "poison"
    /\ joinFailed' = FALSE
    /\ next' = 1
    /\ UNCHANGED <<GateRest, wpc, faults, nPref, allOrNothing, nWorkers, lazy, gateReady,
                   started, slots, freed, calls, ran>>

-----------------------------------------------------------------------------
(* Stop: request the exit (PoolGate), cancel if that failed, join. *)

\* up__pool_cancel_started.  pthread_cancel of a thread that already ended
\* fails, which only sets broken again.
Cancel ==
    /\ CallerMoves("cancel", "join")
    /\ broken' = TRUE
    /\ cancelled' = cancelled \cup started
    /\ UNCHANGED <<generation, exitRequested, pending, syncFailed, lock, doneLock, seen,
                   wpc, faults, nPref, allOrNothing, nWorkers, lazy, gateReady, started,
                   slots, freed, next, stopFor, joinFailed, result, calls, ran>>

\* Wrong variant: the loop runs one record too far.
JoinOneTooFar ==
    /\ mpc = "join" /\ next <= nPref + 1
    /\ next \in started => wpc[next] = "exited"
    /\ started' = started \ {next}
    /\ next' = next + 1
    /\ UNCHANGED <<GateRest, wpc, mpc, faults, nPref, allOrNothing, nWorkers, lazy,
                   broken, gateReady, slots, freed, stopFor, joinFailed, result, calls, ran>>

\* One turn of the join loop: blocks until the thread has ended.
Join ==
    /\ mpc = "join" /\ next <= nPref
    /\ next \in started => wpc[next] = "exited"
    /\ started' = started \ {next}
    /\ next' = next + 1
    /\ UNCHANGED <<GateRest, wpc, mpc, faults, nPref, allOrNothing, nWorkers, lazy,
                   broken, gateReady, slots, freed, stopFor, joinFailed, result, calls, ran>>

\* pthread_join returns an error at once: the thread may still be running.
JoinFails ==
    /\ mpc = "join" /\ next \in started
    /\ Fault
    /\ broken' = TRUE
    /\ joinFailed' = TRUE
    /\ next' = next + 1
    /\ UNCHANGED <<GateRest, wpc, mpc, nPref, allOrNothing, nWorkers, lazy, gateReady,
                   started, slots, freed, stopFor, result, calls, ran>>

Stopped(caller) == mpc = "join" /\ next > nPref /\ stopFor = caller

\* Wrong variant: the slots are released although a worker was not reaped.
RetiredAnyway ==
    /\ Stopped("retire")
    /\ slots' = slots \ (1 .. nWorkers) /\ nWorkers' = 0
    /\ lazy' = "failed"
    /\ Returns("failed")
    /\ UNCHANGED <<GateRest, wpc, faults, nPref, allOrNothing, broken, gateReady, started,
                   freed, next, stopFor, joinFailed, calls, ran>>

\* up__pool_retire_failed_start: slots go only once every worker is reaped.
Retired ==
    /\ Stopped("retire")
    /\ IF joinFailed
       THEN UNCHANGED <<slots, nWorkers>>
       ELSE slots' = slots \ (1 .. nWorkers) /\ nWorkers' = 0
    /\ lazy' = "failed"
    /\ Returns("failed")
    /\ UNCHANGED <<GateRest, wpc, faults, nPref, allOrNothing, broken, gateReady, started,
                   freed, next, stopFor, joinFailed, calls, ran>>

\* Wrong variant: poison returns as soon as stop does.
PoisonedWithoutExitWait ==
    /\ Stopped("poison")
    /\ Returns("failed")
    /\ UNCHANGED <<GateRest, wpc, faults, nPref, allOrNothing, nWorkers, lazy, broken,
                   gateReady, started, slots, freed, next, stopFor, joinFailed, calls, ran>>

\* The end of up_worker_pool_poison: a worker whose join failed must at least
\* have published exited (UB-13) before the borrowed pictures go back.
Poisoned ==
    /\ Stopped("poison")
    /\ \A w \in started : wpc[w] = "exited"
    /\ Returns("failed")
    /\ UNCHANGED <<GateRest, wpc, faults, nPref, allOrNothing, nWorkers, lazy, broken,
                   gateReady, started, slots, freed, next, stopFor, joinFailed, calls, ran>>

\* up_worker_pool_destroy, called at any time the pool is not in a call.
Destroy ==
    /\ mpc = "idle"
    /\ mpc' = IF gateReady THEN "stop" ELSE "join"
    /\ stopFor' = "destroy"
    /\ joinFailed' = FALSE
    /\ next' = 1
    /\ UNCHANGED <<GateRest, wpc, faults, nPref, allOrNothing, nWorkers, lazy, broken,
                   gateReady, started, slots, freed, result, calls, ran>>

Destroyed ==
    /\ Stopped("destroy")
    /\ IF joinFailed
       THEN /\ mpc' = "quarantined"
            /\ UNCHANGED <<slots, nWorkers, freed, gateReady>>
       ELSE /\ mpc' = "closed"
            /\ slots' = slots \ (1 .. nWorkers)
            /\ nWorkers' = 0
            /\ freed' = TRUE
            /\ gateReady' = FALSE
    /\ UNCHANGED <<GateRest, wpc, faults, nPref, allOrNothing, lazy, broken, started,
                   next, stopFor, joinFailed, result, calls, ran>>

\* The owner is gone; workers of a quarantined pool may still be winding down.
Gone == mpc \in {"closed", "quarantined"} /\ UNCHANGED vars

-----------------------------------------------------------------------------
GateWorker(w) ==
    \/ WorkerBoot(w) \/ WorkerRefused(w) \/ WorkerEnter(w) \/ WorkerPark(w)
    \/ WorkerWakesSpuriously(w) \/ WorkerWaitFails(w) \/ WorkerGo(w) \/ WorkerLeave(w)
    \/ WorkerUnlockFails(w) \/ WorkerCancelled(w) \/ WorkerDone(w)
    \/ NotifyLock(w) \/ NotifyLockFails(w) \/ NotifySignal(w) \/ NotifySignalFails(w)

GateCaller ==
    \/ GateArm(nWorkers) \/ GateLockFails \/ GateOpen \/ GateOpenFails
    \/ WaitCheck \/ WaitFails \/ WaitLock \/ WaitTest \/ WaitSleep \/ WaitInterrupted \/ WaitTimeout
    \/ WaitLate \/ WaitEnd \/ ExitLock \/ ExitLockFails \/ ExitOpen \/ ExitOpenFails

PoolCaller ==
    \/ Begin \/ Setup \/ SetupFails \/ Construct \/ Built \/ InlineStart \/ InlineEnd
    \/ DispatchOk \/ Poison
    \/ Cancel \/ Join \/ JoinFails \/ Retired \/ Poisoned \/ Destroy \/ Destroyed

Next ==
    \/ \E w \in Workers : GateWorker(w) /\ UNCHANGED poolVars
    \/ \E w \in Workers : CallbackEnd(w)
    \/ GateCaller /\ UNCHANGED poolVars
    \/ PoolCaller
    \/ Gone

Spec == Init /\ [][Next]_vars

(***************************************************************************)
(* Fairness.  The scheduler runs every runnable thread, mutexes are        *)
(* granted, callbacks return, a cancellation request reaches a waiter, and *)
(* the monotonic deadline of a completion wait passes.  Nothing is assumed *)
(* of faults, of spurious wakeups, or of the owner calling again.          *)
(***************************************************************************)
WorkerProgress(w) ==
    \/ /\ \/ WorkerBoot(w) \/ WorkerEnter(w) \/ WorkerPark(w) \/ WorkerGo(w)
          \/ WorkerLeave(w) \/ WorkerCancelled(w) \/ WorkerDone(w)
          \/ NotifyLock(w) \/ NotifySignal(w)
       /\ UNCHANGED poolVars
    \/ CallbackEnd(w)

CallerProgress ==
    \/ /\ \/ GateArm(nWorkers) \/ GateOpen \/ WaitCheck \/ WaitLock \/ WaitTest
          \/ WaitSleep \/ WaitTimeout \/ WaitLate \/ WaitEnd \/ ExitLock \/ ExitOpen
       /\ UNCHANGED poolVars
    \/ Setup \/ Construct \/ Built \/ InlineStart \/ InlineEnd \/ DispatchOk
    \/ (mpc = "gateFailed" /\ Poison)
    \/ Cancel \/ Join \/ Retired \/ Poisoned \/ Destroyed

FairSpec ==
    /\ Spec
    /\ \A w \in Workers : WF_vars(WorkerProgress(w))
    /\ WF_vars(CallerProgress)

-----------------------------------------------------------------------------
WorkerStates ==
    {"none", "boot", "enter", "held", "parked", "woken", "run", "finish",
     "notify", "notifying", "report", "reporting", "exited"}

CallerStates ==
    {"idle", "setup", "construct", "inline", "inlineRun", "dispatch", "opening",
     "waitCheck", "waitLock", "waitHeld", "waitSleep", "waiting", "waitWoken",
     "waitLate", "waitEnd", "dispatched", "gateFailed", "stop", "exiting",
     "cancel", "join", "closed", "quarantined"}

GateTypeOK ==
    /\ generation \in 0 .. MaxCalls
    /\ exitRequested \in BOOLEAN
    /\ pending \in 0 .. MaxWorkers
    /\ syncFailed \in BOOLEAN
    /\ lock \in 0 .. NoOne
    /\ doneLock \in 0 .. NoOne
    /\ seen \in [Workers -> 0 .. MaxCalls]
    /\ cancelled \in SUBSET Workers
    /\ faults \in 0 .. MaxFaults

PlacesOK ==
    /\ wpc \in [Workers -> WorkerStates]
    /\ mpc \in CallerStates

PoolTypeOK ==
    /\ nPref \in Workers
    /\ allOrNothing \in BOOLEAN
    /\ nWorkers \in 0 .. nPref
    /\ lazy \in {"no", "done", "failed"}
    /\ broken \in BOOLEAN
    /\ gateReady \in BOOLEAN
    /\ started \in SUBSET (1 .. nPref)
    /\ slots \in SUBSET (1 .. nPref)
    /\ freed \in BOOLEAN
    /\ next \in 1 .. nPref + 1
    /\ stopFor \in {"none", "poison", "retire", "destroy"}
    /\ joinFailed \in BOOLEAN
    /\ result \in {"none", "ok", "failed"}
    /\ calls \in 0 .. MaxCalls
    /\ ran \in [Workers -> 0 .. MaxCalls]

\* Types and ranges: the barrier count stays within the team, the join loop
\* within the thread records.
TypeOK == GateTypeOK /\ PlacesOK /\ PoolTypeOK

\* The workers that still owe the armed generation: they have not run their
\* callback, or have run it and not yet counted themselves.
Owing == {w \in 1 .. nWorkers : ran[w] < generation \/ wpc[w] = "finish"}

\* The barrier counts exactly the workers that owe: a worker that dies of a
\* gate failure never counts itself, so pending = 0 means the frame is whole
\* (the release sequence that up_pool_gate_wait_all relies on).
PendingCountsOwing == ~freed => pending = Cardinality(Owing)

Alive(w) == wpc[w] \notin {"none", "exited"}

\* No slot, thread record, mutex or condition variable goes while a thread can
\* still use it: storage outlives every worker, whatever join or cancellation
\* reported (destroy, failed start, poison, quarantine), and a pool that is
\* really closed has released every slot.
NothingFreedInUse ==
    /\ \A w \in Workers : Alive(w) => w \in slots /\ ~freed
    /\ freed => slots = {}

InCall == mpc \notin {"idle", "closed", "quarantined"}

\* The abstract view: a call of the owner, the team, the running callbacks.
Call ==
    CASE mpc = "idle" -> "out"
      [] mpc \in {"closed", "quarantined"} -> "gone"
      [] mpc \in {"stop", "exiting", "cancel", "join"} /\ stopFor = "destroy" -> "gone"
      [] OTHER -> "in"

Team == IF lazy = "done" THEN 1 .. nWorkers ELSE {}

Running == {w \in Workers : wpc[w] = "run"} \cup (IF mpc = "inlineRun" THEN {1} ELSE {})

FJ == INSTANCE ForkJoin WITH Slots <- Workers, call <- Call, team <- Team,
                             running <- Running

\* The pool implements ForkJoin: callbacks only inside a call, once per member
\* and call, success only when all ran, and none running once a call returned,
\* whichever pthread operations failed on the way (UB-13).
ImplementsForkJoin == FJ!Spec

-----------------------------------------------------------------------------
(* The inductive invariant behind the theorems of WorkerPool_proofs. *)

Ready(w) == wpc[w] \in {"boot", "enter", "held", "parked", "woken", "notify", "notifying"}

Stopping == mpc \in {"stop", "exiting", "cancel", "join"}

Armed == mpc \in {"opening", "waitCheck", "waitLock", "waitHeld", "waitSleep", "waiting",
                  "waitWoken", "waitLate", "waitEnd", "gateFailed"}

\* Each thread has a record until it is reaped, and each worker has run what it
\* has seen, but for the generation it is running or failed on.
ThreadsInv ==
    \A w \in Workers :
        /\ Alive(w) => w \in started
        /\ seen[w] <= generation
        /\ Alive(w) => generation <= seen[w] + 1
        /\ ~Inline => ran[w] <= seen[w]
        /\ Ready(w) \/ wpc[w] = "finish" => ran[w] = seen[w]
        /\ wpc[w] = "run" => ran[w] + 1 = seen[w]
        /\ wpc[w] \in {"run", "finish"} => seen[w] = generation

\* No callback runs, and no live worker has a generation left to run.
Quiet == \A w \in Workers :
            Alive(w) => wpc[w] \notin {"run", "finish"} /\ seen[w] = generation

\* Only an armed dispatch and the stop of a poisoned pool are not quiet.
QuietInv == Armed \/ (Stopping /\ stopFor = "poison") \/ Quiet

\* Slots are the team, save while the team is being built, and cover every
\* thread record.
SlotsInv ==
    /\ started \subseteq slots
    /\ slots = IF mpc = "construct" THEN 1 .. (next - 1) ELSE 1 .. nWorkers
    /\ lazy = "no" /\ ~(Stopping /\ stopFor = "retire") => nWorkers = 0
    /\ Inline => started = {} /\ ~gateReady
    /\ lazy = "done" /\ ~freed => nWorkers > 0
    /\ freed <=> mpc = "closed"
    /\ freed => nWorkers = 0

\* Where the caller can stand in each state of the pool.
ControlInv ==
    /\ mpc \in {"setup", "construct"} => lazy = "no" /\ ~broken
    /\ Armed \/ mpc \in {"inline", "inlineRun", "dispatch", "dispatched"} =>
           lazy = "done" /\ ~broken
    /\ Armed \/ mpc = "dispatch" => ~Inline
    /\ mpc \in {"inline", "inlineRun"} => Inline
    /\ mpc = "dispatched" /\ ~Inline => \A w \in 1 .. nWorkers : ran[w] = generation
    /\ Stopping /\ stopFor = "retire" => lazy = "no"
    /\ Stopping /\ stopFor = "poison" => lazy = "done" /\ broken
    /\ Stopping /\ mpc # "join" => next = 1
    /\ mpc = "join" /\ ~joinFailed => started \cap (1 .. (next - 1)) = {}
    /\ result = "failed" => broken \/ lazy = "failed"
    /\ result = "ok" => lazy = "done"

\* Dispatches counted against generations, and on the inline pool against the
\* callbacks of its one slot.
CallsInv ==
    /\ Inline \/ lazy # "done" => generation = 0
    /\ Inline \/ generation <= calls
    /\ mpc = "idle" /\ lazy = "no" => calls = 0
    /\ mpc \in {"setup", "construct"} => calls = 1
    /\ mpc = "dispatch" => generation + 1 = calls
    /\ Armed /\ mpc # "gateFailed" => generation = calls
    /\ ~Inline /\ mpc = "dispatched" => generation = calls
    /\ ~Inline /\ mpc = "idle" /\ lazy = "done" /\ ~broken => generation = calls
    /\ Inline /\ lazy = "no" => ran[1] = 0
    /\ Inline /\ mpc \in {"inline", "inlineRun"} => ran[1] + 1 = calls
    /\ Inline /\ mpc = "dispatched" => ran[1] = calls
    /\ Inline /\ mpc = "idle" /\ lazy = "done" /\ ~broken => ran[1] = calls

IInv == /\ TypeOK /\ ThreadsInv /\ QuietInv /\ SlotsInv /\ ControlInv /\ CallsInv
        /\ PendingCountsOwing

\* Every call of the owner - first dispatch with its lazy start, dispatch,
\* poison, destroy - returns, whichever gate operations fail (CONC-1, RES-2).
EveryCallReturns == InCall ~> ~InCall

\* No wakeup is lost: without faults, and with no completion wait ever timing
\* out, every dispatch succeeds.
HealthyDispatchSucceeds == (mpc = "dispatch") ~> (mpc = "idle" /\ result = "ok")
=============================================================================
