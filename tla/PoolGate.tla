------------------------------ MODULE PoolGate ------------------------------
(***************************************************************************)
(* The dispatch gate of src/src/pool_gate.h: the mutexes, the two          *)
(* condition variables, the generation that wakes the workers and the      *)
(* counting barrier the caller waits on.  One action per step between two  *)
(* synchronisation calls; every pthread call the code checks has an action *)
(* for its failure, drawn from a budget.                                   *)
(*                                                                         *)
(* The caller is VLC's video-output thread.  Its program counter mpc and   *)
(* the workers' wpc are shared with WorkerPool, which says how the gate's  *)
(* operations are strung together.                                         *)
(***************************************************************************)
EXTENDS Integers, FiniteSets

CONSTANTS
    MaxWorkers,      \* thread records of the largest pool (UP_THREADS_MAX)
    MaxFaults,       \* bound: failing pthread calls and spurious wakeups in one behaviour
    TimeoutPossible  \* whether a completion wait may outlast UP_POOL_BARRIER_TIMEOUT_MS

ASSUME GateAssumption ==
    /\ MaxWorkers \in Nat \ {0}
    /\ MaxFaults \in Nat
    /\ TimeoutPossible \in BOOLEAN

Workers == 1 .. MaxWorkers
Caller  == 0
NoOne   == MaxWorkers + 1

VARIABLES
    generation,     \* dispatches armed so far, guarded by lock
    exitRequested,  \* teardown signal, guarded by lock
    pending,        \* atomic: workers that still have to finish this dispatch
    syncFailed,     \* atomic: some gate operation failed
    lock,           \* owner of the gate mutex
    doneLock,       \* owner of the completion mutex
    seen,           \* per worker: the last generation it handled
    cancelled,      \* workers with a pthread_cancel request
    wpc,            \* where each worker stands
    mpc,            \* where the caller stands
    faults          \* what is left of the fault budget

gateVars == <<generation, exitRequested, pending, syncFailed, lock, doneLock,
              seen, cancelled, wpc, mpc, faults>>

GateInit ==
    /\ generation = 0
    /\ exitRequested = FALSE
    /\ pending = 0
    /\ syncFailed = FALSE
    /\ lock = NoOne
    /\ doneLock = NoOne

Fault == faults > 0 /\ faults' = faults - 1

MayFault(failing) == IF failing THEN Fault ELSE UNCHANGED faults

WorkerMoves(w, from, to) == wpc[w] = from /\ wpc' = [wpc EXCEPT ![w] = to]

CallerMoves(from, to) == mpc = from /\ mpc' = to

\* pthread_cond_broadcast(&g->cv): a woken waiter has to take the mutex again.
Woken == [w \in Workers |-> IF wpc[w] = "parked" THEN "woken" ELSE wpc[w]]

\* pthread_cond_signal(&g->done_cv): only the caller ever waits on it.
CallerSignalled == IF mpc = "waiting" THEN "waitWoken" ELSE mpc

-----------------------------------------------------------------------------
(* The worker's side: up_pool_gate_wait_for_go and up_pool_gate_worker_done. *)

\* up__pool_gate_report_worker_failure sets syncFailed first, then signals.
Report(w) ==
    /\ Fault
    /\ syncFailed' = TRUE
    /\ wpc' = [wpc EXCEPT ![w] = "report"]

\* pthread_setcancelstate(DISABLE) at the head of the worker's loop.
WorkerBoot(w) ==
    /\ WorkerMoves(w, "boot", "enter")
    /\ UNCHANGED <<generation, exitRequested, pending, syncFailed, lock, doneLock,
                   seen, cancelled, mpc, faults>>

\* ... or it fails, or the worker cannot lock the gate: it reports and leaves.
WorkerRefused(w) ==
    /\ wpc[w] \in {"boot", "enter"}
    /\ Report(w)
    /\ UNCHANGED <<generation, exitRequested, pending, lock, doneLock,
                   seen, cancelled, mpc>>

\* Locks the gate: on entry, or when pthread_cond_wait takes the mutex back.
WorkerEnter(w) ==
    /\ wpc[w] \in {"enter", "woken"}
    /\ lock = NoOne
    /\ lock' = w
    /\ wpc' = [wpc EXCEPT ![w] = "held"]
    /\ UNCHANGED <<generation, exitRequested, pending, syncFailed, doneLock,
                   seen, cancelled, mpc, faults>>

\* while (generation == *seen_gen && !exit_requested) pthread_cond_wait(...)
WorkerPark(w) ==
    /\ generation = seen[w] /\ ~exitRequested
    /\ WorkerMoves(w, "held", "parked")
    /\ lock' = NoOne
    /\ UNCHANGED <<generation, exitRequested, pending, syncFailed, doneLock,
                   seen, cancelled, mpc, faults>>

WorkerWakesSpuriously(w) ==
    /\ WorkerMoves(w, "parked", "woken")
    /\ Fault
    /\ UNCHANGED <<generation, exitRequested, pending, syncFailed, lock, doneLock,
                   seen, cancelled, mpc>>

\* Wrong variant: a failing worker counts itself as done.
WorkerWaitFailsAndCounts(w) ==
    /\ wpc[w] = "held"
    /\ Report(w)
    /\ pending' = pending - 1
    /\ UNCHANGED <<generation, exitRequested, lock, doneLock, seen, cancelled, mpc>>

\* pthread_cond_wait or a pthread_setcancelstate fails: the worker reports while
\* it still holds the gate mutex, and handles no generation.
WorkerWaitFails(w) ==
    /\ wpc[w] = "held"
    /\ Report(w)
    /\ UNCHANGED <<generation, exitRequested, pending, lock, doneLock,
                   seen, cancelled, mpc>>

\* An unseen generation is run, even when an exit is requested as well.
WorkerGo(w) ==
    /\ generation # seen[w]
    /\ WorkerMoves(w, "held", "run")
    /\ seen' = [seen EXCEPT ![w] = generation]
    /\ lock' = NoOne
    /\ UNCHANGED <<generation, exitRequested, pending, syncFailed, doneLock,
                   cancelled, mpc, faults>>

WorkerLeave(w) ==
    /\ generation = seen[w] /\ exitRequested
    /\ WorkerMoves(w, "held", "exited")
    /\ lock' = NoOne
    /\ UNCHANGED <<generation, exitRequested, pending, syncFailed, doneLock,
                   seen, cancelled, mpc, faults>>

\* pthread_mutex_unlock reports an error once the generation is marked seen:
\* result becomes -1, so the generation is never run.
WorkerUnlockFails(w) ==
    /\ generation # seen[w] \/ exitRequested
    /\ wpc[w] = "held"
    /\ Report(w)
    /\ seen' = [seen EXCEPT ![w] = generation]
    /\ lock' = NoOne
    /\ UNCHANGED <<generation, exitRequested, pending, doneLock, cancelled, mpc>>

\* A cancelled waiter takes the mutex back, and up__pool_gate_cancel_unlock
\* releases it before the thread ends.
WorkerCancelled(w) ==
    /\ w \in cancelled
    /\ wpc[w] \in {"parked", "woken"}
    /\ lock = NoOne
    /\ wpc' = [wpc EXCEPT ![w] = "exited"]
    /\ UNCHANGED <<generation, exitRequested, pending, syncFailed, lock, doneLock,
                   seen, cancelled, mpc, faults>>

\* up_pool_gate_worker_done: the one that takes pending from 1 to 0 signals.
WorkerDone(w) ==
    /\ wpc[w] = "finish"
    /\ pending' = pending - 1
    /\ wpc' = [wpc EXCEPT ![w] = IF pending = 1 THEN "notify" ELSE "enter"]
    /\ UNCHANGED <<generation, exitRequested, syncFailed, lock, doneLock,
                   seen, cancelled, mpc, faults>>

\* Wrong variant: the completion is signalled without taking done_lock.
NotifyUnlocked(w) ==
    /\ wpc[w] \in {"notify", "report"}
    /\ doneLock' = doneLock
    /\ wpc' = [wpc EXCEPT ![w] = IF @ = "notify" THEN "notifying" ELSE "reporting"]
    /\ UNCHANGED <<generation, exitRequested, pending, syncFailed, lock,
                   seen, cancelled, mpc, faults>>

\* up__pool_gate_notify_done, called by worker_done and by a failure report.
NotifyLock(w) ==
    /\ wpc[w] \in {"notify", "report"}
    /\ doneLock = NoOne
    /\ doneLock' = w
    /\ wpc' = [wpc EXCEPT ![w] = IF @ = "notify" THEN "notifying" ELSE "reporting"]
    /\ UNCHANGED <<generation, exitRequested, pending, syncFailed, lock,
                   seen, cancelled, mpc, faults>>

\* A worker that reports a failure leaves; it may still hold the gate mutex.
AfterNotify(w) ==
    IF wpc[w] \in {"notify", "notifying"}
    THEN wpc' = [wpc EXCEPT ![w] = "enter"] /\ UNCHANGED lock
    ELSE /\ wpc' = [wpc EXCEPT ![w] = "exited"]
         /\ lock' = IF lock = w THEN NoOne ELSE lock

NotifyLockFails(w) ==
    /\ wpc[w] \in {"notify", "report"}
    /\ Fault
    /\ syncFailed' = TRUE
    /\ AfterNotify(w)
    /\ UNCHANGED <<generation, exitRequested, pending, doneLock, seen, cancelled, mpc>>

NotifySignal(w) ==
    /\ wpc[w] \in {"notifying", "reporting"}
    /\ doneLock' = NoOne
    /\ mpc' = CallerSignalled
    /\ AfterNotify(w)
    /\ UNCHANGED <<generation, exitRequested, pending, syncFailed, seen, cancelled, faults>>

\* The signal fails (nobody woken) or the unlock does (the caller was woken).
NotifySignalFails(w) ==
    /\ wpc[w] \in {"notifying", "reporting"}
    /\ Fault
    /\ syncFailed' = TRUE
    /\ doneLock' = NoOne
    /\ mpc' \in {mpc, CallerSignalled}
    /\ AfterNotify(w)
    /\ UNCHANGED <<generation, exitRequested, pending, seen, cancelled>>

-----------------------------------------------------------------------------
(* The caller's side: arm, broadcast, up_pool_gate_wait_all, request_exit. *)

\* up_pool_gate_lock and up_pool_gate_arm_locked for n workers.
GateArm(n) ==
    /\ CallerMoves("dispatch", "opening")
    /\ lock = NoOne
    /\ lock' = Caller
    /\ pending' = n
    /\ generation' = generation + 1
    /\ UNCHANGED <<exitRequested, syncFailed, doneLock, seen, cancelled, wpc, faults>>

GateLockFails ==
    /\ CallerMoves("dispatch", "gateFailed")
    /\ Fault
    /\ UNCHANGED <<generation, exitRequested, pending, syncFailed, lock, doneLock,
                   seen, cancelled, wpc>>

\* up_pool_gate_unlock_broadcast, for a dispatch and for an exit request.
UnlockBroadcast(from, to) ==
    /\ CallerMoves(from, to)
    /\ lock' = NoOne
    /\ wpc' = Woken
    /\ UNCHANGED <<generation, exitRequested, pending, syncFailed, doneLock,
                   seen, cancelled, faults>>

UnlockBroadcastFails(from, to) ==
    /\ CallerMoves(from, to)
    /\ Fault
    /\ syncFailed' = TRUE
    /\ lock' = NoOne
    /\ wpc' \in {wpc, Woken}
    /\ UNCHANGED <<generation, exitRequested, pending, doneLock, seen, cancelled>>

GateOpen      == UnlockBroadcast("opening", "waitCheck")
GateOpenFails == UnlockBroadcastFails("opening", "gateFailed")
ExitOpen      == UnlockBroadcast("exiting", "join")
ExitOpenFails == UnlockBroadcastFails("exiting", "cancel")

\* The early sync_failed test and the deadline of up_pool_gate_wait_all.
WaitCheck ==
    /\ CallerMoves("waitCheck", IF syncFailed THEN "gateFailed" ELSE "waitLock")
    /\ UNCHANGED <<generation, exitRequested, pending, syncFailed, lock, doneLock,
                   seen, cancelled, wpc, faults>>

\* clock_gettime, locking done_lock, timedwait or unlocking it fails.
WaitFails ==
    /\ mpc \in {"waitCheck", "waitLock", "waiting", "waitEnd"}
    /\ mpc' = "gateFailed"
    /\ Fault
    /\ UNCHANGED <<generation, exitRequested, pending, syncFailed, lock, doneLock,
                   seen, cancelled, wpc>>

\* Locks done_lock on entry, or takes it back after a signal.
WaitLock ==
    /\ mpc \in {"waitLock", "waitWoken"}
    /\ mpc' = "waitHeld"
    /\ doneLock = NoOne
    /\ doneLock' = Caller
    /\ UNCHANGED <<generation, exitRequested, pending, syncFailed, lock,
                   seen, cancelled, wpc, faults>>

\* The tests of up__pool_gate_wait_done_locked; leaving it releases done_lock.
WaitTest ==
    /\ mpc = "waitHeld"
    /\ mpc' = IF syncFailed THEN "gateFailed"
              ELSE IF pending = 0 THEN "waitEnd" ELSE "waitSleep"
    /\ doneLock' = IF mpc' = "waitSleep" THEN Caller ELSE NoOne
    /\ UNCHANGED <<generation, exitRequested, pending, syncFailed, lock,
                   seen, cancelled, wpc, faults>>

\* pthread_cond_timedwait releases done_lock as it starts to wait.
WaitSleep ==
    /\ CallerMoves("waitSleep", "waiting")
    /\ doneLock' = NoOne
    /\ UNCHANGED <<generation, exitRequested, pending, syncFailed, lock,
                   seen, cancelled, wpc, faults>>

WaitInterrupted ==
    /\ CallerMoves("waiting", "waitWoken")
    /\ Fault
    /\ UNCHANGED <<generation, exitRequested, pending, syncFailed, lock, doneLock,
                   seen, cancelled, wpc>>

WaitTimeout ==
    /\ TimeoutPossible
    /\ CallerMoves("waiting", "waitLate")
    /\ UNCHANGED <<generation, exitRequested, pending, syncFailed, lock, doneLock,
                   seen, cancelled, wpc, faults>>

\* CONC-3: after ETIMEDOUT the predicate is tested once more.
WaitLate ==
    /\ CallerMoves("waitLate", IF pending = 0 THEN "waitEnd" ELSE "gateFailed")
    /\ doneLock = NoOne
    /\ UNCHANGED <<generation, exitRequested, pending, syncFailed, lock, doneLock,
                   seen, cancelled, wpc, faults>>

\* The two loads after done_lock is released.
WaitEnd ==
    /\ CallerMoves("waitEnd",
                   IF pending = 0 /\ ~syncFailed THEN "dispatched" ELSE "gateFailed")
    /\ UNCHANGED <<generation, exitRequested, pending, syncFailed, lock, doneLock,
                   seen, cancelled, wpc, faults>>

\* up_pool_gate_request_exit: the broadcast does not advance the generation.
ExitLock ==
    /\ CallerMoves("stop", "exiting")
    /\ lock = NoOne
    /\ lock' = Caller
    /\ exitRequested' = TRUE
    /\ UNCHANGED <<generation, pending, syncFailed, doneLock,
                   seen, cancelled, wpc, faults>>

\* Wrong variant: the failure is noted, and nobody is cancelled.
ExitLockFailsQuietly ==
    /\ CallerMoves("stop", "join")
    /\ Fault
    /\ syncFailed' = TRUE
    /\ UNCHANGED <<generation, exitRequested, pending, lock, doneLock,
                   seen, cancelled, wpc>>

ExitLockFails ==
    /\ CallerMoves("stop", "cancel")
    /\ Fault
    /\ syncFailed' = TRUE
    /\ UNCHANGED <<generation, exitRequested, pending, lock, doneLock,
                   seen, cancelled, wpc>>
=============================================================================
