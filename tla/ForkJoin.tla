------------------------------ MODULE ForkJoin ------------------------------
(***************************************************************************)
(* What a worker pool promises the owner that dispatches a frame on it:    *)
(* callbacks run only inside a call, each member of the team runs once per *)
(* call, a call succeeds only when the whole team has run, a failed pool   *)
(* is never dispatched on again, and when a call returns - with success or *)
(* without - no callback is running, so the caller may take its borrowed   *)
(* pictures back.                                                          *)
(***************************************************************************)
EXTENDS Naturals

CONSTANT Slots    \* the slots a team can be drawn from

VARIABLES
    call,     \* "out": no call; "in": inside a call; "gone": the owner destroyed it
    calls,    \* dispatches begun
    team,     \* the slots that came up, {} until then
    running,  \* slots whose callback runs
    ran,      \* callbacks completed, per slot
    result    \* what the last call returned

vars == <<call, calls, team, running, ran, result>>

Init ==
    /\ call = "out"
    /\ calls = 0
    /\ team = {}
    /\ running = {}
    /\ ran = [s \in Slots |-> 0]
    /\ result = "none"

Dispatch ==
    /\ call = "out" /\ result # "failed"
    /\ call' = "in"
    /\ calls' = calls + 1
    /\ UNCHANGED <<team, running, ran, result>>

\* Lazy start, inside the first call.
Assemble(S) ==
    /\ call = "in" /\ team = {} /\ S # {}
    /\ team' = S
    /\ UNCHANGED <<call, calls, running, ran, result>>

Start(s) ==
    /\ call = "in" /\ s \in team \ running /\ ran[s] < calls
    /\ running' = running \cup {s}
    /\ UNCHANGED <<call, calls, team, ran, result>>

End(s) ==
    /\ s \in running
    /\ running' = running \ {s}
    /\ ran' = [ran EXCEPT ![s] = @ + 1]
    /\ UNCHANGED <<call, calls, team, result>>

Succeed ==
    /\ call = "in" /\ running = {}
    /\ team # {} /\ \A s \in team : ran[s] = calls
    /\ call' = "out" /\ result' = "ok"
    /\ UNCHANGED <<calls, team, running, ran>>

\* The owner gives the pool up after a dispatch that succeeded.
Withdraw ==
    /\ call = "out" /\ result = "ok"
    /\ call' = "in" /\ result' = "failed"
    /\ UNCHANGED <<calls, team, running, ran>>

\* The failure is known to the pool before the call returns.
Break ==
    /\ call = "in"
    /\ result' = "failed"
    /\ UNCHANGED <<call, calls, team, running, ran>>

Fail ==
    /\ call = "in" /\ running = {}
    /\ call' = "out" /\ result' = "failed"
    /\ UNCHANGED <<calls, team, running, ran>>

Leave ==
    /\ call = "out"
    /\ call' = "gone"
    /\ UNCHANGED <<calls, team, running, ran, result>>

Forget ==
    /\ call = "gone"
    /\ team' = {}
    /\ UNCHANGED <<call, calls, running, ran, result>>

Next ==
    \/ Dispatch \/ Succeed \/ Withdraw \/ Break \/ Fail \/ Leave \/ Forget
    \/ \E S \in SUBSET Slots : Assemble(S)
    \/ \E s \in Slots : Start(s) \/ End(s)

Spec == Init /\ [][Next]_vars
=============================================================================
