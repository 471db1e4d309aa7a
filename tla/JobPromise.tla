----------------------------- MODULE JobPromise -----------------------------
(***************************************************************************)
(* What a caller of worker_dispatch is promised, without processes, races, *)
(* timers or restarts: a submitted job stays open until it gets exactly    *)
(* one outcome, the outcome is final, and after it the job is reported at  *)
(* most once as delivered.  A stop of the service is not visible here: it  *)
(* neither forgets a job nor changes an outcome.                           *)
(***************************************************************************)
CONSTANTS Job, Outcome

VARIABLES state, told

vars == <<state, told>>

Init ==
    /\ state = [j \in Job |-> "none"]
    /\ told = {}

Submit(j) ==
    /\ state[j] = "none"
    /\ state' = [state EXCEPT ![j] = "open"]
    /\ UNCHANGED told

Close(j, outcome) ==
    /\ state[j] = "open"
    /\ state' = [state EXCEPT ![j] = outcome]
    /\ UNCHANGED told

Tell(j) ==
    /\ state[j] \in Outcome
    /\ j \notin told
    /\ told' = told \cup {j}
    /\ UNCHANGED state

Next ==
    \E j \in Job :
        \/ Submit(j)
        \/ \E outcome \in Outcome : Close(j, outcome)
        \/ Tell(j)

Spec == Init /\ [][Next]_vars
=============================================================================
