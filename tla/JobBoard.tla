------------------------------- MODULE JobBoard -------------------------------
(***************************************************************************)
(* What a client of /api/v1/jobs may rely on, whatever threads and locks   *)
(* stand behind it: the life of a backfill_job row.  A job is created only *)
(* when the exclusion rule of its kind lets it, runs at most once, ends in *)
(* one terminal state and keeps it; it is cancelled only on request, and a *)
(* restart fails every job it interrupts in one step.                      *)
(***************************************************************************)
CONSTANT JobIds

VARIABLES state, kind, cancel

boardVars == <<state, kind, cancel>>

Live(j) == state[j] \in {"pending", "running"}

Init ==
    /\ state = [j \in JobIds |-> "none"]
    /\ kind = [j \in JobIds |-> "onboarding"]
    /\ cancel = [j \in JobIds |-> FALSE]

\* Onboardings queue behind each other; a revalidation needs an idle board.
Create(j, k) ==
    /\ state[j] = "none"
    /\ \A i \in JobIds : Live(i) => k = "onboarding" /\ kind[i] = "onboarding"
    /\ state' = [state EXCEPT ![j] = "pending"]
    /\ kind' = [kind EXCEPT ![j] = k]
    /\ UNCHANGED cancel

RequestCancel(j) ==
    /\ state[j] # "none"
    /\ cancel' = [cancel EXCEPT ![j] = TRUE]
    /\ UNCHANGED <<state, kind>>

Start(j) ==
    /\ state[j] = "pending"
    /\ state' = [state EXCEPT ![j] = "running"]
    /\ UNCHANGED <<kind, cancel>>

End(j) ==
    /\ Live(j)
    /\ \/ state' = [state EXCEPT ![j] = "failed"]
       \/ state[j] = "running" /\ state' = [state EXCEPT ![j] = "completed"]
       \/ state[j] = "running" /\ cancel[j] /\ state' = [state EXCEPT ![j] = "cancelled"]
    /\ UNCHANGED <<kind, cancel>>

Restart ==
    /\ state' = [j \in JobIds |-> IF Live(j) THEN "failed" ELSE state[j]]
    /\ UNCHANGED <<kind, cancel>>

Next ==
    \/ \E j \in JobIds :
         \/ \E k \in {"onboarding", "revalidation"} : Create(j, k)
         \/ RequestCancel(j) \/ Start(j) \/ End(j)
    \/ Restart

Spec == Init /\ [][Next]_boardVars
=============================================================================
