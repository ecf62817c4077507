---------------------------- MODULE JobLifecycle ----------------------------
(***************************************************************************)
(* What the job registry promises its users: the life of a job, without    *)
(* queues, slots, threads or a store.  A job is accepted, runs at most     *)
(* once, and ends at most once; write jobs exclude each other, read jobs   *)
(* are limited; an accepted cancellation and the point of no return        *)
(* exclude each other; a finished job may be forgotten and never returns.  *)
(***************************************************************************)
EXTENDS Integers, FiniteSets, JobKinds

CONSTANTS Jobs, Kinds, ConcurrentReads

VARIABLES
    kind,      \* of each job, fixed
    phase,     \* where each job stands in its life
    asked,     \* jobs whose cancellation was accepted
    committed  \* jobs past their point of no return

vars == <<kind, phase, asked, committed>>

Outcome == {"succeeded", "failed", "cancelled"}
Phase   == {"absent", "queued", "running", "forgotten"} \cup Outcome

TypeOK ==
    /\ kind \in [Jobs -> Kinds]
    /\ phase \in [Jobs -> Phase]
    /\ asked \subseteq Jobs
    /\ committed \subseteq Jobs

Init ==
    /\ kind \in [Jobs -> Kinds]
    /\ phase = [j \in Jobs |-> "absent"]
    /\ asked = {}
    /\ committed = {}

Running == {j \in Jobs : phase[j] = "running"}
Live(j) == phase[j] \in {"queued", "running"}

Move(j, p) == phase' = [phase EXCEPT ![j] = p]

Accept(j) ==
    /\ phase[j] = "absent"
    /\ IsSingleFlight(kind[j]) => ~\E i \in Jobs : kind[i] = kind[j] /\ Live(i)
    /\ Move(j, "queued")
    /\ UNCHANGED <<kind, asked, committed>>

Begin(j) ==
    /\ phase[j] = "queued"
    /\ IF IsWrite(kind[j])
       THEN \A i \in Running : ~IsWrite(kind[i])
       ELSE Cardinality({i \in Running : ~IsWrite(kind[i])}) < ConcurrentReads
    /\ Move(j, "running")
    /\ UNCHANGED <<kind, asked, committed>>

\* A queued job is cancelled, by a user or because its owner lost the permission.
Withdraw(j) ==
    /\ phase[j] = "queued"
    /\ Move(j, "cancelled")
    /\ asked' = asked \cup {j}
    /\ UNCHANGED <<kind, committed>>

\* A running job accepts a cancellation.
Ask(j) ==
    /\ phase[j] = "running"
    /\ j \notin committed
    /\ asked' = asked \cup {j}
    /\ UNCHANGED <<kind, phase, committed>>

Commit(j) ==
    /\ phase[j] = "running"
    /\ HasPointOfNoReturn(kind[j])
    /\ j \notin asked
    /\ committed' = committed \cup {j}
    /\ UNCHANGED <<kind, phase, asked>>

End(j, outcome) ==
    /\ phase[j] = "running"
    /\ outcome = "cancelled" => j \in asked
    /\ outcome = "succeeded" /\ HasPointOfNoReturn(kind[j]) => j \in committed
    /\ Move(j, outcome)
    /\ UNCHANGED <<kind, asked, committed>>

Forget(D) ==
    /\ \A j \in D : phase[j] \in Outcome
    /\ phase' = [j \in Jobs |-> IF j \in D THEN "forgotten" ELSE phase[j]]
    /\ UNCHANGED <<kind, asked, committed>>

Next ==
    \/ \E j \in Jobs :
          \/ Accept(j) \/ Begin(j) \/ Withdraw(j) \/ Ask(j) \/ Commit(j)
          \/ \E outcome \in Outcome : End(j, outcome)
    \/ \E D \in SUBSET Jobs : Forget(D)

Spec == Init /\ [][Next]_vars
----------------------------------------------------------------------------
\* At most one maintenance job of a kind is queued or running.
SingleFlight ==
    \A i, j \in Jobs :
       i # j /\ kind[i] = kind[j] /\ IsSingleFlight(kind[i]) => ~(Live(i) /\ Live(j))

\* Write jobs run one at a time.
OneWriter ==
    \A i, j \in Running : IsWrite(kind[i]) /\ IsWrite(kind[j]) => i = j

\* A job past its point of no return has no accepted cancellation and does not
\* end cancelled.
CommittedStays ==
    \A j \in committed : j \notin asked /\ phase[j] # "cancelled"

\* An outcome is final: a job that has ended can only be forgotten, and a
\* forgotten job does not come back.
OutcomeIsFinal ==
    [][\A j \in Jobs :
          /\ phase[j] \in Outcome => phase'[j] \in {phase[j], "forgotten"}
          /\ phase[j] = "forgotten" => phase'[j] = "forgotten"]_vars
=============================================================================
