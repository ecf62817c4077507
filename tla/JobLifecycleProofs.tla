------------------------- MODULE JobLifecycleProofs -------------------------
(***************************************************************************)
(* What every implementation of the job life cycle keeps, for any set of   *)
(* jobs: the registry, which RegistryImplementsLifecycle proves to be one. *)
(***************************************************************************)
EXTENDS JobLifecycle, TLAPS

\* A cancelled job was asked to end, and a committed one has started: with
\* these CommittedStays is inductive.
CancelledAsked == \A j \in Jobs : phase[j] = "cancelled" => j \in asked
CommittedStarted == \A j \in committed : phase[j] \notin {"absent", "queued"}

LifeInv ==
    /\ TypeOK
    /\ SingleFlight
    /\ OneWriter
    /\ committed \cap asked = {}
    /\ CancelledAsked
    /\ CommittedStarted

\* The invariant of the life cycle holds in every behaviour.
THEOREM LifeInvariant == Spec => []LifeInv
<1>1. Init => LifeInv
  BY DEF Init, LifeInv, TypeOK, SingleFlight, OneWriter, CancelledAsked, CommittedStarted, Running, Live, Phase
<1>2. LifeInv /\ [Next]_vars => LifeInv'
  <2> SUFFICES ASSUME LifeInv, [Next]_vars PROVE LifeInv'
    OBVIOUS
  <2> USE DEF LifeInv, TypeOK, Phase, Outcome
  <2>1. CASE UNCHANGED vars
    BY <2>1 DEF vars, SingleFlight, OneWriter, CancelledAsked, CommittedStarted, Running, Live
  <2>2. ASSUME NEW j \in Jobs, Accept(j) PROVE LifeInv'
    BY <2>2 DEF Accept, Move, SingleFlight, OneWriter, CancelledAsked, CommittedStarted, Running, Live
  <2>3. ASSUME NEW j \in Jobs, Begin(j) PROVE LifeInv'
    <3>1. TypeOK' /\ SingleFlight' /\ CancelledAsked' /\ CommittedStarted' /\ (committed \cap asked)' = {}
      BY <2>3 DEF Begin, Move, SingleFlight, CancelledAsked, CommittedStarted, Live
    <3>2. OneWriter'
      <4>1. Running' = Running \cup {j}
        BY <2>3 DEF Begin, Move, Running
      <4>2. IsWrite(kind[j]) => \A i \in Running : ~IsWrite(kind[i])
        BY <2>3 DEF Begin
      <4>3. kind' = kind
        BY <2>3 DEF Begin
      <4> QED
        BY <4>1, <4>2, <4>3 DEF OneWriter
    <3> QED
      BY <3>1, <3>2
  <2>4. ASSUME NEW j \in Jobs, Withdraw(j) PROVE LifeInv'
    BY <2>4 DEF Withdraw, Move, SingleFlight, OneWriter, CancelledAsked, CommittedStarted, Running, Live
  <2>5. ASSUME NEW j \in Jobs, Ask(j) PROVE LifeInv'
    BY <2>5 DEF Ask, SingleFlight, OneWriter, CancelledAsked, CommittedStarted, Running, Live
  <2>6. ASSUME NEW j \in Jobs, Commit(j) PROVE LifeInv'
    BY <2>6 DEF Commit, SingleFlight, OneWriter, CancelledAsked, CommittedStarted, Running, Live
  <2>7. ASSUME NEW j \in Jobs, NEW outcome \in Outcome, End(j, outcome) PROVE LifeInv'
    BY <2>7 DEF End, Move, SingleFlight, OneWriter, CancelledAsked, CommittedStarted, Running, Live
  <2>8. ASSUME NEW D \in SUBSET Jobs, Forget(D) PROVE LifeInv'
    BY <2>8 DEF Forget, SingleFlight, OneWriter, CancelledAsked, CommittedStarted, Running, Live
  <2> QED
    BY <2>1, <2>2, <2>3, <2>4, <2>5, <2>6, <2>7, <2>8 DEF Next
<1> QED
  BY <1>1, <1>2, PTL DEF Spec

\* At most one maintenance job of a kind is queued or running.
THEOREM FlightIsSingle == Spec => []SingleFlight
<1>1. LifeInv => SingleFlight
  BY DEF LifeInv
<1> QED
  BY <1>1, LifeInvariant, PTL

\* Write jobs run one at a time.
THEOREM WritersExclude == Spec => []OneWriter
<1>1. LifeInv => OneWriter
  BY DEF LifeInv
<1> QED
  BY <1>1, LifeInvariant, PTL

\* A job past its point of no return has no accepted cancellation and does not
\* end cancelled.
THEOREM CommitmentHolds == Spec => []CommittedStays
<1>1. LifeInv => CommittedStays
  BY DEF LifeInv, CommittedStays, CancelledAsked, TypeOK
<1> QED
  BY <1>1, LifeInvariant, PTL

\* An outcome is final.
THEOREM OutcomesAreFinal == Spec => OutcomeIsFinal
<1>1. LifeInv /\ [Next]_vars =>
        [\A j \in Jobs :
           /\ phase[j] \in Outcome => phase'[j] \in {phase[j], "forgotten"}
           /\ phase[j] = "forgotten" => phase'[j] = "forgotten"]_vars
  BY DEF LifeInv, TypeOK, Outcome, Phase, Next, vars, Accept, Begin, Withdraw, Ask, Commit, End,
         Forget, Move
<1> QED
  BY <1>1, LifeInvariant, PTL DEF Spec, OutcomeIsFinal
=============================================================================
