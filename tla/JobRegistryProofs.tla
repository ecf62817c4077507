------------------------- MODULE JobRegistryProofs -------------------------
(***************************************************************************)
(* Theorems about JobRegistry, for every set of jobs and every limit:      *)
(* its types and queues, and from these its slots, wakeups, limits, the    *)
(* job store, and that it implements JobLifecycle.                         *)
(***************************************************************************)
EXTENDS JobRegistry, SequenceTheorems, FiniteSetTheorems, TLAPS
----------------------------------------------------------------------------
(* Queues in which nothing stands twice, and what enqueueing, dequeueing   *)
(* and the removal of one element make of them.                            *)

\* What stands in a queue, by position.
LEMMA ToSetByPosition ==
    ASSUME NEW S, NEW q \in Seq(S)
    PROVE  /\ \A e : e \in ToSet(q) <=> \E i \in 1..Len(q) : q[i] = e
           /\ ToSet(q) \subseteq S
<1>1. DOMAIN q = 1..Len(q) /\ \A i \in 1..Len(q) : q[i] \in S
    BY LenProperties
<1> QED
    BY <1>1 DEF ToSet

LEMMA InjectiveByPosition ==
    ASSUME NEW S, NEW q \in Seq(S)
    PROVE  IsInjective(q) <=> \A a, b \in 1..Len(q) : q[a] = q[b] => a = b
BY LenProperties DEF IsInjective

LEMMA EmptyQueue == ToSet(<<>>) = {} /\ IsInjective(<<>>)
BY DEF ToSet, IsInjective

\* A newcomer at the end.
LEMMA AppendNew ==
    ASSUME NEW S, NEW q \in Seq(S), NEW e \in S, e \notin ToSet(q), IsInjective(q)
    PROVE  ToSet(Append(q, e)) = ToSet(q) \cup {e} /\ IsInjective(Append(q, e))
<1> DEFINE r == Append(q, e)
<1>1. /\ r \in Seq(S) /\ Len(r) = Len(q) + 1 /\ Len(q) \in Nat
      /\ \A i \in 1..Len(r) : r[i] = IF i <= Len(q) THEN q[i] ELSE e
    BY LenProperties, AppendProperties
<1>2. \A a : a \in ToSet(q) <=> \E i \in 1..Len(q) : q[i] = a
    BY ToSetByPosition
<1>3. \A a : a \in ToSet(r) <=> \E i \in 1..Len(r) : r[i] = a
    BY <1>1, ToSetByPosition
<1>4. ToSet(r) = ToSet(q) \cup {e}
    <2>1. \A i \in 1..Len(q) : i \in 1..Len(r) /\ r[i] = q[i]
        BY <1>1
    <2>2. Len(r) \in 1..Len(r) /\ r[Len(r)] = e
        BY <1>1
    <2>3. \A i \in 1..Len(r) : i \in 1..Len(q) \/ r[i] = e
        BY <1>1
    <2> QED
        BY <1>2, <1>3, <2>1, <2>2, <2>3
<1>5. IsInjective(r)
    <2>1. \A a, b \in 1..Len(q) : q[a] = q[b] => a = b
        BY InjectiveByPosition
    <2>2. \A i \in 1..Len(q) : q[i] # e
        BY <1>2
    <2>3. \A a, b \in 1..Len(r) : r[a] = r[b] => a = b
        BY <1>1, <2>1, <2>2
    <2> QED
        BY <1>1, <2>3, InjectiveByPosition
<1> QED
    BY <1>4, <1>5

\* The element at position n leaves, the others close up.
LEMMA RemovePosition ==
    ASSUME NEW S, NEW q \in Seq(S), IsInjective(q), NEW n \in 1..Len(q)
    PROVE  /\ RemoveAt(q, n) \in Seq(S)
           /\ ToSet(RemoveAt(q, n)) = ToSet(q) \ {q[n]}
           /\ IsInjective(RemoveAt(q, n))
<1> DEFINE r == RemoveAt(q, n)
           before == SubSeq(q, 1, n - 1)
           after  == SubSeq(q, n + 1, Len(q))
           old(i) == IF i < n THEN i ELSE i + 1
<1>1. Len(q) \in Nat /\ \A i \in 1..Len(q) : q[i] \in S
    BY LenProperties
<1>2. /\ before \in Seq(S) /\ Len(before) = n - 1
      /\ \A i \in 1..(n - 1) : before[i] = q[i]
    BY <1>1, SubSeqProperties
<1>3. /\ after \in Seq(S) /\ Len(after) = Len(q) - n
      /\ \A i \in 1..(Len(q) - n) : after[i] = q[n + i]
    BY <1>1, SubSeqProperties
<1>4. /\ r \in Seq(S) /\ Len(r) = Len(q) - 1
      /\ \A i \in 1..(Len(q) - 1) :
            r[i] = IF i <= n - 1 THEN before[i] ELSE after[i - (n - 1)]
    <2>1. /\ before \o after \in Seq(S)
          /\ Len(before \o after) = Len(before) + Len(after)
          /\ \A i \in 1..(Len(before) + Len(after)) :
                (before \o after)[i] = IF i <= Len(before) THEN before[i] ELSE after[i - Len(before)]
        BY <1>2, <1>3, ConcatProperties
    <2>2. r = before \o after
        BY DEF RemoveAt
    <2> HIDE DEF before, after, r
    <2>3. Len(before) = n - 1 /\ Len(after) = Len(q) - n
        BY <1>2, <1>3
    <2>4. Len(before) + Len(after) = Len(q) - 1
        BY <1>1, <2>3
    <2>5. r \in Seq(S) /\ Len(r) = Len(q) - 1
        BY <2>1, <2>2, <2>4
    <2>6. ASSUME NEW i \in 1..(Len(q) - 1)
          PROVE  r[i] = IF i <= n - 1 THEN before[i] ELSE after[i - (n - 1)]
        BY <2>1, <2>2, <2>3, <2>4
    <2> QED
        BY <2>5, <2>6
<1>5. \A i \in 1..Len(r) : old(i) \in 1..Len(q) /\ old(i) # n /\ r[i] = q[old(i)]
    <2> SUFFICES ASSUME NEW i \in 1..Len(r)
                 PROVE  old(i) \in 1..Len(q) /\ old(i) # n /\ r[i] = q[old(i)]
        OBVIOUS
    <2> HIDE DEF before, after, r
    <2>1. CASE i < n
        <3>1. i \in 1..(n - 1) /\ i <= n - 1 /\ old(i) = i /\ i \in 1..(Len(q) - 1)
            BY <1>1, <1>4, <2>1
        <3>2. r[i] = before[i]
            BY <1>4, <3>1
        <3> QED
            BY <1>1, <1>2, <3>1, <3>2
    <2>2. CASE ~(i < n)
        <3>1. i - (n - 1) \in 1..(Len(q) - n) /\ n + (i - (n - 1)) = i + 1
            BY <1>1, <1>4, <2>2
        <3> QED
            BY <1>1, <1>3, <1>4, <2>2, <3>1
    <2> QED
        BY <2>1, <2>2
<1>6. \A k \in 1..Len(q) : k # n => \E i \in 1..Len(r) : old(i) = k
    <2> SUFFICES ASSUME NEW k \in 1..Len(q), k # n
                 PROVE  \E i \in 1..Len(r) : old(i) = k
        OBVIOUS
    <2>1. CASE k < n
        BY <1>1, <1>4, <2>1
    <2>2. CASE k > n
        <3>1. k - 1 \in 1..Len(r) /\ old(k - 1) = k
            BY <1>1, <1>4, <2>2
        <3> QED
            BY <3>1
    <2> QED
        BY <1>1, <2>1, <2>2
<1>7. \A a, b \in 1..Len(q) : q[a] = q[b] => a = b
    BY InjectiveByPosition
<1>8. ToSet(r) = ToSet(q) \ {q[n]}
    <2>1. \A e : e \in ToSet(r) <=> \E i \in 1..Len(r) : r[i] = e
        BY <1>4, ToSetByPosition
    <2>2. \A e : e \in ToSet(q) <=> \E k \in 1..Len(q) : q[k] = e
        BY ToSetByPosition
    <2>3. ASSUME NEW e \in ToSet(r) PROVE e \in ToSet(q) \ {q[n]}
        BY <1>5, <1>7, <2>1, <2>2
    <2>4. ASSUME NEW e \in ToSet(q) \ {q[n]} PROVE e \in ToSet(r)
        <3>1. PICK k \in 1..Len(q) : q[k] = e
            BY <2>2
        <3>2. PICK i \in 1..Len(r) : old(i) = k
            BY <1>6, <3>1
        <3> QED
            BY <1>5, <2>1, <3>1, <3>2
    <2> QED
        BY <2>3, <2>4
<1>9. IsInjective(r)
    <2>1. ASSUME NEW a \in 1..Len(r), NEW b \in 1..Len(r), r[a] = r[b] PROVE a = b
        <3>1. old(a) = old(b)
            BY <1>5, <1>7, <2>1
        <3> QED
            BY <1>4, <3>1
    <2> QED
        BY <1>4, <2>1, InjectiveByPosition
<1> QED
    BY <1>4, <1>8, <1>9

\* The element at the front leaves.
LEMMA RemoveHead ==
    ASSUME NEW S, NEW q \in Seq(S), IsInjective(q), q # <<>>
    PROVE  /\ Head(q) \in ToSet(q)
           /\ ToSet(Tail(q)) = ToSet(q) \ {Head(q)}
           /\ IsInjective(Tail(q))
<1>1. Len(q) \in Nat \ {0}
    BY EmptySeq
<1>2. Tail(q) = SubSeq(q, 2, Len(q))
    BY TailIsSubSeq
<1>3. SubSeq(q, 1, 1 - 1) = <<>>
    BY SubSeqEmpty
<1>4. SubSeq(q, 2, Len(q)) \in Seq(S)
    BY <1>2, HeadTailProperties
<1>5. RemoveAt(q, 1) = Tail(q)
    BY <1>2, <1>3, <1>4, ConcatEmptySeq DEF RemoveAt
<1>6. Head(q) = q[1]
    BY <1>1
<1>7. 1 \in 1..Len(q)
    BY <1>1
<1> QED
    <2>1. /\ ToSet(RemoveAt(q, 1)) = ToSet(q) \ {q[1]}
          /\ IsInjective(RemoveAt(q, 1))
        BY <1>7, RemovePosition
    <2>2. q[1] \in ToSet(q)
        BY <1>7, ToSetByPosition
    <2> QED
        BY <1>5, <1>6, <2>1, <2>2
----------------------------------------------------------------------------
(* Threads, locations, queues and ranks.                                   *)

USE DEF Submitter, Canceller, Worker

LEMMA ThreadNames ==
    \A j \in Jobs : Submitter(j) \in Threads /\ Canceller(j) \in Threads /\ Worker(j) \in Threads
BY DEF Threads

\* The tables that say where a thread goes next stay among the locations.
LEMMA NextLocations ==
    /\ \A l \in DOMAIN AfterPersist : l \in Location /\ AfterPersist[l] \in Location
    /\ \A l \in DOMAIN AfterPrune : l \in Location /\ AfterPrune[l] \in Location
BY DEF AfterPersist, AfterPrune, Location

LEMMA PersistAtType ==
    ASSUME TypeOK, NEW t \in Threads, NEW l \in DOMAIN AfterPersist, NEW s \in Status,
           PersistAt(t, l, s)
    PROVE  pc' \in [Threads -> Location] /\ snap' \in [Threads -> Status]
<1>1. l \in Location /\ AfterPersist[l] \in Location
    BY NextLocations
<1> QED
    BY <1>1 DEF PersistAt, Goto, TypeOK

\* A job that leaves a queue leaves a queue behind.
LEMMA RemoveAtType ==
    ASSUME NEW s \in Seq(Jobs), NEW i \in DOMAIN s
    PROVE  RemoveAt(s, i) \in Seq(Jobs)
<1>1. i \in 1..Len(s) /\ Len(s) \in Nat
    BY LenProperties
<1>2. SubSeq(s, 1, i - 1) \in Seq(Jobs) /\ SubSeq(s, i + 1, Len(s)) \in Seq(Jobs)
    BY <1>1, SubSeqProperties
<1> QED
    BY <1>2, ConcatProperties DEF RemoveAt

LEMMA FinishedIsFinite == ASSUME NEW j PROVE Cardinality(Finished \ {j}) \in Nat
<1>1. IsFiniteSet(Finished \ {j})
    BY JobsAssumption, FS_Subset DEF Finished
<1> QED
    BY <1>1, FS_CardinalityType

\* Stamping a job keeps every rank a natural number.
LEMMA TouchType ==
    ASSUME TypeOK, NEW j \in Jobs, Touch(j)
    PROVE  age' \in [Jobs -> Nat]
<1>1. PICK r \in Ranks(j) : age' = Stamped(j, r)
    BY DEF Touch
<1>2. r \in Nat
    BY FinishedIsFinite DEF Ranks
<1> QED
    BY <1>1, <1>2 DEF Stamped, TypeOK

LEMMA EndedType ==
    ASSUME TypeOK, NEW j \in Jobs, NEW s \in Status
    PROVE  Ended(j, s) \in Entry
BY DEF Ended, Entry, TypeOK

LEMMA ReleaseType ==
    ASSUME TypeOK, NEW j, Release(j)
    PROVE  activeWrite' \in BOOLEAN /\ activeReads' \in Nat
<1>1. activeWrite \in BOOLEAN /\ activeReads \in Nat
    BY DEF TypeOK
<1>2. CASE IsWrite(kind[j])
    BY <1>1, <1>2 DEF Release
<1>3. CASE ~IsWrite(kind[j])
    BY <1>1, <1>3 DEF Release
<1> QED
    BY <1>2, <1>3

LEMMA PublishType ==
    ASSUME TypeOK, NEW j \in Jobs, NEW s \in Status, Publish(j, s)
    PROVE  /\ entries' \in [Jobs -> Entry] /\ age' \in [Jobs -> Nat]
           /\ pc' \in [Threads -> Location] /\ snap' \in [Threads -> Status]
<1>1. Worker(j) \in Threads
    BY ThreadNames
<1>2. CASE entries[j].status = "none"
    <2>1. "pruneResult" \in Location
        BY DEF Location, AfterPrune
    <2> QED
        BY <1>1, <1>2, <2>1 DEF Publish, Goto, TypeOK
<1>3. CASE entries[j].status # "none"
    <2>1. PersistAt(Worker(j), "persistResult", s) /\ Touch(j)
          /\ entries' = [entries EXCEPT ![j] = Ended(j, s)]
        BY <1>3 DEF Publish
    <2>2. "persistResult" \in DOMAIN AfterPersist
        BY DEF AfterPersist
    <2>3. entries' \in [Jobs -> Entry]
        BY <2>1, EndedType DEF TypeOK
    <2> QED
        BY <1>1, <2>1, <2>2, <2>3, PersistAtType, TouchType
<1> QED
    BY <1>2, <1>3
----------------------------------------------------------------------------
(* Type correctness.                                                       *)

LEMMA InitTypeOK == Init => TypeOK
<1> SUFFICES ASSUME Init PROVE TypeOK
    OBVIOUS
<1>1. "new" \in Location /\ "none" \in Status /\ NoEntry \in Entry
    BY DEF Location, Status, NoEntry, Entry
<1>2. writeQueue \in Seq(Jobs) /\ readQueue \in Seq(Jobs)
    BY EmptySeq DEF Init
<1>3. cancelFlag \in [Jobs -> BOOLEAN] /\ sawCancel \in [Jobs -> BOOLEAN]
    BY DEF Init
<1>4. /\ entries \in [Jobs -> Entry] /\ age \in [Jobs -> Nat] /\ pc \in [Threads -> Location]
      /\ snap \in [Threads -> Status] /\ rows \in [Jobs -> Status]
      /\ pick \in [Threads -> Jobs \cup {NoJob}]
    BY <1>1 DEF Init
<1> QED
    BY <1>2, <1>3, <1>4 DEF Init, TypeOK

\* The actions of a thread that submits or cancels a job.
LEMMA RequestTypeOK ==
    ASSUME TypeOK, NEW j \in Jobs,
           \/ Reserve(j) \/ DropAdmission(j) \/ Enqueue(j) \/ CancelQueued(j) \/ CancelRunning(j)
    PROVE  TypeOK'
<1> USE ThreadNames
<1>1. CASE Reserve(j)
    BY <1>1 DEF Reserve, Goto, Location, AfterPrune, TypeOK, request, queues, slots
<1>2. CASE DropAdmission(j)
    BY <1>2 DEF DropAdmission, Goto, Location, TypeOK, request, queues, slots
<1>3. CASE Enqueue(j)
    <2>1. pc' \in [Threads -> Location] /\ snap' \in [Threads -> Status]
        BY <1>3, PersistAtType DEF Enqueue, AfterPersist, Status
    <2>2. entries' \in [Jobs -> Entry]
        BY <1>3 DEF Enqueue, NewEntry, Entry, Status, TypeOK
    <2>3. writeQueue' \in Seq(Jobs) /\ readQueue' \in Seq(Jobs)
        <3>1. /\ writeQueue' = writeQueue \/ writeQueue' = Append(writeQueue, j)
              /\ readQueue' = readQueue \/ readQueue' = Append(readQueue, j)
            <4>1. CASE IsWrite(kind[j])
                BY <1>3, <4>1 DEF Enqueue
            <4>2. CASE ~IsWrite(kind[j])
                BY <1>3, <4>2 DEF Enqueue
            <4> QED
                BY <4>1, <4>2
        <3>2. writeQueue \in Seq(Jobs) /\ readQueue \in Seq(Jobs)
            BY DEF TypeOK
        <3>3. Append(writeQueue, j) \in Seq(Jobs) /\ Append(readQueue, j) \in Seq(Jobs)
            BY <3>2, AppendProperties
        <3> QED
            BY <3>1, <3>2, <3>3
    <2> QED
        BY <1>3, <2>1, <2>2, <2>3 DEF Enqueue, TypeOK, request, slots
<1>4. CASE CancelQueued(j)
    <2>1. pc' \in [Threads -> Location] /\ snap' \in [Threads -> Status]
        BY <1>4, PersistAtType DEF CancelQueued, AfterPersist, Status, Terminal
    <2>2. entries' \in [Jobs -> Entry]
        BY <1>4, EndedType DEF CancelQueued, Status, Terminal, TypeOK
    <2>3. writeQueue' \in Seq(Jobs) /\ readQueue' \in Seq(Jobs)
        BY <1>4, RemoveAtType DEF CancelQueued, TypeOK
    <2>4. age' \in [Jobs -> Nat]
        BY <1>4, TouchType DEF CancelQueued
    <2> QED
        BY <1>4, <2>1, <2>2, <2>3, <2>4 DEF CancelQueued, TypeOK, request, slots
<1>5. CASE CancelRunning(j)
    <2>1. pc' \in [Threads -> Location] /\ snap' \in [Threads -> Status]
        BY <1>5, PersistAtType DEF CancelRunning, AfterPersist, Status
    <2>2. entries' \in [Jobs -> Entry]
        <3>1. entries' = [entries EXCEPT ![j] = [entries[j] EXCEPT !.cancellable = FALSE,
                                                                   !.requested = TRUE]]
            BY <1>5 DEF CancelRunning, TypeOK
        <3>2. [entries[j] EXCEPT !.cancellable = FALSE, !.requested = TRUE] \in Entry
            <4>1. entries[j] \in Entry
                BY DEF TypeOK
            <4> QED
                BY <4>1 DEF Entry
        <3> QED
            BY <3>1, <3>2 DEF TypeOK
    <2> QED
        BY <1>5, <2>1, <2>2 DEF CancelRunning, TypeOK, request, queues, slots
<1> QED
    BY <1>1, <1>2, <1>3, <1>4, <1>5

\* The calls of the job store, pruning, and the dispatch loop.
LEMMA DispatchTypeOK ==
    ASSUME TypeOK, NEW t \in Threads, Persist(t) \/ Prune(t) \/ Dispatch(t)
    PROVE  TypeOK'
<1>1. CASE Persist(t)
    <2>1. pc' \in [Threads -> Location]
        BY <1>1, NextLocations DEF Persist, Goto, TypeOK
    <2>2. Subject(t) \in Jobs
        BY DEF Subject, Threads, TypeOK
    <2>3. rows' \in [Jobs -> Status] /\ snap' \in [Threads -> Status]
        BY <1>1, <2>2 DEF Persist, TypeOK, Status
    <2> QED
        BY <1>1, <2>1, <2>3 DEF Persist, TypeOK, request, queues, slots
<1>2. CASE Prune(t)
    <2>1. pc' \in [Threads -> Location]
        BY <1>2, NextLocations DEF Prune, Goto, TypeOK
    <2>2. rows' \in [Jobs -> Status] /\ age' \in [Jobs -> Nat]
        BY <1>2 DEF Prune, TypeOK, Status
    <2>3. entries' \in [Jobs -> Entry]
        <3>1. NoEntry \in Entry
            BY DEF NoEntry, Entry, Status
        <3> QED
            BY <1>2, <3>1 DEF Prune, TypeOK
    <2> QED
        BY <1>2, <2>1, <2>2, <2>3 DEF Prune, TypeOK, request, queues, slots
<1> DEFINE Popped(j) == PopWrite(j) \/ PopRead(j)
<1>3. ASSUME NEW j \in Jobs, Popped(j)
      PROVE  /\ writeQueue' \in Seq(Jobs) /\ readQueue' \in Seq(Jobs)
             /\ activeWrite' \in BOOLEAN /\ activeReads' \in Nat
    <2>1. /\ writeQueue \in Seq(Jobs) /\ readQueue \in Seq(Jobs)
          /\ activeWrite \in BOOLEAN /\ activeReads \in Nat
        BY DEF TypeOK
    <2>2. CASE PopWrite(j)
        BY <2>1, <2>2, HeadTailProperties DEF PopWrite, CanStartWrite
    <2>3. CASE PopRead(j)
        BY <2>1, <2>3, HeadTailProperties DEF PopRead, CanStartRead
    <2> QED
        BY <1>3, <2>2, <2>3
<1>4. CASE Start(t)
    <2>1. PICK j \in Jobs : /\ Popped(j)
                            /\ entries' = [entries EXCEPT ![j].status = "running"]
                            /\ pick' = [pick EXCEPT ![t] = j]
        BY <1>4 DEF Start
    <2>2. pc' \in [Threads -> Location] /\ snap' \in [Threads -> Status]
        BY <1>4, PersistAtType DEF Start, AfterPersist, Status
    <2>3. entries' \in [Jobs -> Entry] /\ pick' \in [Threads -> Jobs \cup {NoJob}]
        BY <2>1 DEF Entry, Status, TypeOK
    <2> QED
        BY <1>3, <1>4, <2>1, <2>2, <2>3 DEF Start, TypeOK, request
<1>5. CASE Reject(t)
    <2>1. PICK j \in Jobs : /\ Popped(j)
                            /\ entries' = [entries EXCEPT ![j] = Ended(j, "cancelled")]
                            /\ Touch(j)
                            /\ cancelFlag' = [cancelFlag EXCEPT ![j] = TRUE]
                            /\ pick' = [pick EXCEPT ![t] = j]
        BY <1>5 DEF Reject
    <2>2. entries' \in [Jobs -> Entry] /\ age' \in [Jobs -> Nat]
        BY <2>1, EndedType, TouchType DEF Status, Terminal, TypeOK
    <2>3. pick' \in [Threads -> Jobs \cup {NoJob}] /\ pc' \in [Threads -> Location]
        BY <1>5, <2>1 DEF Reject, Goto, Location, TypeOK
    <2> QED
        BY <1>3, <1>5, <2>1, <2>2, <2>3 DEF Reject, TypeOK, request
<1>6. CASE ReleaseRejected(t)
    <2>1. pc' \in [Threads -> Location] /\ snap' \in [Threads -> Status]
        BY <1>6, PersistAtType DEF ReleaseRejected, AfterPersist, Status, Terminal
    <2> QED
        <3>1. activeWrite' \in BOOLEAN /\ activeReads' \in Nat
            BY <1>6, ReleaseType DEF ReleaseRejected
        <3> QED
            BY <1>6, <2>1, <3>1 DEF ReleaseRejected, TypeOK, request, queues
<1>7. CASE Spawn(t)
    BY <1>7 DEF Spawn, TypeOK, Location, request, queues, slots
<1>8. CASE LeaveLoop(t)
    BY <1>8 DEF LeaveLoop, Goto, TypeOK, Location, request, queues, slots
<1> QED
    BY <1>1, <1>2, <1>4, <1>5, <1>6, <1>7, <1>8 DEF Dispatch

\* The actions of a worker.
LEMMA WorkTypeOK ==
    ASSUME TypeOK, NEW j \in Jobs, Work(j)
    PROVE  TypeOK'
<1> USE ThreadNames
<1>1. CASE BeginWork(j)
    BY <1>1 DEF BeginWork, Goto, Location, TypeOK, request, queues, slots
<1>2. CASE Report(j)
    <2>1. pc' \in [Threads -> Location] /\ snap' \in [Threads -> Status]
        BY <1>2, PersistAtType DEF Report, AfterPersist, TypeOK, Entry
    <2> QED
        BY <1>2, <2>1 DEF Report, TypeOK, request, queues, slots
<1>3. CASE Commit(j)
    <2>1. pc' \in [Threads -> Location] /\ snap' \in [Threads -> Status]
        BY <1>3, PersistAtType DEF Commit, AfterPersist, TypeOK, Entry
    <2>2. entries' \in [Jobs -> Entry]
        <3>1. entries' = [entries EXCEPT ![j] = [entries[j] EXCEPT !.cancellable = FALSE,
                                                                   !.requested = FALSE]]
            BY <1>3 DEF Commit, TypeOK
        <3>2. [entries[j] EXCEPT !.cancellable = FALSE, !.requested = FALSE] \in Entry
            <4>1. entries[j] \in Entry
                BY DEF TypeOK
            <4> QED
                BY <4>1 DEF Entry
        <3> QED
            BY <3>1, <3>2 DEF TypeOK
    <2> QED
        BY <1>3, <2>1, <2>2 DEF Commit, TypeOK, request, queues, slots
<1>4. CASE RefuseCommit(j)
    <2>1. CASE InFlight(j)
        <3>1. /\ entries' = [entries EXCEPT ![j] = Ended(j, "cancelled")]
              /\ Touch(j)
              /\ PersistAt(Worker(j), "persistRefused", "cancelled")
            BY <1>4, <2>1 DEF RefuseCommit
        <3>2. pc' \in [Threads -> Location] /\ snap' \in [Threads -> Status]
            BY <3>1, PersistAtType DEF AfterPersist, Status, Terminal
        <3>3. entries' \in [Jobs -> Entry] /\ age' \in [Jobs -> Nat]
            BY <3>1, EndedType, TouchType DEF Status, Terminal, TypeOK
        <3> QED
            BY <1>4, <3>2, <3>3 DEF RefuseCommit, TypeOK, request, queues, slots
    <2>2. CASE ~InFlight(j)
        <3>1. Goto(Worker(j), "markCancelled") /\ UNCHANGED <<entries, age, snap>>
            BY <1>4, <2>2 DEF RefuseCommit
        <3> QED
            BY <1>4, <3>1 DEF RefuseCommit, Goto, Location, TypeOK, request, queues, slots
    <2> QED
        BY <2>1, <2>2
<1>5. CASE LoadCancelFlag(j)
    BY <1>5 DEF LoadCancelFlag, Goto, Location, TypeOK, request, queues, slots
<1>6. CASE Succeed(j)
    <2>1. PICK s \in Status : Publish(j, s)
        BY <1>6 DEF Succeed, Status, Terminal
    <2>2. sawCancel' \in [Jobs -> BOOLEAN]
        BY <1>6 DEF Succeed, TypeOK
    <2> QED
        BY <1>6, <2>1, <2>2, PublishType DEF Succeed, TypeOK, request, queues, slots
<1>7. CASE Fail(j)
    <2>1. "failed" \in Status
        BY DEF Status, Terminal
    <2> QED
        BY <1>7, <2>1, PublishType DEF Fail, TypeOK, request, queues, slots
<1>8. CASE MarkCancelled(j)
    <2>1. "cancelled" \in Status
        BY DEF Status, Terminal
    <2> QED
        BY <1>8, <2>1, PublishType DEF MarkCancelled, TypeOK, request, queues, slots
<1>9. CASE ReturnSilently(j)
    BY <1>9 DEF ReturnSilently, Goto, Location, TypeOK, request, queues, slots
<1>10. CASE WorkerFinished(j)
    <2>1. activeWrite' \in BOOLEAN /\ activeReads' \in Nat
        BY <1>10, ReleaseType DEF WorkerFinished
    <2>2. /\ entries' \in [Jobs -> Entry] /\ age' \in [Jobs -> Nat]
          /\ pc' \in [Threads -> Location] /\ snap' \in [Threads -> Status]
        <3>1. CASE InFlight(j)
            <4>1. PICK s \in Status : /\ entries' = [entries EXCEPT ![j] = Ended(j, s)]
                                      /\ Touch(j)
                                      /\ PersistAt(Worker(j), "persistFinal", s)
                BY <1>10, <3>1 DEF WorkerFinished, Status, Terminal
            <4>2. "persistFinal" \in DOMAIN AfterPersist
                BY DEF AfterPersist
            <4>3. entries' \in [Jobs -> Entry]
                BY <4>1, EndedType DEF TypeOK
            <4> QED
                BY <4>1, <4>2, <4>3, PersistAtType, TouchType
        <3>2. CASE ~InFlight(j)
            <4>1. Goto(Worker(j), "pruneFinal") /\ UNCHANGED <<entries, age, snap>>
                BY <1>10, <3>2 DEF WorkerFinished
            <4> QED
                BY <4>1 DEF Goto, Location, AfterPrune, TypeOK
        <3> QED
            BY <3>1, <3>2
    <2> QED
        BY <1>10, <2>1, <2>2 DEF WorkerFinished, TypeOK, request, queues
<1>11. CASE FinishPanics(j)
    <2>1. activeWrite' \in BOOLEAN /\ activeReads' \in Nat
        BY <1>11, ReleaseType DEF FinishPanics
    <2>2. pc' \in [Threads -> Location]
        BY <1>11 DEF FinishPanics, Goto, Location, TypeOK
    <2> QED
        BY <1>11, <2>1, <2>2 DEF FinishPanics, TypeOK, request, queues
<1> QED
    BY <1>1, <1>2, <1>3, <1>4, <1>5, <1>6, <1>7, <1>8, <1>9, <1>10, <1>11 DEF Work, EndWork

LEMMA NextTypeOK == TypeOK /\ [Next]_vars => TypeOK'
<1> SUFFICES ASSUME TypeOK, [Next]_vars PROVE TypeOK'
    OBVIOUS
<1>1. CASE UNCHANGED vars
    BY <1>1 DEF vars, TypeOK, request, queues, slots
<1>2. ASSUME NEW j \in Jobs,
             \/ Reserve(j) \/ DropAdmission(j) \/ Enqueue(j) \/ CancelQueued(j) \/ CancelRunning(j)
             \/ Work(j)
      PROVE  TypeOK'
    BY <1>2, RequestTypeOK, WorkTypeOK
<1>3. ASSUME NEW t \in Threads, Persist(t) \/ Prune(t) \/ Dispatch(t) PROVE TypeOK'
    BY <1>3, DispatchTypeOK
<1> QED
    BY <1>1, <1>2, <1>3 DEF Next, Idle

\* Every reachable state of the registry is well typed: in particular the
\* count of active read jobs never drops below zero, and no thread leaves the
\* locations of the two tables.
THEOREM TypeCorrect == Spec => []TypeOK
<1>1. Init => TypeOK
    BY InitTypeOK
<1>2. TypeOK /\ [Next]_vars => TypeOK'
    BY NextTypeOK
<1> QED
    BY <1>1, <1>2, PTL DEF Spec
----------------------------------------------------------------------------
(***************************************************************************)
(* The point of no return.  PointOfNoReturn is not inductive: that a       *)
(* cancelled job is never committed rests on what its entry says           *)
(* (cancellable), on where its worker stands, and on its being started     *)
(* once, hence on the queues and on pruning, which must leave a job in     *)
(* flight alone.                                                           *)
(***************************************************************************)

\* The request of j has not been enqueued yet.
Unborn(j) == pc[Submitter(j)] \in {"new", "admitted", "enqueue"}

\* Thread t has taken a job to start and has not yet spawned its worker.
Starting(t) == pc[t] \in {"persistRunning", "spawn"}

\* Where a worker may stand once its work has crossed the point of no return.
PastCommit ==
    {"persistCommitted", "work", "persistProgress", "succeed", "persistResult", "pruneResult",
     "finish", "persistFinal", "pruneFinal", "dispatch", "persistRunning", "spawn", "release",
     "persistRejected", "pruneRejected", "done"}

\* Only finished jobs have a rank, so only they are pruned.
RankedAreFinished == \A j \in Jobs : age[j] > 0 => entries[j].status \in Terminal

UnbornAreUntouched ==
    \A j \in Jobs : Unborn(j) => entries[j].status = "none" /\ pc[Worker(j)] = "new"

QueuedHaveNoWorker == \A j \in Jobs : entries[j].status = "queued" => pc[Worker(j)] = "new"

\* A job is started by one thread, and has no worker before.
StartedOnce ==
    /\ \A t \in Threads : Starting(t) =>
          /\ pick[t] \in Jobs
          /\ entries[pick[t]].status = "running"
          /\ pc[Worker(pick[t])] = "new"
    /\ \A t, u \in Threads : Starting(t) /\ Starting(u) /\ pick[t] = pick[u] => t = u

CommittedStayCommitted ==
    \A j \in committed :
       /\ HasPointOfNoReturn(kind[j])
       /\ ~entries[j].cancellable
       /\ pc[Worker(j)] \in PastCommit

SeenCancelIsReal == \A j \in Jobs : sawCancel[j] => cancelFlag[j]

IInv ==
    /\ TypeOK
    /\ QueuedIffInQueue
    /\ RankedAreFinished
    /\ UnbornAreUntouched
    /\ QueuedHaveNoWorker
    /\ StartedOnce
    /\ CommittedStayCommitted
    /\ SeenCancelIsReal
    /\ PointOfNoReturn

\* It holds at first.
LEMMA InitIInv == Init => IInv
<1> SUFFICES ASSUME Init PROVE IInv
    OBVIOUS
<1>1. TypeOK
    BY InitTypeOK
<1>2. QueuedIffInQueue
    <2>1. ToSet(writeQueue) = {} /\ ToSet(readQueue) = {}
          /\ IsInjective(writeQueue) /\ IsInjective(readQueue)
        BY EmptyQueue DEF Init
    <2>2. \A j \in Jobs : entries[j].status # "queued"
        BY DEF Init, NoEntry
    <2> QED
        BY <2>1, <2>2 DEF QueuedIffInQueue
<1>3. RankedAreFinished /\ SeenCancelIsReal /\ PointOfNoReturn /\ CommittedStayCommitted
    BY DEF Init, RankedAreFinished, SeenCancelIsReal, PointOfNoReturn, CommittedStayCommitted
<1>4. UnbornAreUntouched /\ QueuedHaveNoWorker /\ StartedOnce
    BY ThreadNames
       DEF Init, UnbornAreUntouched, QueuedHaveNoWorker, StartedOnce, Starting, NoEntry
<1> QED
    BY <1>1, <1>2, <1>3, <1>4 DEF IInv

\* Stamping j gives no other job a rank.
LEMMA TouchRanks ==
    ASSUME TypeOK, NEW j \in Jobs, Touch(j)
    PROVE  \A i \in Jobs : age'[i] > 0 => i = j \/ age[i] > 0
<1>1. PICK r \in Ranks(j) : age' = Stamped(j, r)
    BY DEF Touch
<1>2. r \in Nat \ {0}
    BY FinishedIsFinite DEF Ranks
<1> QED
    BY <1>1, <1>2 DEF Stamped, TypeOK

\* The queues do not change and no job becomes or ceases to be queued.
LEMMA QueuesKept ==
    ASSUME QueuedIffInQueue, UNCHANGED <<request, queues>>,
           \A i \in Jobs : entries'[i].status = "queued" <=> entries[i].status = "queued"
    PROVE  QueuedIffInQueue'
BY DEF QueuedIffInQueue, request, queues

\* What every action of the worker of j does to the job and to the thread.
WorkShape(j) ==
    /\ pc[Worker(j)] \notin {"new", "persistRunning", "spawn"}
    /\ \E l \in Location \ {"new", "admitted", "enqueue", "persistRunning", "spawn"} :
          pc' = [pc EXCEPT ![Worker(j)] = l]
    /\ UNCHANGED <<request, pick, queues>>
    /\ \A i \in Jobs \ {j} : entries'[i] = entries[i]
    /\ \/ entries'[j].status = entries[j].status
       \/ entries[j].status # "none" /\ entries'[j].status \in Terminal
    /\ \A i \in Jobs : age'[i] > 0 =>
          age[i] > 0 \/ (i = j /\ entries'[j].status \in Terminal)

\* The work of a job leaves the queues and the other jobs alone.
LEMMA WorkKeepsLives ==
    ASSUME IInv, NEW j \in Jobs, WorkShape(j)
    PROVE  /\ QueuedIffInQueue' /\ RankedAreFinished' /\ UnbornAreUntouched'
           /\ QueuedHaveNoWorker' /\ StartedOnce'
<1> USE ThreadNames
<1>1. entries[j].status # "queued" /\ ~Unborn(j)
    BY DEF IInv, WorkShape, QueuedHaveNoWorker, UnbornAreUntouched
<1>2. PICK l \in Location \ {"new", "admitted", "enqueue", "persistRunning", "spawn"} :
          pc' = [pc EXCEPT ![Worker(j)] = l]
    BY DEF WorkShape
<1>3. \A t \in Threads : pc'[t] = pc[t] \/ (t = Worker(j) /\ pc'[t] = l)
    BY <1>2 DEF IInv, TypeOK
<1>4. QueuedIffInQueue'
    <2>1. \A i \in Jobs : entries'[i].status = "queued" <=> entries[i].status = "queued"
        BY <1>1 DEF WorkShape, Terminal
    <2> QED
        BY <2>1, QueuesKept DEF IInv, WorkShape
<1>5. RankedAreFinished'
    BY DEF IInv, WorkShape, RankedAreFinished, Terminal
<1>6. UnbornAreUntouched' /\ QueuedHaveNoWorker'
    <2>1. ASSUME NEW i \in Jobs
          PROVE  /\ Unborn(i)' => entries'[i].status = "none" /\ pc'[Worker(i)] = "new"
                 /\ entries'[i].status = "queued" => pc'[Worker(i)] = "new"
        <3>1. CASE i = j
            BY <1>1, <1>3, <3>1 DEF WorkShape, Unborn, Terminal
        <3>2. CASE i # j
            BY <1>3, <3>2 DEF IInv, WorkShape, UnbornAreUntouched, QueuedHaveNoWorker, Unborn
        <3> QED
            BY <3>1, <3>2
    <2> QED
        BY <2>1 DEF UnbornAreUntouched, QueuedHaveNoWorker
<1>7. StartedOnce'
    <2>1. \A t \in Threads : Starting(t)' => Starting(t)
        BY <1>3 DEF Starting
    <2>2. pick' = pick
        BY DEF WorkShape
    <2>3. ASSUME NEW t \in Threads, Starting(t)
          PROVE  /\ pick[t] \in Jobs \ {j} /\ entries[pick[t]].status = "running"
                 /\ pc[Worker(pick[t])] = "new"
        BY <2>3 DEF IInv, StartedOnce, WorkShape
    <2>4. ASSUME NEW t \in Threads, Starting(t)
          PROVE  entries'[pick[t]].status = "running" /\ pc'[Worker(pick[t])] = "new"
        BY <1>3, <2>3, <2>4 DEF WorkShape
    <2> QED
        BY <2>1, <2>2, <2>3, <2>4 DEF IInv, StartedOnce
<1> QED
    BY <1>4, <1>5, <1>6, <1>7

\* Where PersistAt takes a thread.
LEMMA PersistAtGoes ==
    ASSUME NEW t, NEW l \in DOMAIN AfterPersist, NEW s, PersistAt(t, l, s)
    PROVE  pc' = [pc EXCEPT ![t] = l] \/ pc' = [pc EXCEPT ![t] = AfterPersist[l]]
BY DEF PersistAt, Goto

\* What publishing an outcome does to the entries.
LEMMA PublishShape ==
    ASSUME IInv, NEW j \in Jobs, NEW s \in Terminal, Publish(j, s)
    PROVE  /\ \E l \in {"persistResult", "pruneResult"} : pc' = [pc EXCEPT ![Worker(j)] = l]
           /\ \A i \in Jobs \ {j} : entries'[i] = entries[i]
           /\ entries[j].status = "none" => entries' = entries
           /\ entries[j].status # "none" => entries'[j] = Ended(j, s)
           /\ \A i \in Jobs : age'[i] > 0 =>
                 age[i] > 0 \/ (i = j /\ entries'[j].status \in Terminal)
<1>1. TypeOK
    BY DEF IInv
<1>2. CASE entries[j].status = "none"
    BY <1>1, <1>2 DEF Publish, Goto
<1>3. CASE entries[j].status # "none"
    <2>1. /\ entries' = [entries EXCEPT ![j] = Ended(j, s)]
          /\ Touch(j)
          /\ PersistAt(Worker(j), "persistResult", s)
        BY <1>3 DEF Publish
    <2>2. \E l \in {"persistResult", "pruneResult"} : pc' = [pc EXCEPT ![Worker(j)] = l]
        BY <2>1, PersistAtGoes DEF AfterPersist
    <2>3. entries'[j] = Ended(j, s) /\ \A i \in Jobs \ {j} : entries'[i] = entries[i]
        BY <1>1, <2>1 DEF TypeOK
    <2>4. entries'[j].status \in Terminal
        BY <2>3 DEF Ended
    <2> QED
        BY <1>1, <1>3, <2>1, <2>2, <2>3, <2>4, TouchRanks
<1> QED
    BY <1>2, <1>3

\* The actions of a worker have the shape WorkShape, and keep what is known
\* of committed jobs and of cancel flags.
LEMMA WorkPreserves ==
    ASSUME IInv, NEW j \in Jobs, Work(j)
    PROVE  WorkShape(j) /\ CommittedStayCommitted' /\ SeenCancelIsReal' /\ PointOfNoReturn'
<1> USE ThreadNames
<1> DEFINE Kept == CommittedStayCommitted' /\ SeenCancelIsReal' /\ PointOfNoReturn'
           At(l) == pc' = [pc EXCEPT ![Worker(j)] = l]
<1>0. TypeOK /\ CommittedStayCommitted /\ SeenCancelIsReal /\ PointOfNoReturn
    BY DEF IInv
\* An action that leaves flags, commitments and the other jobs alone, and
\* leaves a committed job past its commit and not cancelled.
<1>K. ASSUME UNCHANGED <<kind, cancelFlag, committed>>,
             NEW l, At(l), j \in committed => l \in PastCommit,
             \A i \in Jobs : sawCancel'[i] => sawCancel[i] \/ cancelFlag[i],
             \A i \in Jobs \ {j} : entries'[i] = entries[i],
             j \in committed => /\ ~entries'[j].cancellable
                               /\ entries'[j].status # "cancelled"
      PROVE  Kept
    <2>1. ASSUME NEW i \in committed
          PROVE  pc'[Worker(i)] \in PastCommit /\ ~entries'[i].cancellable
                 /\ entries'[i].status # "cancelled"
        <3>1. i \in Jobs
            BY <1>0 DEF TypeOK
        <3>2. CASE i = j
            BY <1>0, <1>K, <3>2 DEF TypeOK
        <3>3. CASE i # j
            <4>1. pc'[Worker(i)] = pc[Worker(i)] /\ entries'[i] = entries[i]
                BY <1>0, <1>K, <3>1, <3>3 DEF TypeOK
            <4> QED
                BY <1>0, <2>1, <4>1 DEF CommittedStayCommitted, PointOfNoReturn
        <3> QED
            BY <3>2, <3>3
    <2> QED
        BY <1>0, <1>K, <2>1 DEF CommittedStayCommitted, SeenCancelIsReal, PointOfNoReturn
<1>1. CASE BeginWork(j)
    <2>1. PICK l \in {"markCancelled", "work"} : At(l)
        BY <1>1 DEF BeginWork, Goto
    <2>2. j \notin committed
        BY <1>0, <1>1 DEF BeginWork, CommittedStayCommitted, PastCommit
    <2>3. UNCHANGED <<request, kind, pick, queues, entries, age, cancelFlag, committed, sawCancel>>
        BY <1>1 DEF BeginWork, request, queues
    <2>4. Kept
        BY <1>K, <2>1, <2>2, <2>3
    <2>5. WorkShape(j)
        BY <1>1, <2>1, <2>3 DEF BeginWork, WorkShape, Location
    <2> QED
        BY <2>4, <2>5
<1>2. CASE Report(j)
    <2>1. PICK l \in {"persistProgress", "work"} : At(l)
        BY <1>2, PersistAtGoes DEF Report, AfterPersist
    <2>2. UNCHANGED <<request, kind, pick, queues, entries, age, cancelFlag, committed, sawCancel>>
        BY <1>2 DEF Report, request, queues
    <2>3. Kept
        BY <1>0, <1>K, <2>1, <2>2 DEF CommittedStayCommitted, PointOfNoReturn, PastCommit
    <2>4. WorkShape(j)
        BY <1>2, <2>1, <2>2 DEF Report, WorkShape, Location, AfterPersist
    <2> QED
        BY <2>3, <2>4
<1>3. CASE Commit(j)
    <2>1. PICK l \in {"persistCommitted", "work"} : At(l)
        BY <1>3, PersistAtGoes DEF Commit, AfterPersist
    <2>2. /\ UNCHANGED <<request, kind, pick, queues, age, cancelFlag, sawCancel>>
          /\ committed' = committed \cup {j} /\ HasPointOfNoReturn(kind[j]) /\ ~cancelFlag[j]
        BY <1>3 DEF Commit, MayCommit, request, queues
    <2>3. /\ \A i \in Jobs \ {j} : entries'[i] = entries[i]
          /\ ~entries'[j].cancellable /\ entries'[j].status = entries[j].status
          /\ entries[j].status \in {"queued", "running"}
        <3>1. entries' = [entries EXCEPT ![j] = [entries[j] EXCEPT !.cancellable = FALSE,
                                                                   !.requested = FALSE]]
            BY <1>0, <1>3 DEF Commit, TypeOK
        <3>2. entries[j] \in Entry
            BY <1>0 DEF TypeOK
        <3> QED
            BY <1>0, <1>3, <3>1, <3>2 DEF Commit, InFlight, TypeOK, Entry
    <2>4. ASSUME NEW i \in committed'
          PROVE  /\ HasPointOfNoReturn(kind[i]) /\ pc'[Worker(i)] \in PastCommit
                 /\ ~entries'[i].cancellable /\ ~cancelFlag[i]
                 /\ entries'[i].status # "cancelled"
        <3>1. CASE i = j
            <4>1. pc'[Worker(j)] = l
                BY <1>0, <2>1 DEF TypeOK
            <4> QED
                BY <2>1, <2>2, <2>3, <3>1, <4>1 DEF PastCommit
        <3>2. CASE i # j
            <4>1. i \in committed /\ i \in Jobs
                BY <1>0, <2>2, <2>4, <3>2 DEF TypeOK
            <4>2. pc'[Worker(i)] = pc[Worker(i)] /\ entries'[i] = entries[i]
                BY <1>0, <2>1, <2>3, <3>2, <4>1 DEF TypeOK
            <4> QED
                BY <1>0, <4>1, <4>2 DEF CommittedStayCommitted, PointOfNoReturn
        <3> QED
            BY <3>1, <3>2
    <2>5. Kept
        BY <1>0, <2>2, <2>4 DEF CommittedStayCommitted, SeenCancelIsReal, PointOfNoReturn
    <2>6. WorkShape(j)
        BY <1>3, <2>1, <2>2, <2>3 DEF Commit, WorkShape, Location, AfterPersist
    <2> QED
        BY <2>5, <2>6
<1>4. CASE RefuseCommit(j)
    <2>1. j \notin committed
        BY <1>4 DEF RefuseCommit
    <2>2. UNCHANGED <<request, kind, pick, queues, cancelFlag, committed, sawCancel>>
        BY <1>4 DEF RefuseCommit, request, queues
    <2>3. CASE InFlight(j)
        <3>1. /\ entries' = [entries EXCEPT ![j] = Ended(j, "cancelled")]
              /\ Touch(j)
              /\ PersistAt(Worker(j), "persistRefused", "cancelled")
            BY <1>4, <2>3 DEF RefuseCommit
        <3>2. PICK l \in {"persistRefused", "markCancelled"} : At(l)
            BY <3>1, PersistAtGoes DEF AfterPersist
        <3>3. entries'[j] = Ended(j, "cancelled") /\ \A i \in Jobs \ {j} : entries'[i] = entries[i]
            BY <1>0, <3>1 DEF TypeOK
        <3>4. entries'[j].status = "cancelled" /\ entries[j].status # "none"
            BY <2>3, <3>3 DEF Ended, InFlight
        <3>5. Kept
            BY <1>K, <2>1, <2>2, <3>2, <3>3
        <3>6. WorkShape(j)
            BY <1>0, <1>4, <2>2, <3>1, <3>2, <3>3, <3>4, TouchRanks
               DEF RefuseCommit, WorkShape, Location, AfterPersist, Terminal
        <3> QED
            BY <3>5, <3>6
    <2>4. CASE ~InFlight(j)
        <3>1. At("markCancelled") /\ UNCHANGED <<entries, age>>
            BY <1>4, <2>4 DEF RefuseCommit, Goto
        <3>2. Kept
            BY <1>K, <2>1, <2>2, <3>1
        <3>3. WorkShape(j)
            BY <1>4, <2>2, <3>1 DEF RefuseCommit, WorkShape, Location
        <3> QED
            BY <3>2, <3>3
    <2> QED
        BY <2>3, <2>4
<1>5. CASE LoadCancelFlag(j)
    <2>1. At("succeed") /\ sawCancel' = [sawCancel EXCEPT ![j] = cancelFlag[j]]
        BY <1>5 DEF LoadCancelFlag, Goto
    <2>2. UNCHANGED <<request, kind, pick, queues, entries, age, cancelFlag, committed>>
        BY <1>5 DEF LoadCancelFlag, request, queues
    <2>3. \A i \in Jobs : sawCancel'[i] => sawCancel[i] \/ cancelFlag[i]
        BY <1>0, <2>1 DEF TypeOK
    <2>4. Kept
        BY <1>0, <1>K, <2>1, <2>2, <2>3 DEF CommittedStayCommitted, PointOfNoReturn, PastCommit
    <2>5. WorkShape(j)
        BY <1>5, <2>1, <2>2 DEF LoadCancelFlag, WorkShape, Location
    <2> QED
        BY <2>4, <2>5
\* An outcome is published: a committed job is not published as cancelled.
<1>P. ASSUME NEW s \in Terminal, Publish(j, s), j \in committed => s # "cancelled",
             pc[Worker(j)] \notin {"new", "persistRunning", "spawn"},
             UNCHANGED <<request, pick, queues, cancelFlag, committed>>,
             \A i \in Jobs : sawCancel'[i] => sawCancel[i]
      PROVE  WorkShape(j) /\ Kept
    <2>1. PICK l \in {"persistResult", "pruneResult"} : At(l)
        BY <1>P, PublishShape
    <2>2. /\ \A i \in Jobs \ {j} : entries'[i] = entries[i]
          /\ entries[j].status = "none" => entries' = entries
          /\ entries[j].status # "none" => entries'[j] = Ended(j, s)
          /\ \A i \in Jobs : age'[i] > 0 =>
                age[i] > 0 \/ (i = j /\ entries'[j].status \in Terminal)
        BY <1>P, PublishShape
    <2>3. j \in committed => ~entries'[j].cancellable /\ entries'[j].status # "cancelled"
        BY <1>0, <1>P, <2>2 DEF Ended, CommittedStayCommitted, PointOfNoReturn
    <2>4. Kept
        BY <1>K, <1>P, <2>1, <2>2, <2>3 DEF PastCommit, request
    <2>5. WorkShape(j)
        <3>1. l \in Location \ {"new", "admitted", "enqueue", "persistRunning", "spawn"}
            BY DEF Location, AfterPersist, AfterPrune
        <3>2. \/ entries'[j].status = entries[j].status
              \/ entries[j].status # "none" /\ entries'[j].status \in Terminal
            BY <1>P, <2>2 DEF Ended
        <3> QED
            BY <1>P, <2>1, <2>2, <3>1, <3>2 DEF WorkShape
    <2> QED
        BY <2>4, <2>5
<1>6. CASE Succeed(j)
    <2>1. PICK s \in {"cancelled", "succeeded"} :
             Publish(j, s) /\ (s = "cancelled" => sawCancel[j])
        BY <1>6 DEF Succeed
    <2>2. j \in committed => s # "cancelled"
        BY <1>0, <2>1 DEF SeenCancelIsReal, PointOfNoReturn
    <2>3. /\ UNCHANGED <<request, pick, queues, cancelFlag, committed>>
          /\ \A i \in Jobs : sawCancel'[i] => sawCancel[i]
          /\ pc[Worker(j)] = "succeed"
        BY <1>0, <1>6 DEF Succeed, TypeOK
    <2> QED
        BY <1>P, <2>1, <2>2, <2>3 DEF Terminal
<1>7. CASE Fail(j)
    BY <1>7, <1>P DEF Fail, Terminal
<1>8. CASE MarkCancelled(j)
    <2>1. j \notin committed
        BY <1>0, <1>8 DEF MarkCancelled, CommittedStayCommitted, PastCommit
    <2> QED
        BY <1>8, <1>P, <2>1 DEF MarkCancelled, Terminal
<1>9. CASE ReturnSilently(j)
    <2>1. At("finish")
        BY <1>9 DEF ReturnSilently, Goto
    <2>2. UNCHANGED <<request, kind, pick, queues, entries, age, cancelFlag, committed, sawCancel>>
        BY <1>9 DEF ReturnSilently, request, queues
    <2>3. Kept
        BY <1>0, <1>K, <2>1, <2>2 DEF CommittedStayCommitted, PointOfNoReturn, PastCommit
    <2>4. WorkShape(j)
        BY <1>9, <2>1, <2>2 DEF ReturnSilently, WorkShape, Location
    <2> QED
        BY <2>3, <2>4
<1>10. CASE WorkerFinished(j)
    <2>1. UNCHANGED <<request, kind, pick, queues, cancelFlag, committed, sawCancel>>
        BY <1>10 DEF WorkerFinished, request, queues
    <2>2. CASE InFlight(j)
        <3>1. PICK s \in {"cancelled", "failed"} :
                 /\ s = "cancelled" => cancelFlag[j]
                 /\ entries' = [entries EXCEPT ![j] = Ended(j, s)]
                 /\ Touch(j)
                 /\ PersistAt(Worker(j), "persistFinal", s)
            BY <1>10, <2>2 DEF WorkerFinished
        <3>2. PICK l \in {"persistFinal", "pruneFinal"} : At(l)
            BY <3>1, PersistAtGoes DEF AfterPersist
        <3>3. entries'[j] = Ended(j, s) /\ \A i \in Jobs \ {j} : entries'[i] = entries[i]
            BY <1>0, <3>1 DEF TypeOK
        <3>4. entries'[j].status = s /\ ~entries'[j].cancellable /\ entries[j].status # "none"
            BY <2>2, <3>3 DEF Ended, InFlight
        <3>5. j \in committed => s # "cancelled"
            BY <1>0, <3>1 DEF PointOfNoReturn
        <3>6. Kept
            BY <1>K, <2>1, <3>2, <3>3, <3>4, <3>5 DEF PastCommit
        <3>7. WorkShape(j)
            BY <1>0, <1>10, <2>1, <3>1, <3>2, <3>3, <3>4, TouchRanks
               DEF WorkerFinished, WorkShape, Location, AfterPersist, AfterPrune, Terminal
        <3> QED
            BY <3>6, <3>7
    <2>3. CASE ~InFlight(j)
        <3>1. At("pruneFinal") /\ UNCHANGED <<entries, age>>
            BY <1>10, <2>3 DEF WorkerFinished, Goto
        <3>2. Kept
            BY <1>0, <1>K, <2>1, <3>1 DEF CommittedStayCommitted, PointOfNoReturn, PastCommit
        <3>3. WorkShape(j)
            BY <1>10, <2>1, <3>1 DEF WorkerFinished, WorkShape, Location, AfterPrune
        <3> QED
            BY <3>2, <3>3
    <2> QED
        BY <2>2, <2>3
<1>11. CASE FinishPanics(j)
    <2>1. At("done")
        BY <1>11 DEF FinishPanics, Goto
    <2>2. UNCHANGED <<request, kind, pick, queues, entries, age, cancelFlag, committed, sawCancel>>
        BY <1>11 DEF FinishPanics, request, queues
    <2>3. Kept
        BY <1>0, <1>K, <2>1, <2>2 DEF CommittedStayCommitted, PointOfNoReturn, PastCommit
    <2>4. WorkShape(j)
        BY <1>11, <2>1, <2>2 DEF FinishPanics, WorkShape, Location
    <2> QED
        BY <2>3, <2>4
<1> QED
    BY <1>1, <1>2, <1>3, <1>4, <1>5, <1>6, <1>7, <1>8, <1>9, <1>10, <1>11 DEF Work, EndWork

\* The actions of a thread that submits or cancels a job.
LEMMA RequestPreserves ==
    ASSUME IInv, NEW j \in Jobs,
           \/ Reserve(j) \/ DropAdmission(j) \/ Enqueue(j) \/ CancelQueued(j) \/ CancelRunning(j)
    PROVE  IInv'
<1> USE ThreadNames
<1>0. /\ TypeOK /\ QueuedIffInQueue /\ RankedAreFinished /\ UnbornAreUntouched
      /\ QueuedHaveNoWorker /\ StartedOnce /\ CommittedStayCommitted
      /\ SeenCancelIsReal /\ PointOfNoReturn
    BY DEF IInv
<1>1. TypeOK'
    BY <1>0, RequestTypeOK
<1>2. UNCHANGED <<request, pick, committed, sawCancel>>
    BY DEF Reserve, DropAdmission, Enqueue, CancelQueued, CancelRunning
\* The thread is not a worker, and is not starting a job.
<1>3. /\ \A i \in Jobs : pc'[Worker(i)] = pc[Worker(i)]
      /\ \A t \in Threads : Starting(t)' => Starting(t)
      /\ \A i \in Jobs : Unborn(i)' => Unborn(i)
    <2>1. CASE Reserve(j)
        BY <1>0, <2>1 DEF Reserve, Goto, TypeOK, Starting, Unborn
    <2>2. CASE DropAdmission(j)
        BY <1>0, <2>2 DEF DropAdmission, Goto, TypeOK, Starting, Unborn
    <2>3. CASE Enqueue(j)
        <3>1. PICK l \in {"persistQueued", "dispatch"} : pc' = [pc EXCEPT ![Submitter(j)] = l]
            BY <2>3, PersistAtGoes DEF Enqueue, AfterPersist
        <3> QED
            BY <1>0, <3>1 DEF TypeOK, Starting, Unborn
    <2>4. CASE CancelQueued(j)
        <3>1. PICK l \in {"persistCancelled", "pruneCancelled"} :
                 pc' = [pc EXCEPT ![Canceller(j)] = l]
            BY <2>4, PersistAtGoes DEF CancelQueued, AfterPersist
        <3> QED
            BY <1>0, <3>1 DEF TypeOK, Starting, Unborn
    <2>5. CASE CancelRunning(j)
        <3>1. PICK l \in {"persistRequested", "pruneRequested"} :
                 pc' = [pc EXCEPT ![Canceller(j)] = l]
            BY <2>5, PersistAtGoes DEF CancelRunning, AfterPersist
        <3> QED
            BY <1>0, <3>1 DEF TypeOK, Starting, Unborn
    <2> QED
        BY <2>1, <2>2, <2>3, <2>4, <2>5
<1>4. CASE Reserve(j) \/ DropAdmission(j)
    <2>1. UNCHANGED <<entries, age, cancelFlag, queues>>
        BY <1>4 DEF Reserve, DropAdmission
    <2>2. QueuedIffInQueue'
        BY <1>0, <1>2, <2>1, QueuesKept
    <2>3. RankedAreFinished' /\ UnbornAreUntouched' /\ QueuedHaveNoWorker'
        BY <1>0, <1>3, <2>1 DEF RankedAreFinished, UnbornAreUntouched, QueuedHaveNoWorker
    <2>4. StartedOnce'
        BY <1>0, <1>2, <1>3, <2>1 DEF StartedOnce
    <2>5. CommittedStayCommitted' /\ SeenCancelIsReal' /\ PointOfNoReturn'
        BY <1>0, <1>2, <1>3, <2>1
           DEF CommittedStayCommitted, SeenCancelIsReal, PointOfNoReturn, TypeOK, request
    <2> QED
        BY <1>1, <2>2, <2>3, <2>4, <2>5 DEF IInv
<1>5. CASE Enqueue(j)
    <2>1. /\ entries[j].status = "none" /\ pc[Worker(j)] = "new" /\ j \notin committed
        BY <1>0, <1>5 DEF Enqueue, UnbornAreUntouched, Unborn, CommittedStayCommitted, PastCommit
    <2>2. /\ entries'[j].status = "queued" /\ \A i \in Jobs \ {j} : entries'[i] = entries[i]
          /\ UNCHANGED <<age, cancelFlag>> /\ ~Unborn(j)'
        <3>1. PICK l \in {"persistQueued", "dispatch"} : pc' = [pc EXCEPT ![Submitter(j)] = l]
            BY <1>5, PersistAtGoes DEF Enqueue, AfterPersist
        <3>2. ~Unborn(j)'
            BY <1>0, <3>1 DEF TypeOK, Unborn
        <3> QED
            BY <1>0, <1>5, <3>2 DEF Enqueue, NewEntry, TypeOK
    <2>3. QueuedIffInQueue'
        <3>1. j \notin ToSet(writeQueue) /\ j \notin ToSet(readQueue)
            BY <1>0, <2>1 DEF QueuedIffInQueue
        <3>2. /\ writeQueue \in Seq(Jobs) /\ readQueue \in Seq(Jobs)
              /\ IsInjective(writeQueue) /\ IsInjective(readQueue)
            BY <1>0 DEF TypeOK, QueuedIffInQueue
        <3>3. CASE IsWrite(kind[j])
            <4>1. writeQueue' = Append(writeQueue, j) /\ readQueue' = readQueue
                BY <1>5, <3>3 DEF Enqueue
            <4>2. ToSet(writeQueue') = ToSet(writeQueue) \cup {j} /\ IsInjective(writeQueue')
                BY <3>1, <3>2, <4>1, AppendNew
            <4> QED
                BY <1>0, <1>2, <2>2, <3>2, <3>3, <4>1, <4>2 DEF QueuedIffInQueue, request
        <3>4. CASE ~IsWrite(kind[j])
            <4>1. readQueue' = Append(readQueue, j) /\ writeQueue' = writeQueue
                BY <1>5, <3>4 DEF Enqueue
            <4>2. ToSet(readQueue') = ToSet(readQueue) \cup {j} /\ IsInjective(readQueue')
                BY <3>1, <3>2, <4>1, AppendNew
            <4> QED
                BY <1>0, <1>2, <2>2, <3>2, <3>4, <4>1, <4>2 DEF QueuedIffInQueue, request
        <3> QED
            BY <3>3, <3>4
    <2>4. RankedAreFinished'
        BY <1>0, <2>1, <2>2 DEF RankedAreFinished, Terminal
    <2>5. UnbornAreUntouched' /\ QueuedHaveNoWorker'
        BY <1>0, <1>3, <2>1, <2>2 DEF UnbornAreUntouched, QueuedHaveNoWorker
    <2>6. StartedOnce'
        <3>1. \A t \in Threads : Starting(t) => pick[t] # j
            BY <1>0, <2>1 DEF StartedOnce
        <3> QED
            BY <1>0, <1>2, <1>3, <2>2, <3>1 DEF StartedOnce
    <2>7. CommittedStayCommitted' /\ SeenCancelIsReal' /\ PointOfNoReturn'
        BY <1>0, <1>2, <1>3, <2>1, <2>2
           DEF CommittedStayCommitted, SeenCancelIsReal, PointOfNoReturn, TypeOK, request
    <2> QED
        BY <1>1, <2>3, <2>4, <2>5, <2>6, <2>7 DEF IInv
<1>6. CASE CancelQueued(j)
    <2>1. /\ entries[j].status = "queued" /\ entries[j].cancellable
          /\ entries' = [entries EXCEPT ![j] = Ended(j, "cancelled")] /\ Touch(j)
          /\ cancelFlag' = [cancelFlag EXCEPT ![j] = TRUE]
        BY <1>6 DEF CancelQueued, Cancellable
    <2>2. /\ entries'[j].status = "cancelled" /\ \A i \in Jobs \ {j} : entries'[i] = entries[i]
          /\ \A i \in Jobs : cancelFlag'[i] = (cancelFlag[i] \/ i = j)
        BY <1>0, <2>1 DEF Ended, TypeOK
    <2>3. j \notin committed
        BY <1>0, <2>1 DEF CommittedStayCommitted
    <2>4. QueuedIffInQueue'
        <3>1. /\ writeQueue \in Seq(Jobs) /\ readQueue \in Seq(Jobs)
              /\ IsInjective(writeQueue) /\ IsInjective(readQueue)
              /\ DOMAIN writeQueue = 1..Len(writeQueue) /\ DOMAIN readQueue = 1..Len(readQueue)
            BY <1>0, LenProperties DEF TypeOK, QueuedIffInQueue
        <3>2. ASSUME NEW i \in DOMAIN writeQueue, writeQueue[i] = j,
                     writeQueue' = RemoveAt(writeQueue, i), readQueue' = readQueue
              PROVE  QueuedIffInQueue'
            <4>1. ToSet(writeQueue') = ToSet(writeQueue) \ {j} /\ IsInjective(writeQueue')
                BY <3>1, <3>2, RemovePosition
            <4>2. j \in ToSet(writeQueue)
                BY <3>2 DEF ToSet
            <4>3. j \notin ToSet(readQueue)
                BY <1>0, <4>2 DEF QueuedIffInQueue
            <4> QED
                BY <1>0, <1>2, <2>2, <3>1, <3>2, <4>1, <4>3 DEF QueuedIffInQueue, request
        <3>3. ASSUME NEW i \in DOMAIN readQueue, readQueue[i] = j,
                     readQueue' = RemoveAt(readQueue, i), writeQueue' = writeQueue
              PROVE  QueuedIffInQueue'
            <4>1. ToSet(readQueue') = ToSet(readQueue) \ {j} /\ IsInjective(readQueue')
                BY <3>1, <3>3, RemovePosition
            <4>2. j \in ToSet(readQueue)
                BY <3>3 DEF ToSet
            <4>3. j \notin ToSet(writeQueue)
                BY <1>0, <4>2 DEF QueuedIffInQueue
            <4> QED
                BY <1>0, <1>2, <2>2, <3>1, <3>3, <4>1, <4>3 DEF QueuedIffInQueue, request
        <3> QED
            BY <1>6, <3>2, <3>3 DEF CancelQueued
    <2>5. RankedAreFinished'
        BY <1>0, <2>1, <2>2, TouchRanks DEF RankedAreFinished, Terminal
    <2>6. UnbornAreUntouched' /\ QueuedHaveNoWorker'
        BY <1>0, <1>3, <2>1, <2>2 DEF UnbornAreUntouched, QueuedHaveNoWorker
    <2>7. StartedOnce'
        <3>1. \A t \in Threads : Starting(t) => pick[t] # j
            BY <1>0, <2>1 DEF StartedOnce
        <3> QED
            BY <1>0, <1>2, <1>3, <2>2, <3>1 DEF StartedOnce
    <2>8. CommittedStayCommitted' /\ SeenCancelIsReal' /\ PointOfNoReturn'
        BY <1>0, <1>2, <1>3, <2>2, <2>3
           DEF CommittedStayCommitted, SeenCancelIsReal, PointOfNoReturn, TypeOK, request
    <2> QED
        BY <1>1, <2>4, <2>5, <2>6, <2>7, <2>8 DEF IInv
<1>7. CASE CancelRunning(j)
    <2>1. /\ entries[j].status = "running" /\ entries[j].cancellable
          /\ cancelFlag' = [cancelFlag EXCEPT ![j] = TRUE] /\ UNCHANGED <<age, queues>>
        BY <1>7 DEF CancelRunning, Cancellable
    <2>2. /\ entries'[j].status = "running" /\ \A i \in Jobs \ {j} : entries'[i] = entries[i]
          /\ \A i \in Jobs : cancelFlag'[i] = (cancelFlag[i] \/ i = j)
        <3>1. entries' = [entries EXCEPT ![j] = [entries[j] EXCEPT !.cancellable = FALSE,
                                                                   !.requested = TRUE]]
            BY <1>0, <1>7 DEF CancelRunning, TypeOK
        <3>2. entries[j] \in Entry
            BY <1>0 DEF TypeOK
        <3> QED
            BY <1>0, <2>1, <3>1, <3>2 DEF TypeOK, Entry
    <2>3. j \notin committed
        BY <1>0, <2>1 DEF CommittedStayCommitted
    <2>4. QueuedIffInQueue'
        BY <1>0, <1>2, <2>1, <2>2, QueuesKept
    <2>5. RankedAreFinished' /\ UnbornAreUntouched' /\ QueuedHaveNoWorker'
        BY <1>0, <1>3, <2>1, <2>2
           DEF RankedAreFinished, UnbornAreUntouched, QueuedHaveNoWorker, Terminal
    <2>6. StartedOnce'
        BY <1>0, <1>2, <1>3, <2>2 DEF StartedOnce
    <2>7. CommittedStayCommitted' /\ SeenCancelIsReal' /\ PointOfNoReturn'
        BY <1>0, <1>2, <1>3, <2>2, <2>3
           DEF CommittedStayCommitted, SeenCancelIsReal, PointOfNoReturn, TypeOK, request
    <2> QED
        BY <1>1, <2>4, <2>5, <2>6, <2>7 DEF IInv
<1> QED
    BY <1>4, <1>5, <1>6, <1>7

\* A step of a thread that leaves entries, queues and flags alone.
LEMMA QuietStep ==
    ASSUME IInv, TypeOK',
           UNCHANGED <<request, entries, age, cancelFlag, committed, queues, sawCancel>>,
           \A i \in Jobs : Unborn(i)' => Unborn(i),
           \A i \in Jobs : pc[Worker(i)] = "new" => pc'[Worker(i)] = "new",
           \A i \in Jobs : pc[Worker(i)] \in PastCommit => pc'[Worker(i)] \in PastCommit,
           \A t \in Threads : Starting(t)' => Starting(t) /\ pick'[t] = pick[t]
    PROVE  IInv'
<1>0. /\ QueuedIffInQueue /\ RankedAreFinished /\ UnbornAreUntouched
      /\ QueuedHaveNoWorker /\ StartedOnce /\ CommittedStayCommitted
      /\ SeenCancelIsReal /\ PointOfNoReturn /\ TypeOK
    BY DEF IInv
<1>1. QueuedIffInQueue'
    BY <1>0, QueuesKept
<1>2. RankedAreFinished' /\ UnbornAreUntouched' /\ QueuedHaveNoWorker'
    BY <1>0 DEF RankedAreFinished, UnbornAreUntouched, QueuedHaveNoWorker
<1>3. StartedOnce'
    BY <1>0 DEF StartedOnce
<1>4. CommittedStayCommitted' /\ SeenCancelIsReal' /\ PointOfNoReturn'
    BY <1>0 DEF CommittedStayCommitted, SeenCancelIsReal, PointOfNoReturn, TypeOK, request
<1> QED
    BY <1>1, <1>2, <1>3, <1>4 DEF IInv

\* What taking a job from a queue leaves in the queues.
LEMMA PopShape ==
    ASSUME IInv, NEW j \in Jobs, PopWrite(j) \/ PopRead(j)
    PROVE  /\ entries[j].status = "queued"
           /\ IsInjective(writeQueue') /\ IsInjective(readQueue')
           /\ ToSet(writeQueue') \cup ToSet(readQueue') =
                 (ToSet(writeQueue) \cup ToSet(readQueue)) \ {j}
           /\ ToSet(writeQueue') \subseteq ToSet(writeQueue)
           /\ ToSet(readQueue') \subseteq ToSet(readQueue)
<1>1. /\ writeQueue \in Seq(Jobs) /\ readQueue \in Seq(Jobs)
      /\ IsInjective(writeQueue) /\ IsInjective(readQueue) /\ QueuedIffInQueue
    BY DEF IInv, TypeOK, QueuedIffInQueue
<1>2. CASE PopWrite(j)
    <2>1. writeQueue # <<>> /\ j = Head(writeQueue) /\ writeQueue' = Tail(writeQueue)
          /\ readQueue' = readQueue
        BY <1>2 DEF PopWrite, CanStartWrite
    <2>2. j \in ToSet(writeQueue) /\ ToSet(writeQueue') = ToSet(writeQueue) \ {j}
          /\ IsInjective(writeQueue')
        BY <1>1, <2>1, RemoveHead
    <2>3. j \notin ToSet(readQueue)
        BY <1>1, <2>2 DEF QueuedIffInQueue
    <2> QED
        BY <1>1, <2>1, <2>2, <2>3 DEF QueuedIffInQueue
<1>3. CASE PopRead(j)
    <2>1. readQueue # <<>> /\ j = Head(readQueue) /\ readQueue' = Tail(readQueue)
          /\ writeQueue' = writeQueue
        BY <1>3 DEF PopRead, CanStartRead
    <2>2. j \in ToSet(readQueue) /\ ToSet(readQueue') = ToSet(readQueue) \ {j}
          /\ IsInjective(readQueue')
        BY <1>1, <2>1, RemoveHead
    <2>3. j \notin ToSet(writeQueue)
        BY <1>1, <2>2 DEF QueuedIffInQueue
    <2> QED
        BY <1>1, <2>1, <2>2, <2>3 DEF QueuedIffInQueue
<1> QED
    BY <1>2, <1>3

\* The calls of the job store, pruning, and the dispatch loop.
LEMMA DispatchPreserves ==
    ASSUME IInv, NEW t \in Threads, Persist(t) \/ Prune(t) \/ Dispatch(t)
    PROVE  IInv'
<1> USE ThreadNames
<1>0. /\ TypeOK /\ QueuedIffInQueue /\ RankedAreFinished /\ UnbornAreUntouched
      /\ QueuedHaveNoWorker /\ StartedOnce /\ CommittedStayCommitted
      /\ SeenCancelIsReal /\ PointOfNoReturn
    BY DEF IInv
<1>1. TypeOK'
    BY <1>0, DispatchTypeOK
<1>2. CASE Persist(t)
    <2>1. /\ pc[t] \in DOMAIN AfterPersist /\ pc' = [pc EXCEPT ![t] = AfterPersist[pc[t]]]
          /\ UNCHANGED <<request, entries, age, cancelFlag, committed, queues, sawCancel, pick>>
        BY <1>2 DEF Persist, Goto
    <2>2. /\ pc'[t] \notin {"new", "admitted", "enqueue", "persistRunning"}
          /\ pc[t] # "new"
          /\ pc[t] \in PastCommit => pc'[t] \in PastCommit
          /\ pc'[t] = "spawn" => pc[t] = "persistRunning"
        BY <1>0, <2>1 DEF AfterPersist, PastCommit, TypeOK
    <2>3. \A u \in Threads : u # t => pc'[u] = pc[u]
        BY <1>0, <2>1 DEF TypeOK
    <2> QED
        BY <1>1, <2>1, <2>2, <2>3, QuietStep DEF Unborn, Starting
<1>3. CASE Prune(t)
    <2>1. /\ pc[t] \in DOMAIN AfterPrune /\ pc' = [pc EXCEPT ![t] = AfterPrune[pc[t]]]
          /\ pick' = [pick EXCEPT ![t] = NoJob]
          /\ UNCHANGED <<request, cancelFlag, committed, queues, sawCancel>>
        BY <1>3 DEF Prune, Goto
    <2>2. /\ pc'[t] \notin {"new", "admitted", "persistRunning", "spawn"}
          /\ pc'[t] = "enqueue" => pc[t] = "admitted"
          /\ pc[t] # "new"
          /\ pc[t] \in PastCommit => pc'[t] \in PastCommit
        BY <1>0, <2>1 DEF AfterPrune, PastCommit, TypeOK
    <2>3. \A u \in Threads : u # t => pc'[u] = pc[u] /\ pick'[u] = pick[u]
        BY <1>0, <2>1 DEF TypeOK
    <2>4. /\ \A i \in Jobs : Unborn(i)' => Unborn(i)
          /\ \A i \in Jobs : pc[Worker(i)] = "new" => pc'[Worker(i)] = "new"
          /\ \A i \in Jobs : pc[Worker(i)] \in PastCommit => pc'[Worker(i)] \in PastCommit
          /\ \A u \in Threads : Starting(u)' => Starting(u) /\ pick'[u] = pick[u]
        BY <2>2, <2>3 DEF Unborn, Starting
    <2>5. ASSUME NEW i \in Jobs
          PROVE  \/ entries'[i] = entries[i] /\ age'[i] = age[i]
                 \/ entries[i].status \in Terminal /\ entries'[i] = NoEntry /\ age'[i] = 0
        <3>1. CASE UNCHANGED <<rows, entries, age>>
            BY <3>1
        <3>2. CASE /\ entries' = [k \in Jobs |-> IF k \in BeyondHistory THEN NoEntry ELSE entries[k]]
                   /\ age' = [k \in Jobs |-> IF k \in BeyondHistory THEN 0 ELSE age[k]]
            <4>1. i \in BeyondHistory => age[i] > 0
                BY <1>0, LimitsAssumption DEF BeyondHistory, TypeOK
            <4> QED
                BY <1>0, <3>2, <4>1 DEF RankedAreFinished
        <3> QED
            BY <1>3, <3>1, <3>2 DEF Prune
    <2>6. QueuedIffInQueue'
        BY <1>0, <2>1, <2>5, QueuesKept DEF Terminal, NoEntry
    <2>7. RankedAreFinished'
        BY <1>0, <2>5 DEF RankedAreFinished
    <2>8. UnbornAreUntouched' /\ QueuedHaveNoWorker'
        BY <1>0, <2>4, <2>5 DEF UnbornAreUntouched, QueuedHaveNoWorker, NoEntry
    <2>9. StartedOnce'
        <3>1. \A i \in Jobs : entries[i].status = "running" => entries'[i].status = "running"
            BY <2>5 DEF Terminal
        <3> QED
            BY <1>0, <2>4, <3>1 DEF StartedOnce
    <2>10. CommittedStayCommitted' /\ SeenCancelIsReal' /\ PointOfNoReturn'
        <3>1. \A i \in Jobs : entries'[i] = entries[i] \/ entries'[i] = NoEntry
            BY <2>5
        <3>2. committed \subseteq Jobs /\ committed' = committed /\ cancelFlag' = cancelFlag
              /\ sawCancel' = sawCancel /\ kind' = kind
            BY <1>0, <2>1 DEF TypeOK, request
        <3>3. \A i \in committed : /\ ~entries'[i].cancellable
                                   /\ entries'[i].status # "cancelled"
            <4> SUFFICES ASSUME NEW i \in committed
                         PROVE  ~entries'[i].cancellable /\ entries'[i].status # "cancelled"
                OBVIOUS
            <4>1. CASE entries'[i] = entries[i]
                BY <1>0, <4>1 DEF CommittedStayCommitted, PointOfNoReturn
            <4>2. CASE entries'[i] = NoEntry
                BY <4>2 DEF NoEntry
            <4> QED
                BY <3>1, <3>2, <4>1, <4>2
        <3>4. CommittedStayCommitted'
            BY <1>0, <2>4, <3>2, <3>3 DEF CommittedStayCommitted
        <3>5. SeenCancelIsReal' /\ PointOfNoReturn'
            BY <1>0, <3>2, <3>3 DEF SeenCancelIsReal, PointOfNoReturn
        <3> QED
            BY <3>4, <3>5
    <2> QED
        BY <1>1, <2>6, <2>7, <2>8, <2>9, <2>10 DEF IInv
<1>4. CASE Start(t)
    <2>1. PICK j \in Jobs : /\ PopWrite(j) \/ PopRead(j)
                            /\ entries' = [entries EXCEPT ![j].status = "running"]
                            /\ pick' = [pick EXCEPT ![t] = j]
        BY <1>4 DEF Start
    <2>2. /\ pc[t] = "dispatch"
          /\ UNCHANGED <<request, age, cancelFlag, committed, sawCancel>>
        BY <1>4 DEF Start
    <2>3. PICK l \in {"persistRunning", "spawn"} : pc' = [pc EXCEPT ![t] = l]
        BY <1>4, PersistAtGoes DEF Start, AfterPersist
    <2>4. /\ entries[j].status = "queued"
          /\ IsInjective(writeQueue') /\ IsInjective(readQueue')
          /\ ToSet(writeQueue') \cup ToSet(readQueue') =
                (ToSet(writeQueue) \cup ToSet(readQueue)) \ {j}
          /\ ToSet(writeQueue') \subseteq ToSet(writeQueue)
          /\ ToSet(readQueue') \subseteq ToSet(readQueue)
        BY <2>1, PopShape
    <2>5. /\ entries'[j].status = "running" /\ entries'[j].cancellable = entries[j].cancellable
          /\ \A i \in Jobs \ {j} : entries'[i] = entries[i]
        <3>1. entries[j] \in Entry
            BY <1>0 DEF TypeOK
        <3> QED
            BY <1>0, <2>1, <3>1 DEF TypeOK, Entry
    <2>6. pc[Worker(j)] = "new" /\ ~Unborn(j) /\ j \notin committed
        BY <1>0, <2>4 DEF QueuedHaveNoWorker, UnbornAreUntouched, CommittedStayCommitted, PastCommit
    <2>7. /\ \A u \in Threads : u # t => pc'[u] = pc[u] /\ pick'[u] = pick[u]
          /\ pc'[t] = l /\ pick'[t] = j
        BY <1>0, <2>1, <2>3 DEF TypeOK
    <2>8. QueuedIffInQueue'
        BY <1>0, <2>2, <2>4, <2>5 DEF QueuedIffInQueue, request
    <2>9. RankedAreFinished'
        BY <1>0, <2>2, <2>4, <2>5 DEF RankedAreFinished, Terminal
    <2>10. UnbornAreUntouched' /\ QueuedHaveNoWorker'
        <3>1. ASSUME NEW i \in Jobs
              PROVE  /\ Unborn(i)' => entries'[i].status = "none" /\ pc'[Worker(i)] = "new"
                     /\ entries'[i].status = "queued" => pc'[Worker(i)] = "new"
            <4>0. Submitter(i) \in Threads /\ Worker(i) \in Threads
                BY ThreadNames
            <4>1. pc[Worker(i)] = "new" => pc'[Worker(i)] = "new"
                BY <2>2, <2>7, <4>0
            <4>2. Unborn(i)' => Unborn(i)
                BY <2>2, <2>7, <4>0 DEF Unborn
            <4>3. CASE i = j
                BY <2>5, <2>6, <4>1, <4>2, <4>3
            <4>4. CASE i # j
                <5>1. entries'[i] = entries[i]
                    BY <2>5, <4>4
                <5>2. Unborn(i)' => entries'[i].status = "none" /\ pc'[Worker(i)] = "new"
                    BY <1>0, <4>1, <4>2, <5>1 DEF UnbornAreUntouched
                <5>3. entries'[i].status = "queued" => pc'[Worker(i)] = "new"
                    BY <1>0, <4>1, <5>1 DEF QueuedHaveNoWorker
                <5> QED
                    BY <5>2, <5>3
            <4> QED
                BY <4>3, <4>4
        <3> QED
            BY <3>1 DEF UnbornAreUntouched, QueuedHaveNoWorker
    <2>11. StartedOnce'
        <3>1. \A u \in Threads : Starting(u) => pick[u] # j /\ u # t
            BY <1>0, <2>2, <2>4 DEF StartedOnce, Starting
        <3>2. \A u \in Threads : u # t => (Starting(u)' <=> Starting(u)) /\ pick'[u] = pick[u]
            BY <2>7 DEF Starting
        <3>3. \A u \in Threads : Starting(u) =>
                 /\ pick[u] \in Jobs \ {j} /\ entries[pick[u]].status = "running"
                 /\ pc[Worker(pick[u])] = "new"
            BY <1>0, <3>1 DEF StartedOnce
        <3>4. pc'[Worker(j)] = "new"
            BY <2>2, <2>6, <2>7
        <3>5. ASSUME NEW u \in Threads, Starting(u)'
              PROVE  /\ pick'[u] \in Jobs /\ entries'[pick'[u]].status = "running"
                     /\ pc'[Worker(pick'[u])] = "new"
            <4>1. CASE u = t
                BY <2>5, <2>7, <3>4, <4>1
            <4>2. CASE u # t
                <5>1. Starting(u) /\ pick'[u] = pick[u]
                    BY <3>2, <3>5, <4>2
                <5>2. pick[u] \in Jobs \ {j} /\ entries[pick[u]].status = "running"
                      /\ pc[Worker(pick[u])] = "new"
                    BY <3>3, <5>1
                <5>3. pc'[Worker(pick[u])] = "new"
                    BY <2>2, <2>7, <5>2
                <5> QED
                    BY <2>5, <5>1, <5>2, <5>3
            <4> QED
                BY <4>1, <4>2
        <3>6. ASSUME NEW u \in Threads, NEW v \in Threads, Starting(u)', Starting(v)',
                     pick'[u] = pick'[v]
              PROVE  u = v
            BY <1>0, <2>7, <3>1, <3>2, <3>6 DEF StartedOnce
        <3> QED
            BY <3>5, <3>6 DEF StartedOnce
    <2>12. CommittedStayCommitted' /\ SeenCancelIsReal' /\ PointOfNoReturn'
        <3>1. \A i \in Jobs : pc[Worker(i)] \in PastCommit => pc'[Worker(i)] \in PastCommit
            BY <2>7 DEF PastCommit
        <3> QED
            BY <1>0, <2>2, <2>5, <2>6, <3>1
               DEF CommittedStayCommitted, SeenCancelIsReal, PointOfNoReturn, TypeOK, request
    <2> QED
        BY <1>1, <2>8, <2>9, <2>10, <2>11, <2>12 DEF IInv
<1>5. CASE Reject(t)
    <2>1. PICK j \in Jobs : /\ PopWrite(j) \/ PopRead(j)
                            /\ entries' = [entries EXCEPT ![j] = Ended(j, "cancelled")]
                            /\ Touch(j)
                            /\ cancelFlag' = [cancelFlag EXCEPT ![j] = TRUE]
                            /\ pick' = [pick EXCEPT ![t] = j]
        BY <1>5 DEF Reject
    <2>2. /\ pc[t] = "dispatch" /\ pc' = [pc EXCEPT ![t] = "release"]
          /\ UNCHANGED <<request, committed, sawCancel>>
        BY <1>5 DEF Reject, Goto
    <2>3. /\ entries[j].status = "queued"
          /\ IsInjective(writeQueue') /\ IsInjective(readQueue')
          /\ ToSet(writeQueue') \cup ToSet(readQueue') =
                (ToSet(writeQueue) \cup ToSet(readQueue)) \ {j}
          /\ ToSet(writeQueue') \subseteq ToSet(writeQueue)
          /\ ToSet(readQueue') \subseteq ToSet(readQueue)
        BY <2>1, PopShape
    <2>4. /\ entries'[j].status = "cancelled" /\ \A i \in Jobs \ {j} : entries'[i] = entries[i]
          /\ \A i \in Jobs : cancelFlag'[i] = (cancelFlag[i] \/ i = j)
        BY <1>0, <2>1 DEF Ended, TypeOK
    <2>5. pc[Worker(j)] = "new" /\ ~Unborn(j) /\ j \notin committed
        BY <1>0, <2>3 DEF QueuedHaveNoWorker, UnbornAreUntouched, CommittedStayCommitted, PastCommit
    <2>6. /\ \A u \in Threads : u # t => pc'[u] = pc[u] /\ pick'[u] = pick[u]
          /\ pc'[t] = "release"
        BY <1>0, <2>1, <2>2 DEF TypeOK
    <2>7. QueuedIffInQueue'
        BY <1>0, <2>2, <2>3, <2>4 DEF QueuedIffInQueue, request
    <2>8. RankedAreFinished'
        BY <1>0, <2>1, <2>4, TouchRanks DEF RankedAreFinished, Terminal
    <2>9. /\ \A i \in Jobs : /\ Unborn(i)' => Unborn(i)
                             /\ pc[Worker(i)] = "new" => pc'[Worker(i)] = "new"
                             /\ pc[Worker(i)] \in PastCommit => pc'[Worker(i)] \in PastCommit
          /\ \A u \in Threads : Starting(u)' => Starting(u) /\ pick'[u] = pick[u]
        BY <2>2, <2>6 DEF Unborn, Starting, PastCommit
    <2>10. UnbornAreUntouched' /\ QueuedHaveNoWorker'
        BY <1>0, <2>4, <2>5, <2>9 DEF UnbornAreUntouched, QueuedHaveNoWorker
    <2>11. StartedOnce'
        <3>1. \A u \in Threads : Starting(u) => pick[u] # j
            BY <1>0, <2>3 DEF StartedOnce
        <3> QED
            BY <1>0, <2>4, <2>9, <3>1 DEF StartedOnce
    <2>12. CommittedStayCommitted' /\ SeenCancelIsReal' /\ PointOfNoReturn'
        <3>1. CommittedStayCommitted'
            BY <1>0, <2>2, <2>4, <2>5, <2>9 DEF CommittedStayCommitted, TypeOK, request
        <3>2. SeenCancelIsReal'
            BY <1>0, <2>2, <2>4, <2>5, <2>9 DEF SeenCancelIsReal, TypeOK, request
        <3>3. PointOfNoReturn'
            BY <1>0, <2>2, <2>4, <2>5, <2>9 DEF PointOfNoReturn, TypeOK, request
        <3> QED
            BY <3>1, <3>2, <3>3
    <2> QED
        BY <1>1, <2>7, <2>8, <2>10, <2>11, <2>12 DEF IInv
<1>6. CASE ReleaseRejected(t)
    <2>1. PICK l \in {"persistRejected", "pruneRejected"} : pc' = [pc EXCEPT ![t] = l]
        BY <1>6, PersistAtGoes DEF ReleaseRejected, AfterPersist
    <2>2. /\ pc[t] = "release"
          /\ UNCHANGED <<request, entries, age, cancelFlag, committed, queues, sawCancel, pick>>
        BY <1>6 DEF ReleaseRejected
    <2>3. pc'[t] = l /\ \A u \in Threads : u # t => pc'[u] = pc[u]
        BY <1>0, <2>1 DEF TypeOK
    <2> QED
        BY <1>1, <2>2, <2>3, QuietStep DEF Unborn, Starting, PastCommit
<1>7. CASE Spawn(t)
    <2> DEFINE j == pick[t]
    <2>1. /\ pc[t] = "spawn"
          /\ pc' = [pc EXCEPT ![t] = "dispatch", ![Worker(j)] = "begin"]
          /\ pick' = [pick EXCEPT ![t] = NoJob]
          /\ UNCHANGED <<request, entries, age, cancelFlag, committed, queues, sawCancel>>
        BY <1>7 DEF Spawn
    <2>2. j \in Jobs /\ entries[j].status = "running" /\ pc[Worker(j)] = "new"
        BY <1>0, <2>1 DEF StartedOnce, Starting
    <2>3. ~Unborn(j) /\ j \notin committed /\ t # Worker(j)
        BY <1>0, <2>1, <2>2 DEF UnbornAreUntouched, CommittedStayCommitted, PastCommit
    <2>4. /\ pc'[t] = "dispatch" /\ pc'[Worker(j)] = "begin"
          /\ \A u \in Threads : u # t /\ u # Worker(j) => pc'[u] = pc[u]
          /\ \A u \in Threads : u # t => pick'[u] = pick[u]
        BY <1>0, <2>1, <2>2, <2>3 DEF TypeOK
    <2>5. /\ \A i \in Jobs : Unborn(i)' => Unborn(i)
          /\ \A i \in Jobs \ {j} : pc[Worker(i)] = "new" => pc'[Worker(i)] = "new"
          /\ \A i \in Jobs \ {j} : pc[Worker(i)] \in PastCommit => pc'[Worker(i)] \in PastCommit
          /\ \A u \in Threads : Starting(u)' => u # t /\ Starting(u) /\ pick'[u] = pick[u]
        BY <2>1, <2>4 DEF Unborn, Starting, PastCommit
    <2>6. QueuedIffInQueue'
        BY <1>0, <2>1, QueuesKept
    <2>7. RankedAreFinished' /\ UnbornAreUntouched' /\ QueuedHaveNoWorker'
        BY <1>0, <2>1, <2>2, <2>3, <2>5
           DEF RankedAreFinished, UnbornAreUntouched, QueuedHaveNoWorker
    <2>8. StartedOnce'
        <3>1. \A u \in Threads : u # t /\ Starting(u) => pick[u] # j
            BY <1>0, <2>1 DEF StartedOnce, Starting
        <3>2. ASSUME NEW u \in Threads, Starting(u)'
              PROVE  /\ pick'[u] \in Jobs /\ entries'[pick'[u]].status = "running"
                     /\ pc'[Worker(pick'[u])] = "new"
            <4>1. u # t /\ Starting(u) /\ pick'[u] = pick[u]
                BY <2>5, <3>2
            <4>2. /\ pick[u] \in Jobs \ {j} /\ entries[pick[u]].status = "running"
                  /\ pc[Worker(pick[u])] = "new"
                BY <1>0, <3>1, <4>1 DEF StartedOnce
            <4>3. pc'[Worker(pick[u])] = "new"
                BY <2>5, <4>2
            <4> QED
                BY <2>1, <4>1, <4>2, <4>3
        <3>3. ASSUME NEW u \in Threads, NEW v \in Threads, Starting(u)', Starting(v)',
                     pick'[u] = pick'[v]
              PROVE  u = v
            BY <1>0, <2>5, <3>3 DEF StartedOnce
        <3> QED
            BY <3>2, <3>3 DEF StartedOnce
    <2>9. CommittedStayCommitted' /\ SeenCancelIsReal' /\ PointOfNoReturn'
        BY <1>0, <2>1, <2>3, <2>5
           DEF CommittedStayCommitted, SeenCancelIsReal, PointOfNoReturn, TypeOK, request
    <2> QED
        BY <1>1, <2>6, <2>7, <2>8, <2>9 DEF IInv
<1>8. CASE LeaveLoop(t)
    <2>1. /\ pc[t] = "dispatch" /\ pc' = [pc EXCEPT ![t] = "done"]
          /\ UNCHANGED <<request, entries, age, cancelFlag, committed, queues, sawCancel, pick>>
        BY <1>8 DEF LeaveLoop, Goto
    <2>2. pc'[t] = "done" /\ \A u \in Threads : u # t => pc'[u] = pc[u]
        BY <1>0, <2>1 DEF TypeOK
    <2> QED
        BY <1>1, <2>1, <2>2, QuietStep DEF Unborn, Starting, PastCommit
<1> QED
    BY <1>2, <1>3, <1>4, <1>5, <1>6, <1>7, <1>8 DEF Dispatch

\* Every step keeps it.
LEMMA NextIInv == IInv /\ [Next]_vars => IInv'
<1> SUFFICES ASSUME IInv, [Next]_vars PROVE IInv'
    OBVIOUS
<1>1. CASE UNCHANGED vars
    <2>1. TypeOK'
        BY NextTypeOK DEF IInv
    <2> QED
        BY <1>1, <2>1, QuietStep DEF vars, Unborn, Starting
<1>2. ASSUME NEW j \in Jobs,
             \/ Reserve(j) \/ DropAdmission(j) \/ Enqueue(j) \/ CancelQueued(j) \/ CancelRunning(j)
      PROVE  IInv'
    BY <1>2, RequestPreserves
<1>3. ASSUME NEW j \in Jobs, Work(j) PROVE IInv'
    <2>1. TypeOK'
        BY <1>3, WorkTypeOK DEF IInv
    <2>2. WorkShape(j) /\ CommittedStayCommitted' /\ SeenCancelIsReal' /\ PointOfNoReturn'
        BY <1>3, WorkPreserves
    <2> QED
        BY <2>1, <2>2, WorkKeepsLives DEF IInv
<1>4. ASSUME NEW t \in Threads, Persist(t) \/ Prune(t) \/ Dispatch(t) PROVE IInv'
    BY <1>4, DispatchPreserves
<1> QED
    BY <1>1, <1>2, <1>3, <1>4 DEF Next, Idle

\* The inductive invariant of the registry: every thread, entry and queue, in every step.
THEOREM Inductive == Spec => []IInv
<1>1. Init => IInv
    BY InitIInv
<1>2. IInv /\ [Next]_vars => IInv'
    BY NextIInv
<1> QED
    BY <1>1, <1>2, PTL DEF Spec

\* cancel and enter_non_cancellable exclude each other: a job whose
\* cancellation was accepted never changes the database past its point of no
\* return, and one that has passed it is never reported as cancelled.
THEOREM PointOfNoReturnHolds == Spec => []PointOfNoReturn
<1>1. IInv => PointOfNoReturn
    BY DEF IInv
<1> QED
    BY <1>1, Inductive, PTL

\* A job is queued exactly when it stands, once, in the queue of its class: the
\* dispatch loop finds the entry of every job it takes, and cancel always takes
\* a queued job out of its queue.
THEOREM QueuesAreExact == Spec => []QueuedIffInQueue
<1>1. IInv => QueuedIffInQueue
    BY DEF IInv
<1> QED
    BY <1>1, Inductive, PTL

----------------------------------------------------------------------------
(* Slots, wakeups, limits, the job store, and the refinement of            *)
(* JobLifecycle, on top of the invariant IInv.                             *)

HIDE DEF Submitter, Canceller, Worker

\* The control of thread t moves to l, that of every other thread stays.
Moves(t, l) == pc' = [pc EXCEPT ![t] = l]

\* A thread moves alone.
LEMMA MovesTo ==
    ASSUME TypeOK, NEW t \in Threads, NEW l, Moves(t, l)
    PROVE  pc'[t] = l /\ \A u \in Threads \ {t} : pc'[u] = pc[u]
BY DEF Moves, TypeOK

\* A job has three threads of its own.
LEMMA ThreadsDiffer ==
    \A i, j \in Jobs :
       /\ Submitter(i) # Canceller(j) /\ Submitter(i) # Worker(j) /\ Canceller(i) # Worker(j)
       /\ Submitter(i) = Submitter(j) => i = j
       /\ Canceller(i) = Canceller(j) => i = j
       /\ Worker(i) = Worker(j) => i = j
BY DEF Submitter, Canceller, Worker

\* Where the requests, the dispatch loops and the workers go.
LEMMA RequestGoes ==
    ASSUME NEW j \in Jobs
    PROVE  /\ Reserve(j) => Moves(Submitter(j), "admitted")
           /\ DropAdmission(j) => Moves(Submitter(j), "new")
           /\ Enqueue(j) => \E l \in {"persistQueued", "dispatch"} : Moves(Submitter(j), l)
           /\ CancelQueued(j) =>
                 \E l \in {"persistCancelled", "pruneCancelled"} : Moves(Canceller(j), l)
           /\ CancelRunning(j) =>
                 \E l \in {"persistRequested", "pruneRequested"} : Moves(Canceller(j), l)
BY DEF Reserve, DropAdmission, Enqueue, CancelQueued, CancelRunning, PersistAt, Goto, AfterPersist, Moves

\* Where persisting, pruning and dispatching take a thread.
LEMMA DispatchGoes ==
    ASSUME NEW t \in Threads
    PROVE  /\ Persist(t) => pc[t] \in DOMAIN AfterPersist /\ Moves(t, AfterPersist[pc[t]])
           /\ Prune(t) => pc[t] \in DOMAIN AfterPrune /\ Moves(t, AfterPrune[pc[t]])
           /\ Start(t) => \E l \in {"persistRunning", "spawn"} : Moves(t, l)
           /\ Reject(t) => Moves(t, "release")
           /\ ReleaseRejected(t) => \E l \in {"persistRejected", "pruneRejected"} : Moves(t, l)
           /\ LeaveLoop(t) => Moves(t, "done")
BY DEF Persist, Prune, Start, Reject, ReleaseRejected, LeaveLoop, PersistAt, Goto, AfterPersist, Moves

\* Where the steps of the work take a worker.
LEMMA WorkGoes ==
    ASSUME NEW j \in Jobs
    PROVE  /\ BeginWork(j) => \E l \in {"markCancelled", "work"} : Moves(Worker(j), l)
           /\ Report(j) => \E l \in {"persistProgress", "work"} : Moves(Worker(j), l)
           /\ Commit(j) => \E l \in {"persistCommitted", "work"} : Moves(Worker(j), l)
           /\ RefuseCommit(j) => \E l \in {"persistRefused", "markCancelled"} : Moves(Worker(j), l)
           /\ LoadCancelFlag(j) => Moves(Worker(j), "succeed")
           /\ \A s : Publish(j, s) =>
                 \E l \in {"persistResult", "pruneResult"} : Moves(Worker(j), l)
           /\ ReturnSilently(j) => Moves(Worker(j), "finish")
           /\ WorkerFinished(j) => \E l \in {"persistFinal", "pruneFinal"} : Moves(Worker(j), l)
           /\ FinishPanics(j) => Moves(Worker(j), "done")
BY DEF BeginWork, Report, Commit, RefuseCommit, LoadCancelFlag, Publish, ReturnSilently,
       WorkerFinished, FinishPanics, PersistAt, Goto, AfterPersist, Moves
(* Where the action of a request takes its thread, by the thread, and where *)
(* the action of a worker takes the worker.                                 *)
AfterRequest(t, j) ==
    IF t = Submitter(j)
    THEN [new |-> {"admitted"}, admitted |-> {"new"}, enqueue |-> {"persistQueued", "dispatch"}]
    ELSE [new |-> {"persistCancelled", "pruneCancelled", "persistRequested", "pruneRequested"}]

AfterWork ==
    [begin         |-> {"markCancelled", "work"},
     work          |-> {"persistProgress", "work", "persistCommitted", "persistRefused", "markCancelled",
                        "succeed", "persistResult", "pruneResult", "finish"},
     succeed       |-> {"persistResult", "pruneResult"},
     markCancelled |-> {"persistResult", "pruneResult"},
     finish        |-> {"persistFinal", "pruneFinal", "done"}]

\* Requests change queues and reservations, and no slot.
LEMMA RequestFlow ==
    ASSUME TypeOK, NEW j \in Jobs,
           \/ Reserve(j) \/ DropAdmission(j) \/ Enqueue(j) \/ CancelQueued(j) \/ CancelRunning(j)
    PROVE  /\ UNCHANGED <<request, slots, poisoned, pick, sawCancel, committed, rows>>
           /\ \E t \in {Submitter(j), Canceller(j)} :
                 /\ \A u \in Threads \ {t} : pc'[u] = pc[u]
                 /\ pc[t] \in DOMAIN AfterRequest(t, j)
                 /\ pc'[t] \in AfterRequest(t, j)[pc[t]]
<1> USE ThreadNames, ThreadsDiffer
<1>1. UNCHANGED <<request, slots, poisoned, pick, sawCancel, committed, rows>>
    BY DEF Reserve, DropAdmission, Enqueue, CancelQueued, CancelRunning
<1>2. CASE Reserve(j)
    <2>1. pc[Submitter(j)] = "new" /\ Moves(Submitter(j), "admitted")
        BY <1>2, RequestGoes DEF Reserve
    <2> QED
        BY <1>1, <2>1, MovesTo DEF AfterRequest
<1>3. CASE DropAdmission(j)
    <2>1. pc[Submitter(j)] = "admitted" /\ Moves(Submitter(j), "new")
        BY <1>3, RequestGoes DEF DropAdmission
    <2> QED
        BY <1>1, <2>1, MovesTo DEF AfterRequest
<1>4. CASE Enqueue(j)
    <2>1. pc[Submitter(j)] = "enqueue"
        BY <1>4 DEF Enqueue
    <2>2. PICK l \in {"persistQueued", "dispatch"} : Moves(Submitter(j), l)
        BY <1>4, RequestGoes
    <2> QED
        BY <1>1, <2>1, <2>2, MovesTo DEF AfterRequest
<1>5. CASE CancelQueued(j) \/ CancelRunning(j)
    <2>1. pc[Canceller(j)] = "new"
        BY <1>5 DEF CancelQueued, CancelRunning
    <2>2. PICK l \in {"persistCancelled", "pruneCancelled", "persistRequested", "pruneRequested"} :
             Moves(Canceller(j), l)
        BY <1>5, RequestGoes
    <2> QED
        BY <1>1, <2>1, <2>2, MovesTo DEF AfterRequest
<1> QED
    BY <1>2, <1>3, <1>4, <1>5

\* The work of a job moves its own worker and touches no queue.
LEMMA WorkFlow ==
    ASSUME TypeOK, NEW j \in Jobs, Work(j)
    PROVE  /\ UNCHANGED <<request, queues, reservations, pick, cancelFlag, rows>>
           /\ \A u \in Threads \ {Worker(j)} : pc'[u] = pc[u]
           /\ pc[Worker(j)] \in DOMAIN AfterWork
           /\ pc'[Worker(j)] \in AfterWork[pc[Worker(j)]]
           /\ IF pc[Worker(j)] = "finish" THEN Release(j) ELSE UNCHANGED slots
<1> USE ThreadNames, ThreadsDiffer
<1>1. UNCHANGED <<request, queues, reservations, pick, cancelFlag, rows>>
    BY DEF Work, EndWork, BeginWork, Report, Commit, RefuseCommit, LoadCancelFlag, Succeed, Fail,
           MarkCancelled, ReturnSilently, WorkerFinished, FinishPanics
<1>2. ASSUME NEW l, Moves(Worker(j), l),
             pc[Worker(j)] \in DOMAIN AfterWork, l \in AfterWork[pc[Worker(j)]]
      PROVE  /\ \A u \in Threads \ {Worker(j)} : pc'[u] = pc[u]
             /\ pc[Worker(j)] \in DOMAIN AfterWork
             /\ pc'[Worker(j)] \in AfterWork[pc[Worker(j)]]
    BY <1>2, MovesTo
<1>3. CASE BeginWork(j)
    <2>1. pc[Worker(j)] = "begin" /\ UNCHANGED slots
        BY <1>3 DEF BeginWork
    <2>2. PICK l \in {"markCancelled", "work"} : Moves(Worker(j), l)
        BY <1>3, WorkGoes
    <2> QED
        BY <1>1, <1>2, <2>1, <2>2 DEF AfterWork
<1>4. CASE Report(j) \/ Commit(j) \/ RefuseCommit(j)
    <2>1. pc[Worker(j)] = "work" /\ UNCHANGED slots
        BY <1>4 DEF Report, Commit, RefuseCommit
    <2>2. PICK l \in {"persistProgress", "work", "persistCommitted", "persistRefused", "markCancelled"} :
             Moves(Worker(j), l)
        BY <1>4, WorkGoes
    <2> QED
        BY <1>1, <1>2, <2>1, <2>2 DEF AfterWork
<1>5. CASE LoadCancelFlag(j) \/ ReturnSilently(j)
    <2>1. pc[Worker(j)] = "work" /\ UNCHANGED slots
        BY <1>5 DEF LoadCancelFlag, ReturnSilently
    <2>2. PICK l \in {"succeed", "finish"} : Moves(Worker(j), l)
        BY <1>5, WorkGoes
    <2> QED
        BY <1>1, <1>2, <2>1, <2>2 DEF AfterWork
<1>6. CASE Succeed(j) \/ Fail(j) \/ MarkCancelled(j)
    <2>1. pc[Worker(j)] \in {"work", "succeed", "markCancelled"} /\ UNCHANGED slots
        BY <1>6 DEF Succeed, Fail, MarkCancelled
    <2>2. PICK l \in {"persistResult", "pruneResult"} : Moves(Worker(j), l)
        BY <1>6, WorkGoes DEF Succeed, Fail, MarkCancelled
    <2> QED
        BY <1>1, <1>2, <2>1, <2>2 DEF AfterWork
<1>7. CASE WorkerFinished(j) \/ FinishPanics(j)
    <2>1. pc[Worker(j)] = "finish" /\ Release(j)
        BY <1>7 DEF WorkerFinished, FinishPanics
    <2>2. PICK l \in {"persistFinal", "pruneFinal", "done"} : Moves(Worker(j), l)
        BY <1>7, WorkGoes
    <2> QED
        BY <1>1, <1>2, <2>1, <2>2 DEF AfterWork
<1> QED
    BY <1>3, <1>4, <1>5, <1>6, <1>7 DEF Work, EndWork

\* No action of a request or a worker puts a job into a queue but that of Enqueue.
LEMMA RequestQueues ==
    ASSUME TypeOK, NEW j \in Jobs, NEW i \in Jobs,
           \/ Reserve(j) \/ DropAdmission(j) \/ Enqueue(j) \/ CancelQueued(j) \/ CancelRunning(j),
           i # j \/ ~Enqueue(j)
    PROVE  entries'[i].status \in {entries[i].status, "cancelled"}
<1>1. CASE Reserve(j) \/ DropAdmission(j)
    BY <1>1 DEF Reserve, DropAdmission
<1>2. CASE Enqueue(j)
    BY <1>2 DEF Enqueue, TypeOK
<1>3. CASE CancelQueued(j)
    BY <1>3 DEF CancelQueued, Ended, TypeOK
<1>4. CASE CancelRunning(j)
    <2>1. entries' = [entries EXCEPT ![j] = [entries[j] EXCEPT !.cancellable = FALSE,
                                                               !.requested = TRUE]]
        BY <1>4 DEF CancelRunning, TypeOK
    <2>2. entries[j] \in Entry
        BY DEF TypeOK
    <2> QED
        BY <2>1, <2>2 DEF TypeOK, Entry
<1> QED
    BY <1>1, <1>2, <1>3, <1>4
----------------------------------------------------------------------------
(***************************************************************************)
(* Slots.  SlotsMatchHolders is inductive once a job is known to be held   *)
(* once: by the one thread that has picked it, and then by its worker.     *)
(***************************************************************************)

\* Thread t has taken a job, and has neither spawned its worker nor given its slot back.
Holding(t) == pc[t] \in {"persistRunning", "spawn", "release"}

\* A job is held by one thread, and then has no worker and is in no queue.
Held(j) ==
    j \in Jobs /\ pc[Worker(j)] = "new" /\ ~Unborn(j) /\ entries[j].status # "queued"
PicksAreHeld ==
    /\ \A t \in Threads : Holding(t) => Held(pick[t])
    /\ \A t, u \in Threads : Holding(t) /\ Holding(u) /\ pick[t] = pick[u] => t = u

\* A step after which no further thread holds a job.
LEMMA PicksKept ==
    ASSUME PicksAreHeld,
           \A u \in Threads : Holding(u)' => Holding(u) /\ pick'[u] = pick[u],
           \A i \in Jobs : Unborn(i)' => Unborn(i),
           \A i \in Jobs : pc[Worker(i)] = "new" => pc'[Worker(i)] = "new",
           \A i \in Jobs : entries'[i].status = "queued" => entries[i].status = "queued" \/ Unborn(i)
    PROVE  PicksAreHeld'
BY DEF PicksAreHeld, Held

\* A step that moves nobody in or out of a slot keeps the holders.
LEMMA HoldersKept ==
    ASSUME \A u \in Threads : Holding(u)' <=> Holding(u),
           \A u \in Threads : Holding(u) => pick'[u] = pick[u],
           \A i \in Jobs : pc'[Worker(i)] \in Working <=> pc[Worker(i)] \in Working
    PROVE  Holders' = Holders
BY DEF Holders, Holding

\* Slots are held by finitely many jobs.
LEMMA HoldersAreFinite ==
    ASSUME NEW S, S \subseteq Holders
    PROVE  IsFiniteSet(S) /\ Cardinality(S) \in Nat
<1>1. Holders \subseteq Jobs
    BY DEF Holders
<1>2. IsFiniteSet(S)
    BY <1>1, JobsAssumption, FS_Subset
<1> QED
    BY <1>2, FS_CardinalityType

\* A job is taken together with a slot.
LEMMA SlotTaken ==
    ASSUME IInv, SlotsMatchHolders, NEW j \in Jobs, PopWrite(j) \/ PopRead(j),
           UNCHANGED kind, j \notin Holders, Holders' = Holders \cup {j}
    PROVE  SlotsMatchHolders'
<1> DEFINE W == {i \in Holders : IsWrite(kind[i])}
           R == Holders \ W
<1>1. /\ IsFiniteSet(W) /\ Cardinality(W) = (IF activeWrite THEN 1 ELSE 0)
      /\ IsFiniteSet(R) /\ Cardinality(R) = activeReads /\ activeReads <= ConcurrentReads
    BY HoldersAreFinite DEF SlotsMatchHolders
<1>2. j \notin W /\ j \notin R
    OBVIOUS
<1>3. activeReads \in Nat /\ ConcurrentReads \in Nat
    BY LimitsAssumption DEF IInv, TypeOK
<1>4. CASE PopWrite(j)
    <2>1. IsWrite(kind[j])
        <3>1. writeQueue \in Seq(Jobs) /\ writeQueue # <<>> /\ j = Head(writeQueue)
              /\ IsInjective(writeQueue)
            BY <1>4 DEF IInv, TypeOK, QueuedIffInQueue, PopWrite, CanStartWrite
        <3>2. j \in ToSet(writeQueue)
            BY <3>1, RemoveHead
        <3> QED
            BY <3>2 DEF IInv, QueuedIffInQueue
    <2>2. W' = W \cup {j} /\ R' = R
        BY <2>1
    <2>3. ~activeWrite /\ activeWrite' /\ activeReads' = activeReads
        BY <1>4 DEF PopWrite, CanStartWrite
    <2>4. IsFiniteSet(W) /\ Cardinality(W) = 0
        BY <1>1, <2>3
    <2>5. Cardinality(W \cup {j}) = 1
        <3>1. Cardinality(W \cup {j}) = Cardinality(W) + 1
            BY <1>2, <2>4, FS_AddElement
        <3> QED
            BY <2>4, <3>1
    <2> QED
        BY <1>1, <2>2, <2>3, <2>5 DEF SlotsMatchHolders
<1>5. CASE PopRead(j)
    <2>1. ~IsWrite(kind[j])
        <3>1. readQueue \in Seq(Jobs) /\ readQueue # <<>> /\ j = Head(readQueue)
              /\ IsInjective(readQueue)
            BY <1>5 DEF IInv, TypeOK, QueuedIffInQueue, PopRead, CanStartRead
        <3>2. j \in ToSet(readQueue)
            BY <3>1, RemoveHead
        <3> QED
            BY <3>2 DEF IInv, QueuedIffInQueue
    <2>2. W' = W /\ R' = R \cup {j}
        BY <2>1
    <2>3. activeReads < ConcurrentReads /\ activeWrite' = activeWrite /\ activeReads' = activeReads + 1
        BY <1>5 DEF PopRead, CanStartRead
    <2>4. Cardinality(R \cup {j}) = activeReads + 1
        BY <1>1, <1>2, FS_AddElement
    <2>5. activeReads' <= ConcurrentReads
        BY <1>3, <2>3
    <2> QED
        BY <1>1, <2>2, <2>3, <2>4, <2>5 DEF SlotsMatchHolders
<1> QED
    BY <1>4, <1>5

\* A job that no longer holds its slot has given it back.
LEMMA SlotFreed ==
    ASSUME IInv, SlotsMatchHolders, NEW j \in Holders, Release(j),
           UNCHANGED kind, Holders' = Holders \ {j}
    PROVE  SlotsMatchHolders'
<1> DEFINE W == {i \in Holders : IsWrite(kind[i])}
           R == Holders \ W
<1>1. /\ IsFiniteSet(W) /\ Cardinality(W) = (IF activeWrite THEN 1 ELSE 0)
      /\ IsFiniteSet(R) /\ Cardinality(R) = activeReads /\ activeReads <= ConcurrentReads
    BY HoldersAreFinite DEF SlotsMatchHolders
<1>2. activeReads \in Nat /\ ConcurrentReads \in Nat /\ activeWrite \in BOOLEAN
    BY LimitsAssumption DEF IInv, TypeOK
<1>3. CASE IsWrite(kind[j])
    <2>1. W' = W \ {j} /\ R' = R /\ j \in W
        BY <1>3
    <2>2. ~activeWrite' /\ activeReads' = activeReads
        BY <1>3 DEF Release
    <2>3. Cardinality(W) # 0 /\ Cardinality(W \ {j}) = Cardinality(W) - 1
        BY <1>1, <2>1, FS_RemoveElement, FS_EmptySet
    <2>4. Cardinality(W \ {j}) = 0
        BY <1>1, <1>2, <2>3
    <2> QED
        BY <1>1, <2>1, <2>2, <2>4 DEF SlotsMatchHolders
<1>4. CASE ~IsWrite(kind[j])
    <2>1. W' = W /\ R' = R \ {j} /\ j \in R
        BY <1>4
    <2>2. Cardinality(R) # 0 /\ Cardinality(R \ {j}) = Cardinality(R) - 1
        BY <1>1, <2>1, FS_RemoveElement, FS_EmptySet
    <2>3. activeWrite' = activeWrite /\ activeReads' = activeReads - 1
        BY <1>1, <1>2, <1>4, <2>2 DEF Release
    <2>4. Cardinality(R \ {j}) = activeReads' /\ activeReads' <= ConcurrentReads
        BY <1>1, <1>2, <2>2, <2>3
    <2> QED
        BY <1>1, <2>1, <2>3, <2>4 DEF SlotsMatchHolders
<1> QED
    BY <1>3, <1>4

\* A step that takes and gives back no slot.
LEMMA SlotsKept ==
    ASSUME SlotsMatchHolders, UNCHANGED <<kind, activeWrite, activeReads>>, Holders' = Holders
    PROVE  SlotsMatchHolders'
BY DEF SlotsMatchHolders

SlotInv == PicksAreHeld /\ SlotsMatchHolders

\* Requests take and give back no slot.
LEMMA RequestSlots ==
    ASSUME IInv, SlotInv, NEW j \in Jobs,
           \/ Reserve(j) \/ DropAdmission(j) \/ Enqueue(j) \/ CancelQueued(j) \/ CancelRunning(j)
    PROVE  SlotInv'
<1> USE ThreadNames, ThreadsDiffer
<1>0. TypeOK /\ PicksAreHeld /\ SlotsMatchHolders
    BY DEF IInv, SlotInv
<1>1. UNCHANGED <<kind, activeWrite, activeReads, pick>>
    BY <1>0, RequestFlow DEF request, slots
<1>2. PICK t \in {Submitter(j), Canceller(j)} :
          /\ \A u \in Threads \ {t} : pc'[u] = pc[u]
          /\ pc[t] \in DOMAIN AfterRequest(t, j)
          /\ pc'[t] \in AfterRequest(t, j)[pc[t]]
    BY <1>0, RequestFlow
<1>3. /\ \A u \in Threads : Holding(u)' <=> Holding(u)
      /\ \A i \in Jobs : Unborn(i)' => Unborn(i)
      /\ \A i \in Jobs : pc'[Worker(i)] = pc[Worker(i)]
    BY <1>2 DEF Holding, Unborn, AfterRequest
<1>4. ASSUME NEW i \in Jobs, entries'[i].status = "queued"
      PROVE  entries[i].status = "queued" \/ Unborn(i)
    <2>1. CASE i = j /\ Enqueue(j)
        BY <2>1 DEF Enqueue, Unborn
    <2>2. CASE ~(i = j /\ Enqueue(j))
        BY <1>0, <1>4, <2>2, RequestQueues
    <2> QED
        BY <2>1, <2>2
<1>5. PicksAreHeld'
    BY <1>0, <1>1, <1>3, <1>4, PicksKept
<1>6. SlotsMatchHolders'
    BY <1>0, <1>1, <1>3, HoldersKept, SlotsKept
<1> QED
    BY <1>5, <1>6 DEF SlotInv

\* The end of the work gives its slot back, once.
LEMMA WorkSlots ==
    ASSUME IInv, SlotInv, NEW j \in Jobs, Work(j)
    PROVE  SlotInv'
<1> USE ThreadNames, ThreadsDiffer
<1>0. TypeOK /\ PicksAreHeld /\ SlotsMatchHolders
    BY DEF IInv, SlotInv
<1>1. /\ UNCHANGED <<kind, pick>>
      /\ \A u \in Threads \ {Worker(j)} : pc'[u] = pc[u]
      /\ pc[Worker(j)] \in DOMAIN AfterWork
      /\ pc'[Worker(j)] \in AfterWork[pc[Worker(j)]]
      /\ IF pc[Worker(j)] = "finish" THEN Release(j) ELSE UNCHANGED slots
    BY <1>0, WorkFlow DEF request
<1>2. \A i \in Jobs : entries'[i].status = "queued" => entries[i].status = "queued"
    BY WorkPreserves DEF WorkShape, Terminal
<1>3. /\ \A u \in Threads : Holding(u)' <=> Holding(u)
      /\ \A i \in Jobs : Unborn(i)' => Unborn(i)
      /\ \A i \in Jobs : pc[Worker(i)] = "new" => pc'[Worker(i)] = "new"
    BY <1>1 DEF Holding, Unborn, AfterWork
<1>4. PicksAreHeld'
    BY <1>0, <1>1, <1>2, <1>3, PicksKept
<1>5. CASE pc[Worker(j)] = "finish"
    <2>1. j \in Holders
        BY <1>5 DEF Holders, Working
    <2>2. Holders' = Holders \ {j}
        <3>1. \A t \in Threads : Holding(t) => pick[t] # j
            BY <1>0, <1>5 DEF PicksAreHeld, Held
        <3>2. pc'[Worker(j)] \notin Working
            BY <1>1, <1>5 DEF AfterWork, Working
        <3>3. \A i \in Jobs \ {j} : pc'[Worker(i)] = pc[Worker(i)]
            BY <1>1
        <3> QED
            BY <1>1, <1>3, <3>1, <3>2, <3>3 DEF Holders, Holding
    <2> QED
        BY <1>0, <1>1, <1>4, <1>5, <2>1, <2>2, SlotFreed DEF SlotInv
<1>6. CASE pc[Worker(j)] # "finish"
    <2>1. \A i \in Jobs : pc'[Worker(i)] \in Working <=> pc[Worker(i)] \in Working
        BY <1>1, <1>6 DEF AfterWork, Working
    <2> QED
        BY <1>0, <1>1, <1>3, <1>4, <1>6, <2>1, HoldersKept, SlotsKept DEF SlotInv, slots
<1> QED
    BY <1>5, <1>6

\* Thread t takes job j from its queue: j was held by nobody.
LEMMA PickTakesSlot ==
    ASSUME IInv, SlotInv, NEW t \in Threads, NEW j \in Jobs, PopWrite(j) \/ PopRead(j),
           UNCHANGED kind, pc[t] = "dispatch", pick' = [pick EXCEPT ![t] = j],
           NEW l, l \in {"persistRunning", "spawn", "release"}, Moves(t, l),
           entries'[j].status # "queued", \A i \in Jobs \ {j} : entries'[i] = entries[i]
    PROVE  SlotInv'
<1> USE ThreadNames, ThreadsDiffer
<1>0. TypeOK /\ PicksAreHeld /\ SlotsMatchHolders
    BY DEF IInv, SlotInv
<1>1. /\ pc'[t] = l /\ pick'[t] = j
      /\ \A u \in Threads \ {t} : pc'[u] = pc[u] /\ pick'[u] = pick[u]
    BY <1>0, MovesTo DEF TypeOK
<1>2. entries[j].status = "queued"
    BY PopShape
<1>3. pc[Worker(j)] = "new" /\ ~Unborn(j) /\ pc'[Worker(j)] = "new" /\ ~Unborn(j)'
    BY <1>1, <1>2 DEF IInv, QueuedHaveNoWorker, UnbornAreUntouched, Unborn
<1>4. \A u \in Threads : Holding(u) => pick[u] # j /\ u # t
    BY <1>0, <1>2 DEF PicksAreHeld, Held, Holding
<1>5. /\ \A i \in Jobs : Unborn(i)' => Unborn(i)
      /\ \A i \in Jobs : pc[Worker(i)] = "new" => pc'[Worker(i)] = "new"
      /\ \A u \in Threads : Holding(u)' <=> u = t \/ Holding(u)
    BY <1>1 DEF Unborn, Holding
<1>6. PicksAreHeld'
    <2>1. ASSUME NEW u \in Threads, Holding(u)' PROVE Held(pick[u])'
        <3>1. CASE u = t
            BY <1>1, <1>3, <1>5, <3>1 DEF Held, Unborn
        <3>2. CASE u # t
            <4>1. Holding(u) /\ pick'[u] = pick[u] /\ pick[u] # j
                BY <1>1, <1>4, <1>5, <2>1, <3>2
            <4>2. Held(pick[u])
                BY <1>0, <4>1 DEF PicksAreHeld
            <4>3. pick[u] \in Jobs \ {j} /\ ~Unborn(pick[u])'
                BY <1>5, <4>1, <4>2 DEF Held
            <4> QED
                BY <1>5, <4>1, <4>2, <4>3 DEF Held, Unborn
        <3> QED
            BY <3>1, <3>2
    <2>2. ASSUME NEW u \in Threads, NEW v \in Threads, Holding(u)', Holding(v)', pick'[u] = pick'[v]
          PROVE  u = v
        BY <1>0, <1>1, <1>4, <1>5, <2>2 DEF PicksAreHeld, Held
    <2> QED
        BY <2>1, <2>2 DEF PicksAreHeld
<1>7. j \notin Holders
    BY <1>3, <1>4 DEF Holders, Holding, Working
<1>8. Holders' = Holders \cup {j}
    <2>1. \A i \in Jobs : pc'[Worker(i)] \in Working <=> pc[Worker(i)] \in Working
        BY <1>1 DEF Working
    <2> QED
        BY <1>1, <1>4, <1>5, <2>1 DEF Holders, Holding
<1>9. SlotsMatchHolders'
    BY <1>0, <1>7, <1>8, SlotTaken
<1> QED
    BY <1>6, <1>9 DEF SlotInv

\* Dispatch takes a slot for the job it pops, and a rejected start gives it back.
LEMMA DispatchSlots ==
    ASSUME IInv, SlotInv, NEW t \in Threads, Persist(t) \/ Prune(t) \/ Dispatch(t)
    PROVE  SlotInv'
<1> USE ThreadNames, ThreadsDiffer
<1>0. TypeOK /\ PicksAreHeld /\ SlotsMatchHolders
    BY DEF IInv, SlotInv
\* A step that changes the control of t alone, and neither what t holds nor queues.
<1>K. ASSUME UNCHANGED <<kind, activeWrite, activeReads>>,
             NEW l, Moves(t, l),
             \A u \in Threads : u # t \/ Holding(t) => pick'[u] = pick[u],
             l \notin {"new", "admitted"}, l = "enqueue" => pc[t] = "admitted", pc[t] # "new",
             l \in {"persistRunning", "spawn", "release"} <=> Holding(t),
             l \in Working <=> pc[t] \in Working,
             \A i \in Jobs : entries'[i].status = "queued" => entries[i].status = "queued"
      PROVE  SlotInv'
    <2>1. pc'[t] = l /\ \A u \in Threads \ {t} : pc'[u] = pc[u]
        BY <1>0, <1>K, MovesTo
    <2>2. /\ \A u \in Threads : Holding(u)' <=> Holding(u)
          /\ \A u \in Threads : Holding(u) => pick'[u] = pick[u]
        BY <1>K, <2>1 DEF Holding
    <2>3. /\ \A i \in Jobs : Unborn(i)' => Unborn(i)
          /\ \A i \in Jobs : pc[Worker(i)] = "new" => pc'[Worker(i)] = "new"
          /\ \A i \in Jobs : pc'[Worker(i)] \in Working <=> pc[Worker(i)] \in Working
        BY <1>K, <2>1 DEF Unborn
    <2> QED
        BY <1>0, <1>K, <2>2, <2>3, PicksKept, HoldersKept, SlotsKept DEF SlotInv
<1>1. CASE Persist(t)
    <2>1. UNCHANGED <<kind, activeWrite, activeReads, pick, entries>>
        BY <1>1 DEF Persist, request, slots
    <2>2. pc[t] \in DOMAIN AfterPersist /\ Moves(t, AfterPersist[pc[t]])
        BY <1>1, DispatchGoes
    <2> QED
        BY <1>K, <2>1, <2>2 DEF AfterPersist, Holding, Working
<1>2. CASE Prune(t)
    <2>1. UNCHANGED <<kind, activeWrite, activeReads>>
        BY <1>2 DEF Prune, request, slots
    <2>2. pc[t] \in DOMAIN AfterPrune /\ Moves(t, AfterPrune[pc[t]])
        BY <1>2, DispatchGoes
    <2>3. \A u \in Threads : u # t \/ Holding(t) => pick'[u] = pick[u]
        BY <1>0, <1>2, <2>2 DEF Prune, TypeOK, Holding, AfterPrune
    <2>4. \A i \in Jobs : entries'[i].status = "queued" => entries[i].status = "queued"
        BY <1>2 DEF Prune, NoEntry
    <2> QED
        BY <1>K, <2>1, <2>2, <2>3, <2>4 DEF AfterPrune, Holding, Working
<1>3. CASE Start(t)
    <2>1. PICK j \in Jobs : /\ PopWrite(j) \/ PopRead(j)
                            /\ entries' = [entries EXCEPT ![j].status = "running"]
                            /\ pick' = [pick EXCEPT ![t] = j]
        BY <1>3 DEF Start
    <2>2. PICK l \in {"persistRunning", "spawn"} : Moves(t, l)
        BY <1>3, DispatchGoes
    <2>3. entries'[j].status # "queued" /\ \A i \in Jobs \ {j} : entries'[i] = entries[i]
        <3>1. entries[j] \in Entry
            BY <1>0 DEF TypeOK
        <3> QED
            BY <1>0, <2>1, <3>1 DEF TypeOK, Entry
    <2>4. pc[t] = "dispatch" /\ UNCHANGED kind
        BY <1>3 DEF Start, request
    <2> QED
        BY <2>1, <2>2, <2>3, <2>4, PickTakesSlot
<1>4. CASE Reject(t)
    <2>1. PICK j \in Jobs : /\ PopWrite(j) \/ PopRead(j)
                            /\ entries' = [entries EXCEPT ![j] = Ended(j, "cancelled")]
                            /\ pick' = [pick EXCEPT ![t] = j]
        BY <1>4 DEF Reject
    <2>2. Moves(t, "release")
        BY <1>4, DispatchGoes
    <2>3. entries'[j].status # "queued" /\ \A i \in Jobs \ {j} : entries'[i] = entries[i]
        BY <1>0, <2>1 DEF TypeOK, Ended
    <2>4. pc[t] = "dispatch" /\ UNCHANGED kind
        BY <1>4 DEF Reject, request
    <2> QED
        BY <2>1, <2>2, <2>3, <2>4, PickTakesSlot
<1>5. CASE ReleaseRejected(t)
    <2> DEFINE j == pick[t]
    <2>1. PICK l \in {"persistRejected", "pruneRejected"} : Moves(t, l)
        BY <1>5, DispatchGoes
    <2>2. pc[t] = "release" /\ Release(j) /\ UNCHANGED <<kind, entries, pick>>
        BY <1>5 DEF ReleaseRejected, request
    <2>3. pc'[t] = l /\ \A u \in Threads \ {t} : pc'[u] = pc[u]
        BY <1>0, <2>1, MovesTo
    <2>4. /\ \A u \in Threads : Holding(u)' <=> Holding(u) /\ u # t
          /\ \A i \in Jobs : Unborn(i)' => Unborn(i)
          /\ \A i \in Jobs : pc[Worker(i)] = "new" => pc'[Worker(i)] = "new"
        BY <2>2, <2>3 DEF Holding, Unborn
    <2>5. PicksAreHeld'
        BY <1>0, <2>2, <2>4, PicksKept
    <2>6. j \in Holders
        BY <1>0, <2>2 DEF Holders, Holding, PicksAreHeld, Held
    <2>7. Holders' = Holders \ {j}
        <3>1. pc[Worker(j)] = "new" /\ j \in Jobs
            BY <1>0, <2>2 DEF PicksAreHeld, Held, Holding
        <3>2. \A i \in Jobs : /\ pc'[Worker(i)] \in Working <=> pc[Worker(i)] \in Working
                              /\ i = j => pc[Worker(i)] \notin Working
            BY <2>2, <2>3, <3>1 DEF Working
        <3>3. \A u \in Threads : Holding(u) /\ pick[u] = j => u = t
            BY <1>0, <2>2 DEF PicksAreHeld, Held, Holding
        <3> QED
            BY <2>2, <2>4, <3>1, <3>2, <3>3 DEF Holders, Holding
    <2> QED
        BY <1>0, <2>2, <2>5, <2>6, <2>7, SlotFreed DEF SlotInv
<1>6. CASE Spawn(t)
    <2> DEFINE j == pick[t]
    <2>1. /\ pc[t] = "spawn"
          /\ pc' = [pc EXCEPT ![t] = "dispatch", ![Worker(j)] = "begin"]
          /\ pick' = [pick EXCEPT ![t] = NoJob]
          /\ UNCHANGED <<kind, entries, activeWrite, activeReads>>
        BY <1>6 DEF Spawn, request, slots
    <2>2. j \in Jobs /\ pc[Worker(j)] = "new" /\ ~Unborn(j) /\ t # Worker(j)
        BY <1>0, <2>1 DEF PicksAreHeld, Held, Holding
    <2>3. /\ pc'[t] = "dispatch" /\ pc'[Worker(j)] = "begin"
          /\ \A u \in Threads \ {t, Worker(j)} : pc'[u] = pc[u]
          /\ \A u \in Threads \ {t} : pick'[u] = pick[u]
        BY <1>0, <2>1, <2>2 DEF TypeOK
    <2>4. /\ \A u \in Threads : Holding(u)' <=> Holding(u) /\ u # t
          /\ \A i \in Jobs : Unborn(i)' => Unborn(i)
          /\ \A i \in Jobs \ {j} : pc[Worker(i)] = "new" => pc'[Worker(i)] = "new"
        BY <2>1, <2>2, <2>3 DEF Holding, Unborn
    <2>5. \A u \in Threads : Holding(u) /\ pick[u] = j => u = t
        BY <1>0, <2>1 DEF PicksAreHeld, Held, Holding
    <2>6. PicksAreHeld'
        <3>1. ASSUME NEW u \in Threads, Holding(u)' PROVE Held(pick[u])'
            <4>1. Holding(u) /\ u # t /\ pick'[u] = pick[u]
                BY <2>3, <2>4, <3>1
            <4>2. Held(pick[u]) /\ pick[u] \in Jobs \ {j}
                BY <1>0, <2>5, <4>1 DEF PicksAreHeld, Held
            <4>3. ~Unborn(pick[u])'
                BY <2>4, <4>1, <4>2 DEF Held, Unborn
            <4> QED
                BY <2>1, <2>4, <4>1, <4>2, <4>3 DEF Held, Unborn
        <3>2. ASSUME NEW u \in Threads, NEW v \in Threads, Holding(u)', Holding(v)', pick'[u] = pick'[v]
              PROVE  u = v
            BY <1>0, <2>3, <2>4, <3>2 DEF PicksAreHeld, Held
        <3> QED
            BY <3>1, <3>2 DEF PicksAreHeld
    <2>7. Holders' = Holders
        <3>1. \A i \in Jobs : pc'[Worker(i)] \in Working <=> pc[Worker(i)] \in Working \/ i = j
            BY <2>1, <2>2, <2>3 DEF Working
        <3>2. j \in Holders
            BY <2>1, <2>2 DEF Holders
        <3>3. ASSUME NEW i \in Jobs PROVE i \in Holders' <=> i \in Holders
            <4>1. CASE i = j
                BY <3>1, <3>2, <4>1 DEF Holders
            <4>2. CASE i # j
                <5>1. pc'[Worker(i)] \in Working <=> pc[Worker(i)] \in Working
                    BY <3>1, <4>2
                <5>2. ASSUME NEW u \in Threads
                      PROVE  (pick[u] = i /\ Holding(u))' <=> pick[u] = i /\ Holding(u)
                    BY <2>1, <2>3, <2>4, <4>2
                <5>3. (\E u \in Threads : pick[u] = i /\ Holding(u))'
                          <=> \E u \in Threads : pick[u] = i /\ Holding(u)
                    BY <5>2
                <5> QED
                    BY <5>1, <5>3 DEF Holders, Holding
            <4> QED
                BY <4>1, <4>2
        <3> QED
            BY <3>3 DEF Holders
    <2> QED
        BY <1>0, <2>1, <2>6, <2>7, SlotsKept DEF SlotInv
<1>7. CASE LeaveLoop(t)
    <2>1. pc[t] = "dispatch" /\ UNCHANGED <<kind, activeWrite, activeReads, pick, entries>>
        BY <1>7 DEF LeaveLoop, request, slots
    <2>2. Moves(t, "done")
        BY <1>7, DispatchGoes
    <2> QED
        BY <1>K, <2>1, <2>2 DEF Holding, Working
<1> QED
    BY <1>1, <1>2, <1>3, <1>4, <1>5, <1>6, <1>7 DEF Dispatch

\* A job that is taken from a queue is held once, with its slot, until it ends.
LEMMA SlotInvariant == Spec => []SlotInv
<1>1. Init => SlotInv
    <2> SUFFICES ASSUME Init PROVE SlotInv
        OBVIOUS
    <2>1. PicksAreHeld
        BY DEF Init, PicksAreHeld, Holding
    <2>2. Holders = {}
        BY ThreadNames DEF Init, Holders, Working
    <2>3. SlotsMatchHolders
        BY <2>2, FS_EmptySet, LimitsAssumption DEF Init, SlotsMatchHolders
    <2> QED
        BY <2>1, <2>3 DEF SlotInv
<1>2. IInv /\ SlotInv /\ [Next]_vars => SlotInv'
    <2> SUFFICES ASSUME IInv, SlotInv, [Next]_vars PROVE SlotInv'
        OBVIOUS
    <2>1. CASE UNCHANGED vars
        BY <2>1, PicksKept, HoldersKept, SlotsKept DEF vars, request, slots, SlotInv, Holding, Unborn
    <2>2. ASSUME NEW j \in Jobs,
                 \/ Reserve(j) \/ DropAdmission(j) \/ Enqueue(j) \/ CancelQueued(j) \/ CancelRunning(j)
          PROVE  SlotInv'
        BY <2>2, RequestSlots
    <2>3. ASSUME NEW j \in Jobs, Work(j) PROVE SlotInv'
        BY <2>3, WorkSlots
    <2>4. ASSUME NEW t \in Threads, Persist(t) \/ Prune(t) \/ Dispatch(t) PROVE SlotInv'
        BY <2>4, DispatchSlots
    <2> QED
        BY <2>1, <2>2, <2>3, <2>4 DEF Next, Idle
<1> QED
    BY <1>1, <1>2, Inductive, PTL DEF Spec

\* A slot in use belongs to exactly one job that holds it, so that write jobs
\* run one at a time and read jobs up to the limit, and no slot is lost or
\* given back twice, whatever starts, rejections, ends and panics interleave.
THEOREM SlotsAreExact == Spec => []SlotsMatchHolders
<1>1. SlotInv => SlotsMatchHolders
    BY DEF SlotInv
<1> QED
    BY <1>1, SlotInvariant, PTL
----------------------------------------------------------------------------
(***************************************************************************)
(* Wakeups.  A step that lets a job start leaves a thread on its way to    *)
(* the dispatch loop, and only the loop that finds nothing to start ends.  *)
(***************************************************************************)

\* Thread t goes on to the dispatch loop.
Awake(t) == pc[t] \in BeforeDispatch

\* A step that moves no queue and no slot, and no thread away from the loop.
LEMMA AwakeKept ==
    ASSUME NoLostWakeup, UNCHANGED <<queues, slots>>, poisoned => poisoned',
           \A t \in Threads : Awake(t) => Awake(t)'
    PROVE  NoLostWakeup'
BY DEF NoLostWakeup, Awake, CanStartWrite, CanStartRead, queues, slots

\* A thread that is about to dispatch is the wakeup.
LEMMA WokenUp ==
    ASSUME NEW t \in Threads, Awake(t)'
    PROVE  NoLostWakeup'
BY DEF NoLostWakeup, Awake

\* No wakeup is lost: whenever a pending job could start, some thread is on its
\* way to the dispatch loop, unless a panic has poisoned the mutex.  Every end
\* of a job, of a rejection and of a cancellation wakes the loop.
THEOREM WakeupsAreNotLost == Spec => []NoLostWakeup
<1> USE ThreadNames, ThreadsDiffer
<1>1. Init => NoLostWakeup
    BY DEF Init, NoLostWakeup, CanStartWrite, CanStartRead
<1>2. IInv /\ NoLostWakeup /\ [Next]_vars => NoLostWakeup'
    <2> SUFFICES ASSUME IInv, NoLostWakeup, [Next]_vars PROVE NoLostWakeup'
        OBVIOUS
    <2>0. TypeOK
        BY DEF IInv
    <2>1. CASE UNCHANGED vars
        BY <2>1, AwakeKept DEF vars, Awake
    <2>2. ASSUME NEW j \in Jobs,
                 \/ Reserve(j) \/ DropAdmission(j) \/ Enqueue(j) \/ CancelQueued(j) \/ CancelRunning(j)
          PROVE  NoLostWakeup'
        <3>1. CASE Enqueue(j)
            <4>1. pc'[Submitter(j)] \in {"persistQueued", "dispatch"}
                BY <2>0, <3>1, RequestGoes, MovesTo
            <4> QED
                BY <4>1, WokenUp DEF Awake, BeforeDispatch
        <3>2. CASE CancelQueued(j)
            <4>1. pc'[Canceller(j)] \in {"persistCancelled", "pruneCancelled"}
                BY <2>0, <3>2, RequestGoes, MovesTo
            <4> QED
                BY <4>1, WokenUp DEF Awake, BeforeDispatch
        <3>3. CASE Reserve(j) \/ DropAdmission(j) \/ CancelRunning(j)
            <4>1. UNCHANGED <<queues, slots, poisoned>>
                BY <3>3 DEF Reserve, DropAdmission, CancelRunning
            <4>2. PICK t \in {Submitter(j), Canceller(j)} :
                     /\ \A u \in Threads \ {t} : pc'[u] = pc[u]
                     /\ pc[t] \in DOMAIN AfterRequest(t, j)
                BY <2>0, <2>2, RequestFlow
            <4>3. \A u \in Threads : Awake(u) => Awake(u)'
                BY <4>2 DEF Awake, AfterRequest, BeforeDispatch
            <4> QED
                BY <4>1, <4>3, AwakeKept
        <3> QED
            BY <2>2, <3>1, <3>2, <3>3
    <2>3. ASSUME NEW j \in Jobs, Work(j) PROVE NoLostWakeup'
        <3>1. /\ UNCHANGED queues
              /\ \A u \in Threads \ {Worker(j)} : pc'[u] = pc[u]
              /\ pc[Worker(j)] \in DOMAIN AfterWork
              /\ IF pc[Worker(j)] = "finish" THEN Release(j) ELSE UNCHANGED slots
            BY <2>0, <2>3, WorkFlow
        <3>2. CASE WorkerFinished(j)
            <4>1. pc'[Worker(j)] \in {"persistFinal", "pruneFinal"}
                BY <2>0, <3>2, WorkGoes, MovesTo
            <4> QED
                BY <4>1, WokenUp DEF Awake, BeforeDispatch
        <3>3. CASE FinishPanics(j)
            BY <3>3 DEF FinishPanics, NoLostWakeup
        <3>4. CASE ~WorkerFinished(j) /\ ~FinishPanics(j)
            <4>1. pc[Worker(j)] # "finish" /\ poisoned' = poisoned
                BY <2>3, <3>4 DEF Work, EndWork, BeginWork, Report, Commit, RefuseCommit, LoadCancelFlag,
                                  Succeed, Fail, MarkCancelled, ReturnSilently
            <4>2. \A u \in Threads : Awake(u) => Awake(u)'
                BY <3>1, <4>1 DEF Awake, AfterWork, BeforeDispatch
            <4> QED
                BY <3>1, <4>1, <4>2, AwakeKept
        <3> QED
            BY <3>2, <3>3, <3>4
    <2>4. ASSUME NEW t \in Threads, Persist(t) \/ Prune(t)
          PROVE  NoLostWakeup'
        <3>1. UNCHANGED <<queues, slots, poisoned>>
            BY <2>4 DEF Persist, Prune
        <3>2. /\ \A u \in Threads \ {t} : pc'[u] = pc[u]
              /\ \/ pc[t] \in DOMAIN AfterPersist /\ pc'[t] = AfterPersist[pc[t]]
                 \/ pc[t] \in DOMAIN AfterPrune /\ pc'[t] = AfterPrune[pc[t]]
            BY <2>0, <2>4, DispatchGoes, MovesTo
        <3>3. \A u \in Threads : Awake(u) => Awake(u)'
            BY <3>2 DEF Awake, AfterPersist, AfterPrune, BeforeDispatch
        <3> QED
            BY <3>1, <3>3, AwakeKept
    <2>5. ASSUME NEW t \in Threads, Dispatch(t) PROVE NoLostWakeup'
        <3>1. CASE Start(t) \/ Reject(t) \/ ReleaseRejected(t)
            <4>1. pc'[t] \in {"persistRunning", "spawn", "release", "persistRejected", "pruneRejected"}
                BY <2>0, <3>1, DispatchGoes, MovesTo
            <4> QED
                BY <4>1, WokenUp DEF Awake, BeforeDispatch
        <3>2. CASE Spawn(t)
            <4>1. t # Worker(pick[t]) /\ Worker(pick[t]) \in Threads
                BY <3>2 DEF Spawn, IInv, StartedOnce, Starting
            <4>2. pc'[t] = "dispatch"
                BY <2>0, <3>2, <4>1 DEF Spawn, TypeOK
            <4> QED
                BY <4>2, WokenUp DEF Awake, BeforeDispatch
        <3>3. CASE LeaveLoop(t)
            BY <3>3 DEF LeaveLoop, NoLostWakeup, CanStartWrite, CanStartRead, queues, slots
        <3> QED
            BY <2>5, <3>1, <3>2, <3>3 DEF Dispatch
    <2> QED
        BY <2>1, <2>2, <2>3, <2>4, <2>5 DEF Next, Idle
<1> QED
    BY <1>1, <1>2, Inductive, PTL DEF Spec
----------------------------------------------------------------------------
(***************************************************************************)
(* The life of a job: only its worker ends a running job, and it ends it   *)
(* as cancelled only when a cancellation was accepted.                     *)
(***************************************************************************)

\* Where a worker stands while its job is running and not yet given up.
AtWork == {"begin", "work", "succeed", "persistProgress", "persistCommitted"}
GivingUp == {"persistRefused", "markCancelled"}

\* The job of a worker at work is running, and has crossed its point of no
\* return by the time its success is published.
WorkIsOnRunning(j) ==
    /\ pc[Worker(j)] \in AtWork => entries[j].status = "running"
    /\ pc[Worker(j)] = "succeed" => MaySucceed(j)

\* A worker that gives up does so because of a cancellation.
GivesUpCancelled(j) ==
    pc[Worker(j)] \in GivingUp =>
       /\ entries[j].status \in {"running", "cancelled", "none"}
       /\ entries[j].status = "running" => cancelFlag[j]

CancelledIsFlagged(j) ==
    entries[j].requested \/ entries[j].status = "cancelled" => cancelFlag[j]

RunningIsHeld(j) ==
    entries[j].status = "running" =>
       pc[Worker(j)] \in Working \/ \E t \in Threads : Starting(t) /\ pick[t] = j

JobLife(j) == WorkIsOnRunning(j) /\ GivesUpCancelled(j) /\ CancelledIsFlagged(j) /\ RunningIsHeld(j)

\* What a step may do to the status of job j.
StatusStep(j) ==
    \/ entries'[j].status = entries[j].status
    \/ Enqueue(j) /\ entries[j].status = "none" /\ entries'[j].status = "queued"
    \/ entries[j].status = "queued" /\ entries'[j].status \in {"running", "cancelled"}
    \/ entries[j].status = "running" /\ entries'[j].status \in Terminal /\ pc[Worker(j)] \in Working
    \/ entries[j].status \in Terminal /\ entries'[j].status = "none"

\* A step that leaves a job as it is, or forgets a finished one, and takes its
\* worker no further than the next call of the job store.
LEMMA LifeKept ==
    ASSUME NEW j \in Jobs, JobLife(j), UNCHANGED kind,
           entries'[j] = entries[j] \/ (entries[j].status \in Terminal /\ entries'[j] = NoEntry),
           pc'[Worker(j)] \in AtWork => pc[Worker(j)] \in AtWork,
           pc'[Worker(j)] = "succeed" => pc[Worker(j)] = "succeed",
           pc'[Worker(j)] \in GivingUp => pc[Worker(j)] \in GivingUp,
           pc[Worker(j)] \in Working => pc'[Worker(j)] \in Working \/ entries[j].status # "running",
           cancelFlag[j] => cancelFlag'[j], committed \subseteq committed',
           \A t \in Threads : Starting(t) /\ pick[t] = j => Starting(t)' /\ pick'[t] = j
    PROVE  JobLife(j)' /\ StatusStep(j)
<1> USE DEF NoEntry, Terminal
<1>1. WorkIsOnRunning(j)'
    BY DEF JobLife, WorkIsOnRunning, MaySucceed
<1>2. GivesUpCancelled(j)' /\ CancelledIsFlagged(j)'
    <2>1. CASE entries'[j] = entries[j]
        BY <2>1 DEF JobLife, GivesUpCancelled, CancelledIsFlagged
    <2>2. CASE entries'[j] = NoEntry
        BY <2>2 DEF GivesUpCancelled, CancelledIsFlagged
    <2> QED
        BY <2>1, <2>2
<1>3. RunningIsHeld(j)'
    <2>1. CASE entries'[j] = entries[j]
        BY <2>1 DEF JobLife, RunningIsHeld
    <2>2. CASE entries'[j] = NoEntry
        BY <2>2 DEF RunningIsHeld
    <2> QED
        BY <2>1, <2>2
<1> QED
    BY <1>1, <1>2, <1>3 DEF JobLife, StatusStep

\* The entry of a job that ends.
LEMMA EndedEntry ==
    ASSUME TypeOK, NEW j \in Jobs, NEW s \in Terminal, entries' = [entries EXCEPT ![j] = Ended(j, s)]
    PROVE  /\ entries'[j].status = s /\ s # "running"
           /\ entries'[j].requested => entries[j].requested \/ s = "cancelled"
           /\ \A i \in Jobs \ {j} : entries'[i] = entries[i]
BY DEF TypeOK, Ended, Terminal

\* What the work of a job does to its life.
LEMMA WorkLife ==
    ASSUME IInv, NEW j \in Jobs, JobLife(j), Work(j)
    PROVE  JobLife(j)' /\ StatusStep(j) /\ \A i \in Jobs \ {j} : entries'[i] = entries[i]
<1> USE ThreadNames, ThreadsDiffer
<1>0. TypeOK
    BY DEF IInv
<1>1. /\ UNCHANGED <<kind, pick, cancelFlag>>
      /\ \A u \in Threads \ {Worker(j)} : pc'[u] = pc[u]
      /\ pc[Worker(j)] \in DOMAIN AfterWork
      /\ pc'[Worker(j)] \in AfterWork[pc[Worker(j)]]
    BY <1>0, WorkFlow DEF request
<1>2. committed \subseteq committed'
    BY DEF Work, EndWork, BeginWork, Report, Commit, RefuseCommit, LoadCancelFlag, Succeed, Fail,
           MarkCancelled, ReturnSilently, WorkerFinished, FinishPanics
<1>3. pc[Worker(j)] \in Working /\ WorkIsOnRunning(j) /\ GivesUpCancelled(j) /\ CancelledIsFlagged(j)
    BY <1>1 DEF AfterWork, Working, JobLife
\* The work goes on.
<1>A. ASSUME UNCHANGED entries, pc'[Worker(j)] \in Working,
             pc[Worker(j)] \in AtWork,
             pc'[Worker(j)] = "succeed" => MaySucceed(j),
             pc'[Worker(j)] \in GivingUp => cancelFlag[j]
      PROVE  JobLife(j)' /\ StatusStep(j) /\ \A i \in Jobs \ {j} : entries'[i] = entries[i]
    <2>1. WorkIsOnRunning(j)' /\ GivesUpCancelled(j)'
        BY <1>1, <1>2, <1>3, <1>A DEF WorkIsOnRunning, GivesUpCancelled, MaySucceed
    <2>2. CancelledIsFlagged(j)' /\ RunningIsHeld(j)'
        BY <1>1, <1>3, <1>A DEF CancelledIsFlagged, RunningIsHeld
    <2> QED
        BY <1>A, <2>1, <2>2 DEF JobLife, StatusStep
\* The job ends, or has ended and its entry may be gone.
<1>B. ASSUME NEW s \in Terminal,
             IF entries[j].status \in {"none"} THEN UNCHANGED entries
                                      ELSE entries' = [entries EXCEPT ![j] = Ended(j, s)],
             entries[j].status \in {"running", s, "none"},
             s = "cancelled" => cancelFlag[j],
             pc'[Worker(j)] \notin AtWork,
             pc'[Worker(j)] \in GivingUp => s = "cancelled"
      PROVE  JobLife(j)' /\ StatusStep(j) /\ \A i \in Jobs \ {j} : entries'[i] = entries[i]
    <2>1. CASE entries[j].status = "none"
        <3>1. entries' = entries
            BY <1>B, <2>1
        <3>2. WorkIsOnRunning(j)' /\ GivesUpCancelled(j)' /\ CancelledIsFlagged(j)' /\ RunningIsHeld(j)'
            BY <1>1, <1>3, <1>B, <2>1, <3>1
               DEF WorkIsOnRunning, GivesUpCancelled, CancelledIsFlagged, RunningIsHeld, AtWork
        <3> QED
            BY <3>1, <3>2 DEF JobLife, StatusStep
    <2>2. CASE entries[j].status # "none"
        <3>1. entries' = [entries EXCEPT ![j] = Ended(j, s)]
            BY <1>B, <2>2
        <3>2. /\ entries'[j].status = s /\ s # "running"
              /\ entries'[j].requested => entries[j].requested \/ s = "cancelled"
              /\ \A i \in Jobs \ {j} : entries'[i] = entries[i]
            BY <1>0, <3>1, EndedEntry
        <3>3. WorkIsOnRunning(j)' /\ GivesUpCancelled(j)' /\ CancelledIsFlagged(j)' /\ RunningIsHeld(j)'
            BY <1>1, <1>3, <1>B, <3>2
               DEF WorkIsOnRunning, GivesUpCancelled, CancelledIsFlagged, RunningIsHeld, AtWork
        <3> QED
            BY <1>3, <1>B, <2>2, <3>2, <3>3 DEF JobLife, StatusStep
    <2> QED
        BY <2>1, <2>2
<1>4. CASE BeginWork(j)
    <2>1. UNCHANGED entries /\ pc[Worker(j)] = "begin"
          /\ Moves(Worker(j), IF cancelFlag[j] THEN "markCancelled" ELSE "work")
        BY <1>4 DEF BeginWork, Goto, Moves
    <2>2. pc'[Worker(j)] = IF cancelFlag[j] THEN "markCancelled" ELSE "work"
        BY <1>0, <2>1, MovesTo
    <2> QED
        BY <1>A, <2>1, <2>2 DEF Working, AtWork, GivingUp
<1>5. CASE Report(j)
    <2>1. UNCHANGED entries /\ pc[Worker(j)] = "work"
        BY <1>5 DEF Report
    <2>2. pc'[Worker(j)] \in {"persistProgress", "work"}
        BY <1>0, <1>5, WorkGoes, MovesTo
    <2> QED
        BY <1>A, <2>1, <2>2 DEF Working, AtWork, GivingUp
<1>6. CASE Commit(j)
    <2>1. pc[Worker(j)] = "work" /\ pc'[Worker(j)] \in {"persistCommitted", "work"}
        <3>1. pc[Worker(j)] = "work"
            BY <1>6 DEF Commit
        <3>2. PICK l \in {"persistCommitted", "work"} : Moves(Worker(j), l)
            BY <1>6, WorkGoes
        <3> QED
            BY <1>0, <3>1, <3>2, MovesTo
    <2>2. entries' = [entries EXCEPT ![j] = [entries[j] EXCEPT !.cancellable = FALSE,
                                                               !.requested = FALSE]]
        BY <1>0, <1>6 DEF Commit, TypeOK
    <2>3. entries[j] \in Entry
        BY <1>0 DEF TypeOK
    <2>4. /\ \A i \in Jobs \ {j} : entries'[i] = entries[i]
          /\ entries'[j].status = entries[j].status /\ ~entries'[j].requested
        BY <1>0, <2>2, <2>3 DEF TypeOK, Entry
    <2>5. WorkIsOnRunning(j)' /\ GivesUpCancelled(j)' /\ CancelledIsFlagged(j)' /\ RunningIsHeld(j)'
        BY <1>1, <1>3, <2>1, <2>4
           DEF WorkIsOnRunning, GivesUpCancelled, CancelledIsFlagged, RunningIsHeld, AtWork, GivingUp, Working
    <2> QED
        BY <2>4, <2>5 DEF JobLife, StatusStep
<1>7. CASE RefuseCommit(j)
    <2>1. pc[Worker(j)] = "work" /\ ~(InFlight(j) /\ MayCommit(j))
        BY <1>7 DEF RefuseCommit
    <2>2. entries[j].status = "running" /\ InFlight(j)
        BY <1>3, <2>1 DEF WorkIsOnRunning, AtWork, InFlight
    <2>3. cancelFlag[j]
        BY <1>3, <2>1, <2>2 DEF MayCommit, CancelledIsFlagged
    <2>4. entries' = [entries EXCEPT ![j] = Ended(j, "cancelled")]
        BY <1>7, <2>2 DEF RefuseCommit
    <2>5. pc'[Worker(j)] \in {"persistRefused", "markCancelled"}
        BY <1>0, <1>7, WorkGoes, MovesTo
    <2> QED
        BY <1>B, <2>2, <2>3, <2>4, <2>5 DEF AtWork, GivingUp, Terminal
<1>8. CASE LoadCancelFlag(j)
    <2>1. UNCHANGED entries /\ pc[Worker(j)] = "work" /\ MaySucceed(j)
        BY <1>8 DEF LoadCancelFlag
    <2>2. pc'[Worker(j)] = "succeed"
        BY <1>0, <1>8, WorkGoes, MovesTo
    <2> QED
        BY <1>A, <2>1, <2>2 DEF Working, AtWork, GivingUp
\* What publishing an outcome does.
<1>P. ASSUME NEW s \in Terminal, Publish(j, s)
      PROVE  /\ IF entries[j].status \in {"none"} THEN UNCHANGED entries
                                         ELSE entries' = [entries EXCEPT ![j] = Ended(j, s)]
             /\ pc'[Worker(j)] \in {"persistResult", "pruneResult"}
    BY <1>0, <1>P, WorkGoes, MovesTo DEF Publish
<1>9. CASE Succeed(j)
    <2>1. PICK s \in {"cancelled", "succeeded"} :
             Publish(j, s) /\ (s = "cancelled" => sawCancel[j])
        BY <1>9 DEF Succeed
    <2>2. entries[j].status = "running"
        BY <1>3, <1>9 DEF Succeed, WorkIsOnRunning, AtWork
    <2>3. s = "cancelled" => cancelFlag[j]
        BY <2>1 DEF IInv, SeenCancelIsReal
    <2>4. s \in Terminal
        BY DEF Terminal
    <2> QED
        BY <1>B, <1>P, <2>1, <2>2, <2>3, <2>4 DEF AtWork, GivingUp
<1>10. CASE Fail(j)
    <2>1. Publish(j, "failed") /\ pc[Worker(j)] = "work"
        BY <1>10 DEF Fail
    <2>2. entries[j].status = "running"
        BY <1>3, <2>1 DEF WorkIsOnRunning, AtWork
    <2> QED
        BY <1>B, <1>P, <2>1, <2>2 DEF AtWork, GivingUp, Terminal
<1>11. CASE MarkCancelled(j)
    <2>1. Publish(j, "cancelled")
        BY <1>11 DEF MarkCancelled
    <2>2. entries[j].status \in {"running", "cancelled", "none"}
        BY <1>3, <1>11 DEF MarkCancelled, WorkIsOnRunning, GivesUpCancelled, AtWork, GivingUp
    <2>3. entries[j].status \in {"running", "cancelled"} => cancelFlag[j]
        BY <1>3, <1>11 DEF MarkCancelled, GivesUpCancelled, CancelledIsFlagged, GivingUp
    <2> QED
        <3>1. CASE entries[j].status = "none"
            <4>1. UNCHANGED entries /\ pc'[Worker(j)] \in {"persistResult", "pruneResult"}
                BY <1>P, <2>1, <3>1 DEF Terminal
            <4> QED
                BY <1>B, <3>1, <4>1 DEF AtWork, GivingUp, Terminal
        <3>2. CASE entries[j].status # "none"
            BY <1>B, <1>P, <2>1, <2>2, <2>3, <3>2 DEF AtWork, GivingUp, Terminal
        <3> QED
            BY <3>1, <3>2
<1>12. CASE ReturnSilently(j)
    <2>1. UNCHANGED entries /\ pc[Worker(j)] = "work"
        BY <1>12 DEF ReturnSilently
    <2>2. pc'[Worker(j)] = "finish"
        BY <1>0, <1>12, WorkGoes, MovesTo
    <2> QED
        BY <1>A, <2>1, <2>2 DEF Working, AtWork, GivingUp
<1>13. CASE WorkerFinished(j)
    <2>1. pc'[Worker(j)] \in {"persistFinal", "pruneFinal"} /\ pc[Worker(j)] = "finish"
        BY <1>0, <1>13, WorkGoes, MovesTo DEF WorkerFinished
    <2>2. CASE InFlight(j)
        <3>1. PICK s \in {"cancelled", "failed"} :
                 /\ s = "cancelled" => cancelFlag[j]
                 /\ entries' = [entries EXCEPT ![j] = Ended(j, s)]
            BY <1>13, <2>2 DEF WorkerFinished
        <3>2. entries[j].status = "running"
            BY <1>3, <2>2 DEF InFlight, IInv, QueuedHaveNoWorker, Working
        <3>3. s \in Terminal
            BY DEF Terminal
        <3> QED
            BY <1>B, <2>1, <3>1, <3>2, <3>3 DEF AtWork, GivingUp
    <2>3. CASE ~InFlight(j)
        <3>1. UNCHANGED entries /\ entries[j].status # "running"
            BY <1>13, <2>3 DEF WorkerFinished, InFlight
        <3>2. WorkIsOnRunning(j)' /\ GivesUpCancelled(j)' /\ CancelledIsFlagged(j)' /\ RunningIsHeld(j)'
            BY <1>1, <1>3, <2>1, <3>1
               DEF WorkIsOnRunning, GivesUpCancelled, CancelledIsFlagged, RunningIsHeld, AtWork, GivingUp
        <3> QED
            BY <3>1, <3>2 DEF JobLife, StatusStep
    <2> QED
        BY <2>2, <2>3
<1>14. CASE FinishPanics(j)
    <2>1. UNCHANGED entries /\ entries[j].status = "none"
        BY <1>14 DEF FinishPanics
    <2>2. pc'[Worker(j)] = "done"
        BY <1>0, <1>14, WorkGoes, MovesTo
    <2>3. WorkIsOnRunning(j)' /\ GivesUpCancelled(j)' /\ CancelledIsFlagged(j)' /\ RunningIsHeld(j)'
        BY <1>1, <1>3, <2>1, <2>2
           DEF WorkIsOnRunning, GivesUpCancelled, CancelledIsFlagged, RunningIsHeld, AtWork, GivingUp
    <2> QED
        BY <2>1, <2>3 DEF JobLife, StatusStep
<1> QED
    BY <1>4, <1>5, <1>6, <1>7, <1>8, <1>9, <1>10, <1>11, <1>12, <1>13, <1>14 DEF Work, EndWork

\* What requests do to the life of a job.
LEMMA RequestLife ==
    ASSUME IInv, NEW j \in Jobs, NEW i \in Jobs, JobLife(i),
           \/ Reserve(j) \/ DropAdmission(j) \/ Enqueue(j) \/ CancelQueued(j) \/ CancelRunning(j)
    PROVE  JobLife(i)' /\ StatusStep(i)
<1> USE ThreadNames, ThreadsDiffer
<1>0. TypeOK
    BY DEF IInv
<1>1. UNCHANGED <<kind, pick, committed>>
    BY <1>0, RequestFlow DEF request
<1>2. PICK t \in {Submitter(j), Canceller(j)} :
          /\ \A u \in Threads \ {t} : pc'[u] = pc[u]
          /\ pc[t] \in DOMAIN AfterRequest(t, j)
    BY <1>0, RequestFlow
<1>3. pc'[Worker(i)] = pc[Worker(i)] /\ \A u \in Threads : Starting(u) => Starting(u)'
    BY <1>2 DEF AfterRequest, Starting
<1>4. cancelFlag[i] => cancelFlag'[i]
    BY <1>0 DEF Reserve, DropAdmission, Enqueue, CancelQueued, CancelRunning, TypeOK
<1>5. CASE entries'[i] = entries[i]
    BY <1>1, <1>3, <1>4, <1>5, LifeKept
\* The job itself is queued, cancelled or asked to stop.
<1>6. CASE Enqueue(j) /\ i = j
    <2>1. entries[j].status = "none" /\ pc[Worker(j)] = "new"
        BY <1>6 DEF Enqueue, IInv, UnbornAreUntouched, Unborn
    <2>2. entries'[j] = NewEntry
        BY <1>0, <1>6 DEF Enqueue, TypeOK
    <2>3. WorkIsOnRunning(j)' /\ GivesUpCancelled(j)' /\ CancelledIsFlagged(j)' /\ RunningIsHeld(j)'
        BY <1>3, <1>6, <2>1, <2>2
           DEF WorkIsOnRunning, GivesUpCancelled, CancelledIsFlagged, RunningIsHeld, AtWork, GivingUp, NewEntry
    <2> QED
        BY <1>6, <2>1, <2>2, <2>3 DEF JobLife, StatusStep, NewEntry
<1>7. CASE CancelQueued(j) /\ i = j
    <2>1. entries[j].status = "queued" /\ cancelFlag'[j]
          /\ entries' = [entries EXCEPT ![j] = Ended(j, "cancelled")]
        BY <1>0, <1>7 DEF CancelQueued, TypeOK
    <2>2. pc[Worker(j)] = "new"
        BY <2>1 DEF IInv, QueuedHaveNoWorker
    <2>3. entries'[j].status = "cancelled"
        BY <1>0, <2>1, EndedEntry DEF Terminal
    <2>4. WorkIsOnRunning(j)' /\ GivesUpCancelled(j)' /\ CancelledIsFlagged(j)' /\ RunningIsHeld(j)'
        BY <1>3, <1>7, <2>1, <2>2, <2>3
           DEF WorkIsOnRunning, GivesUpCancelled, CancelledIsFlagged, RunningIsHeld, AtWork, GivingUp
    <2> QED
        BY <1>7, <2>1, <2>3, <2>4 DEF JobLife, StatusStep
<1>8. CASE CancelRunning(j) /\ i = j
    <2>1. cancelFlag'[j]
        BY <1>0, <1>8 DEF CancelRunning, TypeOK
    <2>2. entries' = [entries EXCEPT ![j] = [entries[j] EXCEPT !.cancellable = FALSE,
                                                               !.requested = TRUE]]
        BY <1>0, <1>8 DEF CancelRunning, TypeOK
    <2>3. entries[j] \in Entry
        BY <1>0 DEF TypeOK
    <2>4. entries'[j].status = entries[j].status
        BY <1>0, <2>2, <2>3 DEF TypeOK, Entry
    <2>5. WorkIsOnRunning(j)' /\ GivesUpCancelled(j)' /\ CancelledIsFlagged(j)' /\ RunningIsHeld(j)'
        BY <1>1, <1>3, <1>8, <2>1, <2>4
           DEF JobLife, WorkIsOnRunning, GivesUpCancelled, CancelledIsFlagged, RunningIsHeld, MaySucceed
    <2> QED
        BY <1>8, <2>4, <2>5 DEF JobLife, StatusStep
<1>9. CASE i # j \/ Reserve(j) \/ DropAdmission(j)
    <2>1. entries'[i] = entries[i]
        BY <1>0, <1>9 DEF Reserve, DropAdmission, Enqueue, CancelQueued, CancelRunning, TypeOK
    <2> QED
        BY <1>5, <2>1
<1> QED
    BY <1>6, <1>7, <1>8, <1>9

\* From where thread t stands to l no job is started, given up or put down.
OnTheWay(t, l) ==
    /\ l \in AtWork => pc[t] \in AtWork /\ l # "succeed"
    /\ l \in GivingUp => pc[t] \in GivingUp
    /\ pc[t] \in Working => l \in Working
    /\ Starting(t) => l \in {"persistRunning", "spawn"}

\* What dispatching does to the life of a job.
LEMMA DispatchLife ==
    ASSUME IInv, NEW t \in Threads, NEW i \in Jobs, JobLife(i), Persist(t) \/ Prune(t) \/ Dispatch(t)
    PROVE  JobLife(i)' /\ StatusStep(i)
<1> USE ThreadNames, ThreadsDiffer
<1>0. TypeOK
    BY DEF IInv
\* The thread moves on, and leaves the job alone.
<1>K. ASSUME UNCHANGED <<kind, committed>>, cancelFlag[i] => cancelFlag'[i],
             entries'[i] = entries[i] \/ (entries[i].status \in Terminal /\ entries'[i] = NoEntry),
             NEW l, Moves(t, l),
             OnTheWay(t, l),
             \A u \in Threads : u # t \/ Starting(t) => pick'[u] = pick[u]
      PROVE  JobLife(i)' /\ StatusStep(i)
    <2>1. pc'[t] = l /\ \A u \in Threads \ {t} : pc'[u] = pc[u]
        BY <1>0, <1>K, MovesTo
    <2>2. /\ pc'[Worker(i)] \in AtWork => pc[Worker(i)] \in AtWork
          /\ pc'[Worker(i)] = "succeed" => pc[Worker(i)] = "succeed"
          /\ pc'[Worker(i)] \in GivingUp => pc[Worker(i)] \in GivingUp
          /\ pc[Worker(i)] \in Working => pc'[Worker(i)] \in Working
        <3>1. CASE Worker(i) = t
            BY <1>K, <2>1, <3>1 DEF OnTheWay, AtWork
        <3>2. CASE Worker(i) # t
            BY <2>1, <3>2
        <3> QED
            BY <3>1, <3>2
    <2>3. \A u \in Threads : Starting(u) /\ pick[u] = i => Starting(u)' /\ pick'[u] = i
        BY <1>K, <2>1 DEF OnTheWay, Starting
    <2> QED
        BY <1>K, <2>2, <2>3, LifeKept
<1>1. CASE Persist(t)
    <2>1. UNCHANGED <<kind, committed, cancelFlag, pick, entries>>
        BY <1>1 DEF Persist, request
    <2>2. pc[t] \in DOMAIN AfterPersist /\ Moves(t, AfterPersist[pc[t]])
        BY <1>1, DispatchGoes
    <2>3. OnTheWay(t, AfterPersist[pc[t]])
        BY <2>2 DEF OnTheWay, AtWork, GivingUp, Working, Starting, AfterPersist
    <2> QED
        BY <1>K, <2>1, <2>2, <2>3
<1>2. CASE Prune(t)
    <2>1. UNCHANGED <<kind, committed, cancelFlag>>
        BY <1>2 DEF Prune, request
    <2>2. pc[t] \in DOMAIN AfterPrune /\ Moves(t, AfterPrune[pc[t]])
        BY <1>2, DispatchGoes
    <2>3. \A u \in Threads : u # t \/ Starting(t) => pick'[u] = pick[u]
        BY <1>0, <1>2, <2>2 DEF Prune, TypeOK, Starting, AfterPrune
    <2>4. entries'[i] = entries[i] \/ (entries[i].status \in Terminal /\ entries'[i] = NoEntry)
        <3>1. i \in BeyondHistory => age[i] > 0
            BY <1>0, LimitsAssumption DEF BeyondHistory, TypeOK
        <3>2. i \in BeyondHistory => entries[i].status \in Terminal
            BY <3>1 DEF IInv, RankedAreFinished
        <3> QED
            BY <1>2, <3>2 DEF Prune
    <2>5. OnTheWay(t, AfterPrune[pc[t]])
        BY <2>2 DEF OnTheWay, AtWork, GivingUp, Working, Starting, AfterPrune
    <2> QED
        BY <1>K, <2>1, <2>2, <2>3, <2>4, <2>5
<1>3. CASE Start(t)
    <2>1. PICK j \in Jobs : /\ PopWrite(j) \/ PopRead(j)
                            /\ entries' = [entries EXCEPT ![j].status = "running"]
                            /\ pick' = [pick EXCEPT ![t] = j]
        BY <1>3 DEF Start
    <2>2. PICK l \in {"persistRunning", "spawn"} : Moves(t, l)
        BY <1>3, DispatchGoes
    <2>3. /\ pc[t] = "dispatch" /\ UNCHANGED <<kind, committed, cancelFlag>>
          /\ pc'[t] = l /\ pick'[t] = j
          /\ \A u \in Threads \ {t} : pc'[u] = pc[u] /\ pick'[u] = pick[u]
        <3>1. pc[t] = "dispatch" /\ UNCHANGED <<kind, committed, cancelFlag>>
            BY <1>3 DEF Start, request
        <3> QED
            BY <1>0, <2>1, <2>2, <3>1, MovesTo DEF TypeOK
    <2>4. CASE i = j
        <3>1. entries[j].status = "queued"
            BY <2>1, PopShape
        <3>2. pc[Worker(j)] = "new" /\ pc'[Worker(j)] = "new"
            BY <2>3, <3>1 DEF IInv, QueuedHaveNoWorker
        <3>3. entries' = [entries EXCEPT ![j] = [entries[j] EXCEPT !.status = "running"]]
            BY <2>1
        <3>4. entries[j] \in Entry
            BY <1>0 DEF TypeOK
        <3>5. entries'[j].status = "running" /\ entries'[j].requested = entries[j].requested
            BY <1>0, <3>3, <3>4 DEF TypeOK, Entry
        <3>6. WorkIsOnRunning(j)' /\ GivesUpCancelled(j)' /\ CancelledIsFlagged(j)'
            BY <2>3, <2>4, <3>2, <3>5
               DEF JobLife, WorkIsOnRunning, GivesUpCancelled, CancelledIsFlagged, AtWork, GivingUp
        <3>7. RunningIsHeld(j)'
            BY <2>2, <2>3 DEF RunningIsHeld, Starting
        <3> QED
            BY <2>4, <3>1, <3>5, <3>6, <3>7 DEF JobLife, StatusStep
    <2>5. CASE i # j
        <3>1. entries'[i] = entries[i]
            BY <1>0, <2>1, <2>5 DEF TypeOK
        <3>2. \A u \in Threads : u # t \/ Starting(t) => pick'[u] = pick[u]
            BY <2>3 DEF Starting
        <3>3. OnTheWay(t, l)
            BY <2>2, <2>3 DEF OnTheWay, AtWork, GivingUp, Working, Starting
        <3> QED
            BY <1>K, <2>2, <2>3, <3>1, <3>2, <3>3
    <2> QED
        BY <2>4, <2>5
<1>4. CASE Reject(t)
    <2>1. PICK j \in Jobs : /\ PopWrite(j) \/ PopRead(j)
                            /\ entries' = [entries EXCEPT ![j] = Ended(j, "cancelled")]
                            /\ cancelFlag' = [cancelFlag EXCEPT ![j] = TRUE]
                            /\ pick' = [pick EXCEPT ![t] = j]
        BY <1>4 DEF Reject
    <2>2. /\ pc[t] = "dispatch" /\ UNCHANGED <<kind, committed>>
          /\ Moves(t, "release") /\ pc'[t] = "release"
          /\ \A u \in Threads \ {t} : pc'[u] = pc[u] /\ pick'[u] = pick[u]
        <3>1. pc[t] = "dispatch" /\ UNCHANGED <<kind, committed>>
            BY <1>4 DEF Reject, request
        <3> QED
            BY <1>0, <1>4, <2>1, <3>1, DispatchGoes, MovesTo DEF TypeOK
    <2>3. CASE i = j
        <3>1. entries[j].status = "queued"
            BY <2>1, PopShape
        <3>2. pc[Worker(j)] = "new" /\ pc'[Worker(j)] = "new"
            BY <2>2, <3>1 DEF IInv, QueuedHaveNoWorker
        <3>3. entries'[j].status = "cancelled" /\ cancelFlag'[j]
            <4>1. entries'[j].status = "cancelled"
                BY <1>0, <2>1, EndedEntry DEF Terminal
            <4>2. cancelFlag'[j]
                BY <1>0, <2>1 DEF TypeOK
            <4> QED
                BY <4>1, <4>2
        <3>4. WorkIsOnRunning(j)' /\ GivesUpCancelled(j)' /\ CancelledIsFlagged(j)' /\ RunningIsHeld(j)'
            BY <3>2, <3>3
               DEF WorkIsOnRunning, GivesUpCancelled, CancelledIsFlagged, RunningIsHeld, AtWork, GivingUp
        <3> QED
            BY <2>3, <3>1, <3>3, <3>4 DEF JobLife, StatusStep
    <2>4. CASE i # j
        <3>1. entries'[i] = entries[i] /\ cancelFlag'[i] = cancelFlag[i]
            BY <1>0, <2>1, <2>4 DEF TypeOK
        <3>2. \A u \in Threads : u # t \/ Starting(t) => pick'[u] = pick[u]
            BY <2>2 DEF Starting
        <3>3. OnTheWay(t, "release")
            BY <2>2 DEF OnTheWay, AtWork, GivingUp, Working, Starting
        <3> QED
            BY <1>K, <2>2, <3>1, <3>2, <3>3
    <2> QED
        BY <2>3, <2>4
<1>5. CASE ReleaseRejected(t) \/ LeaveLoop(t)
    <2>1. UNCHANGED <<kind, committed, cancelFlag, pick, entries>> /\ pc[t] \in {"release", "dispatch"}
        BY <1>5 DEF ReleaseRejected, LeaveLoop, request
    <2>2. PICK l \in {"persistRejected", "pruneRejected", "done"} : Moves(t, l)
        BY <1>5, DispatchGoes
    <2>3. OnTheWay(t, l)
        BY <2>1, <2>2 DEF OnTheWay, AtWork, GivingUp, Working, Starting
    <2> QED
        BY <1>K, <2>1, <2>2, <2>3
<1>6. CASE Spawn(t)
    <2>0. PICK j \in Jobs : /\ j = pick[t] /\ pc[t] = "spawn"
                            /\ pc[Worker(j)] = "new" /\ entries[j].status = "running"
        BY <1>6 DEF IInv, StartedOnce, Starting, Spawn
    <2>1. /\ pc[t] = "spawn"
          /\ pc' = [pc EXCEPT ![t] = "dispatch", ![Worker(j)] = "begin"]
          /\ pick' = [pick EXCEPT ![t] = NoJob]
          /\ UNCHANGED <<kind, entries, committed, cancelFlag>>
        BY <1>6, <2>0 DEF Spawn, request
    <2>2. pc[Worker(j)] = "new" /\ entries[j].status = "running" /\ t # Worker(j) /\ pick[t] = j
        BY <2>0
    <2>3. /\ pc'[t] = "dispatch" /\ pc'[Worker(j)] = "begin"
          /\ \A u \in Threads \ {t, Worker(j)} : pc'[u] = pc[u]
          /\ \A u \in Threads \ {t} : pick'[u] = pick[u]
        BY <1>0, <2>1, <2>2 DEF TypeOK
    <2>4. CASE i = j
        <3>1. WorkIsOnRunning(j)' /\ GivesUpCancelled(j)' /\ CancelledIsFlagged(j)' /\ RunningIsHeld(j)'
            BY <2>1, <2>2, <2>3, <2>4
               DEF JobLife, WorkIsOnRunning, GivesUpCancelled, CancelledIsFlagged, RunningIsHeld, AtWork,
                   GivingUp, Working
        <3> QED
            BY <2>1, <2>4, <3>1 DEF JobLife, StatusStep
    <2>5. CASE i # j
        <3>1. /\ pc'[Worker(i)] \in AtWork => pc[Worker(i)] \in AtWork
              /\ pc'[Worker(i)] = "succeed" => pc[Worker(i)] = "succeed"
              /\ pc'[Worker(i)] \in GivingUp => pc[Worker(i)] \in GivingUp
              /\ pc[Worker(i)] \in Working => pc'[Worker(i)] \in Working
            BY <2>1, <2>2, <2>3, <2>5 DEF AtWork, GivingUp, Working
        <3>2. \A u \in Threads : Starting(u) /\ pick[u] = i => Starting(u)' /\ pick'[u] = i
            BY <2>1, <2>2, <2>3, <2>5 DEF Starting
        <3> QED
            BY <2>1, <3>1, <3>2, LifeKept
    <2> QED
        BY <2>4, <2>5
<1> QED
    BY <1>1, <1>2, <1>3, <1>4, <1>5, <1>6 DEF Dispatch

AllLives == \A j \in Jobs : JobLife(j)

\* Every step keeps the lives of all jobs.
LEMMA NextLife ==
    ASSUME IInv, AllLives, [Next]_vars
    PROVE  AllLives' /\ \A j \in Jobs : StatusStep(j)
<1> USE ThreadNames, ThreadsDiffer
<1>0. TypeOK
    BY DEF IInv
<1> SUFFICES ASSUME NEW i \in Jobs PROVE JobLife(i)' /\ StatusStep(i)
    BY DEF AllLives
<1>1. JobLife(i)
    BY DEF AllLives
<1>2. CASE UNCHANGED vars
    BY <1>1, <1>2, LifeKept DEF vars, request, Starting
<1>3. ASSUME NEW j \in Jobs,
             \/ Reserve(j) \/ DropAdmission(j) \/ Enqueue(j) \/ CancelQueued(j) \/ CancelRunning(j)
      PROVE  JobLife(i)' /\ StatusStep(i)
    BY <1>1, <1>3, RequestLife
<1>4. ASSUME NEW j \in Jobs, Work(j) PROVE JobLife(i)' /\ StatusStep(i)
    <2>1. CASE i = j
        BY <1>1, <1>4, <2>1, WorkLife
    <2>2. CASE i # j
        <3>1. /\ UNCHANGED <<kind, pick, cancelFlag>>
              /\ \A u \in Threads \ {Worker(j)} : pc'[u] = pc[u]
              /\ pc[Worker(j)] \in DOMAIN AfterWork
            BY <1>0, <1>4, WorkFlow DEF request
        <3>2. JobLife(j)
            BY DEF AllLives
        <3>3. entries'[i] = entries[i]
            BY <1>4, <2>2, <3>2, WorkLife
        <3>4. committed \subseteq committed'
            BY <1>4 DEF Work, EndWork, BeginWork, Report, Commit, RefuseCommit, LoadCancelFlag, Succeed,
                        Fail, MarkCancelled, ReturnSilently, WorkerFinished, FinishPanics
        <3>5. pc'[Worker(i)] = pc[Worker(i)] /\ \A u \in Threads : Starting(u) => Starting(u)'
            BY <2>2, <3>1 DEF Starting, AfterWork
        <3> QED
            BY <1>1, <3>1, <3>3, <3>4, <3>5, LifeKept
    <2> QED
        BY <2>1, <2>2
<1>5. ASSUME NEW t \in Threads, Persist(t) \/ Prune(t) \/ Dispatch(t) PROVE JobLife(i)' /\ StatusStep(i)
    BY <1>1, <1>5, DispatchLife
<1> QED
    BY <1>2, <1>3, <1>4, <1>5 DEF Next, Idle

\* No job has a life at first.
LEMMA InitLife == Init => AllLives
BY ThreadNames DEF Init, AllLives, JobLife, WorkIsOnRunning, GivesUpCancelled, CancelledIsFlagged,
                   RunningIsHeld, AtWork, GivingUp, NoEntry

\* A job that is running is held by the thread that starts it or by its worker,
\* its worker ends it once, and it ends as cancelled only when a cancellation
\* was accepted.
THEOREM LivesAreKept == Spec => []AllLives
BY InitLife, NextLife, Inductive, PTL DEF Spec
----------------------------------------------------------------------------
(***************************************************************************)
(* Order.  Only the head of a queue is taken, and only cancel removes a    *)
(* job behind it.                                                          *)
(***************************************************************************)

\* What has left queue q in r stood before all that stayed, or is cancelled.
LeavesInOrder(q, r) ==
    \A m, n \in DOMAIN q :
       m < n /\ q[m] \in ToSet(r) /\ q[n] \notin ToSet(r) => entries'[q[n]].status = "cancelled"

\* A queue that loses nobody keeps its order.
LEMMA NothingLeaves ==
    ASSUME NEW q \in Seq(Jobs), NEW r, ToSet(q) \subseteq ToSet(r)
    PROVE  LeavesInOrder(q, r)
BY DEF LeavesInOrder, ToSet

\* The head may leave.
LEMMA HeadLeaves ==
    ASSUME NEW q \in Seq(Jobs), IsInjective(q), q # <<>>
    PROVE  LeavesInOrder(q, Tail(q))
<1>1. ToSet(Tail(q)) = ToSet(q) \ {Head(q)}
    BY RemoveHead
<1>2. DOMAIN q = 1..Len(q) /\ Len(q) \in Nat \ {0} /\ Head(q) = q[1]
    BY LenProperties, EmptySeq
<1>3. \A n \in 1..Len(q) : q[n] \in ToSet(q)
    BY <1>2 DEF ToSet
<1>4. \A n \in 1..Len(q) : q[n] = q[1] => n = 1
    BY <1>2, InjectiveByPosition
<1>5. \A m, n \in 1..Len(q) : m < n => n # 1
    OBVIOUS
<1> QED
    BY <1>1, <1>2, <1>3, <1>4, <1>5 DEF LeavesInOrder

\* A job that was cancelled may leave from anywhere.
LEMMA CancelledLeaves ==
    ASSUME NEW q \in Seq(Jobs), IsInjective(q), NEW k \in DOMAIN q,
           entries'[q[k]].status = "cancelled"
    PROVE  LeavesInOrder(q, RemoveAt(q, k))
<1>1. DOMAIN q = 1..Len(q)
    BY LenProperties
<1>2. ToSet(RemoveAt(q, k)) = ToSet(q) \ {q[k]}
    BY <1>1, RemovePosition
<1>3. \A n \in DOMAIN q : q[n] \in ToSet(q)
    BY DEF ToSet
<1> QED
    BY <1>2, <1>3 DEF LeavesInOrder

\* No other job leaves a queue, in any step.
LEMMA NextInOrder ==
    ASSUME IInv, [Next]_vars
    PROVE  LeavesInOrder(writeQueue, writeQueue') /\ LeavesInOrder(readQueue, readQueue')
<1>0. /\ TypeOK /\ writeQueue \in Seq(Jobs) /\ readQueue \in Seq(Jobs)
      /\ IsInjective(writeQueue) /\ IsInjective(readQueue)
    BY DEF IInv, TypeOK, QueuedIffInQueue
<1>1. CASE UNCHANGED queues
    BY <1>0, <1>1, NothingLeaves DEF queues
<1>2. ASSUME NEW j \in Jobs, Enqueue(j)
      PROVE  LeavesInOrder(writeQueue, writeQueue') /\ LeavesInOrder(readQueue, readQueue')
    <2>1. j \notin ToSet(writeQueue) \cup ToSet(readQueue)
        BY <1>2 DEF Enqueue, IInv, UnbornAreUntouched, Unborn, QueuedIffInQueue
    <2>2. /\ ToSet(Append(writeQueue, j)) = ToSet(writeQueue) \cup {j}
          /\ ToSet(Append(readQueue, j)) = ToSet(readQueue) \cup {j}
        BY <1>0, <2>1, AppendNew
    <2>3. /\ writeQueue' = writeQueue \/ writeQueue' = Append(writeQueue, j)
          /\ readQueue' = readQueue \/ readQueue' = Append(readQueue, j)
        <3>1. CASE IsWrite(kind[j])
            BY <1>2, <3>1 DEF Enqueue
        <3>2. CASE ~IsWrite(kind[j])
            BY <1>2, <3>2 DEF Enqueue
        <3> QED
            BY <3>1, <3>2
    <2> QED
        BY <1>0, <2>2, <2>3, NothingLeaves
<1>3. ASSUME NEW j \in Jobs, CancelQueued(j)
      PROVE  LeavesInOrder(writeQueue, writeQueue') /\ LeavesInOrder(readQueue, readQueue')
    <2>1. entries'[j].status = "cancelled"
        BY <1>0, <1>3, EndedEntry DEF CancelQueued, Terminal
    <2>2. CASE \E i \in DOMAIN writeQueue :
                  /\ writeQueue[i] = j /\ writeQueue' = RemoveAt(writeQueue, i)
                  /\ UNCHANGED readQueue
        BY <1>0, <2>1, <2>2, CancelledLeaves, NothingLeaves
    <2>3. CASE \E i \in DOMAIN readQueue :
                  /\ readQueue[i] = j /\ readQueue' = RemoveAt(readQueue, i)
                  /\ UNCHANGED writeQueue
        BY <1>0, <2>1, <2>3, CancelledLeaves, NothingLeaves
    <2> QED
        BY <1>3, <2>2, <2>3 DEF CancelQueued
<1>4. ASSUME NEW t \in Threads, Start(t) \/ Reject(t)
      PROVE  LeavesInOrder(writeQueue, writeQueue') /\ LeavesInOrder(readQueue, readQueue')
    <2>1. PICK j \in Jobs : PopWrite(j) \/ PopRead(j)
        BY <1>4 DEF Start, Reject
    <2>2. CASE PopWrite(j)
        <3>1. writeQueue # <<>> /\ writeQueue' = Tail(writeQueue) /\ readQueue' = readQueue
            BY <2>2 DEF PopWrite, CanStartWrite
        <3> QED
            BY <1>0, <3>1, HeadLeaves, NothingLeaves
    <2>3. CASE PopRead(j)
        <3>1. readQueue # <<>> /\ readQueue' = Tail(readQueue) /\ writeQueue' = writeQueue
            BY <2>3 DEF PopRead, CanStartRead
        <3> QED
            BY <1>0, <3>1, HeadLeaves, NothingLeaves
    <2> QED
        BY <2>1, <2>2, <2>3
<1>5. ASSUME NEW j \in Jobs, Reserve(j) \/ DropAdmission(j) \/ CancelRunning(j) PROVE UNCHANGED queues
    BY <1>5 DEF Reserve, DropAdmission, CancelRunning
<1>6. ASSUME NEW j \in Jobs, Work(j) PROVE UNCHANGED queues
    BY <1>0, <1>6, WorkFlow
<1>7. ASSUME NEW t \in Threads, Persist(t) \/ Prune(t) \/ ReleaseRejected(t) \/ Spawn(t) \/ LeaveLoop(t)
      PROVE  UNCHANGED queues
    BY <1>7 DEF Persist, Prune, ReleaseRejected, Spawn, LeaveLoop
<1> QED
    BY <1>1, <1>2, <1>3, <1>4, <1>5, <1>6, <1>7 DEF Next, Dispatch, Idle, vars

\* Queues are first in, first out: a job leaves a queue before a job ahead of
\* it only when it is cancelled, by a user or by the authoriser.
THEOREM QueuesAreOrdered == Spec => FirstInFirstOut
<1>1. IInv /\ [Next]_vars =>
        [\A q \in {<<writeQueue, writeQueue'>>, <<readQueue, readQueue'>>} :
           \A m, n \in DOMAIN q[1] :
              m < n /\ q[1][m] \in ToSet(q[2]) /\ q[1][n] \notin ToSet(q[2])
              => entries'[q[1][n]].status = "cancelled"]_vars
    <2> SUFFICES ASSUME IInv, [Next]_vars,
                        NEW q \in {<<writeQueue, writeQueue'>>, <<readQueue, readQueue'>>}
                 PROVE  \A m, n \in DOMAIN q[1] :
                           m < n /\ q[1][m] \in ToSet(q[2]) /\ q[1][n] \notin ToSet(q[2])
                           => entries'[q[1][n]].status = "cancelled"
        OBVIOUS
    <2>1. LeavesInOrder(q[1], q[2])
        BY NextInOrder
    <2> QED
        BY <2>1 DEF LeavesInOrder
<1> QED
    BY <1>1, Inductive, PTL DEF Spec, FirstInFirstOut
----------------------------------------------------------------------------
(***************************************************************************)
(* The job store.  A snapshot is persisted after the mutex is free again,  *)
(* and the last writer wins; still none is ahead of the registry, since    *)
(* statuses only move on and a snapshot stays true of every later one.     *)
(***************************************************************************)

\* Status s, as a snapshot or a row, does not run ahead of job j.
NotAhead(s, j) ==
    /\ ~Unborn(j)
    /\ s \in Terminal => entries[j].status \in {s, "none"}
    /\ s = "running" => entries[j].status # "queued"

\* Where a thread holds on to the job it has picked.
Picked == {"persistRunning", "spawn", "release", "persistRejected", "pruneRejected"}

\* Thread t gives back what it has picked, releases only what is cancelled, and
\* is about to persist a snapshot that is not ahead.
Stands(t) ==
    /\ pick[t] # NoJob => pc[t] \in Picked
    /\ pc[t] = "release" => pick[t] \in Jobs /\ NotAhead("cancelled", pick[t])
    /\ snap[t] # "none" => pc[t] \in DOMAIN AfterPersist /\ NotAhead(snap[t], Subject(t))

RowsNotAhead == \A j \in Jobs : rows[j] # "none" => NotAhead(rows[j], j)
StoreInv == (\A t \in Threads : Stands(t)) /\ RowsNotAhead

\* An enqueued request stays enqueued.
LEMMA BornOnce ==
    ASSUME IInv, [Next]_vars, NEW i \in Jobs
    PROVE  Unborn(i)' => Unborn(i)
<1> USE ThreadNames, ThreadsDiffer
<1>0. TypeOK
    BY DEF IInv
<1>1. CASE UNCHANGED vars
    BY <1>1 DEF vars, Unborn
<1>2. ASSUME NEW j \in Jobs,
             \/ Reserve(j) \/ DropAdmission(j) \/ Enqueue(j) \/ CancelQueued(j) \/ CancelRunning(j)
      PROVE  Unborn(i)' => Unborn(i)
    <2>1. PICK t \in {Submitter(j), Canceller(j)} :
              /\ \A u \in Threads \ {t} : pc'[u] = pc[u]
              /\ pc[t] \in DOMAIN AfterRequest(t, j)
              /\ pc'[t] \in AfterRequest(t, j)[pc[t]]
        BY <1>0, <1>2, RequestFlow
    <2> QED
        BY <2>1 DEF Unborn, AfterRequest
<1>3. ASSUME NEW j \in Jobs, Work(j) PROVE Unborn(i)' => Unborn(i)
    BY <1>0, <1>3, WorkFlow DEF Unborn
<1>4. ASSUME NEW t \in Threads, Persist(t) \/ Prune(t) \/ Start(t) \/ Reject(t) \/ ReleaseRejected(t)
                                 \/ LeaveLoop(t)
      PROVE  Unborn(i)' => Unborn(i)
    <2>1. PICK l : Moves(t, l) /\ (l = "enqueue" => pc[t] = "admitted") /\ l \notin {"new", "admitted"}
        BY <1>4, DispatchGoes DEF AfterPersist, AfterPrune
    <2> QED
        BY <1>0, <2>1, MovesTo DEF Unborn
<1>5. ASSUME NEW t \in Threads, Spawn(t) PROVE Unborn(i)' => Unborn(i)
    <2>1. pc'[Submitter(i)] = pc[Submitter(i)] \/ pc'[Submitter(i)] \in {"dispatch", "begin"}
        BY <1>0, <1>5 DEF Spawn, TypeOK
    <2> QED
        BY <2>1 DEF Unborn
<1> QED
    BY <1>1, <1>2, <1>3, <1>4, <1>5 DEF Next, Dispatch, Idle

\* What was not ahead of its job stays so, since jobs only go forward.
LEMMA StaysTrue ==
    ASSUME IInv, AllLives, [Next]_vars
    PROVE  \A s \in Status, j \in Jobs : NotAhead(s, j) => NotAhead(s, j)'
<1> SUFFICES ASSUME NEW s \in Status, NEW j \in Jobs, NotAhead(s, j) PROVE NotAhead(s, j)'
    OBVIOUS
<1>1. ~Unborn(j) /\ ~Unborn(j)'
    BY BornOnce DEF NotAhead
<1>2. StatusStep(j) /\ ~Enqueue(j)
    <2>1. Enqueue(j) => Unborn(j)
        BY DEF Enqueue, Unborn
    <2> QED
        BY <1>1, <2>1, NextLife
<1> QED
    BY <1>1, <1>2 DEF NotAhead, StatusStep, Terminal

\* A thread works on a job.
LEMMA SubjectIsJob ==
    ASSUME TypeOK, NEW t \in Threads
    PROVE  Subject(t) \in Jobs /\ t[2] \in Jobs
BY DEF Subject, Threads, TypeOK

\* The job of a thread.
LEMMA OwnJob ==
    \A j \in Jobs : Submitter(j)[2] = j /\ Canceller(j)[2] = j /\ Worker(j)[2] = j
BY DEF Submitter, Canceller, Worker

\* A thread that the step leaves alone.
LEMMA StandsStill ==
    ASSUME TypeOK, NEW t \in Threads, Stands(t),
           \A s \in Status, j \in Jobs : NotAhead(s, j) => NotAhead(s, j)',
           pc'[t] = pc[t], pick'[t] = pick[t], snap'[t] = snap[t]
    PROVE  Stands(t)'
<1>1. Subject(t) \in Jobs /\ Subject(t)' = Subject(t)
    BY SubjectIsJob DEF Subject
<1>2. snap[t] \in Status /\ "cancelled" \in Status
    BY DEF TypeOK, Status, Terminal
<1>3. pc'[t] = "release" => pick'[t] \in Jobs /\ NotAhead("cancelled", pick[t])'
    <2>1. CASE pc[t] = "release"
        <3>1. PICK j \in Jobs : j = pick[t] /\ NotAhead("cancelled", j)
            BY <2>1 DEF Stands
        <3>2. NotAhead("cancelled", j)'
            BY <1>2, <3>1
        <3> QED
            BY <3>1, <3>2 DEF NotAhead, Unborn
    <2> QED
        BY <2>1
<1>4. snap'[t] # "none" => pc'[t] \in DOMAIN AfterPersist /\ NotAhead(snap[t], Subject(t))'
    <2>1. CASE snap[t] # "none"
        <3>1. PICK s \in Status, j \in Jobs : s = snap[t] /\ j = Subject(t) /\ NotAhead(s, j)
            BY <1>1, <1>2, <2>1 DEF Stands
        <3>2. NotAhead(s, j)'
            BY <3>1
        <3> QED
            BY <1>1, <2>1, <3>1, <3>2 DEF NotAhead, Unborn, Stands
    <2> QED
        BY <2>1
<1> QED
    BY <1>3, <1>4 DEF Stands

\* A thread that leaves the mutex with a fresh snapshot of job j.
LEMMA FreshSnapshot ==
    ASSUME TypeOK, NEW t \in Threads, Stands(t), NEW l \in DOMAIN AfterPersist, NEW s \in Status,
           PersistAt(t, l, s), pc[t] \notin DOMAIN AfterPersist,
           NEW j \in Jobs, NotAhead(s, j)',
           \/ pick'[t] = j /\ l \in {"persistRunning", "persistRejected"}
           \/ pick'[t] = NoJob /\ t[2] = j
    PROVE  Stands(t)' /\ \A u \in Threads \ {t} : pc'[u] = pc[u] /\ snap'[u] = snap[u]
<1>1. Subject(t)' = j
    BY JobsAssumption DEF Subject
<1>2. CASE Durable
    <2>1. pc' = [pc EXCEPT ![t] = l] /\ snap' = [snap EXCEPT ![t] = s]
        BY <1>2 DEF PersistAt, Goto
    <2>2. /\ pc'[t] = l /\ snap'[t] = s
          /\ \A u \in Threads \ {t} : pc'[u] = pc[u] /\ snap'[u] = snap[u]
        BY <2>1 DEF TypeOK
    <2>3. pick'[t] # NoJob => l \in Picked
        BY DEF Picked
    <2>4. l # "release"
        BY DEF AfterPersist
    <2>5. NotAhead(snap[t], Subject(t))'
        BY <1>1, <2>2 DEF NotAhead, Unborn
    <2> QED
        BY <2>2, <2>3, <2>4, <2>5 DEF Stands
<1>3. CASE ~Durable
    <2>1. pc' = [pc EXCEPT ![t] = AfterPersist[l]] /\ snap' = snap
        BY <1>3 DEF PersistAt, Goto
    <2>2. pc'[t] = AfterPersist[l] /\ \A u \in Threads \ {t} : pc'[u] = pc[u]
        BY <2>1 DEF TypeOK
    <2>3. snap'[t] = "none"
        BY <2>1 DEF Stands
    <2>4. pick'[t] # NoJob => AfterPersist[l] \in Picked
        BY DEF Picked, AfterPersist
    <2>5. AfterPersist[l] # "release"
        BY DEF AfterPersist
    <2> QED
        BY <2>1, <2>2, <2>3, <2>4, <2>5 DEF Stands
<1> QED
    BY <1>2, <1>3

\* A thread that has picked nothing and persists nothing.
LEMMA StandsFree ==
    ASSUME NEW t \in Threads, pick'[t] = NoJob, snap'[t] = "none", pc'[t] # "release"
    PROVE  Stands(t)'
BY DEF Stands

\* Rows that are not written stay behind their jobs.
LEMMA RowsKept ==
    ASSUME TypeOK, RowsNotAhead, UNCHANGED rows,
           \A s \in Status, j \in Jobs : NotAhead(s, j) => NotAhead(s, j)'
    PROVE  RowsNotAhead'
<1>1. ASSUME NEW j \in Jobs, rows[j] # "none" PROVE NotAhead(rows[j], j)'
    <2>1. PICK s \in Status : s = rows[j] /\ NotAhead(s, j)
        BY <1>1 DEF RowsNotAhead, TypeOK
    <2>2. NotAhead(s, j)'
        BY <2>1
    <2> QED
        BY <2>1, <2>2 DEF NotAhead, Unborn
<1> QED
    BY <1>1 DEF RowsNotAhead

\* Requests write no row ahead of its job.
LEMMA RequestStore ==
    ASSUME IInv, AllLives, StoreInv, [Next]_vars, NEW j \in Jobs,
           \/ Reserve(j) \/ DropAdmission(j) \/ Enqueue(j) \/ CancelQueued(j) \/ CancelRunning(j)
    PROVE  StoreInv'
<1> USE ThreadNames, ThreadsDiffer
<1>0. TypeOK /\ RowsNotAhead /\ \A t \in Threads : Stands(t)
    BY DEF IInv, StoreInv
<1>1. UNCHANGED <<pick, rows>>
    BY <1>0, RequestFlow
<1>2. \A s \in Status, i \in Jobs : NotAhead(s, i) => NotAhead(s, i)'
    BY StaysTrue
<1>3. "queued" \in Status /\ "cancelled" \in Status /\ "running" \in Status
    BY DEF Status, Terminal
<1>4. ASSUME NEW t \in {Submitter(j), Canceller(j)}, pc[t] \in {"new", "admitted", "enqueue"}
      PROVE  pick'[t] = NoJob /\ snap[t] = "none" /\ pc[t] \notin DOMAIN AfterPersist
    <2>1. pc[t] \notin Picked /\ pc[t] \notin DOMAIN AfterPersist
        BY <1>4 DEF Picked, AfterPersist
    <2> QED
        BY <1>0, <1>1, <2>1 DEF Stands
<1>5. ASSUME NEW t \in Threads, \A u \in Threads \ {t} : pc'[u] = pc[u] /\ snap'[u] = snap[u], Stands(t)'
      PROVE  StoreInv'
    <2>1. \A u \in Threads \ {t} : Stands(u)'
        BY <1>0, <1>1, <1>2, <1>5, StandsStill
    <2> QED
        BY <1>0, <1>1, <1>2, <1>5, <2>1, RowsKept DEF StoreInv
<1>6. CASE Reserve(j) \/ DropAdmission(j)
    <2>1. pc[Submitter(j)] \in {"new", "admitted"} /\ UNCHANGED snap
        BY <1>6 DEF Reserve, DropAdmission
    <2>2. PICK l \in {"new", "admitted"} : Moves(Submitter(j), l)
        BY <1>6, RequestGoes
    <2>3. pc'[Submitter(j)] # "release" /\ \A u \in Threads \ {Submitter(j)} : pc'[u] = pc[u]
        BY <1>0, <2>2, MovesTo
    <2>4. Stands(Submitter(j))'
        BY <1>4, <2>1, <2>3, StandsFree
    <2> QED
        BY <1>5, <2>1, <2>3, <2>4
<1>7. CASE Enqueue(j)
    <2>1. pc[Submitter(j)] = "enqueue" /\ PersistAt(Submitter(j), "persistQueued", "queued")
        BY <1>7 DEF Enqueue
    <2>2. pc'[Submitter(j)] \in {"persistQueued", "dispatch"}
        BY <1>0, <1>7, RequestGoes, MovesTo
    <2>3. NotAhead("queued", j)'
        BY <2>2 DEF NotAhead, Unborn, Terminal
    <2>4. "persistQueued" \in DOMAIN AfterPersist
        BY DEF AfterPersist
    <2>5. /\ Stands(Submitter(j))'
          /\ \A u \in Threads \ {Submitter(j)} : pc'[u] = pc[u] /\ snap'[u] = snap[u]
        BY <1>0, <1>3, <1>4, <2>1, <2>3, <2>4, OwnJob, FreshSnapshot
    <2> QED
        BY <1>5, <2>5
\* What a cancellation does.
<1>K. ASSUME NEW l \in {"persistCancelled", "persistRequested"}, NEW s \in Status,
             PersistAt(Canceller(j), l, s), NotAhead(s, j)', pc[Canceller(j)] = "new"
      PROVE  StoreInv'
    <2>1. l \in DOMAIN AfterPersist
        BY DEF AfterPersist
    <2>2. /\ Stands(Canceller(j))'
          /\ \A u \in Threads \ {Canceller(j)} : pc'[u] = pc[u] /\ snap'[u] = snap[u]
        BY <1>0, <1>4, <1>K, <2>1, OwnJob, FreshSnapshot
    <2> QED
        BY <1>5, <2>2
<1>8. CASE CancelQueued(j)
    <2>1. /\ pc[Canceller(j)] = "new" /\ PersistAt(Canceller(j), "persistCancelled", "cancelled")
          /\ entries[j].status = "queued"
          /\ entries' = [entries EXCEPT ![j] = Ended(j, "cancelled")]
        BY <1>8 DEF CancelQueued
    <2>2. entries'[j].status = "cancelled"
        BY <1>0, <2>1, EndedEntry DEF Terminal
    <2>3. ~Unborn(j)'
        BY <2>1, BornOnce DEF IInv, UnbornAreUntouched
    <2>4. NotAhead("cancelled", j)'
        BY <2>2, <2>3 DEF NotAhead
    <2> QED
        BY <1>3, <1>K, <2>1, <2>4
<1>9. CASE CancelRunning(j)
    <2>1. /\ pc[Canceller(j)] = "new" /\ PersistAt(Canceller(j), "persistRequested", "running")
          /\ entries[j].status = "running"
        BY <1>9 DEF CancelRunning
    <2>2. NotAhead("running", j)
        BY <2>1 DEF NotAhead, IInv, UnbornAreUntouched, Terminal
    <2> QED
        BY <1>2, <1>3, <1>K, <2>1, <2>2
<1> QED
    BY <1>6, <1>7, <1>8, <1>9

\* The work writes no row ahead of its job.
LEMMA WorkStore ==
    ASSUME IInv, AllLives, StoreInv, [Next]_vars, NEW j \in Jobs, Work(j)
    PROVE  StoreInv'
<1> USE ThreadNames, ThreadsDiffer
<1> DEFINE w == Worker(j)
<1>0. TypeOK /\ RowsNotAhead /\ (\A t \in Threads : Stands(t)) /\ JobLife(j)
    BY DEF IInv, StoreInv, AllLives
<1>1. /\ UNCHANGED <<pick, rows>> /\ pc[w] \in DOMAIN AfterWork /\ pc'[w] \in AfterWork[pc[w]]
      /\ \A u \in Threads \ {w} : pc'[u] = pc[u]
    BY <1>0, WorkFlow
<1>2. \A s \in Status, i \in Jobs : NotAhead(s, i) => NotAhead(s, i)'
    BY StaysTrue
<1>3. pick'[w] = NoJob /\ snap[w] = "none" /\ pc[w] \notin DOMAIN AfterPersist /\ pc'[w] # "release"
    <2>1. pc[w] \notin Picked /\ pc[w] \notin DOMAIN AfterPersist /\ pc'[w] # "release"
        BY <1>1 DEF Picked, AfterPersist, AfterWork
    <2> QED
        BY <1>0, <1>1, <2>1 DEF Stands
<1>4. ~Unborn(j) /\ ~Unborn(j)'
    BY <1>1, BornOnce DEF IInv, UnbornAreUntouched, AfterWork
<1>5. ASSUME \A u \in Threads \ {w} : snap'[u] = snap[u], Stands(w)'
      PROVE  StoreInv'
    <2>1. \A u \in Threads \ {w} : Stands(u)'
        BY <1>0, <1>1, <1>2, <1>5, StandsStill
    <2> QED
        BY <1>0, <1>1, <1>2, <1>5, <2>1, RowsKept DEF StoreInv
\* No snapshot is taken, or one with status s.
<1>Q. ASSUME UNCHANGED snap PROVE StoreInv'
    BY <1>3, <1>5, <1>Q, StandsFree
<1>K. ASSUME NEW l \in DOMAIN AfterPersist, NEW s \in Status, PersistAt(w, l, s), NotAhead(s, j)'
      PROVE  StoreInv'
    <2>1. Stands(w)' /\ \A u \in Threads \ {w} : pc'[u] = pc[u] /\ snap'[u] = snap[u]
        BY <1>0, <1>3, <1>K, OwnJob, FreshSnapshot
    <2> QED
        BY <1>5, <2>1
\* The job ends with status s.
<1>E. ASSUME NEW l \in DOMAIN AfterPersist, NEW s \in Terminal, PersistAt(w, l, s),
             entries' = [entries EXCEPT ![j] = Ended(j, s)]
      PROVE  StoreInv'
    <2>1. entries'[j].status = s /\ s \in Status /\ s # "running"
        BY <1>0, <1>E, EndedEntry DEF Status
    <2>2. NotAhead(s, j)'
        BY <1>4, <2>1 DEF NotAhead
    <2> QED
        BY <1>E, <1>K, <2>1, <2>2
<1>P. ASSUME NEW s \in Terminal, Publish(j, s) PROVE StoreInv'
    <2>1. CASE entries[j].status = "none"
        BY <1>P, <1>Q, <2>1 DEF Publish
    <2>2. CASE entries[j].status # "none"
        <3>1. "persistResult" \in DOMAIN AfterPersist
            BY DEF AfterPersist
        <3>2. entries' = [entries EXCEPT ![j] = Ended(j, s)] /\ PersistAt(w, "persistResult", s)
            BY <1>P, <2>2 DEF Publish
        <3> QED
            BY <1>E, <3>1, <3>2
    <2> QED
        BY <2>1, <2>2
<1>6. CASE BeginWork(j) \/ LoadCancelFlag(j) \/ ReturnSilently(j) \/ FinishPanics(j)
    BY <1>6, <1>Q DEF BeginWork, LoadCancelFlag, ReturnSilently, FinishPanics
<1>7. CASE Report(j) \/ Commit(j)
    <2>1. PICK l \in {"persistProgress", "persistCommitted"} :
             PersistAt(w, l, entries[j].status) /\ pc[w] = "work"
        BY <1>7 DEF Report, Commit
    <2>2. entries[j].status = "running" /\ "running" \in Status
        BY <1>0, <2>1 DEF JobLife, WorkIsOnRunning, AtWork, Status
    <2>3. NotAhead("running", j)
        BY <1>4, <2>2 DEF NotAhead, Terminal
    <2>4. NotAhead("running", j)' /\ l \in DOMAIN AfterPersist /\ PersistAt(w, l, "running")
        BY <1>2, <2>1, <2>2, <2>3 DEF AfterPersist
    <2> QED
        BY <1>K, <2>2, <2>4
<1>8. CASE RefuseCommit(j)
    <2>1. CASE InFlight(j)
        BY <1>8, <1>E, <2>1 DEF RefuseCommit, Terminal, AfterPersist
    <2>2. CASE ~InFlight(j)
        BY <1>8, <1>Q, <2>2 DEF RefuseCommit
    <2> QED
        BY <2>1, <2>2
<1>9. CASE Succeed(j) \/ Fail(j) \/ MarkCancelled(j)
    BY <1>9, <1>P DEF Succeed, Fail, MarkCancelled, Terminal
<1>10. CASE WorkerFinished(j)
    <2>1. CASE InFlight(j)
        BY <1>10, <1>E, <2>1 DEF WorkerFinished, Terminal, AfterPersist
    <2>2. CASE ~InFlight(j)
        BY <1>10, <1>Q, <2>2 DEF WorkerFinished
    <2> QED
        BY <2>1, <2>2
<1> QED
    BY <1>6, <1>7, <1>8, <1>9, <1>10 DEF Work, EndWork

\* Dispatch writes no row ahead of its job.
LEMMA DispatchStore ==
    ASSUME IInv, AllLives, StoreInv, [Next]_vars, NEW t \in Threads, Persist(t) \/ Prune(t) \/ Dispatch(t)
    PROVE  StoreInv'
<1> USE ThreadNames, ThreadsDiffer
<1>0. TypeOK /\ RowsNotAhead /\ \A u \in Threads : Stands(u)
    BY DEF IInv, StoreInv
<1>2. \A s \in Status, i \in Jobs : NotAhead(s, i) => NotAhead(s, i)'
    BY StaysTrue
<1>3. "cancelled" \in Status /\ "running" \in Status
    BY DEF Status, Terminal
<1>4. ASSUME \A u \in Threads \ {t} : pc'[u] = pc[u] /\ pick'[u] = pick[u] /\ snap'[u] = snap[u],
             Stands(t)'
      PROVE  \A u \in Threads : Stands(u)'
    <2>1. \A u \in Threads \ {t} : Stands(u)'
        BY <1>0, <1>2, <1>4, StandsStill
    <2> QED
        BY <1>4, <2>1
<1>5. CASE Persist(t)
    <2>1. /\ pc[t] \in DOMAIN AfterPersist /\ Moves(t, AfterPersist[pc[t]])
          /\ UNCHANGED pick /\ snap' = [snap EXCEPT ![t] = "none"]
        BY <1>5, DispatchGoes DEF Persist
    <2>2. /\ pc'[t] = AfterPersist[pc[t]] /\ snap'[t] = "none"
          /\ \A u \in Threads \ {t} : pc'[u] = pc[u] /\ snap'[u] = snap[u]
        BY <1>0, <2>1, MovesTo DEF TypeOK
    <2>3. Stands(t)'
        <3>1. Stands(t)
            BY <1>0
        <3> QED
            BY <2>1, <2>2, <3>1 DEF Stands, Picked, AfterPersist
    <2>4. \A u \in Threads : Stands(u)'
        BY <1>4, <2>1, <2>2, <2>3
    <2>5. RowsNotAhead'
        <3>1. CASE UNCHANGED rows
            BY <1>0, <1>2, <3>1, RowsKept
        <3>2. CASE rows' = [rows EXCEPT ![Subject(t)] = snap[t]]
            <4>1. ASSUME NEW j \in Jobs, rows'[j] # "none" PROVE NotAhead(rows[j], j)'
                <5>1. CASE j = Subject(t)
                    <6>1. PICK s \in Status : s = snap[t] /\ rows'[j] = s /\ s # "none"
                        BY <1>0, <3>2, <4>1, <5>1 DEF TypeOK
                    <6>2. NotAhead(s, j)
                        BY <1>0, <5>1, <6>1 DEF Stands
                    <6>3. NotAhead(s, j)'
                        BY <1>2, <6>2
                    <6> QED
                        BY <6>1, <6>3 DEF NotAhead, Unborn
                <5>2. CASE j # Subject(t)
                    <6>1. PICK s \in Status : s = rows[j] /\ rows'[j] = s /\ s # "none"
                        BY <1>0, <3>2, <4>1, <5>2 DEF TypeOK
                    <6>2. NotAhead(s, j)
                        BY <1>0, <6>1 DEF RowsNotAhead
                    <6>3. NotAhead(s, j)'
                        BY <1>2, <6>2
                    <6> QED
                        BY <6>1, <6>3 DEF NotAhead, Unborn
                <5> QED
                    BY <5>1, <5>2
            <4> QED
                BY <4>1 DEF RowsNotAhead
        <3> QED
            BY <1>5, <3>1, <3>2 DEF Persist
    <2> QED
        BY <2>4, <2>5 DEF StoreInv
<1>6. CASE Prune(t)
    <2>1. /\ pc[t] \in DOMAIN AfterPrune /\ Moves(t, AfterPrune[pc[t]])
          /\ UNCHANGED snap /\ pick' = [pick EXCEPT ![t] = NoJob]
        BY <1>6, DispatchGoes DEF Prune
    <2>2. /\ pc'[t] = AfterPrune[pc[t]] /\ pick'[t] = NoJob
          /\ \A u \in Threads \ {t} : pc'[u] = pc[u] /\ pick'[u] = pick[u]
        BY <1>0, <2>1, MovesTo DEF TypeOK
    <2>3. snap'[t] = "none" /\ pc'[t] # "release"
        <3>1. pc[t] \notin DOMAIN AfterPersist /\ pc'[t] # "release"
            BY <2>1, <2>2 DEF AfterPersist, AfterPrune
        <3> QED
            BY <1>0, <2>1, <3>1 DEF Stands
    <2>4. \A u \in Threads : Stands(u)'
        BY <1>4, <2>1, <2>2, <2>3, StandsFree
    <2>5. RowsNotAhead'
        <3>1. \A j \in Jobs : rows'[j] = rows[j] \/ rows'[j] = "none"
            BY <1>6 DEF Prune
        <3>2. ASSUME NEW j \in Jobs, rows'[j] # "none" PROVE NotAhead(rows[j], j)'
            <4>1. PICK s \in Status : s = rows[j] /\ rows'[j] = s /\ s # "none"
                BY <1>0, <3>1, <3>2 DEF TypeOK
            <4>2. NotAhead(s, j)
                BY <1>0, <4>1 DEF RowsNotAhead
            <4>3. NotAhead(s, j)'
                BY <1>2, <4>2
            <4> QED
                BY <4>1, <4>3 DEF NotAhead, Unborn
        <3> QED
            BY <3>2 DEF RowsNotAhead
    <2> QED
        BY <2>4, <2>5 DEF StoreInv
<1>R. ASSUME UNCHANGED rows, \A u \in Threads : Stands(u)' PROVE StoreInv'
    BY <1>0, <1>2, <1>R, RowsKept DEF StoreInv
<1>7. CASE Start(t)
    <2>1. PICK j \in Jobs : /\ PopWrite(j) \/ PopRead(j)
                            /\ pick' = [pick EXCEPT ![t] = j]
                            /\ entries' = [entries EXCEPT ![j].status = "running"]
        BY <1>7 DEF Start
    <2>2. /\ pc[t] = "dispatch" /\ PersistAt(t, "persistRunning", "running") /\ UNCHANGED rows
          /\ pick'[t] = j /\ \A u \in Threads \ {t} : pick'[u] = pick[u]
        <3>1. pc[t] = "dispatch" /\ PersistAt(t, "persistRunning", "running") /\ UNCHANGED rows
            BY <1>7 DEF Start
        <3> QED
            BY <1>0, <2>1, <3>1 DEF TypeOK
    <2>3. entries[j].status = "queued"
        BY <2>1, PopShape
    <2>4. entries'[j].status = "running"
        <3>1. entries' = [entries EXCEPT ![j] = [entries[j] EXCEPT !.status = "running"]]
            BY <2>1
        <3>2. entries[j] \in Entry
            BY <1>0 DEF TypeOK
        <3> QED
            BY <1>0, <3>1, <3>2 DEF TypeOK, Entry
    <2>5. ~Unborn(j)'
        BY <2>3, BornOnce DEF IInv, UnbornAreUntouched
    <2>6. NotAhead("running", j)'
        BY <2>4, <2>5 DEF NotAhead, Terminal
    <2>7. "persistRunning" \in DOMAIN AfterPersist /\ pc[t] \notin DOMAIN AfterPersist
        BY <2>2 DEF AfterPersist
    <2>8. Stands(t)' /\ \A u \in Threads \ {t} : pc'[u] = pc[u] /\ snap'[u] = snap[u]
        BY <1>0, <1>3, <2>2, <2>6, <2>7, FreshSnapshot
    <2> QED
        BY <1>4, <1>R, <2>2, <2>8
<1>8. CASE Reject(t)
    <2>1. PICK j \in Jobs : /\ PopWrite(j) \/ PopRead(j)
                            /\ pick' = [pick EXCEPT ![t] = j]
                            /\ entries' = [entries EXCEPT ![j] = Ended(j, "cancelled")]
        BY <1>8 DEF Reject
    <2>2. /\ pc[t] = "dispatch" /\ UNCHANGED <<rows, snap>>
          /\ pc'[t] = "release" /\ pick'[t] = j
          /\ \A u \in Threads \ {t} : pc'[u] = pc[u] /\ pick'[u] = pick[u]
        <3>1. pc[t] = "dispatch" /\ UNCHANGED <<rows, snap>>
            BY <1>8 DEF Reject
        <3> QED
            BY <1>0, <1>8, <2>1, <3>1, DispatchGoes, MovesTo DEF TypeOK
    <2>3. entries[j].status = "queued"
        BY <2>1, PopShape
    <2>4. entries'[j].status = "cancelled"
        BY <1>0, <2>1, EndedEntry DEF Terminal
    <2>5. ~Unborn(j)'
        BY <2>3, BornOnce DEF IInv, UnbornAreUntouched
    <2>6. NotAhead("cancelled", j)'
        BY <2>4, <2>5 DEF NotAhead
    <2>7. snap'[t] = "none"
        BY <1>0, <2>2 DEF Stands, AfterPersist
    <2>8. Stands(t)'
        BY <2>2, <2>6, <2>7 DEF Stands, Picked, NotAhead, Unborn
    <2> QED
        BY <1>4, <1>R, <2>2, <2>8
<1>9. CASE ReleaseRejected(t)
    <2>1. /\ pc[t] = "release" /\ PersistAt(t, "persistRejected", "cancelled") /\ UNCHANGED <<rows, pick>>
        BY <1>9 DEF ReleaseRejected
    <2>2. PICK j \in Jobs : j = pick[t] /\ NotAhead("cancelled", j)
        BY <1>0, <2>1 DEF Stands
    <2>3. NotAhead("cancelled", j)' /\ pick'[t] = j
        BY <1>2, <1>3, <2>1, <2>2
    <2>4. "persistRejected" \in DOMAIN AfterPersist /\ pc[t] \notin DOMAIN AfterPersist
        BY <2>1 DEF AfterPersist
    <2>5. Stands(t)' /\ \A u \in Threads \ {t} : pc'[u] = pc[u] /\ snap'[u] = snap[u]
        BY <1>0, <1>3, <2>1, <2>3, <2>4, FreshSnapshot
    <2> QED
        BY <1>4, <1>R, <2>1, <2>5
<1>10. CASE Spawn(t)
    <2>1. PICK j \in Jobs : j = pick[t] /\ pc[t] = "spawn" /\ pc[Worker(j)] = "new"
        BY <1>10 DEF IInv, StartedOnce, Starting, Spawn
    <2>2. /\ pc' = [pc EXCEPT ![t] = "dispatch", ![Worker(j)] = "begin"]
          /\ pick' = [pick EXCEPT ![t] = NoJob] /\ UNCHANGED <<rows, snap>>
        BY <1>10, <2>1 DEF Spawn
    <2>3. /\ t # Worker(j) /\ pc'[t] = "dispatch" /\ pc'[Worker(j)] = "begin"
          /\ pick'[t] = NoJob
          /\ \A u \in Threads \ {t, Worker(j)} : pc'[u] = pc[u] /\ pick'[u] = pick[u]
          /\ pick'[Worker(j)] = pick[Worker(j)]
        BY <1>0, <2>1, <2>2 DEF TypeOK
    <2>4. pick[Worker(j)] = NoJob /\ snap[Worker(j)] = "none" /\ snap[t] = "none"
        BY <1>0, <2>1 DEF Stands, Picked, AfterPersist
    <2>5. Stands(t)' /\ Stands(Worker(j))'
        BY <2>2, <2>3, <2>4, StandsFree
    <2>6. \A u \in Threads \ {t, Worker(j)} : Stands(u)'
        BY <1>0, <1>2, <2>2, <2>3, StandsStill
    <2> QED
        BY <1>R, <2>2, <2>5, <2>6
<1>11. CASE LeaveLoop(t)
    <2>1. pc[t] = "dispatch" /\ UNCHANGED <<rows, snap, pick>>
        BY <1>11 DEF LeaveLoop
    <2>2. pc'[t] = "done" /\ \A u \in Threads \ {t} : pc'[u] = pc[u]
        BY <1>0, <1>11, DispatchGoes, MovesTo
    <2>3. pick[t] = NoJob /\ snap[t] = "none"
        BY <1>0, <2>1 DEF Stands, Picked, AfterPersist
    <2> QED
        BY <1>4, <1>R, <2>1, <2>2, <2>3, StandsFree
<1> QED
    BY <1>5, <1>6, <1>7, <1>8, <1>9, <1>10, <1>11 DEF Dispatch

\* The job store never runs ahead of the registry, although snapshots are
\* persisted after the mutex is free and the last writer wins: a stored outcome
\* is the outcome in memory, and a running row is that of a job that was started.
THEOREM StoreIsBehind == Spec => []StoreNotAhead
<1>1. Init => StoreInv
    BY DEF Init, StoreInv, RowsNotAhead, Stands
<1>2. IInv /\ AllLives /\ StoreInv /\ [Next]_vars => StoreInv'
    <2> SUFFICES ASSUME IInv, AllLives, StoreInv, [Next]_vars PROVE StoreInv'
        OBVIOUS
    <2>1. CASE UNCHANGED vars
        BY <2>1, StaysTrue, StandsStill, RowsKept DEF vars, IInv, StoreInv
    <2>2. ASSUME NEW j \in Jobs,
                 \/ Reserve(j) \/ DropAdmission(j) \/ Enqueue(j) \/ CancelQueued(j) \/ CancelRunning(j)
          PROVE  StoreInv'
        BY <2>2, RequestStore
    <2>3. ASSUME NEW j \in Jobs, Work(j) PROVE StoreInv'
        BY <2>3, WorkStore
    <2>4. ASSUME NEW t \in Threads, Persist(t) \/ Prune(t) \/ Dispatch(t) PROVE StoreInv'
        BY <2>4, DispatchStore
    <2> QED
        BY <2>1, <2>2, <2>3, <2>4 DEF Next, Idle
<1>3. StoreInv => StoreNotAhead
    BY DEF StoreInv, RowsNotAhead, NotAhead, StoreNotAhead, Terminal
<1> QED
    BY <1>1, <1>2, <1>3, Inductive, LivesAreKept, PTL DEF Spec
----------------------------------------------------------------------------
(***************************************************************************)
(* Limits on what is pending.  A request is counted by its reservation,    *)
(* then by its place in a queue, and nothing else comes to be pending.     *)
(***************************************************************************)

\* A queue holds as many jobs as it is long, at most.
LEMMA QueueSize ==
    ASSUME NEW q \in Seq(Jobs)
    PROVE  /\ IsFiniteSet(ToSet(q)) /\ Cardinality(ToSet(q)) \in Nat /\ Len(q) \in Nat
           /\ Cardinality(ToSet(q)) <= Len(q)
<1>1. q \in [1..Len(q) -> Jobs] /\ Len(q) \in Nat
    BY LenProperties
<1>2. ToSet(q) = {q[i] : i \in 1..Len(q)}
    BY <1>1 DEF ToSet
<1>3. q \in [1..Len(q) -> ToSet(q)]
    BY <1>1, <1>2
<1>4. q \in Surjection(1..Len(q), ToSet(q))
    BY <1>2, <1>3 DEF Surjection
<1>5. IsFiniteSet(1..Len(q)) /\ Cardinality(1..Len(q)) = Len(q)
    <2>1. /\ IsFiniteSet(1..Len(q))
          /\ Cardinality(1..Len(q)) = IF 1 > Len(q) THEN 0 ELSE Len(q) - 1 + 1
        BY <1>1, FS_Interval
    <2> QED
        BY <1>1, <2>1
<1>6. IsFiniteSet(ToSet(q)) /\ Cardinality(ToSet(q)) <= Len(q)
    BY <1>4, <1>5, FS_Surjection
<1> QED
    BY <1>1, <1>6, FS_CardinalityType

\* As many jobs are pending as the queues are long, at most.
LEMMA PendingCounted ==
    ASSUME TypeOK
    PROVE  /\ Pending \subseteq Jobs /\ IsFiniteSet(Pending)
           /\ Cardinality(Pending) \in Nat /\ PendingNumber \in Nat
           /\ Cardinality(Pending) <= PendingNumber
<1> DEFINE W == ToSet(writeQueue)
           R == ToSet(readQueue)
<1>1. writeQueue \in Seq(Jobs) /\ readQueue \in Seq(Jobs) /\ reservations \subseteq Jobs
    BY DEF TypeOK
<1>2. W \subseteq Jobs /\ R \subseteq Jobs
    BY <1>1, ToSetByPosition
<1>3. IsFiniteSet(reservations) /\ Cardinality(reservations) \in Nat
    BY <1>1, JobsAssumption, FS_Subset, FS_CardinalityType
<1>4. /\ IsFiniteSet(W) /\ Cardinality(W) \in Nat /\ Cardinality(W) <= Len(writeQueue)
      /\ IsFiniteSet(R) /\ Cardinality(R) \in Nat /\ Cardinality(R) <= Len(readQueue)
      /\ Len(writeQueue) \in Nat /\ Len(readQueue) \in Nat
    BY <1>1, QueueSize
<1> HIDE DEF W, R
<1>5. /\ IsFiniteSet(W \cup R) /\ Cardinality(W \cup R) \in Nat
      /\ Cardinality(W \cup R) <= Cardinality(W) + Cardinality(R)
    <2>1. IsFiniteSet(W \cup R) /\ Cardinality(W \cup R) = Cardinality(W) + Cardinality(R) - Cardinality(W \cap R)
        BY <1>4, FS_Union
    <2>2. Cardinality(W \cap R) \in Nat
        BY <1>4, FS_Intersection, FS_CardinalityType
    <2> QED
        BY <1>4, <2>1, <2>2, FS_CardinalityType
<1>6. /\ IsFiniteSet((W \cup R) \cup reservations)
      /\ Cardinality((W \cup R) \cup reservations) <= Cardinality(W \cup R) + Cardinality(reservations)
    <2>1. /\ IsFiniteSet((W \cup R) \cup reservations)
          /\ Cardinality((W \cup R) \cup reservations) =
                Cardinality(W \cup R) + Cardinality(reservations) - Cardinality((W \cup R) \cap reservations)
        BY <1>3, <1>5, FS_Union
    <2>2. Cardinality((W \cup R) \cap reservations) \in Nat
        BY <1>5, FS_Intersection, FS_CardinalityType
    <2> QED
        BY <1>3, <1>5, <2>1, <2>2
<1>7. Pending = (W \cup R) \cup reservations
    BY DEF Pending, W, R
<1>8. Cardinality((W \cup R) \cup reservations) \in Nat
    BY <1>6, FS_CardinalityType
<1>9. PendingNumber \in Nat /\ Cardinality((W \cup R) \cup reservations) <= PendingNumber
    BY <1>3, <1>4, <1>5, <1>6, <1>8 DEF PendingNumber
<1> QED
    BY <1>1, <1>2, <1>6, <1>7, <1>8, <1>9

\* A request that waits to be enqueued holds its reservation.
Waiting(j) == pc[Submitter(j)] \in {"admitted", "enqueue"}
WaitingHold == \A j \in Jobs : Waiting(j) => j \in reservations

Busy(j) == InFlight(j) \/ j \in reservations

AdmissionInv == WaitingHold /\ PendingWithinLimits /\ SingleFlight

\* Nothing comes to be pending without a new reservation.
LEMMA NothingAdmitted ==
    ASSUME IInv, AllLives, [Next]_vars, AdmissionInv,
           reservations' \subseteq reservations, UNCHANGED <<owner, kind>>,
           \A i \in Jobs : Waiting(i)' => i \in reservations'
    PROVE  AdmissionInv'
<1>1. TypeOK /\ QueuedIffInQueue /\ TypeOK' /\ QueuedIffInQueue'
    BY NextIInv DEF IInv
<1>2. \A i \in Jobs : Enqueue(i) => i \in reservations
    BY DEF Enqueue, AdmissionInv, WaitingHold, Waiting
<1>3. \A i \in Jobs : StatusStep(i)
    BY NextLife
<1>4. \A i \in Jobs : Busy(i)' => Busy(i)
    BY <1>2, <1>3 DEF Busy, InFlight, StatusStep, Terminal
<1>5. Pending' \subseteq Pending
    <2>1. ASSUME NEW i \in Pending', i \notin reservations' PROVE i \in Pending
        <3>1. i \in Jobs /\ entries'[i].status = "queued"
            <4>1. writeQueue' \in Seq(Jobs) /\ readQueue' \in Seq(Jobs)
                BY <1>1 DEF TypeOK
            <4>2. i \in ToSet(writeQueue') \/ i \in ToSet(readQueue')
                BY <2>1 DEF Pending
            <4>3. i \in Jobs
                BY <4>1, <4>2, ToSetByPosition
            <4> QED
                BY <1>1, <4>2, <4>3 DEF QueuedIffInQueue
        <3>2. entries[i].status = "queued" \/ i \in reservations
            BY <1>2, <1>3, <3>1 DEF StatusStep, Terminal
        <3> QED
            BY <1>1, <3>1, <3>2 DEF QueuedIffInQueue, Pending
    <2> QED
        BY <2>1 DEF Pending
<1>6. PendingWithinLimits'
    <2>1. /\ IsFiniteSet(Pending) /\ Cardinality(Pending) \in Nat /\ Cardinality(Pending) <= WorkspacePending
          /\ \A u \in Users : Cardinality(PendingOf(u)) <= UserPending
        BY <1>1, PendingCounted DEF AdmissionInv, PendingWithinLimits
    <2>2. /\ WorkspacePending \in Nat /\ UserPending \in Nat
          /\ IsFiniteSet(Pending') /\ Cardinality(Pending') \in Nat /\ Cardinality(Pending') <= Cardinality(Pending)
        BY <1>5, <2>1, FS_Subset, FS_CardinalityType, LimitsAssumption
    <2>3. ASSUME NEW u \in Users PROVE Cardinality(PendingOf(u)') <= UserPending
        <3>1. PendingOf(u)' \subseteq PendingOf(u) /\ PendingOf(u) \subseteq Pending
            BY <1>5 DEF PendingOf
        <3>2. IsFiniteSet(PendingOf(u)) /\ Cardinality(PendingOf(u)) \in Nat
            BY <2>1, <3>1, FS_Subset, FS_CardinalityType
        <3>3. Cardinality(PendingOf(u)') <= Cardinality(PendingOf(u)) /\ Cardinality(PendingOf(u)') \in Nat
            BY <3>1, <3>2, FS_Subset, FS_CardinalityType
        <3> QED
            BY <2>1, <2>2, <3>2, <3>3
    <2>4. Cardinality(Pending') <= WorkspacePending
        BY <2>1, <2>2
    <2> QED
        BY <2>3, <2>4 DEF PendingWithinLimits
<1>7. SingleFlight'
    BY <1>4 DEF AdmissionInv, SingleFlight, Busy
<1> QED
    BY <1>6, <1>7 DEF AdmissionInv, WaitingHold

\* An admission finds room, and no other maintenance job of its kind.
LEMMA ReserveAdmits ==
    ASSUME IInv, AdmissionInv, NEW j \in Jobs, Reserve(j)
    PROVE  AdmissionInv'
<1> USE ThreadNames, ThreadsDiffer
<1>0. TypeOK
    BY DEF IInv
<1>1. /\ UNCHANGED <<owner, kind, entries, writeQueue, readQueue>>
      /\ reservations' = reservations \cup {j}
      /\ ~MaintenanceBusy(kind[j])
      /\ Cardinality(PendingOf(owner[j])) < UserPending
      /\ PendingNumber < WorkspacePending
    BY DEF Reserve, HasRoom, request, queues
<1>2. WaitingHold'
    <2>1. Moves(Submitter(j), "admitted")
        BY RequestGoes
    <2>2. \A i \in Jobs \ {j} : pc'[Submitter(i)] = pc[Submitter(i)]
        BY <1>0, <2>1, MovesTo
    <2> QED
        BY <1>1, <2>2 DEF AdmissionInv, WaitingHold, Waiting
<1>3. SingleFlight'
    <2>1. \A i \in Jobs : Busy(i)' => Busy(i) \/ i = j
        BY <1>1 DEF Busy, InFlight
    <2>2. IsSingleFlight(kind[j]) => \A i \in Jobs : kind[i] = kind[j] => ~Busy(i)
        BY <1>1 DEF MaintenanceBusy, Busy
    <2> QED
        BY <1>1, <2>1, <2>2 DEF AdmissionInv, SingleFlight, Busy
<1>4. PendingWithinLimits'
    <2>1. /\ Pending' = Pending \cup {j}
          /\ \A u \in Users : PendingOf(u)' = IF owner[j] = u THEN PendingOf(u) \cup {j} ELSE PendingOf(u)
        <3>1. Pending' = Pending \cup {j}
            BY <1>1 DEF Pending
        <3> QED
            BY <1>1, <3>1 DEF PendingOf
    <2>2. /\ IsFiniteSet(Pending) /\ Cardinality(Pending) \in Nat /\ PendingNumber \in Nat
          /\ Cardinality(Pending) <= PendingNumber
          /\ WorkspacePending \in Nat /\ UserPending \in Nat
        BY <1>0, PendingCounted, LimitsAssumption
    <2>3. Cardinality(Pending \cup {j}) <= WorkspacePending
        <3>1. Cardinality(Pending \cup {j}) \in {Cardinality(Pending), Cardinality(Pending) + 1}
            BY <2>2, FS_AddElement
        <3> QED
            BY <1>1, <2>2, <3>1
    <2>4. ASSUME NEW u \in Users PROVE Cardinality(PendingOf(u)') <= UserPending
        <3>1. CASE owner[j] = u
            <4>1. IsFiniteSet(PendingOf(u)) /\ Cardinality(PendingOf(u)) \in Nat
                BY <2>2, FS_Subset, FS_CardinalityType DEF PendingOf
            <4>2. Cardinality(PendingOf(u) \cup {j}) \in {Cardinality(PendingOf(u)), Cardinality(PendingOf(u)) + 1}
                BY <4>1, FS_AddElement
            <4>3. Cardinality(PendingOf(u)) < UserPending
                BY <1>1, <3>1
            <4>4. Cardinality(PendingOf(u) \cup {j}) <= UserPending
                BY <2>2, <4>1, <4>2, <4>3
            <4> QED
                BY <2>1, <3>1, <4>4
        <3>2. CASE owner[j] # u
            BY <2>1, <3>2 DEF AdmissionInv, PendingWithinLimits
        <3> QED
            BY <3>1, <3>2
    <2> QED
        BY <2>1, <2>3, <2>4 DEF PendingWithinLimits
<1> QED
    BY <1>2, <1>3, <1>4 DEF AdmissionInv

\* Every step keeps the limits of admission.
LEMMA NextAdmission ==
    ASSUME IInv, AllLives, AdmissionInv, [Next]_vars
    PROVE  AdmissionInv'
<1> USE ThreadNames, ThreadsDiffer
<1>0. TypeOK /\ WaitingHold
    BY DEF IInv, AdmissionInv
\* Reservations stay, and no further request waits.
<1>K. ASSUME UNCHANGED <<reservations, request>>, \A i \in Jobs : Waiting(i)' => Waiting(i)
      PROVE  AdmissionInv'
    <2>1. reservations' \subseteq reservations /\ \A i \in Jobs : Waiting(i)' => i \in reservations'
        BY <1>0, <1>K DEF WaitingHold
    <2> QED
        BY <1>K, <2>1, NothingAdmitted DEF request
<1>1. CASE UNCHANGED vars
    BY <1>1, <1>K DEF vars, Waiting
<1>2. ASSUME NEW j \in Jobs, Reserve(j) PROVE AdmissionInv'
    BY <1>2, ReserveAdmits
<1>3. ASSUME NEW j \in Jobs, DropAdmission(j) \/ Enqueue(j) PROVE AdmissionInv'
    <2>1. reservations' = reservations \ {j} /\ UNCHANGED request
        BY <1>3 DEF DropAdmission, Enqueue
    <2>2. PICK l \in {"new", "persistQueued", "dispatch"} : Moves(Submitter(j), l)
        BY <1>3, RequestGoes
    <2>3. pc'[Submitter(j)] = l /\ \A i \in Jobs \ {j} : pc'[Submitter(i)] = pc[Submitter(i)]
        BY <1>0, <2>2, MovesTo
    <2>4. reservations' \subseteq reservations /\ \A i \in Jobs : Waiting(i)' => i \in reservations'
        BY <1>0, <2>1, <2>2, <2>3 DEF WaitingHold, Waiting
    <2> QED
        BY <2>1, <2>4, NothingAdmitted DEF request
<1>4. ASSUME NEW j \in Jobs, CancelQueued(j) \/ CancelRunning(j) PROVE AdmissionInv'
    <2>1. UNCHANGED <<reservations, request>>
        BY <1>4 DEF CancelQueued, CancelRunning
    <2>2. PICK l : Moves(Canceller(j), l)
        BY <1>4, RequestGoes
    <2>3. \A i \in Jobs : pc'[Submitter(i)] = pc[Submitter(i)]
        BY <1>0, <2>2, MovesTo
    <2> QED
        BY <1>K, <2>1, <2>3 DEF Waiting
<1>5. ASSUME NEW j \in Jobs, Work(j) PROVE AdmissionInv'
    <2>1. UNCHANGED <<reservations, request>> /\ \A i \in Jobs : pc'[Submitter(i)] = pc[Submitter(i)]
        BY <1>0, <1>5, WorkFlow
    <2> QED
        BY <1>K, <2>1 DEF Waiting
<1>6. ASSUME NEW t \in Threads, Persist(t) \/ Prune(t) \/ Start(t) \/ Reject(t) \/ ReleaseRejected(t)
                                 \/ LeaveLoop(t)
      PROVE  AdmissionInv'
    <2>1. UNCHANGED <<reservations, request>>
        BY <1>6 DEF Persist, Prune, Start, Reject, ReleaseRejected, LeaveLoop
    <2>2. PICK l : Moves(t, l) /\ (l = "enqueue" => pc[t] = "admitted") /\ l \notin {"new", "admitted"}
        BY <1>6, DispatchGoes DEF AfterPersist, AfterPrune
    <2>3. \A i \in Jobs : Waiting(i)' => Waiting(i)
        BY <1>0, <2>2, MovesTo DEF Waiting
    <2> QED
        BY <1>K, <2>1, <2>3
<1>7. ASSUME NEW t \in Threads, Spawn(t) PROVE AdmissionInv'
    <2>1. UNCHANGED <<reservations, request>>
        BY <1>7 DEF Spawn
    <2>2. \A i \in Jobs : pc'[Submitter(i)] = pc[Submitter(i)] \/ pc'[Submitter(i)] \in {"dispatch", "begin"}
        BY <1>0, <1>7 DEF Spawn, TypeOK
    <2> QED
        BY <1>K, <2>1, <2>2 DEF Waiting
<1> QED
    BY <1>1, <1>2, <1>3, <1>4, <1>5, <1>6, <1>7 DEF Next, Dispatch, Idle

\* Nobody waits at first.
LEMMA InitAdmission == Init => AdmissionInv
<1> SUFFICES ASSUME Init PROVE AdmissionInv
    OBVIOUS
<1>1. WaitingHold /\ SingleFlight
    BY ThreadNames DEF Init, WaitingHold, Waiting, SingleFlight, InFlight, NoEntry
<1>2. Pending = {} /\ \A u \in Users : PendingOf(u) = {}
    BY EmptyQueue DEF Init, Pending, PendingOf
<1>3. PendingWithinLimits
    BY <1>2, FS_EmptySet, LimitsAssumption DEF PendingWithinLimits
<1> QED
    BY <1>1, <1>3 DEF AdmissionInv

\* The limits of admission hold always.
LEMMA AdmissionIsKept == Spec => []AdmissionInv
BY InitAdmission, NextAdmission, Inductive, LivesAreKept, PTL DEF Spec
----------------------------------------------------------------------------
(***************************************************************************)
(* The history.  A finished job has a rank of its own, so pruning leaves   *)
(* HistoryLimit of them; each job that ends leaves one more thread that is *)
(* still to prune.                                                         *)
(***************************************************************************)

AgesAreDistinct ==
    /\ \A j \in Jobs : entries[j].status \in Terminal => age[j] > 0
    /\ \A i, j \in Jobs : age[i] > 0 /\ age[i] = age[j] => i = j

\* The worker of a job gives up, and the job has not ended yet.
Undecided(t) == \E j \in Jobs : t = Worker(j) /\ pc[t] \in GivingUp /\ InFlight(j)
Owes(t) == OwesPrune(t) /\ ~Undecided(t)
Debtors == {t \in Threads : Owes(t)}

HistoryOwed == StoreMayFail \/ Cardinality(Finished) <= HistoryLimit + Cardinality(Debtors)
HistoryInv == AgesAreDistinct /\ HistoryOwed

\* A stamp moves the other ranks and makes no two of them equal.
LEMMA TouchDistinct ==
    ASSUME TypeOK, AgesAreDistinct, NEW j \in Jobs, Touch(j),
           \A i \in Jobs \ {j} : entries'[i] = entries[i]
    PROVE  AgesAreDistinct'
<1>1. PICK r \in Ranks(j) : age' = Stamped(j, r)
    BY DEF Touch
<1>2. r \in Nat \ {0}
    BY FinishedIsFinite DEF Ranks
<1> DEFINE rank(i) == IF age[j] > 0 /\ age[i] > age[j] THEN age[i] - 1 ELSE age[i]
<1>3. /\ age'[j] = r
      /\ \A i \in Jobs \ {j} : age'[i] = IF rank(i) >= r THEN rank(i) + 1 ELSE rank(i)
    BY <1>1 DEF Stamped
<1>4. \A i \in Jobs : age[i] \in Nat
    BY DEF TypeOK
<1>5. \A i \in Jobs \ {j} : (age[i] > 0 <=> rank(i) > 0) /\ rank(i) \in Nat
    BY <1>4
<1>6. \A i, k \in Jobs \ {j} : rank(i) > 0 /\ rank(i) = rank(k) => i = k
    BY <1>4 DEF AgesAreDistinct
<1> HIDE DEF rank
<1>7. \A i \in Jobs \ {j} : age'[i] # r /\ (age[i] > 0 => age'[i] > 0)
    BY <1>2, <1>3, <1>4, <1>5
<1>8. \A i, k \in Jobs \ {j} : age'[i] > 0 /\ age'[i] = age'[k] => i = k
    BY <1>2, <1>3, <1>5, <1>6
<1>9. \A i, k \in Jobs : age'[i] > 0 /\ age'[i] = age'[k] => i = k
    BY <1>3, <1>7, <1>8
<1>10. \A i \in Jobs : entries'[i].status \in Terminal => age'[i] > 0
    BY <1>2, <1>3, <1>7 DEF AgesAreDistinct
<1> QED
    BY <1>9, <1>10 DEF AgesAreDistinct

\* Jobs and threads are finitely many.
LEMMA FiniteSubset ==
    ASSUME NEW S, S \subseteq Jobs \/ S \subseteq Threads
    PROVE  IsFiniteSet(S) /\ Cardinality(S) \in Nat
<1>1. IsFiniteSet({"submit", "cancel", "worker"})
    <2>1. {"submit", "cancel", "worker"} = (({} \cup {"submit"}) \cup {"cancel"}) \cup {"worker"}
        OBVIOUS
    <2>2. IsFiniteSet((({} \cup {"submit"}) \cup {"cancel"}) \cup {"worker"})
        BY FS_EmptySet, FS_AddElement
    <2> QED
        BY <2>1, <2>2
<1>2. IsFiniteSet(Threads)
    BY <1>1, JobsAssumption, FS_Product DEF Threads
<1>3. IsFiniteSet(S)
    BY <1>2, JobsAssumption, FS_Subset
<1> QED
    BY <1>3, FS_CardinalityType

\* So are the finished jobs and the threads that owe a pruning.
LEMMA HistoryIsFinite ==
    /\ IsFiniteSet(Finished) /\ Cardinality(Finished) \in Nat
    /\ IsFiniteSet(Debtors) /\ Cardinality(Debtors) \in Nat
    /\ IsFiniteSet(Finished') /\ Cardinality(Finished') \in Nat
    /\ IsFiniteSet(Debtors') /\ Cardinality(Debtors') \in Nat
<1>1. Finished \subseteq Jobs /\ Finished' \subseteq Jobs /\ Debtors \subseteq Threads /\ Debtors' \subseteq Threads
    BY DEF Finished, Debtors
<1> QED
    BY <1>1, FiniteSubset

\* No job ends, and no debt is paid.
LEMMA HistoryQuiet ==
    ASSUME HistoryInv, UNCHANGED age,
           \A i \in Jobs : entries'[i].status \in Terminal => entries[i].status \in Terminal,
           \A t \in Threads : Owes(t) => Owes(t)'
    PROVE  HistoryInv'
<1>1. AgesAreDistinct'
    BY DEF HistoryInv, AgesAreDistinct
<1>2. Finished' \subseteq Finished /\ Debtors \subseteq Debtors'
    BY DEF Finished, Debtors
<1>3. /\ IsFiniteSet(Finished) /\ Cardinality(Finished) \in Nat
      /\ IsFiniteSet(Debtors') /\ Cardinality(Debtors') \in Nat /\ Cardinality(Debtors) \in Nat
    BY HistoryIsFinite
<1>4. /\ Cardinality(Finished') \in Nat /\ Cardinality(Finished') <= Cardinality(Finished)
      /\ Cardinality(Debtors) <= Cardinality(Debtors')
    BY <1>2, <1>3, FS_Subset, FS_CardinalityType
<1>5. HistoryLimit \in Nat
    BY LimitsAssumption
<1> QED
    BY <1>1, <1>3, <1>4, <1>5 DEF HistoryInv, HistoryOwed

\* Job j ends, and thread t comes to owe a pruning for it.
LEMMA HistoryGrows ==
    ASSUME HistoryInv, TypeOK, NEW j \in Jobs, NEW s \in Terminal,
           entries' = [entries EXCEPT ![j] = Ended(j, s)], Touch(j),
           \A t \in Threads : Owes(t) => Owes(t)',
           entries[j].status \in Terminal \/ \E t \in Threads : ~Owes(t) /\ Owes(t)'
    PROVE  HistoryInv'
<1>1. \A i \in Jobs \ {j} : entries'[i] = entries[i]
    BY EndedEntry
<1>2. AgesAreDistinct'
    BY <1>1, TouchDistinct DEF HistoryInv
<1>3. /\ IsFiniteSet(Finished) /\ Cardinality(Finished) \in Nat
      /\ IsFiniteSet(Debtors) /\ Cardinality(Debtors) \in Nat
      /\ IsFiniteSet(Debtors') /\ Cardinality(Debtors') \in Nat
      /\ IsFiniteSet(Finished') /\ Cardinality(Finished') \in Nat
    BY HistoryIsFinite
<1>4. HistoryLimit \in Nat
    BY LimitsAssumption
<1>5. Debtors \subseteq Debtors'
    BY DEF Debtors
<1>6. CASE entries[j].status \in Terminal
    <2>1. Finished' \subseteq Finished
        BY <1>1, <1>6 DEF Finished
    <2>2. Cardinality(Finished') <= Cardinality(Finished) /\ Cardinality(Debtors) <= Cardinality(Debtors')
        BY <1>3, <1>5, <2>1, FS_Subset
    <2> QED
        BY <1>2, <1>3, <1>4, <2>2 DEF HistoryInv, HistoryOwed
<1>7. ASSUME NEW t \in Threads, ~Owes(t), Owes(t)' PROVE HistoryInv'
    <2>1. Finished' \subseteq Finished \cup {j}
        BY <1>1 DEF Finished
    <2>2. t \notin Debtors /\ Debtors \cup {t} \subseteq Debtors'
        BY <1>5, <1>7 DEF Debtors
    <2>3. /\ IsFiniteSet(Finished \cup {j})
          /\ Cardinality(Finished \cup {j}) \in {Cardinality(Finished), Cardinality(Finished) + 1}
        BY <1>3, FS_AddElement
    <2>4. Cardinality(Finished') <= Cardinality(Finished) + 1
        <3>1. Cardinality(Finished') <= Cardinality(Finished \cup {j})
            BY <2>1, <2>3, FS_Subset
        <3> QED
            BY <1>3, <2>3, <3>1
    <2>5. Cardinality(Debtors) + 1 <= Cardinality(Debtors')
        <3>1. Cardinality(Debtors \cup {t}) = Cardinality(Debtors) + 1
            BY <1>3, <2>2, FS_AddElement
        <3>2. Cardinality(Debtors \cup {t}) <= Cardinality(Debtors')
            BY <1>3, <2>2, FS_Subset
        <3> QED
            BY <3>1, <3>2
    <2> QED
        BY <1>2, <1>3, <1>4, <2>4, <2>5 DEF HistoryInv, HistoryOwed
<1> QED
    BY <1>6, <1>7

\* Pruning leaves the HistoryLimit newest, whatever the thread owed.
LEMMA PruneKeepsHistory ==
    ASSUME IInv, HistoryInv, NEW t \in Threads, Prune(t)
    PROVE  HistoryInv'
<1>1. TypeOK /\ AgesAreDistinct
    BY DEF IInv, HistoryInv
<1>2. \A i \in Jobs : \/ entries'[i] = entries[i] /\ age'[i] = age[i]
                      \/ entries'[i] = NoEntry /\ age'[i] = 0
    BY DEF Prune
<1>3. AgesAreDistinct'
    BY <1>1, <1>2 DEF AgesAreDistinct, NoEntry, Terminal
<1>4. CASE StoreMayFail
    BY <1>3, <1>4 DEF HistoryInv, HistoryOwed
<1>5. CASE ~StoreMayFail
    <2>1. entries' = [j \in Jobs |-> IF j \in BeyondHistory THEN NoEntry ELSE entries[j]]
        BY <1>5 DEF Prune
    <2>2. \A j \in Finished' : j \in Jobs /\ age[j] \in 1..HistoryLimit
        BY <1>1, <2>1, LimitsAssumption
           DEF Finished, BeyondHistory, NoEntry, Terminal, TypeOK, AgesAreDistinct
    <2> DEFINE f == [j \in Finished' |-> age[j]]
    <2>3. f \in [Finished' -> 1..HistoryLimit]
        BY <2>2
    <2>4. \A i, j \in Finished' : f[i] = f[j] => i = j
        BY <1>1, <2>2 DEF AgesAreDistinct
    <2>5. f \in Injection(Finished', 1..HistoryLimit)
        BY <2>3, <2>4 DEF Injection, IsInjective
    <2>6. /\ IsFiniteSet(1..HistoryLimit)
          /\ Cardinality(1..HistoryLimit) = IF 1 > HistoryLimit THEN 0 ELSE HistoryLimit - 1 + 1
        BY LimitsAssumption, FS_Interval
    <2>7. Cardinality(1..HistoryLimit) = HistoryLimit
        BY <2>6, LimitsAssumption
    <2>8. Cardinality(Finished') <= Cardinality(1..HistoryLimit)
        BY <2>5, <2>6, FS_Injection
    <2>9. Cardinality(Finished') \in Nat /\ Cardinality(Debtors') \in Nat
        BY HistoryIsFinite
    <2> QED
        BY <1>3, <2>7, <2>8, <2>9, LimitsAssumption DEF HistoryInv, HistoryOwed
<1> QED
    BY <1>4, <1>5

\* A debtor that does not move stays one.
LEMMA OwesKept ==
    ASSUME IInv, AllLives, [Next]_vars, NEW t \in Threads, pc'[t] = pc[t], Owes(t)
    PROVE  Owes(t)'
<1>1. ASSUME NEW j \in Jobs, t = Worker(j), pc[t] \in GivingUp, InFlight(j)' PROVE InFlight(j)
    <2>1. ~Enqueue(j)
        BY <1>1 DEF Enqueue, IInv, UnbornAreUntouched, Unborn, GivingUp
    <2>2. StatusStep(j)
        BY NextLife
    <2> QED
        BY <1>1, <2>1, <2>2 DEF StatusStep, InFlight, Terminal
<1> QED
    BY <1>1 DEF Owes, OwesPrune, Undecided

\* Requests that end a job owe a pruning.
LEMMA RequestHistory ==
    ASSUME IInv, AllLives, HistoryInv, [Next]_vars, NEW j \in Jobs,
           \/ Reserve(j) \/ DropAdmission(j) \/ Enqueue(j) \/ CancelQueued(j) \/ CancelRunning(j)
    PROVE  HistoryInv'
<1> USE ThreadNames, ThreadsDiffer
<1>0. TypeOK
    BY DEF IInv
<1>1. PICK t \in {Submitter(j), Canceller(j)} :
          /\ \A u \in Threads \ {t} : pc'[u] = pc[u]
          /\ pc[t] \in DOMAIN AfterRequest(t, j)
    BY <1>0, RequestFlow
<1>2. \A u \in Threads : Owes(u) => Owes(u)'
    <2>1. ~Owes(t)
        BY <1>1 DEF Owes, OwesPrune, AfterRequest
    <2> QED
        BY <1>1, <2>1, OwesKept
<1>3. CASE CancelQueued(j)
    <2>1. entries' = [entries EXCEPT ![j] = Ended(j, "cancelled")] /\ Touch(j) /\ pc[Canceller(j)] = "new"
        BY <1>3 DEF CancelQueued
    <2>2. pc'[Canceller(j)] \in {"persistCancelled", "pruneCancelled"}
        BY <1>0, <1>3, RequestGoes, MovesTo
    <2>3. ~Owes(Canceller(j)) /\ Owes(Canceller(j))'
        BY <2>1, <2>2 DEF Owes, OwesPrune, Undecided
    <2> QED
        BY <1>0, <1>2, <2>1, <2>3, HistoryGrows DEF Terminal
<1>4. CASE Reserve(j) \/ DropAdmission(j) \/ Enqueue(j) \/ CancelRunning(j)
    <2>1. age' = age
        BY <1>4 DEF Reserve, DropAdmission, Enqueue, CancelRunning
    <2>2. ASSUME NEW i \in Jobs, entries'[i].status \in Terminal PROVE entries[i].status \in Terminal
        <3>1. CASE Enqueue(j) /\ i = j
            BY <1>0, <2>2, <3>1 DEF Enqueue, NewEntry, Terminal, TypeOK
        <3>2. CASE CancelRunning(j) /\ i = j
            <4>1. entries' = [entries EXCEPT ![j] = [entries[j] EXCEPT !.cancellable = FALSE,
                                                                       !.requested = TRUE]]
                BY <1>0, <3>2 DEF CancelRunning, TypeOK
            <4>2. entries[j] \in Entry
                BY <1>0 DEF TypeOK
            <4>3. entries'[j].status = entries[j].status
                BY <1>0, <4>1, <4>2 DEF TypeOK, Entry
            <4> QED
                BY <2>2, <3>2, <4>3
        <3>3. CASE i # j \/ Reserve(j) \/ DropAdmission(j)
            <4>1. entries'[i] = entries[i]
                BY <1>0, <1>4, <3>3 DEF Reserve, DropAdmission, Enqueue, CancelRunning, TypeOK
            <4> QED
                BY <2>2, <4>1
        <3> QED
            BY <1>4, <3>1, <3>2, <3>3
    <2> QED
        BY <1>2, <2>1, <2>2, HistoryQuiet
<1> QED
    BY <1>3, <1>4

\* So does the end of the work.
LEMMA WorkHistory ==
    ASSUME IInv, AllLives, HistoryInv, [Next]_vars, NEW j \in Jobs, Work(j)
    PROVE  HistoryInv'
<1> USE ThreadNames, ThreadsDiffer
<1> DEFINE w == Worker(j)
<1>0. TypeOK /\ JobLife(j)
    BY DEF IInv, AllLives
<1>1. /\ \A u \in Threads \ {w} : pc'[u] = pc[u]
      /\ pc[w] \in DOMAIN AfterWork /\ pc'[w] \in AfterWork[pc[w]]
    BY <1>0, WorkFlow
<1>2. Owes(w) => pc[w] = "markCancelled" /\ ~InFlight(j)
    BY <1>1 DEF Owes, OwesPrune, Undecided, AfterWork, GivingUp
<1>3. pc'[w] \in {"persistResult", "pruneResult", "persistFinal", "pruneFinal"} => Owes(w)'
    BY DEF Owes, OwesPrune, Undecided, GivingUp
<1>4. ASSUME Owes(w) => Owes(w)' PROVE \A u \in Threads : Owes(u) => Owes(u)'
    <2>1. \A u \in Threads \ {w} : Owes(u) => Owes(u)'
        BY <1>1, OwesKept
    <2> QED
        BY <1>4, <2>1
\* No job ends.
<1>Q. ASSUME UNCHANGED age, \A i \in Jobs : entries'[i].status = entries[i].status, Owes(w) => Owes(w)'
      PROVE  HistoryInv'
    BY <1>4, <1>Q, HistoryQuiet
\* The job ends, for the first time if the worker owed nothing.
<1>E. ASSUME NEW s \in Terminal, entries' = [entries EXCEPT ![j] = Ended(j, s)], Touch(j), Owes(w)',
             entries[j].status \in Terminal \/ ~Owes(w)
      PROVE  HistoryInv'
    <2>1. \A u \in Threads : Owes(u) => Owes(u)'
        BY <1>4, <1>E
    <2>2. entries[j].status \in Terminal \/ \E u \in Threads : ~Owes(u) /\ Owes(u)'
        BY <1>E
    <2> QED
        BY <1>0, <1>E, <2>1, <2>2, HistoryGrows
<1>P. ASSUME NEW s \in Terminal, Publish(j, s) PROVE HistoryInv'
    <2>1. pc'[w] \in {"persistResult", "pruneResult"}
        BY <1>0, <1>P, WorkGoes, MovesTo
    <2>2. Owes(w)'
        BY <1>3, <2>1
    <2>3. CASE entries[j].status = "none"
        BY <1>P, <1>Q, <2>2, <2>3 DEF Publish
    <2>4. CASE entries[j].status # "none"
        <3>1. entries' = [entries EXCEPT ![j] = Ended(j, s)] /\ Touch(j)
            BY <1>P, <2>4 DEF Publish
        <3>2. entries[j].status \in Terminal \/ ~Owes(w)
            <4>1. entries[j].status \in Status
                BY <1>0 DEF TypeOK, Entry
            <4> QED
                BY <1>2, <2>4, <4>1 DEF InFlight, Status
        <3> QED
            BY <1>E, <2>2, <3>1, <3>2
    <2> QED
        BY <2>3, <2>4
<1>5. CASE BeginWork(j) \/ LoadCancelFlag(j) \/ ReturnSilently(j) \/ FinishPanics(j) \/ Report(j)
    <2>1. UNCHANGED <<age, entries>> /\ pc[w] # "markCancelled"
        BY <1>5 DEF BeginWork, LoadCancelFlag, ReturnSilently, FinishPanics, Report
    <2> QED
        BY <1>2, <1>Q, <2>1
<1>6. CASE Commit(j)
    <2>1. UNCHANGED age /\ pc[w] = "work"
        BY <1>6 DEF Commit
    <2>2. entries' = [entries EXCEPT ![j] = [entries[j] EXCEPT !.cancellable = FALSE,
                                                               !.requested = FALSE]]
        BY <1>0, <1>6 DEF Commit, TypeOK
    <2>3. entries[j] \in Entry
        BY <1>0 DEF TypeOK
    <2>4. \A i \in Jobs : entries'[i].status = entries[i].status
        BY <1>0, <2>2, <2>3 DEF TypeOK, Entry
    <2> QED
        BY <1>2, <1>Q, <2>1, <2>4
<1>7. CASE RefuseCommit(j)
    <2>1. pc[w] = "work"
        BY <1>7 DEF RefuseCommit
    <2>2. InFlight(j)
        BY <1>0, <2>1 DEF JobLife, WorkIsOnRunning, AtWork, InFlight
    <2>3. entries' = [entries EXCEPT ![j] = Ended(j, "cancelled")] /\ Touch(j)
        BY <1>7, <2>2 DEF RefuseCommit
    <2>4. pc'[w] \in {"persistRefused", "markCancelled"}
        BY <1>0, <1>7, WorkGoes, MovesTo
    <2>5. ~InFlight(j)'
        BY <1>0, <2>3, EndedEntry DEF InFlight, Terminal
    <2>6. Owes(w)'
        BY <2>4, <2>5 DEF Owes, OwesPrune, Undecided
    <2> QED
        BY <1>2, <1>E, <2>1, <2>3, <2>6 DEF Terminal
<1>8. CASE Succeed(j) \/ Fail(j) \/ MarkCancelled(j)
    BY <1>8, <1>P DEF Succeed, Fail, MarkCancelled, Terminal
<1>9. CASE WorkerFinished(j)
    <2>1. pc[w] = "finish"
        BY <1>9 DEF WorkerFinished
    <2>2. Owes(w)'
        <3>1. pc'[w] \in {"persistFinal", "pruneFinal"}
            BY <1>0, <1>9, WorkGoes, MovesTo
        <3> QED
            BY <1>3, <3>1
    <2>3. CASE InFlight(j)
        <3>1. PICK s \in {"cancelled", "failed"} : entries' = [entries EXCEPT ![j] = Ended(j, s)] /\ Touch(j)
            BY <1>9, <2>3 DEF WorkerFinished
        <3> QED
            BY <1>2, <1>E, <2>1, <2>2, <3>1 DEF Terminal
    <2>4. CASE ~InFlight(j)
        BY <1>9, <1>Q, <2>2, <2>4 DEF WorkerFinished
    <2> QED
        BY <2>3, <2>4
<1> QED
    BY <1>5, <1>6, <1>7, <1>8, <1>9 DEF Work, EndWork

\* Pruning pays, and brings the history back to its limit.
LEMMA DispatchHistory ==
    ASSUME IInv, AllLives, HistoryInv, [Next]_vars, NEW t \in Threads, Persist(t) \/ Prune(t) \/ Dispatch(t)
    PROVE  HistoryInv'
<1> USE ThreadNames, ThreadsDiffer
<1>0. TypeOK
    BY DEF IInv
\* No job ends.
<1>Q. ASSUME UNCHANGED age, \A i \in Jobs : entries'[i].status \in Terminal => entries[i].status \in Terminal,
             \A u \in Threads \ {t} : pc'[u] = pc[u] \/ pc[u] = "new", Owes(t) => Owes(t)'
      PROVE  HistoryInv'
    <2>1. \A u \in Threads : pc[u] = "new" => ~Owes(u)
        BY DEF Owes, OwesPrune
    <2>2. \A u \in Threads : Owes(u) => Owes(u)'
        BY <1>Q, <2>1, OwesKept
    <2> QED
        BY <1>Q, <2>2, HistoryQuiet
<1>1. CASE Persist(t)
    <2>1. pc[t] \in DOMAIN AfterPersist /\ Moves(t, AfterPersist[pc[t]]) /\ UNCHANGED <<age, entries>>
        BY <1>1, DispatchGoes DEF Persist
    <2>2. pc'[t] = AfterPersist[pc[t]] /\ \A u \in Threads \ {t} : pc'[u] = pc[u]
        BY <1>0, <2>1, MovesTo
    <2>3. Owes(t) => OwesPrune(t)' /\ (pc'[t] \in GivingUp => pc[t] \in GivingUp)
        BY <2>1, <2>2 DEF Owes, OwesPrune, AfterPersist, GivingUp
    <2>4. Owes(t) => Owes(t)'
        BY <2>1, <2>3 DEF Owes, Undecided, InFlight
    <2> QED
        BY <1>Q, <2>1, <2>2, <2>4
<1>2. CASE Prune(t)
    BY <1>2, PruneKeepsHistory
<1>3. CASE Start(t)
    <2>1. PICK j \in Jobs : entries' = [entries EXCEPT ![j].status = "running"]
        BY <1>3 DEF Start
    <2>2. PICK l \in {"persistRunning", "spawn"} : Moves(t, l)
        BY <1>3, DispatchGoes
    <2>3. pc[t] = "dispatch" /\ UNCHANGED age
        BY <1>3 DEF Start
    <2>4. ASSUME NEW i \in Jobs, entries'[i].status \in Terminal PROVE entries[i].status \in Terminal
        <3>1. entries' = [entries EXCEPT ![j] = [entries[j] EXCEPT !.status = "running"]]
            BY <2>1
        <3>2. entries[j] \in Entry
            BY <1>0 DEF TypeOK
        <3> QED
            BY <1>0, <2>4, <3>1, <3>2 DEF TypeOK, Entry, Terminal
    <2>5. \A u \in Threads \ {t} : pc'[u] = pc[u]
        BY <1>0, <2>2, MovesTo
    <2>6. ~Owes(t)
        BY <2>3 DEF Owes, OwesPrune
    <2> QED
        BY <1>Q, <2>3, <2>4, <2>5, <2>6
<1>4. CASE Reject(t)
    <2>1. PICK j \in Jobs : entries' = [entries EXCEPT ![j] = Ended(j, "cancelled")] /\ Touch(j)
        BY <1>4 DEF Reject
    <2>2. pc[t] = "dispatch" /\ Moves(t, "release")
        BY <1>4, DispatchGoes DEF Reject
    <2>3. pc'[t] = "release" /\ \A u \in Threads \ {t} : pc'[u] = pc[u]
        BY <1>0, <2>2, MovesTo
    <2>4. ~Owes(t) /\ Owes(t)'
        BY <2>2, <2>3 DEF Owes, OwesPrune, Undecided, GivingUp
    <2>5. \A u \in Threads : Owes(u) => Owes(u)'
        BY <2>3, <2>4, OwesKept
    <2> QED
        BY <1>0, <2>1, <2>4, <2>5, HistoryGrows DEF Terminal
<1>5. CASE ReleaseRejected(t)
    <2>1. UNCHANGED <<age, entries>>
        BY <1>5 DEF ReleaseRejected
    <2>2. PICK l \in {"persistRejected", "pruneRejected"} : Moves(t, l)
        BY <1>5, DispatchGoes
    <2>3. pc'[t] = l /\ \A u \in Threads \ {t} : pc'[u] = pc[u]
        BY <1>0, <2>2, MovesTo
    <2>4. Owes(t)'
        BY <2>2, <2>3 DEF Owes, OwesPrune, Undecided, GivingUp
    <2> QED
        BY <1>Q, <2>1, <2>3, <2>4
<1>6. CASE Spawn(t)
    <2>1. PICK j \in Jobs : j = pick[t] /\ pc[t] = "spawn" /\ pc[Worker(j)] = "new"
        BY <1>6 DEF IInv, StartedOnce, Starting, Spawn
    <2>2. pc' = [pc EXCEPT ![t] = "dispatch", ![Worker(j)] = "begin"] /\ UNCHANGED <<age, entries>>
        BY <1>6, <2>1 DEF Spawn
    <2>3. \A u \in Threads \ {t} : pc'[u] = pc[u] \/ pc[u] = "new"
        BY <1>0, <2>1, <2>2 DEF TypeOK
    <2>4. ~Owes(t)
        BY <2>1 DEF Owes, OwesPrune
    <2> QED
        BY <1>Q, <2>2, <2>3, <2>4
<1>7. CASE LeaveLoop(t)
    <2>1. UNCHANGED <<age, entries>> /\ pc[t] = "dispatch" /\ Moves(t, "done")
        BY <1>7, DispatchGoes DEF LeaveLoop
    <2>2. \A u \in Threads \ {t} : pc'[u] = pc[u]
        BY <1>0, <2>1, MovesTo
    <2>3. ~Owes(t)
        BY <2>1 DEF Owes, OwesPrune
    <2> QED
        BY <1>Q, <2>1, <2>2, <2>3
<1> QED
    BY <1>1, <1>2, <1>3, <1>4, <1>5, <1>6, <1>7 DEF Dispatch

\* The history exceeds its limit by no more than the prunings that are owed.
LEMMA HistoryIsKept == Spec => []HistoryInv
<1>1. Init => HistoryInv
    <2> SUFFICES ASSUME Init PROVE HistoryInv
        OBVIOUS
    <2>1. AgesAreDistinct
        BY DEF Init, AgesAreDistinct, NoEntry, Terminal
    <2>2. Finished = {}
        BY DEF Init, Finished, NoEntry, Terminal
    <2>3. Cardinality(Finished) = 0 /\ Cardinality(Debtors) \in Nat
        BY <2>2, FS_EmptySet, HistoryIsFinite
    <2> QED
        BY <2>1, <2>3, LimitsAssumption DEF HistoryInv, HistoryOwed
<1>2. IInv /\ AllLives /\ HistoryInv /\ [Next]_vars => HistoryInv'
    <2> SUFFICES ASSUME IInv, AllLives, HistoryInv, [Next]_vars PROVE HistoryInv'
        OBVIOUS
    <2>1. CASE UNCHANGED vars
        BY <2>1, HistoryQuiet DEF vars, Owes, OwesPrune, Undecided, InFlight
    <2>2. ASSUME NEW j \in Jobs,
                 \/ Reserve(j) \/ DropAdmission(j) \/ Enqueue(j) \/ CancelQueued(j) \/ CancelRunning(j)
          PROVE  HistoryInv'
        BY <2>2, RequestHistory
    <2>3. ASSUME NEW j \in Jobs, Work(j) PROVE HistoryInv'
        BY <2>3, WorkHistory
    <2>4. ASSUME NEW t \in Threads, Persist(t) \/ Prune(t) \/ Dispatch(t) PROVE HistoryInv'
        BY <2>4, DispatchHistory
    <2> QED
        BY <2>1, <2>2, <2>3, <2>4 DEF Next, Idle
<1> QED
    BY <1>1, <1>2, Inductive, LivesAreKept, PTL DEF Spec

\* Nothing outgrows its limit, whatever requests, cancellations and ends are
\* interleaved: what is pending in the workspace and of a user, maintenance
\* jobs of a kind, and the history but for the prunings still owed.
THEOREM LimitsAreKept == Spec => []LimitsHold
<1>1. AdmissionInv => PendingWithinLimits /\ SingleFlight
    BY DEF AdmissionInv
<1>2. HistoryInv => HistoryBounded
    <2> SUFFICES ASSUME HistoryInv, ~StoreMayFail
                 PROVE  Cardinality(Finished) <= HistoryLimit + Cardinality({t \in Threads : OwesPrune(t)})
        BY DEF HistoryBounded
    <2> DEFINE O == {t \in Threads : OwesPrune(t)}
    <2>1. IsFiniteSet(O) /\ Cardinality(O) \in Nat /\ Debtors \subseteq O
        BY FiniteSubset DEF Debtors, Owes
    <2>2. Cardinality(Debtors) <= Cardinality(O)
        BY <2>1, FS_Subset
    <2>3. Cardinality(Finished) <= HistoryLimit + Cardinality(Debtors)
        BY DEF HistoryInv, HistoryOwed
    <2> QED
        BY <2>1, <2>2, <2>3, HistoryIsFinite, LimitsAssumption
<1> QED
    BY <1>1, <1>2, AdmissionIsKept, HistoryIsKept, PTL DEF LimitsHold
----------------------------------------------------------------------------
(***************************************************************************)
(* The refinement.  A job's phase is the status of its entry; where there  *)
(* is none, the job is absent until its request is enqueued and forgotten  *)
(* afterwards.                                                             *)
(***************************************************************************)

LifecycleStep == [Lifecycle!Next]_(Lifecycle!vars)

\* What the proofs know of a state of the registry.
RefInv == IInv /\ AllLives /\ SlotInv /\ AdmissionInv

\* The phase of a job, from its entry.
LEMMA PhaseOf ==
    ASSUME NEW j \in Jobs
    PROVE  /\ entries[j].status # "none" => phase[j] = entries[j].status
           /\ entries[j].status = "none" /\ Unborn(j) => phase[j] = "absent"
           /\ entries[j].status = "none" /\ ~Unborn(j) => phase[j] = "forgotten"
BY DEF phase, Unborn

\* A listed job has its status for a phase.
LEMMA PhaseIsStatus ==
    ASSUME NEW j \in Jobs, NEW s \in Status \ {"none"}
    PROVE  phase[j] = s <=> entries[j].status = s
BY PhaseOf DEF Status, Terminal

\* A request that is enqueued no longer counts as absent; no other step tells.
LEMMA BornByEnqueue ==
    ASSUME IInv, [Next]_vars, NEW i \in Jobs, ~Enqueue(i)
    PROVE  Unborn(i) => Unborn(i)'
<1> USE ThreadNames, ThreadsDiffer
<1>0. TypeOK
    BY DEF IInv
<1>1. CASE UNCHANGED vars
    BY <1>1 DEF vars, Unborn
<1>2. ASSUME NEW j \in Jobs, Reserve(j) \/ DropAdmission(j) PROVE Unborn(i) => Unborn(i)'
    <2>1. PICK l \in {"new", "admitted"} : Moves(Submitter(j), l)
        BY <1>2, RequestGoes
    <2> QED
        BY <1>0, <2>1, MovesTo DEF Unborn
<1>3. ASSUME NEW j \in Jobs, Enqueue(j) PROVE Unborn(i) => Unborn(i)'
    <2>1. PICK l : Moves(Submitter(j), l)
        BY <1>3, RequestGoes
    <2>2. i # j
        BY <1>3
    <2> QED
        BY <1>0, <2>1, <2>2, MovesTo DEF Unborn
<1>4. ASSUME NEW j \in Jobs, CancelQueued(j) \/ CancelRunning(j) PROVE Unborn(i) => Unborn(i)'
    <2>1. PICK l : Moves(Canceller(j), l)
        BY <1>4, RequestGoes
    <2> QED
        BY <1>0, <2>1, MovesTo DEF Unborn
<1>5. ASSUME NEW j \in Jobs, Work(j) PROVE Unborn(i) => Unborn(i)'
    BY <1>0, <1>5, WorkFlow DEF Unborn
<1>6. ASSUME NEW t \in Threads, Persist(t) \/ Prune(t) PROVE Unborn(i) => Unborn(i)'
    <2>1. PICK l : Moves(t, l) /\ (pc[t] \in {"new", "admitted", "enqueue"} => l = "enqueue")
        BY <1>6, DispatchGoes DEF AfterPersist, AfterPrune
    <2> QED
        BY <1>0, <2>1, MovesTo DEF Unborn
<1>7. ASSUME NEW t \in Threads, Start(t) \/ Reject(t) \/ ReleaseRejected(t) \/ LeaveLoop(t)
      PROVE  Unborn(i) => Unborn(i)'
    <2>1. PICK l : Moves(t, l)
        BY <1>7, DispatchGoes
    <2>2. pc[t] \in {"dispatch", "release"}
        BY <1>7 DEF Start, Reject, ReleaseRejected, LeaveLoop
    <2> QED
        BY <1>0, <2>1, <2>2, MovesTo DEF Unborn
<1>8. ASSUME NEW t \in Threads, Spawn(t) PROVE Unborn(i) => Unborn(i)'
    <2>1. pc[t] = "spawn" /\ pc' = [pc EXCEPT ![t] = "dispatch", ![Worker(pick[t])] = "begin"]
        BY <1>8 DEF Spawn
    <2>2. PICK j \in Jobs : j = pick[t]
        BY <2>1 DEF IInv, StartedOnce, Starting
    <2>3. pc' = [pc EXCEPT ![t] = "dispatch", ![Worker(j)] = "begin"]
        BY <2>1, <2>2
    <2> QED
        BY <1>0, <2>1, <2>3 DEF Unborn, TypeOK
<1> QED
    BY <1>1, <1>2, <1>3, <1>4, <1>5, <1>6, <1>7, <1>8 DEF Next, Dispatch, Idle

\* A job whose status stays keeps its phase.
LEMMA PhaseKept ==
    ASSUME IInv, [Next]_vars, NEW j \in Jobs, entries'[j].status = entries[j].status
    PROVE  phase'[j] = phase[j]
<1>1. ~Enqueue(j)
    <2> SUFFICES ASSUME Enqueue(j) PROVE FALSE
        OBVIOUS
    <2>1. entries[j].status = "none"
        BY DEF Enqueue, IInv, UnbornAreUntouched, Unborn
    <2>2. entries'[j].status = "queued"
        BY DEF Enqueue, NewEntry, IInv, TypeOK
    <2> QED
        BY <2>1, <2>2
<1>2. Unborn(j)' <=> Unborn(j)
    BY <1>1, BornOnce, BornByEnqueue
<1> QED
    BY <1>2 DEF phase, Unborn

\* A step that gives job j another status.
LEMMA PhaseMoves ==
    ASSUME IInv, [Next]_vars, NEW j \in Jobs, NEW s \in Status \ {"none"}, entries'[j].status = s,
           \A i \in Jobs \ {j} : entries'[i].status = entries[i].status
    PROVE  phase' = [phase EXCEPT ![j] = s]
<1>1. phase'[j] = s
    BY DEF phase
<1>2. \A i \in Jobs \ {j} : phase'[i] = phase[i]
    BY PhaseKept
<1>3. phase = [i \in Jobs |-> phase[i]] /\ phase' = [i \in Jobs |-> phase'[i]]
    BY DEF phase
<1> QED
    BY <1>1, <1>2, <1>3

\* A step that changes no status, flag or commitment is none of the life cycle.
LEMMA Stutters ==
    ASSUME IInv, [Next]_vars, UNCHANGED <<kind, cancelFlag, committed>>,
           \A i \in Jobs : entries'[i].status = entries[i].status
    PROVE  UNCHANGED Lifecycle!vars
<1>1. phase = [i \in Jobs |-> phase[i]] /\ phase' = [i \in Jobs |-> phase'[i]]
    BY DEF phase
<1>2. phase' = phase
    BY <1>1, PhaseKept
<1>3. asked' = asked
    BY DEF asked
<1> QED
    BY <1>2, <1>3 DEF Lifecycle!vars
\* A running job that ends: the three conditions of End.
LEMMA Ends ==
    ASSUME IInv, [Next]_vars, UNCHANGED <<kind, cancelFlag, committed>>,
           NEW j \in Jobs, NEW s \in Terminal, entries[j].status = "running",
           entries' = [entries EXCEPT ![j] = Ended(j, s)],
           s = "cancelled" => cancelFlag[j], s = "succeeded" => MaySucceed(j)
    PROVE  LifecycleStep
<1>0. TypeOK
    BY DEF IInv
<1>1. entries'[j].status = s /\ \A i \in Jobs \ {j} : entries'[i].status = entries[i].status
    <2>1. entries'[j].status = s /\ \A i \in Jobs \ {j} : entries'[i] = entries[i]
        BY <1>0, EndedEntry
    <2> QED
        BY <2>1
<1>2. phase' = [phase EXCEPT ![j] = s]
    BY <1>1, PhaseMoves DEF Status, Terminal
<1>3. phase[j] = "running" /\ asked' = asked /\ s \in Lifecycle!Outcome
    BY PhaseOf DEF asked, Lifecycle!Outcome, Terminal
<1>4. Lifecycle!End(j, s)
    BY <1>2, <1>3 DEF Lifecycle!End, Lifecycle!Move, asked, MaySucceed, Lifecycle!HasPointOfNoReturn,
                      HasPointOfNoReturn
<1> QED
    BY <1>3, <1>4 DEF LifecycleStep, Lifecycle!Next

\* Requests accept, withdraw or ask, or do nothing the life cycle knows of.
LEMMA RequestRefines ==
    ASSUME RefInv, [Next]_vars, NEW j \in Jobs,
           \/ Reserve(j) \/ DropAdmission(j) \/ Enqueue(j) \/ CancelQueued(j) \/ CancelRunning(j)
    PROVE  LifecycleStep
<1>0. TypeOK /\ IInv /\ AllLives
    BY DEF RefInv, IInv
<1>1. CASE Reserve(j) \/ DropAdmission(j)
    <2>1. UNCHANGED <<kind, entries, cancelFlag, committed>>
        BY <1>1 DEF Reserve, DropAdmission, request
    <2> QED
        BY <1>0, <2>1, Stutters DEF LifecycleStep
<1>2. CASE Enqueue(j)
    <2>1. UNCHANGED <<kind, cancelFlag, committed>> /\ entries' = [entries EXCEPT ![j] = NewEntry]
          /\ Waiting(j)
        BY <1>2 DEF Enqueue, request, Waiting
    <2>2. entries[j].status = "none" /\ Unborn(j)
        BY <1>2, <1>0 DEF Enqueue, IInv, UnbornAreUntouched, Unborn
    <2>3. entries'[j].status = "queued" /\ \A i \in Jobs \ {j} : entries'[i] = entries[i]
        BY <1>0, <2>1 DEF NewEntry, TypeOK
    <2>4. phase' = [phase EXCEPT ![j] = "queued"]
        BY <1>0, <2>3, PhaseMoves DEF Status
    <2>5. phase[j] = "absent" /\ asked' = asked
        BY <2>1, <2>2, PhaseOf DEF asked
\* The reservation kept other maintenance jobs of the kind away.
    <2>6. IsSingleFlight(kind[j]) => ~\E i \in Jobs : kind[i] = kind[j] /\ InFlight(i)
        <3> SUFFICES ASSUME IsSingleFlight(kind[j]), NEW i \in Jobs, kind[i] = kind[j], InFlight(i)
                     PROVE  FALSE
            OBVIOUS
        <3>1. i # j
            BY <2>2 DEF InFlight
        <3>2. j \in reservations /\ SingleFlight
            BY <2>1 DEF RefInv, AdmissionInv, WaitingHold
        <3> QED
            BY <3>1, <3>2 DEF SingleFlight
    <2>7. \A i \in Jobs : Lifecycle!Live(i) <=> InFlight(i)
        BY PhaseIsStatus DEF Lifecycle!Live, InFlight, Status
    <2>8. Lifecycle!Accept(j)
        BY <2>1, <2>4, <2>5, <2>6, <2>7
           DEF Lifecycle!Accept, Lifecycle!Move, Lifecycle!IsSingleFlight, IsSingleFlight
    <2> QED
        BY <2>8 DEF LifecycleStep, Lifecycle!Next
<1>3. CASE CancelQueued(j)
    <2>1. UNCHANGED <<kind, committed>> /\ entries[j].status = "queued"
          /\ entries' = [entries EXCEPT ![j] = Ended(j, "cancelled")]
          /\ cancelFlag' = [cancelFlag EXCEPT ![j] = TRUE]
        BY <1>3 DEF CancelQueued, request
    <2>2. entries'[j].status = "cancelled" /\ \A i \in Jobs \ {j} : entries'[i].status = entries[i].status
        BY <1>0, <2>1, EndedEntry DEF Terminal
    <2>3. phase' = [phase EXCEPT ![j] = "cancelled"]
        BY <1>0, <2>2, PhaseMoves DEF Status, Terminal
    <2>4. phase[j] = "queued" /\ asked' = asked \cup {j}
        BY <1>0, <2>1, PhaseOf DEF asked, TypeOK
    <2>5. Lifecycle!Withdraw(j)
        BY <2>1, <2>3, <2>4 DEF Lifecycle!Withdraw, Lifecycle!Move
    <2> QED
        BY <2>5 DEF LifecycleStep, Lifecycle!Next
<1>4. CASE CancelRunning(j)
    <2>1. UNCHANGED <<kind, committed>> /\ entries[j].status = "running" /\ entries[j].cancellable
          /\ cancelFlag' = [cancelFlag EXCEPT ![j] = TRUE]
        BY <1>4 DEF CancelRunning, request, Cancellable
    <2>2. entries' = [entries EXCEPT ![j] = [entries[j] EXCEPT !.cancellable = FALSE,
                                                               !.requested = TRUE]]
        BY <1>0, <1>4 DEF CancelRunning, TypeOK
    <2>3. entries[j] \in Entry
        BY <1>0 DEF TypeOK
    <2>4. \A i \in Jobs : entries'[i].status = entries[i].status
        BY <1>0, <2>2, <2>3 DEF TypeOK, Entry
    <2>5. phase = [i \in Jobs |-> phase[i]] /\ phase' = [i \in Jobs |-> phase'[i]]
        BY DEF phase
    <2>6. phase' = phase
        BY <1>0, <2>4, <2>5, PhaseKept
    <2>7. phase[j] = "running" /\ asked' = asked \cup {j}
        BY <1>0, <2>1, PhaseOf DEF asked, TypeOK
    <2>8. j \notin committed
        BY <1>0, <2>1 DEF IInv, CommittedStayCommitted
    <2>9. Lifecycle!Ask(j)
        BY <2>1, <2>6, <2>7, <2>8 DEF Lifecycle!Ask
    <2> QED
        BY <2>9 DEF LifecycleStep, Lifecycle!Next
<1> QED
    BY <1>1, <1>2, <1>3, <1>4

\* An outcome that is published ends the job, or is dropped.
LEMMA PublishRefines ==
    ASSUME RefInv, [Next]_vars, NEW j \in Jobs, NEW s \in Terminal, Publish(j, s),
           UNCHANGED <<kind, cancelFlag, committed>>,
           \/ /\ entries[j].status = "running"
              /\ s = "cancelled" => cancelFlag[j]
              /\ s = "succeeded" => MaySucceed(j)
           \/ entries[j].status \in {s, "none"}
    PROVE  LifecycleStep
<1>0. TypeOK /\ IInv
    BY DEF RefInv, IInv
<1>1. CASE entries[j].status = "running"
    <2>1. entries' = [entries EXCEPT ![j] = Ended(j, s)]
        BY <1>1 DEF Publish
    <2>2. (s = "cancelled" => cancelFlag[j]) /\ (s = "succeeded" => MaySucceed(j))
        BY <1>1 DEF Terminal
    <2> QED
        BY <1>0, <1>1, <2>1, <2>2, Ends
<1>2. CASE entries[j].status = "none"
    BY <1>0, <1>2, Stutters DEF Publish, LifecycleStep
<1>3. CASE entries[j].status = s
    <2>1. entries' = [entries EXCEPT ![j] = Ended(j, s)]
        BY <1>3 DEF Publish, Terminal
    <2>2. entries'[j].status = s /\ \A i \in Jobs \ {j} : entries'[i] = entries[i]
        BY <1>0, <2>1, EndedEntry
    <2>3. \A i \in Jobs : entries'[i].status = entries[i].status
        BY <1>3, <2>2
    <2> QED
        BY <1>0, <2>3, Stutters DEF LifecycleStep
<1> QED
    BY <1>1, <1>2, <1>3

\* The work begins nothing; it commits or ends its job.
LEMMA WorkRefines ==
    ASSUME RefInv, [Next]_vars, NEW j \in Jobs, Work(j)
    PROVE  LifecycleStep
<1>0. TypeOK /\ IInv /\ AllLives /\ JobLife(j)
    BY DEF RefInv, IInv, AllLives
<1> USE DEF Terminal
<1>1. CASE BeginWork(j) \/ Report(j) \/ LoadCancelFlag(j) \/ ReturnSilently(j) \/ FinishPanics(j)
    <2>1. UNCHANGED <<kind, entries, cancelFlag, committed>>
        BY <1>1 DEF BeginWork, Report, LoadCancelFlag, ReturnSilently, FinishPanics, request
    <2> QED
        BY <1>0, <2>1, Stutters DEF LifecycleStep
<1>2. CASE Commit(j)
    <2>1. UNCHANGED <<kind, cancelFlag>> /\ committed' = committed \cup {j} /\ ~cancelFlag[j]
          /\ HasPointOfNoReturn(kind[j]) /\ pc[Worker(j)] = "work"
        BY <1>2 DEF Commit, request, MayCommit
    <2>2. entries' = [entries EXCEPT ![j] = [entries[j] EXCEPT !.cancellable = FALSE,
                                                               !.requested = FALSE]]
        BY <1>0, <1>2 DEF Commit, TypeOK
    <2>3. entries[j] \in Entry
        BY <1>0 DEF TypeOK
    <2>4. \A i \in Jobs : entries'[i].status = entries[i].status
        BY <1>0, <2>2, <2>3 DEF TypeOK, Entry
    <2>5. phase = [i \in Jobs |-> phase[i]] /\ phase' = [i \in Jobs |-> phase'[i]]
        BY DEF phase
    <2>6. phase' = phase /\ asked' = asked /\ j \notin asked
        BY <1>0, <2>1, <2>4, <2>5, PhaseKept DEF asked
    <2>7. entries[j].status = "running"
        BY <1>0, <2>1 DEF JobLife, WorkIsOnRunning, AtWork
    <2>8. phase[j] = "running"
        BY <2>7, PhaseOf
    <2>9. Lifecycle!Commit(j)
        BY <2>1, <2>6, <2>8 DEF Lifecycle!Commit, Lifecycle!HasPointOfNoReturn, HasPointOfNoReturn
    <2> QED
        BY <2>9 DEF LifecycleStep, Lifecycle!Next
<1>3. CASE RefuseCommit(j)
    <2>1. UNCHANGED <<kind, cancelFlag, committed>> /\ pc[Worker(j)] = "work"
        BY <1>3 DEF RefuseCommit, request
    <2>2. CASE InFlight(j)
        <3>1. entries' = [entries EXCEPT ![j] = Ended(j, "cancelled")] /\ ~MayCommit(j)
            BY <1>3, <2>2 DEF RefuseCommit
        <3>2. entries[j].status = "running"
            BY <1>0, <2>1 DEF JobLife, WorkIsOnRunning, AtWork
        <3>3. cancelFlag[j]
            BY <1>0, <3>1 DEF JobLife, CancelledIsFlagged, MayCommit
        <3> QED
            BY <1>0, <2>1, <3>1, <3>2, <3>3, Ends
    <2>3. CASE ~InFlight(j)
        BY <1>0, <1>3, <2>1, <2>3, Stutters DEF RefuseCommit, LifecycleStep
    <2> QED
        BY <2>2, <2>3
<1>4. CASE Succeed(j)
    <2>1. UNCHANGED <<kind, cancelFlag, committed>> /\ pc[Worker(j)] = "succeed"
        BY <1>4 DEF Succeed, request
    <2>2. entries[j].status = "running" /\ MaySucceed(j)
        BY <1>0, <2>1 DEF JobLife, WorkIsOnRunning, AtWork
    <2>3. sawCancel[j] => cancelFlag[j]
        BY <1>0 DEF IInv, SeenCancelIsReal
    <2>4. PICK s \in {"cancelled", "succeeded"} : Publish(j, s) /\ (s = "cancelled" => sawCancel[j])
        BY <1>4 DEF Succeed
    <2>5. s = "cancelled" => cancelFlag[j]
        BY <2>3, <2>4
    <2> QED
        BY <2>1, <2>2, <2>4, <2>5, PublishRefines
<1>5. CASE Fail(j)
    <2>1. UNCHANGED <<kind, cancelFlag, committed>> /\ pc[Worker(j)] = "work" /\ Publish(j, "failed")
        BY <1>5 DEF Fail, request
    <2>2. entries[j].status = "running"
        BY <1>0, <2>1 DEF JobLife, WorkIsOnRunning, AtWork
    <2> QED
        BY <2>1, <2>2, PublishRefines
<1>6. CASE MarkCancelled(j)
    <2>1. UNCHANGED <<kind, cancelFlag, committed>> /\ Publish(j, "cancelled")
        BY <1>6 DEF MarkCancelled, request
    <2>2. CASE pc[Worker(j)] = "markCancelled"
        <3>1. entries[j].status \in {"running", "cancelled", "none"}
              /\ (entries[j].status = "running" => cancelFlag[j])
            BY <1>0, <2>2 DEF JobLife, GivesUpCancelled, GivingUp
        <3> QED
            BY <2>1, <3>1, PublishRefines
    <2>3. CASE pc[Worker(j)] = "work" /\ cancelFlag[j]
        <3>1. entries[j].status = "running"
            BY <1>0, <2>3 DEF JobLife, WorkIsOnRunning, AtWork
        <3> QED
            BY <2>1, <2>3, <3>1, PublishRefines
    <2> QED
        BY <1>6, <2>2, <2>3 DEF MarkCancelled
<1>7. CASE WorkerFinished(j)
    <2>1. UNCHANGED <<kind, cancelFlag, committed>> /\ pc[Worker(j)] = "finish"
        BY <1>7 DEF WorkerFinished, request
    <2>2. CASE InFlight(j)
        <3>1. PICK s \in {"cancelled", "failed"} :
                  entries' = [entries EXCEPT ![j] = Ended(j, s)] /\ (s = "cancelled" => cancelFlag[j])
            BY <1>7, <2>2 DEF WorkerFinished
        <3>2. entries[j].status = "running"
            BY <1>0, <2>1, <2>2 DEF InFlight, IInv, QueuedHaveNoWorker
        <3> QED
            BY <1>0, <2>1, <3>1, <3>2, Ends
    <2>3. CASE ~InFlight(j)
        BY <1>0, <1>7, <2>1, <2>3, Stutters DEF WorkerFinished, LifecycleStep
    <2> QED
        BY <2>2, <2>3
<1> QED
    BY <1>1, <1>2, <1>3, <1>4, <1>5, <1>6, <1>7 DEF Work, EndWork
\* The slot a job is taken with is the leave to begin that the life cycle asks for.
LEMMA SlotMeansLeave ==
    ASSUME RefInv, NEW j \in Jobs, PopWrite(j) \/ PopRead(j)
    PROVE  IF IsWrite(kind[j])
           THEN \A i \in Lifecycle!Running : ~IsWrite(kind[i])
           ELSE Cardinality({i \in Lifecycle!Running : ~IsWrite(kind[i])}) < ConcurrentReads
<1> DEFINE W == {i \in Holders : IsWrite(kind[i])}
           R == Holders \ W
<1>0. TypeOK /\ IInv /\ AllLives /\ SlotsMatchHolders /\ QueuedIffInQueue
    BY DEF RefInv, IInv, SlotInv
<1>1. Lifecycle!Running \subseteq Holders
    <2> SUFFICES ASSUME NEW i \in Jobs, entries[i].status = "running" PROVE i \in Holders
        BY PhaseIsStatus DEF Lifecycle!Running, Status
    <2>1. RunningIsHeld(i)
        BY <1>0 DEF AllLives, JobLife
    <2> QED
        BY <2>1 DEF RunningIsHeld, Holders, Starting
<1>2. /\ Cardinality(W) = (IF activeWrite THEN 1 ELSE 0)
      /\ Cardinality(R) = activeReads
    BY <1>0 DEF SlotsMatchHolders
<1>3. CASE PopWrite(j)
    <2>1. ~activeWrite /\ j \in ToSet(writeQueue)
        BY <1>0, <1>3, RemoveHead DEF PopWrite, CanStartWrite, TypeOK, QueuedIffInQueue
    <2>2. IsWrite(kind[j])
        BY <1>0, <2>1 DEF QueuedIffInQueue
    <2>3. W = {}
        <3>1. IsFiniteSet(W) /\ Cardinality(W) = 0
            BY <1>2, <2>1, HoldersAreFinite
        <3> QED
            BY <3>1, FS_EmptySet
    <2> QED
        BY <1>1, <2>2, <2>3
<1>4. CASE PopRead(j)
    <2>1. activeReads < ConcurrentReads /\ j \in ToSet(readQueue)
        BY <1>0, <1>4, RemoveHead DEF PopRead, CanStartRead, TypeOK, QueuedIffInQueue
    <2>2. ~IsWrite(kind[j])
        BY <1>0, <2>1 DEF QueuedIffInQueue
    <2> DEFINE S == {i \in Lifecycle!Running : ~IsWrite(kind[i])}
    <2>3. S \subseteq R /\ IsFiniteSet(R) /\ Cardinality(R) \in Nat
        BY <1>1, HoldersAreFinite
    <2>4. Cardinality(S) <= Cardinality(R) /\ Cardinality(S) \in Nat
        BY <2>3, FS_Subset, FS_CardinalityType
    <2>5. Cardinality(S) < ConcurrentReads
        <3> HIDE DEF S, R
        <3> QED
            BY <1>2, <2>1, <2>3, <2>4, LimitsAssumption
    <2> QED
        BY <2>2, <2>5
<1> QED
    BY <1>3, <1>4

\* Dispatch begins a job, pruning forgets jobs.
LEMMA DispatchRefines ==
    ASSUME RefInv, [Next]_vars, NEW t \in Threads, Persist(t) \/ Prune(t) \/ Dispatch(t)
    PROVE  LifecycleStep
<1>0. TypeOK /\ IInv
    BY DEF RefInv, IInv
<1>1. CASE Persist(t) \/ ReleaseRejected(t) \/ Spawn(t) \/ LeaveLoop(t)
    <2>1. UNCHANGED <<kind, entries, cancelFlag, committed>>
        BY <1>1 DEF Persist, ReleaseRejected, Spawn, LeaveLoop, request
    <2> QED
        BY <1>0, <2>1, Stutters DEF LifecycleStep
<1>2. CASE Prune(t)
    <2>1. UNCHANGED <<kind, cancelFlag, committed>>
        BY <1>2 DEF Prune, request
    <2>2. CASE entries' = entries
        BY <1>0, <2>1, <2>2, Stutters DEF LifecycleStep
    <2>3. CASE entries' # entries
        <3> DEFINE D == BeyondHistory
        <3>1. entries' = [i \in Jobs |-> IF i \in D THEN NoEntry ELSE entries[i]]
            BY <1>2, <2>3 DEF Prune
        <3>2. D \in SUBSET Jobs /\ \A i \in D : entries[i].status \in Terminal
            BY <1>0, LimitsAssumption DEF BeyondHistory, IInv, RankedAreFinished, TypeOK
        <3>3. \A i \in D : phase[i] \in Lifecycle!Outcome /\ phase'[i] = "forgotten"
            <4> SUFFICES ASSUME NEW i \in D
                         PROVE  phase[i] \in Lifecycle!Outcome /\ phase'[i] = "forgotten"
                OBVIOUS
            <4>1. i \in Jobs /\ entries[i].status \in Terminal /\ entries'[i].status = "none"
                BY <3>1, <3>2 DEF NoEntry
            <4>2. ~Unborn(i)
                BY <1>0, <4>1 DEF IInv, UnbornAreUntouched, Terminal
            <4>3. ~Unborn(i)'
                BY <1>0, <4>1, <4>2, BornOnce
            <4>4. phase'[i] = "forgotten"
                BY <4>1, <4>3 DEF phase, Unborn
            <4> QED
                BY <4>1, <4>4, PhaseOf DEF Lifecycle!Outcome, Terminal
        <3>4. \A i \in Jobs \ D : phase'[i] = phase[i]
            BY <1>0, <3>1, PhaseKept
        <3>5. phase' = [i \in Jobs |-> phase'[i]]
            BY DEF phase
        <3>6. phase' = [i \in Jobs |-> IF i \in D THEN "forgotten" ELSE phase[i]]
            BY <3>3, <3>4, <3>5
        <3>7. asked' = asked
            BY <2>1 DEF asked
        <3>8. Lifecycle!Forget(D)
            BY <2>1, <3>3, <3>6, <3>7 DEF Lifecycle!Forget
        <3> QED
            BY <3>2, <3>8 DEF LifecycleStep, Lifecycle!Next
    <2> QED
        BY <2>2, <2>3
<1>3. CASE Start(t)
    <2>1. UNCHANGED <<kind, cancelFlag, committed>>
        BY <1>3 DEF Start, request
    <2>2. PICK j \in Jobs : (PopWrite(j) \/ PopRead(j)) /\ entries' = [entries EXCEPT ![j].status = "running"]
        BY <1>3 DEF Start
    <2>3. entries' = [entries EXCEPT ![j] = [entries[j] EXCEPT !.status = "running"]] /\ entries[j] \in Entry
        BY <1>0, <2>2 DEF TypeOK
    <2>4. entries'[j].status = "running" /\ \A i \in Jobs \ {j} : entries'[i].status = entries[i].status
        BY <1>0, <2>3 DEF TypeOK, Entry
    <2>5. phase' = [phase EXCEPT ![j] = "running"]
        BY <1>0, <2>4, PhaseMoves DEF Status
    <2>6. entries[j].status = "queued"
        BY <1>0, <2>2, PopShape
    <2>7. phase[j] = "queued" /\ asked' = asked
        BY <2>1, <2>6, PhaseOf DEF asked
    <2>8. Lifecycle!Begin(j)
        BY <2>1, <2>2, <2>5, <2>7, SlotMeansLeave
           DEF Lifecycle!Begin, Lifecycle!Move, Lifecycle!IsWrite, IsWrite,
               Lifecycle!Cardinality, Cardinality
    <2> QED
        BY <2>8 DEF LifecycleStep, Lifecycle!Next
<1>4. CASE Reject(t)
    <2>1. UNCHANGED <<kind, committed>>
        BY <1>4 DEF Reject, request
    <2>2. PICK j \in Jobs : /\ PopWrite(j) \/ PopRead(j)
                            /\ entries' = [entries EXCEPT ![j] = Ended(j, "cancelled")]
                            /\ cancelFlag' = [cancelFlag EXCEPT ![j] = TRUE]
        BY <1>4 DEF Reject
    <2>3. entries'[j].status = "cancelled" /\ \A i \in Jobs \ {j} : entries'[i].status = entries[i].status
        BY <1>0, <2>2, EndedEntry DEF Terminal
    <2>4. phase' = [phase EXCEPT ![j] = "cancelled"]
        BY <1>0, <2>3, PhaseMoves DEF Status, Terminal
    <2>5. entries[j].status = "queued"
        BY <1>0, <2>2, PopShape
    <2>6. phase[j] = "queued" /\ asked' = asked \cup {j}
        BY <1>0, <2>2, <2>5, PhaseOf DEF asked, TypeOK
    <2>7. Lifecycle!Withdraw(j)
        BY <2>1, <2>4, <2>6 DEF Lifecycle!Withdraw, Lifecycle!Move
    <2> QED
        BY <2>7 DEF LifecycleStep, Lifecycle!Next
<1> QED
    BY <1>1, <1>2, <1>3, <1>4 DEF Dispatch

\* At first every job is absent.
LEMMA InitRefines == Init => Lifecycle!Init
<1> SUFFICES ASSUME Init PROVE Lifecycle!Init
    OBVIOUS
<1>1. \A j \in Jobs : entries[j].status = "none" /\ Unborn(j)
    BY ThreadNames DEF Init, NoEntry, Unborn
<1>2. phase = [j \in Jobs |-> phase[j]]
    BY DEF phase
<1>3. phase = [j \in Jobs |-> "absent"]
    BY <1>1, <1>2, PhaseOf
<1> QED
    BY <1>3 DEF Init, Lifecycle!Init, asked

\* Every step of the registry is one of the life cycle, or none.
LEMMA NextRefines == RefInv /\ [Next]_vars => LifecycleStep
<1> SUFFICES ASSUME RefInv, [Next]_vars PROVE LifecycleStep
    OBVIOUS
<1>1. CASE UNCHANGED vars
    <2>1. IInv /\ UNCHANGED <<kind, entries, cancelFlag, committed>>
        BY <1>1 DEF vars, request, RefInv
    <2> QED
        BY <2>1, Stutters DEF LifecycleStep
<1>2. CASE Next
    BY <1>1, <1>2, RequestRefines, WorkRefines, DispatchRefines DEF Next, Idle
<1> QED
    BY <1>1, <1>2

\* Every behaviour of the registry, with its queues, slots, threads and store,
\* is one of the life cycle: jobs run once and end once, write jobs exclude each
\* other, and an accepted cancellation and the point of no return exclude each
\* other, whatever handlers, dispatch loops and workers are interleaved.
THEOREM RegistryImplementsLifecycle == Spec => ImplementsLifecycle
<1>1. Spec => []RefInv
    BY Inductive, LivesAreKept, SlotInvariant, AdmissionIsKept, PTL DEF RefInv
<1>2. RefInv /\ [Next]_vars => [Lifecycle!Next]_(Lifecycle!vars)
    BY NextRefines DEF LifecycleStep
<1> QED
    BY <1>1, <1>2, InitRefines, PTL DEF Spec, ImplementsLifecycle, Lifecycle!Spec
=============================================================================
