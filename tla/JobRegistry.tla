---------------------------- MODULE JobRegistry ----------------------------
(***************************************************************************)
(* The server's job registry: admission, the write and the read queue,     *)
(* the dispatch loop, the worker threads, cancellation and the bounded     *)
(* history, with the write-behind copy of every job in the job store.      *)
(*                                                                         *)
(* The registry is one mutex around RegistryState.  An action is one       *)
(* critical section of that mutex, or one call of the job store made while *)
(* the mutex is free: the code updates the entry, unlocks, and persists    *)
(* the snapshot it cloned.  pc says where each thread stands between two   *)
(* of them.                                                                *)
(***************************************************************************)
EXTENDS Integers, Sequences, FiniteSets, SequencesExt, JobKinds

CONSTANTS
    Jobs,             \* job requests; an accepted one becomes the job of that id
    NoJob,            \* "this thread has picked no job"
    Users,            \* the accounts that submit jobs
    Kinds,            \* the job kinds requested, a subset of JobKind
    WorkspacePending, \* limits.workspace_pending
    UserPending,      \* limits.per_user_pending
    ConcurrentReads,  \* limits.concurrent_reads
    HistoryLimit,     \* JOB_HISTORY_LIMIT
    Durable,          \* whether the registry has a job store
    StoreMayFail,     \* whether a call of the job store may return an error
    ClockMonotone     \* whether now_ms() grows from one reading to the next

ASSUME JobsAssumption == IsFiniteSet(Jobs) /\ NoJob \notin Jobs
ASSUME KindsAssumption == Kinds \subseteq JobKind
ASSUME LimitsAssumption ==
    /\ WorkspacePending \in Nat \ {0}
    /\ UserPending \in 1..WorkspacePending
    /\ ConcurrentReads \in Nat \ {0}
    /\ HistoryLimit \in Nat \ {0}
ASSUME SwitchesAssumption == {Durable, StoreMayFail, ClockMonotone} \subseteq BOOLEAN

VARIABLES
    owner, kind,              \* of each request, fixed
    entries,                  \* RegistryState.entries, NoEntry where there is none
    age,                      \* rank of a finished job by (updated_ms, id), 1 the newest; 0 = none
    cancelFlag,               \* the AtomicBool shared with the worker
    committed,                \* jobs whose work has crossed its point of no return
    writeQueue, readQueue,    \* pending jobs
    reservations,             \* requests that hold an admission
    activeWrite, activeReads, \* slots in use
    poisoned,                 \* a thread panicked while it held the mutex
    pc,                       \* where each thread stands
    pick,                     \* the job a dispatch loop has taken from a queue
    sawCancel,                \* the cancel flag as JobHandle::succeed read it
    snap,                     \* the status in the snapshot a thread is about to persist
    rows                      \* the status in the job store, "none" where there is no row

request == <<owner, kind>>
queues  == <<writeQueue, readQueue>>
slots   == <<activeWrite, activeReads>>
vars == <<request, entries, age, cancelFlag, committed, queues, reservations, slots, poisoned,
          pc, pick, sawCancel, snap, rows>>
----------------------------------------------------------------------------
(* Threads.  Each request is served by one thread; an accepted            *)
(* cancellation by another; a started job by its worker.  All three run   *)
(* the dispatch loop before they end.                                     *)

Submitter(j) == <<"submit", j>>
Canceller(j) == <<"cancel", j>>
Worker(j)    == <<"worker", j>>
Threads      == {"submit", "cancel", "worker"} \X Jobs

\* Faulty: the result of enter_non_cancellable is ignored.
AfterPersistIgnoringRefusal ==
    [persistQueued    |-> "dispatch",      persistRunning   |-> "spawn",
     persistRejected  |-> "pruneRejected", persistCancelled |-> "pruneCancelled",
     persistRequested |-> "pruneRequested", persistCommitted |-> "work",
     persistRefused   |-> "work",          persistProgress  |-> "work",
     persistResult    |-> "pruneResult",   persistFinal     |-> "pruneFinal"]

\* What follows once the snapshot has been persisted.
AfterPersist ==
    [persistQueued    |-> "dispatch",      persistRunning   |-> "spawn",
     persistRejected  |-> "pruneRejected", persistCancelled |-> "pruneCancelled",
     persistRequested |-> "pruneRequested", persistCommitted |-> "work",
     persistRefused   |-> "markCancelled", persistProgress  |-> "work",
     persistResult    |-> "pruneResult",   persistFinal     |-> "pruneFinal"]

\* Faulty: worker_finished does not dispatch.
AfterPruneWithoutDispatch ==
    [admitted       |-> "enqueue",  pruneRejected  |-> "dispatch",
     pruneCancelled |-> "dispatch", pruneRequested |-> "done",
     pruneResult    |-> "finish",   pruneFinal     |-> "done"]

\* Faulty: the dispatch loop returns after it has rejected a job.
AfterPruneReturning ==
    [admitted       |-> "enqueue",  pruneRejected  |-> "done",
     pruneCancelled |-> "dispatch", pruneRequested |-> "done",
     pruneResult    |-> "finish",   pruneFinal     |-> "dispatch"]

\* What follows once the history has been pruned.
AfterPrune ==
    [admitted       |-> "enqueue",  pruneRejected  |-> "dispatch",
     pruneCancelled |-> "dispatch", pruneRequested |-> "done",
     pruneResult    |-> "finish",   pruneFinal     |-> "dispatch"]

Location ==
    DOMAIN AfterPersist \cup DOMAIN AfterPrune \cup
    {"new", "enqueue", "dispatch", "spawn", "release", "begin", "work",
     "succeed", "markCancelled", "finish", "done"}

Goto(t, l) == pc' = [pc EXCEPT ![t] = l]

\* Thread t leaves the mutex with a snapshot whose status is s, to persist at l.
PersistAt(t, l, s) ==
    IF Durable THEN Goto(t, l) /\ snap' = [snap EXCEPT ![t] = s]
               ELSE Goto(t, AfterPersist[l]) /\ UNCHANGED snap

\* Faulty: a dispatch loop persists under the id of its own job.
SubjectOfThread(t) == t[2]

\* The job whose snapshot thread t persists.
Subject(t) == IF pick[t] # NoJob THEN pick[t] ELSE t[2]
----------------------------------------------------------------------------
(* Entries and their order in the history.                                *)

Terminal == {"succeeded", "failed", "cancelled"}
Status   == {"none", "queued", "running"} \cup Terminal
Entry    == [status : Status, cancellable : BOOLEAN, requested : BOOLEAN]
NoEntry  == [status |-> "none", cancellable |-> FALSE, requested |-> FALSE]
NewEntry == [status |-> "queued", cancellable |-> TRUE, requested |-> FALSE]

Finished == {j \in Jobs : entries[j].status \in Terminal}

\* The ranks a job may take when updated_ms is set: the first under a clock
\* that grows, any other when the clock steps back or two readings are equal.
Ranks(j) == IF ClockMonotone THEN {1} ELSE 1..(1 + Cardinality(Finished \ {j}))

\* The history with finished job j stamped anew, at rank r.
Stamped(j, r) ==
    LET rank(i) == IF age[j] > 0 /\ age[i] > age[j] THEN age[i] - 1 ELSE age[i]
    IN  [i \in Jobs |-> IF i = j THEN r ELSE IF rank(i) >= r THEN rank(i) + 1 ELSE rank(i)]

Touch(j) == \E r \in Ranks(j) : age' = Stamped(j, r)

\* The entry of j once it has ended with status s.
Ended(j, s) ==
    [status |-> s, cancellable |-> FALSE,
     requested |-> entries[j].requested \/ s = "cancelled"]

\* Faulty: both slots are given back.
ReleaseBoth(j) == activeWrite' = FALSE /\ activeReads' = activeReads - 1

\* The slot of j is free again.
Release(j) ==
    IF IsWrite(kind[j])
    THEN activeWrite' = FALSE /\ UNCHANGED activeReads
    ELSE /\ activeReads' = IF activeReads > 0 THEN activeReads - 1 ELSE 0
         /\ UNCHANGED activeWrite
----------------------------------------------------------------------------
Init ==
    /\ owner \in [Jobs -> Users]
    /\ kind \in [Jobs -> Kinds]
    /\ entries = [j \in Jobs |-> NoEntry]
    /\ age = [j \in Jobs |-> 0]
    /\ cancelFlag = [j \in Jobs |-> FALSE]
    /\ committed = {}
    /\ writeQueue = <<>> /\ readQueue = <<>>
    /\ reservations = {}
    /\ activeWrite = FALSE /\ activeReads = 0
    /\ poisoned = FALSE
    /\ pc = [t \in Threads |-> "new"]
    /\ pick = [t \in Threads |-> NoJob]
    /\ sawCancel = [j \in Jobs |-> FALSE]
    /\ snap = [t \in Threads |-> "none"]
    /\ rows = [j \in Jobs |-> "none"]
----------------------------------------------------------------------------
(* Admission and enqueueing.                                              *)

InFlight(j) == entries[j].status \in {"queued", "running"}

\* Faulty: jobs that are admitted but not yet queued are overlooked.
BusyWithoutReservations(k) == IsSingleFlight(k) /\ \E i \in Jobs : kind[i] = k /\ InFlight(i)

MaintenanceBusy(k) ==
    IsSingleFlight(k) /\ \E i \in Jobs : kind[i] = k /\ (InFlight(i) \/ i \in reservations)

Pending == ToSet(writeQueue) \cup ToSet(readQueue) \cup reservations

PendingOf(u) == {j \in Pending : owner[j] = u}

PendingNumber == Len(writeQueue) + Len(readQueue) + Cardinality(reservations)

\* Faulty: requests that are admitted but not yet queued are overlooked.
HasRoomBesidesReservations(j) ==
    /\ Cardinality(PendingOf(owner[j]) \ reservations) < UserPending
    /\ Len(writeQueue) + Len(readQueue) < WorkspacePending

\* One more pending job of j's owner stays within both limits.
HasRoom(j) ==
    /\ Cardinality(PendingOf(owner[j])) < UserPending
    /\ PendingNumber < WorkspacePending

\* reserve_for: a request that is refused leaves no trace.
Reserve(j) ==
    /\ ~poisoned
    /\ pc[Submitter(j)] = "new"
    /\ ~MaintenanceBusy(kind[j])
    /\ HasRoom(j)
    /\ reservations' = reservations \cup {j}
    /\ Goto(Submitter(j), "admitted")
    /\ UNCHANGED <<request, entries, age, cancelFlag, committed, queues, slots, poisoned, pick, sawCancel,
                   snap, rows>>

\* The request fails before it is enqueued: JobAdmission::drop.
DropAdmission(j) ==
    /\ ~poisoned
    /\ pc[Submitter(j)] = "admitted"
    /\ reservations' = reservations \ {j}
    /\ Goto(Submitter(j), "new")
    /\ UNCHANGED <<request, entries, age, cancelFlag, committed, queues, slots, poisoned, pick, sawCancel,
                   snap, rows>>

\* enqueue_admitted, after it has pruned the history (from "admitted"): the
\* reservation turns into a queued entry in one critical section.
Enqueue(j) ==
    /\ ~poisoned
    /\ pc[Submitter(j)] = "enqueue"
    /\ reservations' = reservations \ {j}
    /\ entries' = [entries EXCEPT ![j] = NewEntry]
    /\ IF IsWrite(kind[j])
       THEN writeQueue' = Append(writeQueue, j) /\ UNCHANGED readQueue
       ELSE readQueue' = Append(readQueue, j) /\ UNCHANGED writeQueue
    /\ PersistAt(Submitter(j), "persistQueued", "queued")
    /\ UNCHANGED <<request, age, cancelFlag, committed, slots, poisoned, pick, sawCancel, rows>>
----------------------------------------------------------------------------
(* Calls of the job store, and pruning.                                   *)

\* JobStore::upsert of the snapshot cloned earlier: the last writer wins.
Persist(t) ==
    /\ pc[t] \in DOMAIN AfterPersist
    /\ \/ rows' = [rows EXCEPT ![Subject(t)] = snap[t]]
       \/ StoreMayFail /\ UNCHANGED rows
    /\ Goto(t, AfterPersist[pc[t]])
    /\ snap' = [snap EXCEPT ![t] = "none"]
    /\ UNCHANGED <<request, entries, age, cancelFlag, committed, queues, reservations, slots, poisoned,
                   pick, sawCancel>>

\* Faulty: one job too many is kept.
BeyondHistoryByOne == {j \in Jobs : age[j] > HistoryLimit + 1}

\* The finished jobs that are older than the HistoryLimit newest.
BeyondHistory == {j \in Jobs : age[j] > HistoryLimit}

\* prune: rows and entries beyond the history limit are deleted under the
\* mutex, the rows first; when that fails the entries stay.
Prune(t) ==
    LET dropped == BeyondHistory IN
    /\ ~poisoned
    /\ pc[t] \in DOMAIN AfterPrune
    /\ \/ /\ rows' = [j \in Jobs |-> IF j \in dropped THEN "none" ELSE rows[j]]
          /\ entries' = [j \in Jobs |-> IF j \in dropped THEN NoEntry ELSE entries[j]]
          /\ age' = [j \in Jobs |-> IF j \in dropped THEN 0 ELSE age[j]]
       \/ Durable /\ StoreMayFail /\ dropped # {} /\ UNCHANGED <<rows, entries, age>>
    /\ Goto(t, AfterPrune[pc[t]])
    /\ pick' = [pick EXCEPT ![t] = NoJob]
    /\ UNCHANGED <<request, cancelFlag, committed, queues, reservations, slots, poisoned, sawCancel,
                   snap>>
----------------------------------------------------------------------------
(* The dispatch loop: dispatch_available.                                 *)

\* Faulty: a write job starts beside another, a read job beyond the limit.
CanStartAnyWrite == writeQueue # <<>>
CanStartAnyRead  == readQueue # <<>>

CanStartWrite == ~activeWrite /\ writeQueue # <<>>
CanStartRead  == activeReads < ConcurrentReads /\ readQueue # <<>>

\* Faulty: the newest job is taken.
PopNewestWrite(j) ==
    /\ CanStartWrite
    /\ j = Last(writeQueue)
    /\ writeQueue' = Front(writeQueue)
    /\ activeWrite' = TRUE
    /\ UNCHANGED <<readQueue, activeReads>>

\* Faulty: the job taken stays in the queue.
PeekWrite(j) ==
    /\ CanStartWrite
    /\ j = Head(writeQueue)
    /\ activeWrite' = TRUE
    /\ UNCHANGED <<writeQueue, readQueue, activeReads>>

\* The oldest write job is taken as soon as no write job is active.
PopWrite(j) ==
    /\ CanStartWrite
    /\ j = Head(writeQueue)
    /\ writeQueue' = Tail(writeQueue)
    /\ activeWrite' = TRUE
    /\ UNCHANGED <<readQueue, activeReads>>

\* A read job is taken only when no write job can start.
PopRead(j) ==
    /\ ~CanStartWrite
    /\ CanStartRead
    /\ j = Head(readQueue)
    /\ readQueue' = Tail(readQueue)
    /\ activeReads' = activeReads + 1
    /\ UNCHANGED <<writeQueue, activeWrite>>

\* The owner is still authorised: the job runs.
Start(t) ==
    /\ ~poisoned
    /\ pc[t] = "dispatch"
    /\ \E j \in Jobs :
          /\ PopWrite(j) \/ PopRead(j)
          /\ entries' = [entries EXCEPT ![j].status = "running"]
          /\ pick' = [pick EXCEPT ![t] = j]
    /\ PersistAt(t, "persistRunning", "running")
    /\ UNCHANGED <<request, age, cancelFlag, committed, reservations, poisoned, sawCancel, rows>>

\* The authoriser, asked under the mutex, no longer permits the job.
Reject(t) ==
    /\ ~poisoned
    /\ pc[t] = "dispatch"
    /\ \E j \in Jobs :
          /\ PopWrite(j) \/ PopRead(j)
          /\ entries' = [entries EXCEPT ![j] = Ended(j, "cancelled")]
          /\ Touch(j)
          /\ cancelFlag' = [cancelFlag EXCEPT ![j] = TRUE]
          /\ pick' = [pick EXCEPT ![t] = j]
    /\ Goto(t, "release")
    /\ UNCHANGED <<request, committed, reservations, poisoned, sawCancel, snap, rows>>

\* The slot of a rejected job is given back in a second critical section.
ReleaseRejected(t) ==
    /\ ~poisoned
    /\ pc[t] = "release"
    /\ Release(pick[t])
    /\ PersistAt(t, "persistRejected", "cancelled")
    /\ UNCHANGED <<request, entries, age, cancelFlag, committed, queues, reservations, poisoned, pick,
                   sawCancel, rows>>

\* start_worker.
Spawn(t) ==
    /\ pc[t] = "spawn"
    /\ pc' = [pc EXCEPT ![t] = "dispatch", ![Worker(pick[t])] = "begin"]
    /\ pick' = [pick EXCEPT ![t] = NoJob]
    /\ UNCHANGED <<request, entries, age, cancelFlag, committed, queues, reservations, slots, poisoned,
                   sawCancel, snap, rows>>

\* Nothing can start: the loop, and with it the thread, ends.
LeaveLoop(t) ==
    /\ ~poisoned
    /\ pc[t] = "dispatch"
    /\ ~CanStartWrite /\ ~CanStartRead
    /\ Goto(t, "done")
    /\ UNCHANGED <<request, entries, age, cancelFlag, committed, queues, reservations, slots, poisoned,
                   pick, sawCancel, snap, rows>>
----------------------------------------------------------------------------
(* Cancellation: cancel.  A request that is refused leaves no trace, and a *)
(* job accepts one at most, since it is no longer cancellable afterwards.  *)

Cancellable(j) == InFlight(j) /\ entries[j].cancellable

\* A queued job leaves its queue and ends in the same critical section.
CancelQueued(j) ==
    /\ ~poisoned
    /\ pc[Canceller(j)] = "new"
    /\ Cancellable(j) /\ entries[j].status = "queued"
    /\ \/ \E i \in DOMAIN writeQueue :
             /\ writeQueue[i] = j
             /\ writeQueue' = RemoveAt(writeQueue, i)
             /\ UNCHANGED readQueue
       \/ \E i \in DOMAIN readQueue :
             /\ readQueue[i] = j
             /\ readQueue' = RemoveAt(readQueue, i)
             /\ UNCHANGED writeQueue
    /\ cancelFlag' = [cancelFlag EXCEPT ![j] = TRUE]
    /\ entries' = [entries EXCEPT ![j] = Ended(j, "cancelled")]
    /\ Touch(j)
    /\ PersistAt(Canceller(j), "persistCancelled", "cancelled")
    /\ UNCHANGED <<request, committed, reservations, slots, poisoned, pick, sawCancel, rows>>

\* A running job is only asked to stop.
CancelRunning(j) ==
    /\ ~poisoned
    /\ pc[Canceller(j)] = "new"
    /\ Cancellable(j) /\ entries[j].status = "running"
    /\ cancelFlag' = [cancelFlag EXCEPT ![j] = TRUE]
    /\ entries' = [entries EXCEPT ![j].cancellable = FALSE, ![j].requested = TRUE]
    /\ PersistAt(Canceller(j), "persistRequested", "running")
    /\ UNCHANGED <<request, age, committed, queues, reservations, slots, poisoned, pick,
                   sawCancel, rows>>
----------------------------------------------------------------------------
(* The worker: the closure of start_worker, the JobHandle the work is      *)
(* given, and worker_finished.                                             *)

\* The flag is read without the mutex.
BeginWork(j) ==
    /\ pc[Worker(j)] = "begin"
    /\ Goto(Worker(j), IF cancelFlag[j] THEN "markCancelled" ELSE "work")
    /\ UNCHANGED <<request, entries, age, cancelFlag, committed, queues, reservations, slots,
                   poisoned, pick, sawCancel, snap, rows>>

\* JobHandle::mutate without a change of status: progress, phase, message, result.
\* It does nothing when the entry is gone.
Report(j) ==
    /\ ~poisoned
    /\ pc[Worker(j)] = "work"
    /\ entries[j].status # "none"
    /\ PersistAt(Worker(j), "persistProgress", entries[j].status)
    /\ UNCHANGED <<request, entries, age, cancelFlag, committed, queues, reservations, slots,
                   poisoned, pick, sawCancel, rows>>

\* Faulty: the cancel flag is not looked at.
MayAlwaysCommit(j) == TRUE

MayCommit(j) == ~cancelFlag[j] /\ ~entries[j].requested

\* enter_non_cancellable, which the work calls before it changes the database.
Commit(j) ==
    /\ ~poisoned
    /\ pc[Worker(j)] = "work"
    /\ HasPointOfNoReturn(kind[j]) /\ j \notin committed
    /\ InFlight(j) /\ MayCommit(j)
    /\ committed' = committed \cup {j}
    /\ entries' = [entries EXCEPT ![j].cancellable = FALSE, ![j].requested = FALSE]
    /\ PersistAt(Worker(j), "persistCommitted", entries[j].status)
    /\ UNCHANGED <<request, age, cancelFlag, queues, reservations, slots, poisoned, pick,
                   sawCancel, rows>>

\* enter_non_cancellable when the cancellation has won.
RefuseCommit(j) ==
    /\ ~poisoned
    /\ pc[Worker(j)] = "work"
    /\ HasPointOfNoReturn(kind[j]) /\ j \notin committed
    /\ ~(InFlight(j) /\ MayCommit(j))
    /\ IF InFlight(j)
       THEN /\ entries' = [entries EXCEPT ![j] = Ended(j, "cancelled")]
            /\ Touch(j)
            /\ PersistAt(Worker(j), "persistRefused", "cancelled")
       ELSE Goto(Worker(j), "markCancelled") /\ UNCHANGED <<entries, age, snap>>
    /\ UNCHANGED <<request, cancelFlag, committed, queues, reservations, slots, poisoned, pick,
                   sawCancel, rows>>

\* The work may report success: it has crossed its point of no return, if it has one.
MaySucceed(j) == HasPointOfNoReturn(kind[j]) => j \in committed

\* succeed reads the cancel flag before it takes the mutex.
LoadCancelFlag(j) ==
    /\ pc[Worker(j)] = "work"
    /\ MaySucceed(j)
    /\ sawCancel' = [sawCancel EXCEPT ![j] = cancelFlag[j]]
    /\ Goto(Worker(j), "succeed")
    /\ UNCHANGED <<request, entries, age, cancelFlag, committed, queues, reservations, slots,
                   poisoned, pick, snap, rows>>

\* mutate with a final status; it does nothing when the entry is gone.
Publish(j, s) ==
    IF entries[j].status = "none"
    THEN Goto(Worker(j), "pruneResult") /\ UNCHANGED <<entries, age, snap>>
    ELSE /\ entries' = [entries EXCEPT ![j] = Ended(j, s)]
         /\ Touch(j)
         /\ PersistAt(Worker(j), "persistResult", s)

Succeed(j) ==
    /\ ~poisoned
    /\ pc[Worker(j)] = "succeed"
    /\ Publish(j, IF sawCancel[j] /\ entries[j].requested THEN "cancelled" ELSE "succeeded")
    /\ sawCancel' = [sawCancel EXCEPT ![j] = FALSE]
    /\ UNCHANGED <<request, cancelFlag, committed, queues, reservations, slots, poisoned, pick,
                   rows>>

\* The work fails, at any point, or panics.
Fail(j) ==
    /\ ~poisoned
    /\ pc[Worker(j)] = "work"
    /\ Publish(j, "failed")
    /\ UNCHANGED <<request, cancelFlag, committed, queues, reservations, slots, poisoned, pick,
                   sawCancel, rows>>

\* mark_cancelled: before the work begins, after a refused commit, or because
\* work without a point of no return saw the flag.
MarkCancelled(j) ==
    /\ ~poisoned
    /\ \/ pc[Worker(j)] = "markCancelled"
       \/ pc[Worker(j)] = "work" /\ cancelFlag[j] /\ ~HasPointOfNoReturn(kind[j])
    /\ Publish(j, "cancelled")
    /\ UNCHANGED <<request, cancelFlag, committed, queues, reservations, slots, poisoned, pick,
                   sawCancel, rows>>

\* The work, an arbitrary closure, returns without an outcome.
ReturnSilently(j) ==
    /\ pc[Worker(j)] = "work"
    /\ Goto(Worker(j), "finish")
    /\ UNCHANGED <<request, entries, age, cancelFlag, committed, queues, reservations, slots,
                   poisoned, pick, sawCancel, snap, rows>>

\* worker_finished gives the slot back and ends a job that is still in flight.
WorkerFinished(j) ==
    /\ ~poisoned
    /\ pc[Worker(j)] = "finish"
    /\ Release(j)
    /\ entries[j].status # "none"
    /\ IF InFlight(j)
       THEN LET s == IF cancelFlag[j] THEN "cancelled" ELSE "failed"
            IN  /\ entries' = [entries EXCEPT ![j] = Ended(j, s)]
                /\ Touch(j)
                /\ PersistAt(Worker(j), "persistFinal", s)
       ELSE Goto(Worker(j), "pruneFinal") /\ UNCHANGED <<entries, age, snap>>
    /\ UNCHANGED <<request, cancelFlag, committed, queues, reservations, poisoned, pick,
                   sawCancel, rows>>

\* worker_finished panics while it holds the mutex: the entry has been pruned.
FinishPanics(j) ==
    /\ ~poisoned
    /\ pc[Worker(j)] = "finish"
    /\ Release(j)
    /\ entries[j].status = "none"
    /\ poisoned' = TRUE
    /\ Goto(Worker(j), "done")
    /\ UNCHANGED <<request, entries, age, cancelFlag, committed, queues, reservations, pick,
                   sawCancel, snap, rows>>
----------------------------------------------------------------------------
(* A thread that has ended its dispatch loop is done; nothing moves once   *)
(* all are, or once the mutex is poisoned.                                 *)
Quiescent ==
    /\ \A j \in Jobs : pc[Submitter(j)] = "done"
    /\ \A t \in Threads : pc[t] \in {"new", "done"}

Idle == (poisoned \/ Quiescent) /\ UNCHANGED vars

Dispatch(t) == Start(t) \/ Reject(t) \/ ReleaseRejected(t) \/ Spawn(t) \/ LeaveLoop(t)

\* How the work of a job comes to an end.
EndWork(j) == RefuseCommit(j) \/ LoadCancelFlag(j) \/ Fail(j) \/ ReturnSilently(j)

Work(j) ==
    \/ BeginWork(j) \/ Report(j) \/ Commit(j) \/ EndWork(j) \/ Succeed(j)
    \/ MarkCancelled(j) \/ WorkerFinished(j) \/ FinishPanics(j)

Next ==
    \/ \E j \in Jobs :
          \/ Reserve(j) \/ DropAdmission(j) \/ Enqueue(j)
          \/ CancelQueued(j) \/ CancelRunning(j)
          \/ Work(j)
    \/ \E t \in Threads : Persist(t) \/ Prune(t) \/ Dispatch(t)
    \/ Idle

Spec == Init /\ [][Next]_vars

\* Threads are scheduled by the operating system and the mutex is free again
\* after every critical section; the work of a job ends.  Requests need not come.
Fairness ==
    /\ \A t \in Threads : WF_vars(Persist(t)) /\ WF_vars(Prune(t)) /\ WF_vars(Dispatch(t))
    /\ \A j \in Jobs :
          /\ WF_vars(Enqueue(j))
          /\ WF_vars(BeginWork(j) \/ Succeed(j) \/ MarkCancelled(j) \/ WorkerFinished(j))
          /\ SF_vars(EndWork(j))

FairSpec == Spec /\ Fairness
----------------------------------------------------------------------------
(* Correctness.                                                            *)

\* Every variable has its type.
TypeOK ==
    /\ owner \in [Jobs -> Users]
    /\ kind \in [Jobs -> Kinds]
    /\ entries \in [Jobs -> Entry]
    /\ age \in [Jobs -> Nat]
    /\ cancelFlag \in [Jobs -> BOOLEAN]
    /\ committed \subseteq Jobs
    /\ writeQueue \in Seq(Jobs) /\ readQueue \in Seq(Jobs)
    /\ reservations \subseteq Jobs
    /\ activeWrite \in BOOLEAN /\ activeReads \in Nat
    /\ poisoned \in BOOLEAN
    /\ pc \in [Threads -> Location]
    /\ pick \in [Threads -> Jobs \cup {NoJob}]
    /\ sawCancel \in [Jobs -> BOOLEAN]
    /\ snap \in [Threads -> Status]
    /\ rows \in [Jobs -> Status]

\* A job is queued exactly when it stands in the queue of its class, and it
\* stands there once: the expect("queued job entry exists") of the dispatch
\* loop, and the retain of cancel, which must take the job out of the queue.
QueuedIffInQueue ==
    /\ \A j \in Jobs :
          (entries[j].status = "queued") <=> (j \in ToSet(writeQueue) \cup ToSet(readQueue))
    /\ \A j \in ToSet(writeQueue) : IsWrite(kind[j])
    /\ \A j \in ToSet(readQueue) : ~IsWrite(kind[j])
    /\ IsInjective(writeQueue) /\ IsInjective(readQueue)

\* Where a job's worker still holds the slot the job was given.
Working == {"begin", "work", "succeed", "markCancelled", "finish", "persistProgress",
            "persistCommitted", "persistRefused", "persistResult", "pruneResult"}

\* Jobs that hold a slot: taken from a queue and not yet given to a worker,
\* rejected and not yet released, or with a worker that has not finished.
Holders ==
    {j \in Jobs : \/ pc[Worker(j)] \in Working
                  \/ \E t \in Threads :
                        pick[t] = j /\ pc[t] \in {"persistRunning", "spawn", "release"}}

\* Write jobs run one at a time and read jobs up to the limit, and the slots in
\* use are those of the jobs that hold one, so that none is lost or given twice.
SlotsMatchHolders ==
    LET writers == {j \in Holders : IsWrite(kind[j])}
        readers == Holders \ writers
    IN  /\ Cardinality(writers) = (IF activeWrite THEN 1 ELSE 0)
        /\ Cardinality(readers) = activeReads
        /\ activeReads <= ConcurrentReads

\* The pending limits hold for the workspace and for every user at all times,
\* although a request is counted by its reservation first and by its place in
\* a queue later.
PendingWithinLimits ==
    /\ Cardinality(Pending) <= WorkspacePending
    /\ \A u \in Users : Cardinality(PendingOf(u)) <= UserPending

\* At most one maintenance job of a kind is admitted, pending or running.
SingleFlight ==
    \A i, j \in Jobs :
       /\ i # j /\ kind[i] = kind[j] /\ IsSingleFlight(kind[i])
       => ~((InFlight(i) \/ i \in reservations) /\ (InFlight(j) \/ j \in reservations))

\* Work that changes the database past its point of no return and an accepted
\* cancellation exclude each other, whatever the order of cancel,
\* enter_non_cancellable, succeed and worker_finished.
PointOfNoReturn ==
    \A j \in committed : ~cancelFlag[j] /\ entries[j].status # "cancelled"

\* Locations from which a thread goes on to the dispatch loop.
BeforeDispatch ==
    {"persistQueued", "persistRunning", "spawn", "dispatch", "release", "persistRejected",
     "pruneRejected", "persistCancelled", "pruneCancelled", "persistFinal", "pruneFinal"}

\* No wakeup is lost: whenever a pending job could start, some thread is on its
\* way to the dispatch loop.
NoLostWakeup ==
    (CanStartWrite \/ CanStartRead) =>
        poisoned \/ \E t \in Threads : pc[t] \in BeforeDispatch

\* The history holds at most HistoryLimit finished jobs, but for those whose
\* thread is still to prune.
OwesPrune(t) ==
    pc[t] \in {"release", "persistRejected", "pruneRejected", "persistCancelled",
               "pruneCancelled", "persistRefused", "markCancelled", "persistResult",
               "pruneResult", "persistFinal", "pruneFinal"}
HistoryBounded ==
    StoreMayFail \/ Cardinality(Finished) <= HistoryLimit + Cardinality({t \in Threads : OwesPrune(t)})

\* Nothing outgrows its limit, whatever requests, cancellations and ends are
\* interleaved: pending jobs, maintenance jobs of a kind, the history.
LimitsHold == PendingWithinLimits /\ SingleFlight /\ HistoryBounded

\* The job store never runs ahead of the registry: a stored outcome is the
\* outcome in memory, and a running row belongs to a job that was started.
StoreNotAhead ==
    \A j \in Jobs :
       /\ rows[j] \in Terminal => entries[j].status \in {rows[j], "none"}
       /\ rows[j] = "running" => entries[j].status # "queued"

\* Queues are first in, first out: a job leaves a queue before a job ahead of
\* it only by being cancelled.
FirstInFirstOut ==
    [][\A q \in {<<writeQueue, writeQueue'>>, <<readQueue, readQueue'>>} :
          \A m, n \in DOMAIN q[1] :
             m < n /\ q[1][m] \in ToSet(q[2]) /\ q[1][n] \notin ToSet(q[2])
             => entries'[q[1][n]].status = "cancelled"]_vars

\* Every job that is accepted ends, provided work ends and threads run, or a
\* thread has panicked with the mutex in hand (worker_finished, jobs.rs:850):
\* then no later call gets at the registry, and what is queued stays queued.
AcceptedJobsEnd ==
    \A j \in Jobs :
       (entries[j].status = "queued") ~> (entries[j].status \in Terminal \cup {"none"} \/ poisoned)

----------------------------------------------------------------------------
(* The registry implements the life of a job as JobLifecycle states it.    *)

phase ==
    [j \in Jobs |->
       IF entries[j].status # "none" THEN entries[j].status
       ELSE IF pc[Submitter(j)] \in {"new", "admitted", "enqueue"} THEN "absent" ELSE "forgotten"]
asked == {j \in Jobs : cancelFlag[j]}

Lifecycle == INSTANCE JobLifecycle WITH
    Jobs <- Jobs, Kinds <- Kinds, ConcurrentReads <- ConcurrentReads,
    kind <- kind, phase <- phase, asked <- asked, committed <- committed

\* Every behaviour of the registry is one of the job life cycle: exclusion of
\* write jobs, limit of read jobs, single flight, one outcome per job, no
\* cancellation after the point of no return, no return of a pruned job.
ImplementsLifecycle == Lifecycle!Spec
----------------------------------------------------------------------------
(* Claims of the source that the registry does not keep.                   *)

\* worker_finished expects to find the entry of its job.
WorkerEntryExists == \A j \in Jobs : pc[Worker(j)] = "finish" => entries[j].status # "none"

\* Once all threads are done, the job store has every job as the registry has it.
StoredOnceIdle ==
    Quiescent => \A j \in Jobs : rows[j] = entries[j].status
=============================================================================
