------------------------------ MODULE Artifacts ------------------------------
(***************************************************************************)
(* The files that requests and jobs leave on disk: retained previews,      *)
(* upload directories and export directories; who removes them when, and   *)
(* what is left of jobs and files when the server starts again.            *)
(*                                                                         *)
(* Jobs live as JobLifecycle states it, which JobRegistry implements.      *)
(* Files and job rows survive the server; handlers, workers, permits and   *)
(* the registry do not.  Time is counted in ages, which stop growing at    *)
(* MaxAge.                                                                 *)
(***************************************************************************)
EXTENDS Integers, FiniteSets, FiniteSetsExt

CONSTANTS
    Jobs, Kinds, ConcurrentReads,   \* as in JobLifecycle; one request for each job
    Files,                          \* MAX_UPLOAD_FILES
    Previews, PreviewLimit,         \* previews, and how many may run at a time
    PeekTtl, UploadTtl, ExportTtl,
    MaxAge, MaxStarts,              \* bounds of the exploration
    None

ASSUME TtlAssumption ==
    /\ {PeekTtl, UploadTtl, ExportTtl} \subseteq Nat \ {0}
    /\ MaxAge \in Nat /\ PeekTtl <= UploadTtl /\ UploadTtl <= MaxAge /\ ExportTtl <= MaxAge
ASSUME SizeAssumption == {Files, PreviewLimit} \subseteq Nat \ {0} /\ MaxStarts \in Nat

UploadDir(j, k) == <<"upload", j, k>>
ExportDir(j) == <<"export", j, 0>>
Peek(p) == <<"peek", p, 0>>
UploadDirs(j) == {UploadDir(j, k) : k \in 1..Files}
Entries == (UNION {UploadDirs(j) \cup {ExportDir(j)} : j \in Jobs}) \cup {Peek(p) : p \in Previews}

VARIABLES
    kind, phase, asked,   \* of JobLifecycle
    number,               \* the id each job was given, 0 before
    nextId,
    age,                  \* of updated_ms of each job
    outcome,              \* what each job has ended with, None before
    disk,                 \* age of every directory entry, None when there is none
    handler,              \* where the request of each job stands
    worker,               \* where the work of each job stands
    imported,             \* the files of each job whose rows are committed
    preview, permits,     \* where each preview stands; active_previews
    sweep,                \* the artifact cleanup: entries it found, entries to remove
    swept,                \* there was one since the last tick
    starts                \* of the server

Registry == INSTANCE JobLifecycle WITH
    Jobs <- Jobs, Kinds <- Kinds, ConcurrentReads <- ConcurrentReads,
    kind <- kind, phase <- phase, asked <- asked, committed <- {}

jobVars     == <<kind, phase, asked, number, nextId, age, outcome>>
previewVars == <<preview, permits>>
sweepVars   == <<sweep, swept>>
vars == <<jobVars, disk, handler, worker, imported, previewVars, sweepVars, starts>>

Outcome == {"succeeded", "failed", "cancelled"}

\* The marker is neither an age nor an outcome.
ASSUME NoneAssumption == None \notin Nat \cup Outcome

Active(j) == phase[j] \in {"queued", "running"}
Listed == {j \in Jobs : phase[j] \notin {"absent", "forgotten"}}
OnDisk == {a \in Entries : disk[a] # None}

Removed(A) == [a \in Entries |-> IF a \in A THEN None ELSE disk[a]]

NoHandler == [at |-> "none", saved |-> 0, source |-> None]
NoWorker  == [at |-> "none", next |-> 1, bad |-> FALSE]
NoSweep   == [on |-> FALSE, listed |-> {}, doomed |-> {}]
----------------------------------------------------------------------------
(* The handlers of upload and export requests                              *)

SavedDirs(j) == {UploadDir(j, k) : k \in 1..handler[j].saved}
WrittenDirs(j) ==
    IF handler[j].at \in {"streaming", "claiming"} THEN {UploadDir(j, handler[j].saved + 1)} ELSE {}

HandlerDone(j) == handler' = [handler EXCEPT ![j].at = "done"]

Reserve(j) ==
    /\ handler[j].at = "none"
    /\ handler' = [handler EXCEPT ![j].at = "form"]
    /\ UNCHANGED <<jobVars, disk, worker, imported, previewVars, sweepVars, starts>>

\* Mutant: the limit is met one file late.
StartFileAtLimit(j) ==
    /\ kind[j] = "Import" /\ handler[j].at = "form" /\ handler[j].saved <= Files
    /\ disk' = [disk EXCEPT ![UploadDir(j, handler[j].saved + 1)] = 0]
    /\ handler' = [handler EXCEPT ![j].at = "streaming"]
    /\ UNCHANGED <<jobVars, worker, imported, previewVars, sweepVars, starts>>

\* The directory of one more file; the file streams into it.
StartFile(j) ==
    /\ kind[j] = "Import" /\ handler[j].at = "form" /\ handler[j].saved < Files
    /\ disk' = [disk EXCEPT ![UploadDir(j, handler[j].saved + 1)] = 0]
    /\ handler' = [handler EXCEPT ![j].at = "streaming"]
    /\ UNCHANGED <<jobVars, worker, imported, previewVars, sweepVars, starts>>

FinishFile(j) ==
    /\ handler[j].at = "streaming"
    /\ handler' = [handler EXCEPT ![j].at = "form", ![j].saved = @ + 1]
    /\ UNCHANGED <<jobVars, disk, worker, imported, previewVars, sweepVars, starts>>

\* resolve_peek_token finds the preview; a directory is made for it.
ResolvePreview(j, p) ==
    /\ kind[j] = "Import" /\ handler[j].at = "form" /\ handler[j].saved = 0
    /\ preview[p] = "kept" /\ Peek(p) \in OnDisk
    /\ disk' = [disk EXCEPT ![UploadDir(j, 1)] = 0]
    /\ handler' = [handler EXCEPT ![j].at = "claiming", ![j].source = p]
    /\ UNCHANGED <<jobVars, worker, imported, previewVars, sweepVars, starts>>

\* The rename: by now the preview may be swept away, or claimed by another request.
ClaimPreview(j) ==
    /\ handler[j].at = "claiming"
    /\ \/ /\ Peek(handler[j].source) \in OnDisk
          /\ disk' = Removed({Peek(handler[j].source)})
          /\ handler' = [handler EXCEPT ![j].at = "ready", ![j].saved = 1]
       \/ /\ Peek(handler[j].source) \notin OnDisk
          /\ disk' = Removed({UploadDir(j, 1)})
          /\ HandlerDone(j)
    /\ UNCHANGED <<jobVars, worker, imported, previewVars, sweepVars, starts>>

MakeExportDir(j) ==
    /\ kind[j] = "Export" /\ handler[j].at = "form"
    /\ disk' = [disk EXCEPT ![ExportDir(j)] = 0]
    /\ handler' = [handler EXCEPT ![j].at = "ready"]
    /\ UNCHANGED <<jobVars, worker, imported, previewVars, sweepVars, starts>>

\* spawn_job_with_admission accepts; the guard of the saved files is disarmed.
Submit(j) ==
    /\ handler[j].at = "ready" \/ (handler[j].at = "form" /\ handler[j].saved > 0)
    /\ Registry!Accept(j)
    /\ number' = [number EXCEPT ![j] = nextId]
    /\ nextId' = nextId + 1
    /\ age' = [age EXCEPT ![j] = 0]
    /\ worker' = [worker EXCEPT ![j].at = "queued"]
    /\ HandlerDone(j)
    /\ UNCHANGED <<outcome, disk, imported, previewVars, sweepVars, starts>>

\* An error, or the client goes away.  Saved files go; what is being written goes on most
\* errors, and stays when the handler is dropped or the file could not be created; a rename
\* under way may still happen.  An export directory stays only when the handler is dropped.
GiveUp(j) ==
    /\ handler[j].at \in {"form", "streaming", "claiming", "ready"}
    /\ \/ disk' = Removed(SavedDirs(j) \cup WrittenDirs(j) \cup {ExportDir(j)})
       \/ disk' = Removed(SavedDirs(j))
       \/ handler[j].at = "claiming" /\ disk' = Removed({Peek(handler[j].source)})
    /\ HandlerDone(j)
    /\ UNCHANGED <<jobVars, worker, imported, previewVars, sweepVars, starts>>
----------------------------------------------------------------------------
(* Workers: run_import and run_export                                      *)

Goto(j, at) == worker' = [worker EXCEPT ![j].at = at]

Begin(j) ==
    /\ Registry!Begin(j)
    /\ age' = [age EXCEPT ![j] = 0]
    /\ Goto(j, "begun")
    /\ UNCHANGED <<number, nextId, outcome, disk, handler, imported, previewVars,
                   sweepVars, starts>>

\* Cancelled in the queue: the work never runs, so it removes nothing.
Withdraw(j) ==
    /\ Registry!Withdraw(j)
    /\ age' = [age EXCEPT ![j] = 0]
    /\ outcome' = [outcome EXCEPT ![j] = "cancelled"]
    /\ Goto(j, "none")
    /\ UNCHANGED <<number, nextId, disk, handler, imported, previewVars, sweepVars, starts>>

Ask(j) ==
    /\ Registry!Ask(j)
    /\ age' = [age EXCEPT ![j] = 0]
    /\ UNCHANGED <<number, nextId, outcome, disk, handler, worker, imported, previewVars,
                   sweepVars, starts>>

EndWith(j, o) ==
    /\ Registry!End(j, o)
    /\ age' = [age EXCEPT ![j] = 0]
    /\ outcome' = [outcome EXCEPT ![j] = o]
    /\ Goto(j, "none")
    /\ UNCHANGED <<number, nextId, disk, handler, imported, previewVars, sweepVars, starts>>

\* Cancelled between dispatch and the start of its thread: the work never runs either.
NeverRun(j) ==
    /\ worker[j].at = "begun" /\ j \in asked
    /\ Goto(j, "cancelling")
    /\ UNCHANGED <<jobVars, disk, handler, imported, previewVars, sweepVars, starts>>

\* Db::open, which may fail; only run_import then removes its files first.
OpenDatabase(j) ==
    /\ worker[j].at = "begun"
    /\ \/ Goto(j, IF kind[j] = "Import" THEN "files" ELSE "writing") /\ UNCHANGED disk
       \/ Goto(j, "failing") /\ disk' = Removed(SavedDirs(j))
    /\ UNCHANGED <<jobVars, handler, imported, previewVars, sweepVars, starts>>

Idx(j) == worker[j].next

\* The next file of the batch: its transaction commits, or not; an error may also come after
\* the commit, from indexing.
ImportFile(j) ==
    /\ worker[j].at = "files" /\ Idx(j) <= handler[j].saved
    /\ \E commits, fails \in BOOLEAN :
         /\ commits => UploadDir(j, Idx(j)) \in OnDisk
         /\ ~commits => fails \/ j \in asked
         /\ worker' = [worker EXCEPT ![j].next = @ + 1, ![j].bad = @ \/ fails]
         /\ imported' = IF commits THEN [imported EXCEPT ![j] = @ \cup {Idx(j)}] ELSE imported
    /\ UNCHANGED <<jobVars, disk, handler, previewVars, sweepVars, starts>>

\* After the last file, or when the cancel flag is seen between two files.
CleanUp(j) ==
    /\ worker[j].at = "files"
    /\ Idx(j) > handler[j].saved \/ j \in asked
    /\ disk' = Removed(SavedDirs(j))
    /\ Goto(j, "cleaned")
    /\ UNCHANGED <<jobVars, handler, imported, previewVars, sweepVars, starts>>

\* Mutant: a file that failed does not fail its batch.
ConcludeWithoutFailures(j) ==
    /\ worker[j].at = "cleaned"
    /\ Goto(j, IF j \in asked THEN "cancelling" ELSE "succeeding")
    /\ UNCHANGED <<jobVars, disk, handler, imported, previewVars, sweepVars, starts>>

\* is_cancelled, then the failures decide.
Conclude(j) ==
    /\ worker[j].at = "cleaned"
    /\ Goto(j, IF j \in asked THEN "cancelling" ELSE IF worker[j].bad THEN "failing" ELSE "succeeding")
    /\ UNCHANGED <<jobVars, disk, handler, imported, previewVars, sweepVars, starts>>

\* export_selected: the file is written, or the directory is removed again.
WriteExport(j) ==
    /\ worker[j].at = "writing"
    /\ \/ /\ ExportDir(j) \in OnDisk
          /\ Goto(j, "succeeding")
          /\ UNCHANGED disk
       \/ /\ \/ Goto(j, "failing")
             \/ j \in asked /\ Goto(j, "cancelling")
          /\ disk' = Removed({ExportDir(j)})
    /\ UNCHANGED <<jobVars, handler, imported, previewVars, sweepVars, starts>>

\* succeed: a cancellation accepted by now wins.
Succeed(j) ==
    /\ worker[j].at = "succeeding"
    /\ EndWith(j, IF j \in asked THEN "cancelled" ELSE "succeeded")

Fail(j) == worker[j].at = "failing" /\ EndWith(j, "failed")
MarkCancelled(j) == worker[j].at = "cancelling" /\ EndWith(j, "cancelled")

\* prune, beyond the history limit.  The row of the outcome goes with the entry: it is written by
\* the thread that prunes next, and a history of other outcomes does not overtake that thread.
Forget(j) ==
    /\ Registry!Forget({j})
    /\ outcome' = [outcome EXCEPT ![j] = None]
    /\ UNCHANGED <<number, nextId, age, disk, handler, worker, imported,
                   previewVars, sweepVars, starts>>
----------------------------------------------------------------------------
(* Previews                                                                *)

Previewing == {p \in Previews : preview[p] \in {"admitted", "writing", "reading"}}

MayPreview == permits < PreviewLimit

\* acquire_preview; a preview that is busy is refused.
AdmitPreview(p) ==
    /\ preview[p] = "none" /\ MayPreview
    /\ preview' = [preview EXCEPT ![p] = "admitted"]
    /\ permits' = permits + 1
    /\ UNCHANGED <<jobVars, disk, handler, worker, imported, sweepVars, starts>>

\* sweep_stale_peeks, then the new file.
ReceivePreview(p) ==
    /\ preview[p] = "admitted"
    /\ LET stale == {Peek(q) : q \in {q \in Previews : Peek(q) \in OnDisk /\ disk[Peek(q)] >= PeekTtl}}
       IN  disk' = [Removed(stale) EXCEPT ![Peek(p)] = 0]
    /\ preview' = [preview EXCEPT ![p] = "writing"]
    /\ UNCHANGED <<jobVars, permits, handler, worker, imported, sweepVars, starts>>

ReadPreview(p) ==
    /\ preview[p] = "writing"
    /\ preview' = [preview EXCEPT ![p] = "reading"]
    /\ UNCHANGED <<jobVars, permits, disk, handler, worker, imported, sweepVars, starts>>

\* The answer keeps the file for the import to claim; an error removes it; a handler that is
\* dropped leaves it without telling its token.
EndPreview(p) ==
    /\ p \in Previewing
    /\ \/ preview[p] = "reading" /\ preview' = [preview EXCEPT ![p] = "kept"] /\ UNCHANGED disk
       \/ preview' = [preview EXCEPT ![p] = "ended"] /\ (UNCHANGED disk \/ disk' = Removed({Peek(p)}))
    /\ permits' = IF permits > 0 THEN permits - 1 ELSE 0
    /\ UNCHANGED <<jobVars, handler, worker, imported, sweepVars, starts>>
----------------------------------------------------------------------------
(* The artifact cleanup, over the job list it starts with                  *)

\* artifact_name_matches: the entry was made for the request of job j.
\* Mutant: only the token itself matches, and upload directories have a suffix.
MatchesToken(a, j) == a = ExportDir(j)
Matches(a, j) == a = ExportDir(j) \/ a \in UploadDirs(j)

Ttl(a) == IF a[1] = "export" THEN ExportTtl ELSE UploadTtl

\* Mutant: the age of the entry counts, whatever became of its job since.
ReferenceAgeOfEntry(a, ph, ages) == disk[a]

\* The age cleanup goes by: of the job the entry belongs to, or else of the entry.
ReferenceAge(a, ph, ages) ==
    LET owners == {j \in Jobs : Matches(a, j) /\ ph[j] \notin {"absent", "forgotten"}}
    IN  IF owners = {} THEN disk[a] ELSE ages[CHOOSE j \in owners : TRUE]

\* Mutant: any job in the history protects its files.
ProtectedByHistory(a, ph) == \E j \in Jobs : Matches(a, j) /\ ph[j] \notin {"absent", "forgotten"}
Protected(a, ph) == \E j \in Jobs : Matches(a, j) /\ ph[j] \in {"queued", "running"}

\* A sweep over the jobs as they are now.
SweepOver(ph, ages) ==
    [on     |-> TRUE,
     listed |-> OnDisk,
     doomed |-> {a \in OnDisk : ~Protected(a, ph) /\ ReferenceAge(a, ph, ages) >= Ttl(a)}]

StartSweep ==
    /\ ~sweep.on /\ ~swept
    /\ sweep' = SweepOver(phase, age)
    /\ UNCHANGED <<jobVars, disk, handler, worker, imported, previewVars, swept, starts>>

\* Uploads and previews come before exports.
SweepEntry(a) ==
    /\ sweep.on /\ a \in sweep.doomed \cap OnDisk
    /\ a[1] = "export" => \A b \in sweep.doomed : b[1] = "export"
    /\ disk' = Removed({a})
    /\ sweep' = [sweep EXCEPT !.doomed = @ \ {a}, !.listed = @ \ {a}]
    /\ UNCHANGED <<jobVars, handler, worker, imported, previewVars, swept, starts>>

\* All is done; or an entry that vanished after it was listed ends the sweep with an error.
EndSweep ==
    /\ sweep.on
    /\ sweep.doomed = {} \/ ~(sweep.listed \subseteq OnDisk)
    /\ sweep' = NoSweep
    /\ swept' = TRUE
    /\ UNCHANGED <<jobVars, disk, handler, worker, imported, previewVars, starts>>
----------------------------------------------------------------------------
(* Time and restarts                                                       *)

Older(n) == IF n < MaxAge THEN n + 1 ELSE n

\* Uploads and exports are received and submitted within the time to live of their
\* directories, and a sweep takes no time next to one.
InTime(j) ==
    handler[j].at \in {"form", "streaming", "claiming", "ready"} =>
        \A a \in OnDisk : Matches(a, j) => Older(disk[a]) < Ttl(a)

\* A preview file that is being written stays young.
Tick ==
    /\ ~sweep.on
    /\ \A j \in Jobs : InTime(j)
    /\ disk' = [a \in Entries |->
           IF disk[a] = None \/ \E p \in Previews : preview[p] = "writing" /\ a = Peek(p)
           THEN disk[a] ELSE Older(disk[a])]
    /\ age' = [j \in Jobs |-> Older(age[j])]
    /\ swept' = FALSE
    /\ UNCHANGED <<kind, phase, asked, number, nextId, outcome, handler, worker, imported,
                   previewVars, sweep, starts>>

\* Mutant: rows of jobs that had not ended are taken as they are.
RecoveredAsStored(j) ==
    IF phase[j] = "absent" THEN {"absent"}
    ELSE IF number[j] = 0 THEN {"forgotten"}
    ELSE {"forgotten"} \cup (IF outcome[j] = None THEN {phase[j]} ELSE {outcome[j]})

\* What open makes of the row it finds for a job: none, one of before the end, the last one.
\* A row is missing when it could not be written, and late when an older snapshot overwrote it
\* or brought it back.
Recovered(j) ==
    IF phase[j] = "absent" THEN {"absent"}
    ELSE IF number[j] = 0 THEN {"forgotten"}
    ELSE {"forgotten", "failed"} \cup (IF outcome[j] = None THEN {} ELSE {outcome[j]})

HighestId(ph) == Max({0} \cup {number[j] : j \in {j \in Jobs : ph[j] \notin {"absent", "forgotten"}}})
IdAfter(ph) == HighestId(ph) + 1

\* The server ends at any point and starts again: rows are read back, work that was under way
\* becomes failed, ids continue, and a first sweep runs.
Restart ==
    /\ starts < MaxStarts
    /\ starts' = starts + 1
    /\ phase' \in {ph \in [Jobs -> Registry!Phase] : \A j \in Jobs : ph[j] \in Recovered(j)}
    /\ age' = [j \in Jobs |-> IF phase'[j] # "failed" \/ outcome[j] = "failed" THEN age[j] ELSE 0]
    /\ outcome' = [j \in Jobs |-> IF phase'[j] \in Outcome THEN phase'[j] ELSE outcome[j]]
    /\ number' = [j \in Jobs |-> IF phase'[j] = "forgotten" THEN 0 ELSE number[j]]
    /\ nextId' = IdAfter(phase')
    /\ asked' = {}
    /\ handler' = [j \in Jobs |-> IF handler[j].at = "none" THEN NoHandler
                                  ELSE [handler[j] EXCEPT !.at = "done"]]
    /\ worker' = [j \in Jobs |-> [worker[j] EXCEPT !.at = "none"]]
    /\ preview' = [p \in Previews |-> IF p \in Previewing THEN "ended" ELSE preview[p]]
    /\ permits' = 0
    /\ sweep' = SweepOver(phase', age')
    /\ UNCHANGED <<kind, disk, imported, swept>>

Init ==
    /\ Registry!Init
    /\ number = [j \in Jobs |-> 0]
    /\ nextId = 1
    /\ age = [j \in Jobs |-> 0]
    /\ outcome = [j \in Jobs |-> None]
    /\ disk = [a \in Entries |-> None]
    /\ handler = [j \in Jobs |-> NoHandler]
    /\ worker = [j \in Jobs |-> NoWorker]
    /\ imported = [j \in Jobs |-> {}]
    /\ preview = [p \in Previews |-> "none"]
    /\ permits = 0
    /\ sweep = NoSweep
    /\ swept = FALSE
    /\ starts = 0

HandlerStep(j) ==
    \/ StartFile(j) \/ FinishFile(j) \/ ClaimPreview(j) \/ MakeExportDir(j) \/ Submit(j) \/ GiveUp(j)
    \/ \E p \in Previews : ResolvePreview(j, p)

WorkerStep(j) ==
    \/ Begin(j) \/ NeverRun(j) \/ OpenDatabase(j) \/ ImportFile(j) \/ CleanUp(j) \/ Conclude(j)
    \/ WriteExport(j) \/ Succeed(j) \/ Fail(j) \/ MarkCancelled(j)

PreviewStep(p) == ReceivePreview(p) \/ ReadPreview(p) \/ EndPreview(p)

SweepStep == EndSweep \/ \E a \in Entries : SweepEntry(a)

Next ==
    \/ \E j \in Jobs : Reserve(j) \/ HandlerStep(j) \/ WorkerStep(j) \/ Withdraw(j) \/ Ask(j) \/ Forget(j)
    \/ \E p \in Previews : AdmitPreview(p) \/ PreviewStep(p)
    \/ StartSweep
    \/ SweepStep
    \/ Tick
    \/ Restart

\* Threads run, clients finish or go away, work ends, the timer fires and time passes.
Fairness ==
    /\ \A j \in Jobs : WF_vars(HandlerStep(j)) /\ WF_vars(WorkerStep(j))
    /\ \A p \in Previews : WF_vars(PreviewStep(p))
    /\ WF_vars(StartSweep) /\ WF_vars(SweepStep) /\ WF_vars(Tick)

Spec == Init /\ [][Next]_vars /\ Fairness
----------------------------------------------------------------------------
Age == 0..MaxAge

(* Type invariant.                                                         *)
TypeOK ==
    /\ Registry!TypeOK
    /\ number \in [Jobs -> Nat] /\ nextId \in Nat \ {0}
    /\ age \in [Jobs -> Age]
    /\ outcome \in [Jobs -> Outcome \cup {None}]
    /\ disk \in [Entries -> Age \cup {None}]
    /\ handler \in [Jobs -> [at : {"none", "form", "streaming", "claiming", "ready", "done"},
                             saved : 0..Files, source : Previews \cup {None}]]
    /\ worker \in [Jobs -> [at : {"none", "queued", "begun", "files", "cleaned", "writing",
                                  "failing", "cancelling", "succeeding"},
                            next : 1..(Files + 1), bad : BOOLEAN]]
    /\ imported \in [Jobs -> SUBSET (1..Files)]
    /\ preview \in [Previews -> {"none", "admitted", "writing", "reading", "kept", "ended"}]
    /\ permits \in Nat
    /\ sweep \in [on : BOOLEAN, listed : SUBSET Entries, doomed : SUBSET Entries]
    /\ swept \in BOOLEAN /\ starts \in 0..MaxStarts

(* An import that is queued or running has the files it has not imported   *)
(* yet, and no other import has the same preview: no sweep that goes by an *)
(* older job list, no other request and no earlier clean-up took them.     *)
ImportsHaveTheirFiles ==
    \A j \in Jobs : kind[j] = "Import" /\ worker[j].at \in {"queued", "begun", "files"} =>
        /\ \A k \in worker[j].next..handler[j].saved : UploadDir(j, k) \in OnDisk
        /\ \A i \in Jobs \ {j} : worker[i].at # "none" /\ handler[j].source # None
                                   => handler[i].source # handler[j].source

(* A finished export that is younger than the time to live can be          *)
(* downloaded, before and after a restart: its directory is there however  *)
(* old it was when the export ended.                                       *)
ExportsAreServed ==
    \A j \in Jobs : kind[j] = "Export" /\ phase[j] = "succeeded" /\ age[j] < ExportTtl
        => ExportDir(j) \in OnDisk

(* An import that is reported as succeeded has imported each of its files: *)
(* no file failed, no cancellation between two files cut the batch short   *)
(* unnoticed, and no restart made a success of less.                       *)
BatchIsHonest ==
    \A j \in Jobs : kind[j] = "Import" /\ phase[j] = "succeeded" => imported[j] = 1..handler[j].saved

(* After a restart the registry lists a job as queued or running only if   *)
(* this server works on it, and no two jobs under one id.                  *)
HistoryIsRecovered ==
    /\ \A j \in Jobs : Active(j) => worker[j].at # "none"
    /\ \A i, j \in Listed : number[i] = number[j] => i = j

(* Nothing stays on disk for ever: what a request, a job, a preview or a   *)
(* server that ended left behind is removed in the end.                    *)
LeftoversGo == \A a \in Entries : a \in OnDisk ~> a \notin OnDisk
=============================================================================
