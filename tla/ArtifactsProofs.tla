--------------------------- MODULE ArtifactsProofs ---------------------------
(***************************************************************************)
(* Theorems about Artifacts, for any jobs and previews, any number of      *)
(* files in a request and any times to live.                               *)
(***************************************************************************)
EXTENDS Artifacts, FiniteSetTheorems, TLAPS

HandlerStates ==
    [at : {"none", "form", "streaming", "claiming", "ready", "done"}, saved : 0..Files,
     source : Previews \cup {None}]
WorkerStates ==
    [at : {"none", "queued", "begun", "files", "cleaned", "writing", "failing", "cancelling", "succeeding"},
     next : 1..(Files + 1), bad : BOOLEAN]

Receiving(j) == handler[j].at \in {"form", "streaming", "claiming", "ready"}

\* What a request under way has done so far.
HandlerOK(j) ==
    /\ handler[j].at = "none" => handler[j] = NoHandler
    /\ handler[j].at \in {"form", "streaming"} => handler[j].source = None
    /\ handler[j].at = "streaming" => handler[j].saved < Files
    /\ handler[j].at = "claiming" => handler[j].saved = 0 /\ handler[j].source \in Previews
    /\ handler[j].at \in {"streaming", "claiming"} \/ handler[j].saved > 0 => kind[j] = "Import"

\* How the states of a request, of its job, of the work and of the row go together.
LifeOK(j) ==
    /\ handler[j].at # "done" => phase[j] = "absent"
    /\ phase[j] = "absent" => worker[j] = NoWorker /\ number[j] = 0 /\ outcome[j] = None /\ imported[j] = {}
    /\ worker[j].at = "queued" <=> phase[j] = "queued"
    /\ worker[j].at \notin {"none", "queued"} <=> phase[j] = "running"
    /\ Active(j) => outcome[j] = None
    /\ phase[j] \notin {"absent", "forgotten"} => number[j] # 0
    /\ phase[j] \in Outcome => outcome[j] = phase[j]
    /\ outcome[j] # None /\ number[j] # 0 => phase[j] = outcome[j]

\* Ids are given once, and after a restart from above those that are listed.
NumbersOK ==
    /\ \A j \in Jobs : number[j] < nextId
    /\ \A i, j \in Jobs : number[i] = number[j] /\ number[i] # 0 => i = j

\* How far the batch has come.
BatchOK(j) ==
    /\ worker[j].at \in {"queued", "begun"} => worker[j].next = 1 /\ imported[j] = {} /\ ~worker[j].bad
    /\ worker[j].at \in {"files", "cleaned"} => kind[j] = "Import" /\ worker[j].next <= handler[j].saved + 1
    /\ worker[j].at = "writing" => kind[j] # "Import"
    /\ worker[j].at \in {"files", "cleaned"} /\ ~worker[j].bad /\ j \notin asked
         => imported[j] = 1..(worker[j].next - 1)
    /\ worker[j].at = "cleaned" /\ j \notin asked => worker[j].next > handler[j].saved
    /\ kind[j] = "Import" /\ worker[j].at = "succeeding" /\ j \notin asked => imported[j] = 1..handler[j].saved
    /\ kind[j] = "Import" /\ outcome[j] = "succeeded" => imported[j] = 1..handler[j].saved

\* The directories of a job, and the sweep that is under way.
DirsOK(j) ==
    /\ handler[j].at = "none" => \A a \in OnDisk : ~Matches(a, j)
    /\ Receiving(j) =>
        /\ \A k \in 1..handler[j].saved : UploadDir(j, k) \in OnDisk
        /\ \A a \in OnDisk : Matches(a, j) => disk[a] < Ttl(a)
    /\ handler[j].at = "claiming" => UploadDir(j, 1) \in OnDisk
    /\ handler[j].at = "streaming" => UploadDir(j, handler[j].saved + 1) \in OnDisk
    /\ handler[j].at = "ready" /\ kind[j] = "Export" => ExportDir(j) \in OnDisk
    /\ kind[j] = "Import" /\ worker[j].at \in {"queued", "begun", "files"} =>
        \A k \in 1..handler[j].saved : UploadDir(j, k) \in OnDisk
    /\ kind[j] = "Export" /\ worker[j].at = "succeeding" => ExportDir(j) \in OnDisk
    /\ handler[j].at # "done" \/ Active(j) => \A a \in sweep.doomed : ~Matches(a, j)
    /\ kind[j] = "Export" /\ phase[j] = "succeeded" /\ age[j] < ExportTtl =>
        ExportDir(j) \in OnDisk /\ ExportDir(j) \notin sweep.doomed

\* A job that has claimed a preview has it alone, and it does not come back.
Owner(j) == (handler[j].at = "ready" \/ worker[j].at # "none") /\ handler[j].source # None

SourcesOK ==
    /\ \A j \in Jobs : handler[j].at = "claiming" \/ Owner(j) => preview[handler[j].source] = "kept"
    /\ \A j \in Jobs : Owner(j) => handler[j].source \in Previews /\ Peek(handler[j].source) \notin OnDisk
    /\ \A i, j \in Jobs : Owner(i) /\ Owner(j) /\ handler[i].source = handler[j].source => i = j

SweepOK == ~sweep.on => sweep.doomed = {}

JobOK(j) == HandlerOK(j) /\ LifeOK(j) /\ BatchOK(j) /\ DirsOK(j)

IInv ==
    /\ TypeOK
    /\ \A j \in Jobs : JobOK(j)
    /\ NumbersOK /\ SourcesOK /\ SweepOK
----------------------------------------------------------------------------
(* Names of directory entries.                                             *)

\* An entry is named after one job or one preview.
LEMMA EntryNames ==
    /\ \A i, j \in Jobs : \A k, l : UploadDir(i, k) = UploadDir(j, l) <=> i = j /\ k = l
    /\ \A j \in Jobs : \A k : UploadDir(j, k) \in UploadDirs(j) <=> k \in 1..Files
    /\ \A i, j \in Jobs : \A a : Matches(a, i) /\ Matches(a, j) => i = j
    /\ \A p \in Previews, j \in Jobs : ~Matches(Peek(p), j)
    /\ \A p, q \in Previews : Peek(p) = Peek(q) => p = q
BY DEF UploadDir, UploadDirs, ExportDir, Peek, Matches

\* The directories of a job are entries, and each kind has its time to live.
LEMMA EntryKinds ==
    /\ \A j \in Jobs, k \in 1..Files : UploadDir(j, k) \in Entries /\ Matches(UploadDir(j, k), j)
                                       /\ Ttl(UploadDir(j, k)) = UploadTtl
    /\ \A j \in Jobs : ExportDir(j) \in Entries /\ Matches(ExportDir(j), j) /\ Ttl(ExportDir(j)) = ExportTtl
                       /\ ~(ExportDir(j) \in UploadDirs(j))
    /\ \A p \in Previews : Peek(p) \in Entries
    /\ \A a, j : Matches(a, j) /\ j \in Jobs => a \in Entries
<1>1. \A j \in Jobs, k \in 1..Files : UploadDir(j, k) \in UploadDirs(j)
    BY DEF UploadDirs
<1>2. \A j \in Jobs : UploadDirs(j) \subseteq Entries /\ ExportDir(j) \in Entries
    BY DEF Entries
<1>3. \A p \in Previews : Peek(p) \in Entries
    BY DEF Entries
<1>4. \A j, k : Ttl(UploadDir(j, k)) = UploadTtl /\ Ttl(ExportDir(j)) = ExportTtl
    BY DEF Ttl, UploadDir, ExportDir
<1>5. \A j \in Jobs : ~(ExportDir(j) \in UploadDirs(j))
    BY DEF UploadDirs, UploadDir, ExportDir
<1> QED
    BY <1>1, <1>2, <1>3, <1>4, <1>5 DEF Matches

\* What removing entries, or making one, does to the disk.
LEMMA RemovedDisk ==
    ASSUME TypeOK, NEW A, disk' = Removed(A)
    PROVE  /\ disk' \in [Entries -> Age \cup {None}]
           /\ OnDisk' = OnDisk \ A
           /\ \A a \in OnDisk' : disk'[a] = disk[a]
<1>1. \A a \in Entries : disk'[a] = IF a \in A THEN None ELSE disk[a]
    BY DEF Removed
<1>2. disk' \in [Entries -> Age \cup {None}]
    BY DEF Removed, TypeOK
<1>3. OnDisk' = OnDisk \ A
    BY <1>1 DEF OnDisk
<1> QED
    BY <1>1, <1>2, <1>3 DEF OnDisk

\* A directory that is made is new.
LEMMA MadeOnDisk ==
    ASSUME TypeOK, NEW d \in Entries, disk' = [disk EXCEPT ![d] = 0]
    PROVE  /\ disk' \in [Entries -> Age \cup {None}]
           /\ OnDisk' = OnDisk \cup {d}
           /\ disk'[d] = 0 /\ \A a \in OnDisk : a # d => disk'[a] = disk[a]
<1>1. 0 \in Age /\ 0 # None
    BY TtlAssumption, NoneAssumption DEF Age
<1>2. disk' \in [Entries -> Age \cup {None}] /\ disk'[d] = 0 /\ \A a \in Entries \ {d} : disk'[a] = disk[a]
    BY <1>1 DEF TypeOK
<1>3. OnDisk' = OnDisk \cup {d}
    BY <1>1, <1>2 DEF OnDisk
<1> QED
    BY <1>2, <1>3 DEF OnDisk

\* Ages grow, up to the bound.
LEMMA Older0 == \A n \in Age : Older(n) \in Age /\ n <= Older(n)
BY TtlAssumption DEF Age, Older
----------------------------------------------------------------------------
(* What most steps leave alone.                                            *)

\* A step that leaves job i alone.
Leaves(i) ==
    /\ kind'[i] = kind[i] /\ phase'[i] = phase[i] /\ number'[i] = number[i] /\ outcome'[i] = outcome[i]
    /\ handler'[i] = handler[i] /\ worker'[i] = worker[i] /\ imported'[i] = imported[i]
    /\ age'[i] = age[i] /\ (i \in asked' <=> i \in asked)

\* It takes from the directories of job i only what the sweep was to remove.
KeepsDirs(i) ==
    /\ \A a \in Entries : Matches(a, i) =>
        /\ a \in OnDisk' => a \in OnDisk /\ disk'[a] = disk[a]
        /\ a \in OnDisk => a \in OnDisk' \/ a \in sweep.doomed
    /\ sweep'.doomed \subseteq sweep.doomed

\* The directories of a job stay as they should be when none but doomed ones are taken.
LEMMA DirsKept ==
    ASSUME TypeOK, NEW i \in Jobs, HandlerOK(i), LifeOK(i), DirsOK(i), Leaves(i), KeepsDirs(i)
    PROVE  DirsOK(i)'
<1>1. /\ \A k \in 1..Files : UploadDir(i, k) \in Entries /\ Matches(UploadDir(i, k), i)
      /\ ExportDir(i) \in Entries /\ Matches(ExportDir(i), i) /\ OnDisk \subseteq Entries /\ OnDisk' \subseteq Entries
    BY EntryKinds DEF OnDisk
<1>2. handler[i] \in HandlerStates /\ Files \in Nat /\ Files > 0
    BY SizeAssumption DEF TypeOK, HandlerStates
<1>3. handler[i].saved \in 0..Files /\ \A k \in 1..handler[i].saved : k \in 1..Files
    BY <1>2 DEF HandlerStates
<1>4. handler[i].at # "done" => phase[i] = "absent"
    BY DEF LifeOK
<1>5. worker[i].at \in {"queued", "begun", "files", "succeeding"} => phase[i] \in {"queued", "running"}
    BY DEF LifeOK
<1>6. handler[i].at # "done" \/ phase[i] \in {"queued", "running"} =>
          \A a \in Entries : Matches(a, i) => (a \in OnDisk => a \in OnDisk') /\ a \notin sweep'.doomed
    BY DEF DirsOK, KeepsDirs, Active
<1>7. \A a \in Entries : Matches(a, i) /\ a \in OnDisk' => a \in OnDisk /\ disk'[a] = disk[a]
    BY DEF KeepsDirs
<1>8. handler[i].at = "none" => \A a \in OnDisk' : ~Matches(a, i)
    BY <1>1, <1>7 DEF DirsOK
<1>9. Receiving(i) => /\ \A k \in 1..handler[i].saved : UploadDir(i, k) \in OnDisk'
                      /\ \A a \in OnDisk' : Matches(a, i) => disk'[a] < Ttl(a)
    BY <1>1, <1>3, <1>6, <1>7 DEF DirsOK, Receiving
<1>10. /\ handler[i].at = "claiming" => UploadDir(i, 1) \in OnDisk'
       /\ handler[i].at = "ready" /\ kind[i] = "Export" => ExportDir(i) \in OnDisk'
       /\ kind[i] = "Import" /\ worker[i].at \in {"queued", "begun", "files"} =>
            \A k \in 1..handler[i].saved : UploadDir(i, k) \in OnDisk'
       /\ kind[i] = "Export" /\ worker[i].at = "succeeding" => ExportDir(i) \in OnDisk'
    BY <1>1, <1>2, <1>3, <1>5, <1>6 DEF DirsOK
<1>11. handler[i].at = "streaming" => UploadDir(i, handler[i].saved + 1) \in OnDisk'
    <2>1. SUFFICES ASSUME handler[i].at = "streaming" PROVE UploadDir(i, handler[i].saved + 1) \in OnDisk'
        OBVIOUS
    <2>2. UploadDir(i, handler[i].saved + 1) \in OnDisk
        BY <2>1 DEF DirsOK
    <2>3. handler[i].saved + 1 \in 1..Files
        BY <1>2, <1>3, <2>1 DEF HandlerOK
    <2> QED
        BY <1>1, <1>6, <2>1, <2>2, <2>3
<1>12. handler[i].at # "done" \/ Active(i) => \A a \in sweep'.doomed : ~Matches(a, i)
    BY DEF DirsOK, KeepsDirs
<1>13. kind[i] = "Export" /\ phase[i] = "succeeded" /\ age[i] < ExportTtl =>
           ExportDir(i) \in OnDisk' /\ ExportDir(i) \notin sweep'.doomed
    BY <1>1 DEF DirsOK, KeepsDirs
<1> QED
    BY <1>8, <1>9, <1>10, <1>11, <1>12, <1>13 DEF DirsOK, Leaves, Receiving, Active

\* A job that a step leaves alone stays as it should be.
LEMMA JobKept ==
    ASSUME TypeOK, NEW i \in Jobs, JobOK(i), Leaves(i), KeepsDirs(i)
    PROVE  JobOK(i)'
<1>1. DirsOK(i)'
    BY DirsKept DEF JobOK
<1>2. HandlerOK(i)'
    BY DEF JobOK, HandlerOK, Leaves, NoHandler
<1>3. LifeOK(i)'
    BY DEF JobOK, LifeOK, Leaves, Active
<1>4. BatchOK(i)'
    BY DEF JobOK, BatchOK, Leaves
<1> QED
    BY <1>1, <1>2, <1>3, <1>4 DEF JobOK

\* Claims of previews that a step leaves, or drops.
LEMMA SourcesKept ==
    ASSUME SourcesOK,
           \A i \in Jobs : Owner(i)' => Owner(i) /\ handler'[i].source = handler[i].source,
           \A i \in Jobs : handler'[i].at = "claiming" =>
               handler[i].at = "claiming" /\ handler'[i].source = handler[i].source,
           \A p : preview[p] = "kept" => preview'[p] = "kept",
           \A p \in Previews : preview[p] = "kept" /\ Peek(p) \in OnDisk' => Peek(p) \in OnDisk
    PROVE  SourcesOK'
BY DEF SourcesOK

\* Most steps give no id.
LEMMA NumbersKept ==
    ASSUME NumbersOK, UNCHANGED <<number, nextId>>
    PROVE  NumbersOK'
BY DEF NumbersOK

\* A step of a request, which is not yet a job.
LEMMA RequestMoves ==
    ASSUME IInv, NEW j \in Jobs, handler[j].at # "done", NEW h \in HandlerStates,
           handler' = [handler EXCEPT ![j] = h],
           UNCHANGED <<jobVars, worker, imported, previewVars, sweepVars, starts>>,
           disk' \in [Entries -> Age \cup {None}],
           HandlerOK(j)', DirsOK(j)', \A i \in Jobs \ {j} : KeepsDirs(i), SourcesOK'
    PROVE  IInv'
<1> USE DEF IInv
<1>1. handler'[j] = h /\ \A i \in Jobs \ {j} : handler'[i] = handler[i]
    BY DEF TypeOK
<1>2. TypeOK'
    BY DEF TypeOK, HandlerStates, jobVars, previewVars, sweepVars, Registry!TypeOK
<1>3. JobOK(j)'
    <2>1. LifeOK(j)'
        BY <1>1 DEF JobOK, LifeOK, Active, jobVars
    <2>2. worker[j].at = "none" /\ outcome[j] = None
        BY DEF JobOK, LifeOK, NoWorker
    <2>3. BatchOK(j)'
        BY <1>1, <2>2, NoneAssumption DEF BatchOK, jobVars, Outcome
    <2> QED
        BY <2>1, <2>3 DEF JobOK
<1>4. ASSUME NEW i \in Jobs, i # j PROVE JobOK(i)'
    <2>1. Leaves(i)
        BY <1>1, <1>4 DEF Leaves, jobVars
    <2> QED
        BY <1>4, <2>1, JobKept
<1>5. NumbersOK' /\ SweepOK'
    BY NumbersKept DEF SweepOK, sweepVars, jobVars
<1> QED
    BY <1>2, <1>3, <1>4, <1>5
----------------------------------------------------------------------------
(* Steps of a request.                                                     *)

\* Making a directory of one job leaves those of the others alone, and so does removing some.
LEMMA OthersKeepDirs ==
    ASSUME NEW j \in Jobs, NEW d, \A i \in Jobs \ {j} : ~Matches(d, i),
           OnDisk' = OnDisk \cup {d}, \A a \in OnDisk : a # d => disk'[a] = disk[a], UNCHANGED sweep
    PROVE  \A i \in Jobs \ {j} : KeepsDirs(i)
BY DEF KeepsDirs

\* Removing a set of entries of one job.
LEMMA OthersKeepRemoved ==
    ASSUME NEW j \in Jobs, NEW A, \A a \in A : \A i \in Jobs \ {j} : ~Matches(a, i),
           OnDisk' = OnDisk \ A, \A a \in OnDisk' : disk'[a] = disk[a], UNCHANGED sweep
    PROVE  \A i \in Jobs \ {j} : KeepsDirs(i)
BY DEF KeepsDirs

\* Removing a single entry that is no other job's.
LEMMA OthersKeepRemovedOne ==
    ASSUME NEW j \in Jobs, NEW d, \A i \in Jobs \ {j} : ~Matches(d, i),
           OnDisk' = OnDisk \ {d}, \A a \in OnDisk' : disk'[a] = disk[a], UNCHANGED sweep
    PROVE  \A i \in Jobs \ {j} : KeepsDirs(i)
BY DEF KeepsDirs

\* The directories of a job are no other job's, and no previews.
LEMMA OwnEntries ==
    ASSUME NEW j \in Jobs
    PROVE  /\ \A k : \A i \in Jobs \ {j} : ~Matches(UploadDir(j, k), i)
           /\ \A i \in Jobs \ {j} : ~Matches(ExportDir(j), i)
           /\ \A k : UploadDir(j, k) # ExportDir(j)
           /\ \A p, k : Peek(p) # UploadDir(j, k) /\ Peek(p) # ExportDir(j)
BY DEF Matches, UploadDirs, UploadDir, ExportDir, Peek

\* What is known of a request that is under way.
LEMMA RequestFacts ==
    ASSUME IInv, NEW j \in Jobs, handler[j].at # "done"
    PROVE  /\ handler \in [Jobs -> HandlerStates] /\ handler[j] \in HandlerStates
           /\ phase[j] = "absent" /\ worker[j] = NoWorker /\ worker[j].at = "none"
           /\ (~Active(j) /\ ~Owner(j)) \/ handler[j].at = "ready"
           /\ \A a \in sweep.doomed : ~Matches(a, j)
           /\ HandlerOK(j) /\ DirsOK(j) /\ LifeOK(j)
<1>1. JobOK(j) /\ TypeOK
    BY DEF IInv
<1> QED
    BY <1>1 DEF TypeOK, HandlerStates, JobOK, LifeOK, DirsOK, Active, NoWorker, Owner

\* A request that has ended before there is a job.
LEMMA RequestEnds ==
    ASSUME IInv, NEW j \in Jobs, handler[j].at # "done", HandlerDone(j),
           UNCHANGED <<jobVars, worker, imported, previewVars, sweepVars, starts>>,
           disk' \in [Entries -> Age \cup {None}], \A i \in Jobs \ {j} : KeepsDirs(i),
           \A p \in Previews : Peek(p) \in OnDisk' => Peek(p) \in OnDisk
    PROVE  IInv'
<1>1. handler[j] \in HandlerStates /\ handler \in [Jobs -> HandlerStates] /\ phase[j] = "absent"
      /\ worker[j].at = "none" /\ HandlerOK(j)
    BY RequestFacts
<1> DEFINE h == [handler[j] EXCEPT !.at = "done"]
<1>2. h \in HandlerStates /\ h.at = "done" /\ h.saved = handler[j].saved /\ h.source = handler[j].source
    BY <1>1 DEF HandlerStates
<1>3. handler' = [handler EXCEPT ![j] = h]
    BY <1>1 DEF HandlerDone
<1> HIDE DEF h
<1>4. handler'[j] = h /\ \A i \in Jobs \ {j} : handler'[i] = handler[i]
    BY <1>1, <1>3
<1>5. HandlerOK(j)'
    BY <1>1, <1>2, <1>4 DEF HandlerOK, jobVars
<1>6. DirsOK(j)'
    BY <1>1, <1>2, <1>4 DEF DirsOK, jobVars, Active, Receiving
<1>7. SourcesOK'
    <2>1. ~Owner(j)' /\ handler'[j].at # "claiming"
        BY <1>1, <1>2, <1>4 DEF Owner
    <2>2. \A i \in Jobs \ {j} : (Owner(i)' <=> Owner(i)) /\ handler'[i] = handler[i]
        BY <1>4 DEF Owner
    <2>3. SourcesOK
        BY DEF IInv
    <2> QED
        BY <2>1, <2>2, <2>3, SourcesKept DEF previewVars
<1> QED
    BY <1>2, <1>3, <1>5, <1>6, <1>7, RequestMoves

\* A request arrives.
LEMMA ReserveInv == ASSUME IInv, NEW j \in Jobs, Reserve(j) PROVE IInv'
<1>1. handler[j].at = "none"
    BY DEF Reserve
<1>2. handler[j] \in HandlerStates /\ handler \in [Jobs -> HandlerStates] /\ phase[j] = "absent"
      /\ worker[j].at = "none" /\ HandlerOK(j) /\ DirsOK(j) /\ \A a \in sweep.doomed : ~Matches(a, j)
    BY <1>1, RequestFacts
<1> DEFINE h == [handler[j] EXCEPT !.at = "form"]
<1>3. h \in HandlerStates /\ h.at = "form" /\ h.saved = 0 /\ h.source = None
    BY <1>1, <1>2 DEF HandlerStates, HandlerOK, NoHandler
<1>4. handler' = [handler EXCEPT ![j] = h] /\ disk' = disk
    BY <1>2 DEF Reserve
<1> HIDE DEF h
<1>5. handler'[j] = h /\ OnDisk' = OnDisk /\ \A i \in Jobs \ {j} : handler'[i] = handler[i]
    BY <1>2, <1>4 DEF OnDisk
<1>6. HandlerOK(j)'
    BY <1>3, <1>5 DEF HandlerOK
<1>7. UNCHANGED <<jobVars, worker, imported, previewVars, sweepVars, starts>> /\ UNCHANGED sweep
    BY DEF Reserve, sweepVars
<1>8. DirsOK(j)'
    BY <1>1, <1>2, <1>3, <1>4, <1>5, <1>7 DEF DirsOK, jobVars, Active, Receiving
<1>9. \A i \in Jobs \ {j} : KeepsDirs(i)
    BY <1>4, <1>5, <1>7 DEF KeepsDirs
<1>10. SourcesOK'
    <2>1. \A i \in Jobs : Owner(i)' => Owner(i) /\ handler'[i] = handler[i]
        BY <1>2, <1>3, <1>5, <1>7 DEF Owner
    <2>2. \A i \in Jobs : handler'[i].at = "claiming" => handler'[i] = handler[i]
        BY <1>3, <1>5
    <2> QED
        BY <1>5, <1>7, <2>1, <2>2, SourcesKept DEF previewVars, IInv
<1> QED
    BY <1>1, <1>3, <1>4, <1>6, <1>7, <1>8, <1>9, <1>10, RequestMoves DEF IInv, TypeOK

\* The directory of one more file.
LEMMA StartFileInv == ASSUME IInv, NEW j \in Jobs, StartFile(j) PROVE IInv'
<1>1. handler[j].at = "form" /\ handler[j].saved < Files /\ kind[j] = "Import"
    BY DEF StartFile
<1>2. handler[j] \in HandlerStates /\ handler \in [Jobs -> HandlerStates] /\ phase[j] = "absent"
      /\ worker[j].at = "none" /\ HandlerOK(j) /\ DirsOK(j) /\ \A a \in sweep.doomed : ~Matches(a, j)
    BY <1>1, RequestFacts
<1> DEFINE h == [handler[j] EXCEPT !.at = "streaming"]
           k == handler[j].saved + 1
<1>3. h \in HandlerStates /\ h.at = "streaming" /\ h.saved = handler[j].saved /\ h.source = None
    BY <1>1, <1>2 DEF HandlerStates, HandlerOK
<1>4. k \in 1..Files
    BY <1>1, <1>2, SizeAssumption DEF HandlerStates
<1>5. handler' = [handler EXCEPT ![j] = h] /\ disk' = [disk EXCEPT ![UploadDir(j, k)] = 0]
    BY <1>2 DEF StartFile
<1> HIDE DEF h
<1>6. UploadDir(j, k) \in Entries /\ Matches(UploadDir(j, k), j) /\ Ttl(UploadDir(j, k)) = UploadTtl
    BY <1>4, EntryKinds
<1> HIDE DEF k
<1>7. /\ disk' \in [Entries -> Age \cup {None}]
      /\ OnDisk' = OnDisk \cup {UploadDir(j, k)} /\ disk'[UploadDir(j, k)] = 0
      /\ \A a \in OnDisk : a # UploadDir(j, k) => disk'[a] = disk[a]
    BY <1>5, <1>6, MadeOnDisk DEF IInv
<1>8. handler'[j] = h /\ \A i \in Jobs \ {j} : handler'[i] = handler[i]
    BY <1>2, <1>5
<1>9. UNCHANGED <<jobVars, worker, imported, previewVars, sweepVars, starts>> /\ UNCHANGED sweep /\ UNCHANGED kind
    BY DEF StartFile, sweepVars, jobVars
<1>10. HandlerOK(j)'
    BY <1>1, <1>3, <1>8, <1>9 DEF HandlerOK
<1>11. DirsOK(j)'
    <2>1. 0 < UploadTtl
        BY TtlAssumption
    <2>2. \A a \in OnDisk' : Matches(a, j) => disk'[a] < Ttl(a)
        BY <1>1, <1>2, <1>6, <1>7, <2>1 DEF DirsOK, Receiving
    <2>3. \A m \in 1..handler[j].saved : UploadDir(j, m) \in OnDisk'
        BY <1>1, <1>2, <1>7 DEF DirsOK, Receiving
    <2>4. UploadDir(j, h.saved + 1) \in OnDisk'
        BY <1>3, <1>7 DEF k
    <2> QED
        BY <1>2, <1>3, <1>8, <1>9, <2>2, <2>3, <2>4 DEF DirsOK, jobVars, Active, Receiving
<1>12. \A i \in Jobs \ {j} : KeepsDirs(i)
    <2>1. \A i \in Jobs \ {j} : ~Matches(UploadDir(j, k), i)
        BY OwnEntries
    <2> QED
        BY <1>7, <1>9, <2>1, OthersKeepDirs
<1>13. SourcesOK'
    <2>1. \A i \in Jobs : Owner(i)' => Owner(i) /\ handler'[i] = handler[i]
        BY <1>2, <1>3, <1>8, <1>9 DEF Owner
    <2>2. \A i \in Jobs : handler'[i].at = "claiming" => handler'[i] = handler[i]
        BY <1>3, <1>8
    <2>3. \A p : Peek(p) \in OnDisk' => Peek(p) \in OnDisk
        BY <1>7, OwnEntries
    <2> QED
        BY <1>9, <2>1, <2>2, <2>3, SourcesKept DEF previewVars, IInv
<1> QED
    BY <1>1, <1>3, <1>5, <1>7, <1>9, <1>10, <1>11, <1>12, <1>13, RequestMoves

\* The file has been received.
LEMMA FinishFileInv == ASSUME IInv, NEW j \in Jobs, FinishFile(j) PROVE IInv'
<1>1. handler[j].at = "streaming"
    BY DEF FinishFile
<1>2. handler[j] \in HandlerStates /\ handler \in [Jobs -> HandlerStates] /\ phase[j] = "absent"
      /\ worker[j].at = "none" /\ HandlerOK(j) /\ DirsOK(j) /\ \A a \in sweep.doomed : ~Matches(a, j)
    BY <1>1, RequestFacts
<1> DEFINE h == [handler[j] EXCEPT !.at = "form", !.saved = handler[j].saved + 1]
<1>3. h \in HandlerStates /\ h.at = "form" /\ h.saved = handler[j].saved + 1 /\ h.source = None
    <2>1. handler[j].saved \in Nat /\ handler[j].saved < Files /\ Files \in Nat /\ handler[j].source = None
        BY <1>1, <1>2, SizeAssumption DEF HandlerStates, HandlerOK
    <2>2. handler[j].saved + 1 \in 0..Files
        BY <2>1
    <2> QED
        BY <1>2, <2>1, <2>2 DEF HandlerStates
<1>4. handler' = [handler EXCEPT ![j] = h] /\ disk' = disk
    BY <1>2 DEF FinishFile
<1> HIDE DEF h
<1>5. handler'[j] = h /\ OnDisk' = OnDisk /\ \A i \in Jobs \ {j} : handler'[i] = handler[i]
    BY <1>2, <1>4 DEF OnDisk
<1>7. UNCHANGED <<jobVars, worker, imported, previewVars, sweepVars, starts>> /\ UNCHANGED sweep /\ UNCHANGED kind
    BY DEF FinishFile, sweepVars, jobVars
<1>6. HandlerOK(j)'
    BY <1>1, <1>2, <1>3, <1>5, <1>7 DEF HandlerOK
<1>8. DirsOK(j)'
    <2>1. \A m \in 1..h.saved : UploadDir(j, m) \in OnDisk
        <3>1. \A m \in 1..handler[j].saved : UploadDir(j, m) \in OnDisk
            BY <1>1, <1>2 DEF DirsOK, Receiving
        <3>2. UploadDir(j, handler[j].saved + 1) \in OnDisk
            BY <1>1, <1>2 DEF DirsOK
        <3>3. handler[j].saved \in Nat
            BY <1>2 DEF HandlerStates
        <3>4. \A m \in 1..h.saved : m = handler[j].saved + 1 \/ m \in 1..handler[j].saved
            BY <1>3, <3>3
        <3> QED
            BY <3>1, <3>2, <3>4
    <2>2. \A a \in OnDisk : Matches(a, j) => disk[a] < Ttl(a)
        BY <1>1, <1>2 DEF DirsOK, Receiving
    <2> QED
        BY <1>2, <1>3, <1>4, <1>5, <1>7, <2>1, <2>2 DEF DirsOK, jobVars, Active, Receiving
<1>9. \A i \in Jobs \ {j} : KeepsDirs(i)
    BY <1>4, <1>5, <1>7 DEF KeepsDirs
<1>10. SourcesOK'
    <2>1. \A i \in Jobs : Owner(i)' => Owner(i) /\ handler'[i] = handler[i]
        BY <1>2, <1>3, <1>5, <1>7 DEF Owner
    <2>2. \A i \in Jobs : handler'[i].at = "claiming" => handler'[i] = handler[i]
        BY <1>3, <1>5
    <2> QED
        BY <1>5, <1>7, <2>1, <2>2, SourcesKept DEF previewVars, IInv
<1> QED
    BY <1>1, <1>3, <1>4, <1>6, <1>7, <1>8, <1>9, <1>10, RequestMoves DEF IInv, TypeOK

\* The preview is there when it is looked up.
LEMMA ResolvePreviewInv == ASSUME IInv, NEW j \in Jobs, NEW p \in Previews, ResolvePreview(j, p) PROVE IInv'
<1>1. handler[j].at = "form" /\ handler[j].saved = 0 /\ kind[j] = "Import" /\ preview[p] = "kept"
    BY DEF ResolvePreview
<1>2. handler[j] \in HandlerStates /\ handler \in [Jobs -> HandlerStates] /\ phase[j] = "absent"
      /\ worker[j].at = "none" /\ HandlerOK(j) /\ DirsOK(j) /\ \A a \in sweep.doomed : ~Matches(a, j)
    BY <1>1, RequestFacts
<1> DEFINE h == [handler[j] EXCEPT !.at = "claiming", !.source = p]
<1>3. h \in HandlerStates /\ h.at = "claiming" /\ h.saved = 0 /\ h.source = p
    BY <1>1, <1>2 DEF HandlerStates
<1>5. handler' = [handler EXCEPT ![j] = h] /\ disk' = [disk EXCEPT ![UploadDir(j, 1)] = 0]
    BY <1>2 DEF ResolvePreview
<1> HIDE DEF h
<1>6. UploadDir(j, 1) \in Entries /\ Matches(UploadDir(j, 1), j) /\ Ttl(UploadDir(j, 1)) = UploadTtl
    BY EntryKinds, SizeAssumption
<1>7. /\ disk' \in [Entries -> Age \cup {None}]
      /\ OnDisk' = OnDisk \cup {UploadDir(j, 1)} /\ disk'[UploadDir(j, 1)] = 0
      /\ \A a \in OnDisk : a # UploadDir(j, 1) => disk'[a] = disk[a]
    BY <1>5, <1>6, MadeOnDisk DEF IInv
<1>8. handler'[j] = h /\ \A i \in Jobs \ {j} : handler'[i] = handler[i]
    BY <1>2, <1>5
<1>9. UNCHANGED <<jobVars, worker, imported, previewVars, sweepVars, starts>> /\ UNCHANGED sweep /\ UNCHANGED kind
    BY DEF ResolvePreview, sweepVars, jobVars
<1>10. HandlerOK(j)'
    BY <1>1, <1>3, <1>8, <1>9 DEF HandlerOK
<1>11. DirsOK(j)'
    <2>1. 0 < UploadTtl
        BY TtlAssumption
    <2>2. \A a \in OnDisk' : Matches(a, j) => disk'[a] < Ttl(a)
        BY <1>1, <1>2, <1>6, <1>7, <2>1 DEF DirsOK, Receiving
    <2> QED
        BY <1>2, <1>3, <1>7, <1>8, <1>9, <2>2 DEF DirsOK, jobVars, Active, Receiving
<1>12. \A i \in Jobs \ {j} : KeepsDirs(i)
    <2>1. \A i \in Jobs \ {j} : ~Matches(UploadDir(j, 1), i)
        BY OwnEntries
    <2> QED
        BY <1>7, <1>9, <2>1, OthersKeepDirs
<1>13. SourcesOK'
    <2>1. \A i \in Jobs : Owner(i)' => Owner(i) /\ handler'[i] = handler[i]
        BY <1>2, <1>3, <1>8, <1>9 DEF Owner
    <2>2. \A i \in Jobs : handler'[i].at = "claiming" => handler'[i] = handler[i] \/ handler'[i].source = p
        BY <1>3, <1>8
    <2>3. \A q : Peek(q) \in OnDisk' => Peek(q) \in OnDisk
        BY <1>7, OwnEntries
    <2>4. SourcesOK /\ preview' = preview
        BY <1>9 DEF IInv, previewVars
    <2> QED
        BY <1>1, <2>1, <2>2, <2>3, <2>4 DEF SourcesOK
<1> QED
    BY <1>1, <1>3, <1>5, <1>7, <1>9, <1>10, <1>11, <1>12, <1>13, RequestMoves

\* The rename finds the preview, or it does not.
LEMMA ClaimPreviewInv == ASSUME IInv, NEW j \in Jobs, ClaimPreview(j) PROVE IInv'
<1>1. handler[j].at = "claiming"
    BY DEF ClaimPreview
<1>2. handler[j] \in HandlerStates /\ handler \in [Jobs -> HandlerStates] /\ phase[j] = "absent"
      /\ worker[j].at = "none" /\ HandlerOK(j) /\ DirsOK(j) /\ \A a \in sweep.doomed : ~Matches(a, j)
    BY <1>1, RequestFacts
<1>3. UNCHANGED <<jobVars, worker, imported, previewVars, sweepVars, starts>> /\ UNCHANGED sweep /\ UNCHANGED kind
    BY DEF ClaimPreview, sweepVars, jobVars
<1>4. TypeOK /\ SourcesOK
    BY DEF IInv
<1> DEFINE s == handler[j].source
<1>5. s \in Previews /\ preview[s] = "kept" /\ kind[j] = "Import"
    BY <1>1, <1>2, <1>4 DEF HandlerOK, SourcesOK
<1>6. CASE Peek(s) \in OnDisk /\ disk' = Removed({Peek(s)})
           /\ handler' = [handler EXCEPT ![j].at = "ready", ![j].saved = 1]
    <2> DEFINE h == [handler[j] EXCEPT !.at = "ready", !.saved = 1]
    <2>0. 1 \in 0..Files
        BY SizeAssumption
    <2>1. h \in HandlerStates /\ h.at = "ready" /\ h.saved = 1 /\ h.source = s
        BY <1>2, <2>0 DEF HandlerStates
    <2>2. handler' = [handler EXCEPT ![j] = h]
        BY <1>2, <1>6
    <2> HIDE DEF h, s
    <2>3. handler'[j] = h /\ \A i \in Jobs \ {j} : handler'[i] = handler[i]
        BY <1>2, <2>2
    <2>4. /\ disk' \in [Entries -> Age \cup {None}] /\ OnDisk' = OnDisk \ {Peek(s)}
          /\ \A a \in OnDisk' : disk'[a] = disk[a]
        BY <1>4, <1>6, RemovedDisk
    <2>5. HandlerOK(j)'
        BY <1>3, <1>5, <2>1, <2>3 DEF HandlerOK
    <2>6. DirsOK(j)'
        <3>1. UploadDir(j, 1) \in OnDisk /\ \A a \in OnDisk : Matches(a, j) => disk[a] < Ttl(a)
            BY <1>1, <1>2 DEF DirsOK, Receiving
        <3>2. UploadDir(j, 1) \in OnDisk'
            BY <2>4, <3>1, OwnEntries
        <3>3. \A k \in 1..h.saved : UploadDir(j, k) \in OnDisk'
            BY <2>1, <3>2
        <3> QED
            BY <1>2, <1>3, <1>5, <2>1, <2>3, <2>4, <3>1, <3>3 DEF DirsOK, jobVars, Active, Receiving
    <2>7. \A i \in Jobs \ {j} : KeepsDirs(i)
        <3>1. \A i \in Jobs \ {j} : ~Matches(Peek(s), i)
            BY <1>5, EntryNames
        <3> QED
            BY <1>3, <2>4, <3>1, OthersKeepRemovedOne
    <2>8. SourcesOK'
        <3>1. \A i \in Jobs \ {j} : (Owner(i)' <=> Owner(i)) /\ handler'[i] = handler[i]
            BY <1>3, <2>3 DEF Owner
        <3>2. handler'[j].source = s /\ handler'[j].at # "claiming"
            BY <2>1, <2>3
        <3>3. \A i \in Jobs : Owner(i) => handler[i].source # s
            BY <1>4, <1>6 DEF SourcesOK
        <3>4. preview' = preview
            BY <1>3 DEF previewVars
        <3> QED
            BY <1>4, <1>5, <2>4, <3>1, <3>2, <3>3, <3>4 DEF SourcesOK
    <2> QED
        BY <1>1, <1>3, <2>1, <2>2, <2>4, <2>5, <2>6, <2>7, <2>8, RequestMoves
<1>7. CASE disk' = Removed({UploadDir(j, 1)}) /\ HandlerDone(j)
    <2>1. /\ disk' \in [Entries -> Age \cup {None}] /\ OnDisk' = OnDisk \ {UploadDir(j, 1)}
          /\ \A a \in OnDisk' : disk'[a] = disk[a]
        BY <1>4, <1>7, RemovedDisk
    <2>2. \A i \in Jobs \ {j} : ~Matches(UploadDir(j, 1), i)
        BY OwnEntries
    <2>3. \A i \in Jobs \ {j} : KeepsDirs(i)
        BY <1>3, <2>1, <2>2, OthersKeepRemovedOne
    <2> QED
        BY <1>1, <1>3, <1>7, <2>1, <2>3, RequestEnds
<1> QED
    BY <1>6, <1>7 DEF ClaimPreview

\* The directory of an export is made before its job is submitted.
LEMMA MakeExportDirInv == ASSUME IInv, NEW j \in Jobs, MakeExportDir(j) PROVE IInv'
<1>1. handler[j].at = "form" /\ kind[j] = "Export"
    BY DEF MakeExportDir
<1>2. handler[j] \in HandlerStates /\ handler \in [Jobs -> HandlerStates] /\ phase[j] = "absent"
      /\ worker[j].at = "none" /\ HandlerOK(j) /\ DirsOK(j) /\ \A a \in sweep.doomed : ~Matches(a, j)
    BY <1>1, RequestFacts
<1> DEFINE h == [handler[j] EXCEPT !.at = "ready"]
<1>3. h \in HandlerStates /\ h.at = "ready" /\ h.saved = handler[j].saved /\ h.source = None
    BY <1>1, <1>2 DEF HandlerStates, HandlerOK
<1>5. handler' = [handler EXCEPT ![j] = h] /\ disk' = [disk EXCEPT ![ExportDir(j)] = 0]
    BY <1>2 DEF MakeExportDir
<1> HIDE DEF h
<1>6. ExportDir(j) \in Entries /\ Matches(ExportDir(j), j) /\ Ttl(ExportDir(j)) = ExportTtl
    BY EntryKinds
<1>7. /\ disk' \in [Entries -> Age \cup {None}]
      /\ OnDisk' = OnDisk \cup {ExportDir(j)} /\ disk'[ExportDir(j)] = 0
      /\ \A a \in OnDisk : a # ExportDir(j) => disk'[a] = disk[a]
    BY <1>5, <1>6, MadeOnDisk DEF IInv
<1>8. handler'[j] = h /\ \A i \in Jobs \ {j} : handler'[i] = handler[i]
    BY <1>2, <1>5
<1>9. UNCHANGED <<jobVars, worker, imported, previewVars, sweepVars, starts>> /\ UNCHANGED sweep /\ UNCHANGED kind
    BY DEF MakeExportDir, sweepVars, jobVars
<1>10. HandlerOK(j)'
    BY <1>2, <1>3, <1>8, <1>9 DEF HandlerOK
<1>11. DirsOK(j)'
    <2>1. 0 < ExportTtl
        BY TtlAssumption
    <2>2. \A a \in OnDisk' : Matches(a, j) => disk'[a] < Ttl(a)
        BY <1>1, <1>2, <1>6, <1>7, <2>1 DEF DirsOK, Receiving
    <2>3. \A m \in 1..handler[j].saved : UploadDir(j, m) \in OnDisk'
        BY <1>1, <1>2, <1>7 DEF DirsOK, Receiving
    <2> QED
        BY <1>2, <1>3, <1>7, <1>8, <1>9, <2>2, <2>3 DEF DirsOK, jobVars, Active, Receiving
<1>12. \A i \in Jobs \ {j} : KeepsDirs(i)
    <2>1. \A i \in Jobs \ {j} : ~Matches(ExportDir(j), i)
        BY OwnEntries
    <2> QED
        BY <1>7, <1>9, <2>1, OthersKeepDirs
<1>13. SourcesOK'
    <2>1. \A i \in Jobs : Owner(i)' => Owner(i) /\ handler'[i] = handler[i]
        BY <1>2, <1>3, <1>8, <1>9 DEF Owner
    <2>2. \A i \in Jobs : handler'[i].at = "claiming" => handler'[i] = handler[i]
        BY <1>3, <1>8
    <2>3. \A p : Peek(p) \in OnDisk' => Peek(p) \in OnDisk
        BY <1>7, OwnEntries
    <2> QED
        BY <1>9, <2>1, <2>2, <2>3, SourcesKept DEF previewVars, IInv
<1> QED
    BY <1>1, <1>3, <1>5, <1>7, <1>9, <1>10, <1>11, <1>12, <1>13, RequestMoves

\* A request that ends without a job removes nothing of another one.
LEMMA GiveUpInv == ASSUME IInv, NEW j \in Jobs, GiveUp(j) PROVE IInv'
<1>1. handler[j].at # "done" /\ HandlerDone(j)
    BY DEF GiveUp
<1>2. UNCHANGED <<jobVars, worker, imported, previewVars, sweepVars, starts>> /\ UNCHANGED sweep /\ TypeOK
      /\ HandlerOK(j)
    BY <1>1, RequestFacts DEF GiveUp, sweepVars, IInv
<1>3. PICK A : disk' = Removed(A) /\ \A a \in A : \A i \in Jobs \ {j} : ~Matches(a, i)
    <2>1. \A a \in SavedDirs(j) \cup WrittenDirs(j) \cup {ExportDir(j)} : \A i \in Jobs \ {j} : ~Matches(a, i)
        BY OwnEntries DEF SavedDirs, WrittenDirs
    <2>2. handler[j].at = "claiming" => \A i \in Jobs \ {j} : ~Matches(Peek(handler[j].source), i)
        BY <1>2, EntryNames DEF HandlerOK
    <2>3. CASE disk' = Removed(SavedDirs(j) \cup WrittenDirs(j) \cup {ExportDir(j)})
        BY <2>1, <2>3
    <2>4. CASE disk' = Removed(SavedDirs(j))
        BY <2>1, <2>4
    <2>5. CASE handler[j].at = "claiming" /\ disk' = Removed({Peek(handler[j].source)})
        BY <2>2, <2>5
    <2> QED
        BY <2>3, <2>4, <2>5 DEF GiveUp
<1>4. /\ disk' \in [Entries -> Age \cup {None}] /\ OnDisk' = OnDisk \ A
      /\ \A a \in OnDisk' : disk'[a] = disk[a]
    BY <1>2, <1>3, RemovedDisk
<1>5. \A i \in Jobs \ {j} : KeepsDirs(i)
    BY <1>2, <1>3, <1>4, OthersKeepRemoved
<1> QED
    BY <1>1, <1>2, <1>4, <1>5, RequestEnds
----------------------------------------------------------------------------
(* Steps of a job.                                                         *)

\* A step of one job, which keeps the directories of the others.
LEMMA JobMoves ==
    ASSUME IInv, NEW j \in Jobs, TypeOK', JobOK(j)', \A i \in Jobs \ {j} : Leaves(i) /\ KeepsDirs(i),
           UNCHANGED <<previewVars, sweepVars>>, SourcesOK', NumbersOK'
    PROVE  IInv'
<1>1. \A i \in Jobs \ {j} : JobOK(i)'
    BY JobKept DEF IInv
<1>2. SweepOK'
    BY DEF IInv, SweepOK, sweepVars
<1> QED
    BY <1>1, <1>2 DEF IInv

\* The job takes over the files of its request, and gets an id of its own.
LEMMA SubmitInv == ASSUME IInv, NEW j \in Jobs, Submit(j) PROVE IInv'
<1>1. handler[j].at = "ready" \/ (handler[j].at = "form" /\ handler[j].saved > 0)
    BY DEF Submit
<1>2. /\ handler[j] \in HandlerStates /\ handler \in [Jobs -> HandlerStates] /\ phase[j] = "absent"
      /\ worker[j] = NoWorker /\ HandlerOK(j) /\ DirsOK(j) /\ LifeOK(j) /\ \A a \in sweep.doomed : ~Matches(a, j)
    BY <1>1, RequestFacts
<1>3. /\ UNCHANGED <<kind, asked, outcome, disk, imported, previewVars, sweepVars, starts, preview, sweep>>
      /\ phase' = [phase EXCEPT ![j] = "queued"] /\ number' = [number EXCEPT ![j] = nextId]
      /\ nextId' = nextId + 1 /\ age' = [age EXCEPT ![j] = 0]
    BY DEF Submit, Registry!Accept, Registry!Move, previewVars, sweepVars
<1>4. TypeOK /\ NumbersOK /\ SourcesOK
    BY DEF IInv
<1> DEFINE h == [handler[j] EXCEPT !.at = "done"]
           w == [worker[j] EXCEPT !.at = "queued"]
<1>5. h \in HandlerStates /\ h.at = "done" /\ h.saved = handler[j].saved /\ h.source = handler[j].source
    BY <1>2 DEF HandlerStates
<1>6. w \in WorkerStates /\ w.at = "queued" /\ w.next = 1 /\ ~w.bad
    <2>1. worker[j] \in WorkerStates
        BY <1>4 DEF TypeOK, WorkerStates
    <2>2. worker[j].next = 1 /\ ~worker[j].bad
        BY <1>2 DEF NoWorker
    <2> QED
        BY <2>1, <2>2 DEF WorkerStates
<1>7. handler' = [handler EXCEPT ![j] = h] /\ worker' = [worker EXCEPT ![j] = w]
    BY <1>2, <1>4 DEF Submit, HandlerDone, TypeOK
<1> HIDE DEF h, w
<1>8. /\ handler'[j] = h /\ worker'[j] = w /\ phase'[j] = "queued" /\ number'[j] = nextId /\ OnDisk' = OnDisk
      /\ \A i \in Jobs \ {j} : Leaves(i)
    BY <1>3, <1>4, <1>7 DEF TypeOK, Registry!TypeOK, Leaves, OnDisk
<1>9. TypeOK'
    <2>1. "queued" \in Registry!Phase /\ 0 \in Age
        BY TtlAssumption DEF Registry!Phase, Age
    <2> QED
        BY <1>3, <1>4, <1>5, <1>6, <1>7, <2>1
           DEF TypeOK, Registry!TypeOK, HandlerStates, WorkerStates, previewVars, sweepVars
<1>10. JobOK(j)'
    <2>1. HandlerOK(j)'
        BY <1>2, <1>3, <1>5, <1>8 DEF HandlerOK
    <2>2. nextId # 0 /\ outcome[j] = None /\ imported[j] = {}
        BY <1>2, <1>4 DEF TypeOK, LifeOK
    <2>3. LifeOK(j)'
        BY <1>3, <1>5, <1>6, <1>8, <2>2 DEF LifeOK, Active, Outcome
    <2>4. BatchOK(j)'
        BY <1>3, <1>6, <1>8, <2>2, NoneAssumption DEF BatchOK, Outcome
    <2>5. DirsOK(j)'
        BY <1>1, <1>2, <1>3, <1>5, <1>6, <1>8 DEF DirsOK, Active, Receiving
    <2> QED
        BY <2>1, <2>3, <2>4, <2>5 DEF JobOK
<1>11. NumbersOK'
    <2>1. \A i \in Jobs \ {j} : number'[i] = number[i] /\ number[i] < nextId /\ number[i] \in Nat
        BY <1>3, <1>4 DEF TypeOK, NumbersOK
    <2>2. nextId \in Nat
        BY <1>4 DEF TypeOK
    <2>3. \A i \in Jobs : number'[i] < nextId'
        BY <1>3, <1>8, <2>1, <2>2
    <2>4. \A i, m \in Jobs : number'[i] = number'[m] /\ number'[i] # 0 => i = m
        BY <1>4, <1>8, <2>1, <2>2 DEF NumbersOK
    <2> QED
        BY <2>3, <2>4 DEF NumbersOK
<1>12. SourcesOK'
    <2>1. ASSUME NEW i \in Jobs, Owner(i)' PROVE Owner(i) /\ handler'[i].source = handler[i].source
        <3>1. CASE i = j
            BY <1>1, <1>2, <1>5, <1>8, <2>1, <3>1 DEF Owner, HandlerOK
        <3>2. CASE i # j
            BY <1>8, <2>1, <3>2 DEF Owner, Leaves
        <3> QED
            BY <3>1, <3>2
    <2>2. \A i \in Jobs : handler'[i].at = "claiming" => handler'[i] = handler[i]
        BY <1>5, <1>8 DEF Leaves
    <2> QED
        BY <1>3, <1>4, <1>8, <2>1, <2>2, SourcesKept
<1>13. \A i \in Jobs \ {j} : KeepsDirs(i)
    BY <1>3, <1>8 DEF KeepsDirs
<1> QED
    BY <1>3, <1>8, <1>9, <1>10, <1>11, <1>12, <1>13, JobMoves

\* What is known of a job that is queued or running.
LEMMA JobFacts ==
    ASSUME IInv, NEW j \in Jobs, phase[j] # "absent"
    PROVE  /\ worker \in [Jobs -> WorkerStates] /\ worker[j] \in WorkerStates
           /\ handler[j] \in HandlerStates /\ handler[j].at = "done" /\ handler[j].saved \in 0..Files
           /\ HandlerOK(j) /\ LifeOK(j) /\ BatchOK(j) /\ DirsOK(j)
           /\ Active(j) => outcome[j] = None /\ \A a \in sweep.doomed : ~Matches(a, j)
<1>1. JobOK(j) /\ TypeOK
    BY DEF IInv
<1>2. handler[j] \in HandlerStates /\ worker \in [Jobs -> WorkerStates]
    BY <1>1 DEF TypeOK, HandlerStates, WorkerStates
<1> QED
    BY <1>1, <1>2 DEF HandlerStates, JobOK, LifeOK, DirsOK

\* A step of the job's life: nothing happens to files.
LEMMA StageMoves ==
    ASSUME IInv, NEW j \in Jobs, TypeOK', \A i \in Jobs \ {j} : Leaves(i),
           UNCHANGED <<kind, number, nextId, disk, handler, previewVars, sweepVars>>,
           worker'[j].at # "none" => worker[j].at # "none",
           LifeOK(j)', BatchOK(j)', DirsOK(j)'
    PROVE  IInv'
<1>1. TypeOK /\ JobOK(j) /\ NumbersOK /\ SourcesOK
    BY DEF IInv
<1>2. OnDisk' = OnDisk /\ preview' = preview /\ sweep' = sweep
    BY DEF OnDisk, previewVars, sweepVars
<1>3. \A i \in Jobs \ {j} : KeepsDirs(i)
    BY <1>2 DEF KeepsDirs
<1>4. HandlerOK(j)'
    BY <1>1 DEF JobOK, HandlerOK, NoHandler
<1>5. SourcesOK'
    <2>1. \A i \in Jobs : Owner(i)' => Owner(i) /\ handler'[i].source = handler[i].source
        BY DEF Owner, Leaves
    <2> QED
        BY <1>1, <1>2, <2>1, SourcesKept
<1>6. NumbersOK'
    BY <1>1, NumbersKept
<1> QED
    BY <1>3, <1>4, <1>5, <1>6, JobMoves DEF JobOK

\* A worker takes the job.
LEMMA BeginInv == ASSUME IInv, NEW j \in Jobs, Begin(j) PROVE IInv'
<1>1. /\ phase[j] = "queued" /\ phase' = [phase EXCEPT ![j] = "running"] /\ age' = [age EXCEPT ![j] = 0]
      /\ UNCHANGED <<kind, asked, number, nextId, outcome, disk, handler, imported, previewVars, sweepVars, starts>>
    BY DEF Begin, Registry!Begin, Registry!Move
<1>2. TypeOK
    BY DEF IInv
<1>3. /\ worker \in [Jobs -> WorkerStates] /\ worker[j] \in WorkerStates
      /\ handler[j].at = "done" /\ LifeOK(j) /\ BatchOK(j) /\ DirsOK(j) /\ \A a \in sweep.doomed : ~Matches(a, j)
      /\ worker[j].at = "queued" /\ outcome[j] = None
    BY <1>1, JobFacts DEF LifeOK, Active
<1> DEFINE w == [worker[j] EXCEPT !.at = "begun"]
<1>4. w \in WorkerStates /\ w.at = "begun" /\ w.next = worker[j].next /\ w.bad = worker[j].bad
    BY <1>3 DEF WorkerStates
<1>5. worker' = [worker EXCEPT ![j] = w]
    BY <1>3 DEF Begin, Goto
<1> HIDE DEF w
<1>6. /\ worker'[j] = w /\ phase'[j] = "running" /\ \A i \in Jobs \ {j} : Leaves(i)
    BY <1>1, <1>2, <1>3, <1>5 DEF TypeOK, Registry!TypeOK, Leaves
<1>7. TypeOK'
    <2>1. "running" \in Registry!Phase /\ 0 \in Age
        BY TtlAssumption DEF Registry!Phase, Age
    <2> QED
        BY <1>1, <1>2, <1>4, <1>5, <2>1 DEF TypeOK, Registry!TypeOK, WorkerStates, previewVars, sweepVars
<1>8. LifeOK(j)'
    BY <1>1, <1>3, <1>4, <1>6 DEF LifeOK, Active, Outcome
<1>9. BatchOK(j)'
    BY <1>1, <1>3, <1>4, <1>6, NoneAssumption DEF BatchOK, Outcome
<1>10. DirsOK(j)'
    BY <1>1, <1>3, <1>4, <1>6 DEF DirsOK, Active, Receiving, OnDisk, sweepVars
<1> QED
    BY <1>1, <1>3, <1>4, <1>6, <1>7, <1>8, <1>9, <1>10, StageMoves

\* A job that is cancelled in the queue.
LEMMA WithdrawInv == ASSUME IInv, NEW j \in Jobs, Withdraw(j) PROVE IInv'
<1>1. /\ phase[j] = "queued" /\ phase' = [phase EXCEPT ![j] = "cancelled"] /\ age' = [age EXCEPT ![j] = 0]
      /\ asked' = asked \cup {j} /\ outcome' = [outcome EXCEPT ![j] = "cancelled"]
      /\ UNCHANGED <<kind, number, nextId, disk, handler, imported, previewVars, sweepVars, starts>>
    BY DEF Withdraw, Registry!Withdraw, Registry!Move
<1>2. TypeOK
    BY DEF IInv
<1>3. /\ worker \in [Jobs -> WorkerStates] /\ worker[j] \in WorkerStates
      /\ handler[j].at = "done" /\ LifeOK(j) /\ BatchOK(j) /\ DirsOK(j) /\ \A a \in sweep.doomed : ~Matches(a, j)
      /\ worker[j].at = "queued" /\ outcome[j] = None
    BY <1>1, JobFacts DEF LifeOK, Active
<1> DEFINE w == [worker[j] EXCEPT !.at = "none"]
<1>4. w \in WorkerStates /\ w.at = "none" /\ w.next = worker[j].next /\ w.bad = worker[j].bad
    BY <1>3 DEF WorkerStates
<1>5. worker' = [worker EXCEPT ![j] = w]
    BY <1>3 DEF Withdraw, Goto
<1> HIDE DEF w
<1>6. /\ worker'[j] = w /\ phase'[j] = "cancelled" /\ outcome'[j] = "cancelled"
      /\ \A i \in Jobs \ {j} : Leaves(i)
    BY <1>1, <1>2, <1>3, <1>5 DEF TypeOK, Registry!TypeOK, Leaves
<1>7. TypeOK'
    <2>1. "cancelled" \in Registry!Phase /\ "cancelled" \in Outcome /\ 0 \in Age
        BY TtlAssumption DEF Registry!Phase, Registry!Outcome, Outcome, Age
    <2>2. asked' \subseteq Jobs
        BY <1>1, <1>2 DEF TypeOK, Registry!TypeOK
    <2> QED
        BY <1>1, <1>2, <1>4, <1>5, <2>1, <2>2 DEF TypeOK, Registry!TypeOK, WorkerStates, previewVars, sweepVars
<1>8. LifeOK(j)'
    BY <1>1, <1>3, <1>4, <1>6 DEF LifeOK, Active, Outcome
<1>9. BatchOK(j)'
    BY <1>1, <1>3, <1>4, <1>6 DEF BatchOK
<1>10. DirsOK(j)'
    BY <1>1, <1>3, <1>4, <1>6 DEF DirsOK, Active, Receiving, OnDisk, sweepVars
<1> QED
    BY <1>1, <1>3, <1>4, <1>6, <1>7, <1>8, <1>9, <1>10, StageMoves

\* The files keep their age and their state, the job becomes younger.
LEMMA AskInv == ASSUME IInv, NEW j \in Jobs, Ask(j) PROVE IInv'
<1>1. /\ phase[j] = "running" /\ age' = [age EXCEPT ![j] = 0] /\ asked' = asked \cup {j}
      /\ UNCHANGED <<kind, phase, number, nextId, outcome, disk, handler, worker, imported, previewVars, sweepVars,
                     starts>>
    BY DEF Ask, Registry!Ask
<1>2. TypeOK
    BY DEF IInv
<1>3. LifeOK(j) /\ BatchOK(j) /\ DirsOK(j)
    BY <1>1, JobFacts
<1>6. \A i \in Jobs \ {j} : Leaves(i)
    BY <1>1, <1>2 DEF TypeOK, Leaves
<1>7. TypeOK'
    <2>1. 0 \in Age /\ asked' \subseteq Jobs
        BY <1>1, <1>2, TtlAssumption DEF Age, TypeOK, Registry!TypeOK
    <2> QED
        BY <1>1, <1>2, <2>1 DEF TypeOK, Registry!TypeOK, previewVars, sweepVars
<1>8. LifeOK(j)'
    BY <1>1, <1>3 DEF LifeOK, Active
<1>9. BatchOK(j)'
    BY <1>1, <1>3 DEF BatchOK
<1>10. DirsOK(j)'
    BY <1>1, <1>3 DEF DirsOK, Active, Receiving, OnDisk, sweepVars
<1> QED
    BY <1>1, <1>6, <1>7, <1>8, <1>9, <1>10, StageMoves

\* The work has come to its end.
LEMMA EndWithInv ==
    ASSUME IInv, NEW j \in Jobs, NEW o \in Outcome, EndWith(j, o),
           o = "succeeded" => worker[j].at = "succeeding" /\ j \notin asked
    PROVE  IInv'
<1>1. /\ phase[j] = "running" /\ phase' = [phase EXCEPT ![j] = o] /\ age' = [age EXCEPT ![j] = 0]
      /\ outcome' = [outcome EXCEPT ![j] = o]
      /\ UNCHANGED <<kind, asked, number, nextId, disk, handler, imported, previewVars, sweepVars, starts>>
    BY DEF EndWith, Registry!End, Registry!Move
<1>2. TypeOK
    BY DEF IInv
<1>3. /\ worker \in [Jobs -> WorkerStates] /\ worker[j] \in WorkerStates
      /\ handler[j].at = "done" /\ LifeOK(j) /\ BatchOK(j) /\ DirsOK(j) /\ \A a \in sweep.doomed : ~Matches(a, j)
      /\ worker[j].at \notin {"none", "queued"} /\ outcome[j] = None
    BY <1>1, JobFacts DEF LifeOK, Active
<1> DEFINE w == [worker[j] EXCEPT !.at = "none"]
<1>4. w \in WorkerStates /\ w.at = "none" /\ w.next = worker[j].next /\ w.bad = worker[j].bad
    BY <1>3 DEF WorkerStates
<1>5. worker' = [worker EXCEPT ![j] = w]
    BY <1>3 DEF EndWith, Goto
<1> HIDE DEF w
<1>6. /\ worker'[j] = w /\ phase'[j] = o /\ outcome'[j] = o /\ \A i \in Jobs \ {j} : Leaves(i)
    BY <1>1, <1>2, <1>3, <1>5 DEF TypeOK, Registry!TypeOK, Leaves
<1>7. TypeOK'
    <2>1. o \in Registry!Phase /\ 0 \in Age
        BY TtlAssumption DEF Registry!Phase, Registry!Outcome, Outcome, Age
    <2> QED
        BY <1>1, <1>2, <1>4, <1>5, <2>1 DEF TypeOK, Registry!TypeOK, WorkerStates, previewVars, sweepVars
<1>8. LifeOK(j)'
    BY <1>1, <1>3, <1>4, <1>6 DEF LifeOK, Active, Outcome
<1>9. BatchOK(j)'
    BY <1>1, <1>3, <1>4, <1>6 DEF BatchOK
<1>10. DirsOK(j)'
    <2>1. kind[j] = "Export" /\ o = "succeeded" => ExportDir(j) \in OnDisk /\ ExportDir(j) \notin sweep.doomed
        BY <1>3, EntryKinds DEF DirsOK
    <2>2. ~Active(j)' /\ OnDisk' = OnDisk /\ sweep' = sweep /\ ~Receiving(j)'
        BY <1>1, <1>3, <1>6 DEF Active, OnDisk, sweepVars, Outcome, Receiving
    <2> QED
        BY <1>1, <1>3, <1>4, <1>6, <2>1, <2>2 DEF DirsOK
<1> QED
    BY <1>1, <1>3, <1>4, <1>6, <1>7, <1>8, <1>9, <1>10, StageMoves

\* The registry drops a job that has ended from its history.
LEMMA ForgetInv == ASSUME IInv, NEW j \in Jobs, Forget(j) PROVE IInv'
<1>2. TypeOK
    BY DEF IInv
<1>1. /\ phase[j] \in Outcome /\ phase'[j] = "forgotten" /\ \A i \in Jobs \ {j} : phase'[i] = phase[i]
      /\ phase' \in [Jobs -> Registry!Phase]
      /\ outcome' = [outcome EXCEPT ![j] = None]
      /\ UNCHANGED <<kind, asked, number, nextId, age, disk, handler, worker, imported, previewVars, sweepVars,
                     starts>>
    <2>1. /\ phase[j] \in Registry!Outcome
          /\ phase' = [i \in Jobs |-> IF i \in {j} THEN "forgotten" ELSE phase[i]]
        BY DEF Forget, Registry!Forget
    <2>2. "forgotten" \in Registry!Phase /\ phase \in [Jobs -> Registry!Phase]
        BY <1>2 DEF Registry!Phase, TypeOK, Registry!TypeOK
    <2>3. UNCHANGED <<kind, asked, number, nextId, age, disk, handler, worker, imported, previewVars, sweepVars,
                     starts>> /\ outcome' = [outcome EXCEPT ![j] = None]
        BY DEF Forget, Registry!Forget
    <2> QED
        BY <2>1, <2>2, <2>3 DEF Registry!Outcome, Outcome
<1>3. /\ handler[j].at = "done" /\ LifeOK(j) /\ BatchOK(j) /\ DirsOK(j) /\ worker[j].at = "none"
    BY <1>1, JobFacts DEF LifeOK, Outcome
<1>6. outcome'[j] = None /\ \A i \in Jobs \ {j} : Leaves(i)
    BY <1>1, <1>2 DEF TypeOK, Leaves
<1>7. TypeOK'
    BY <1>1, <1>2 DEF TypeOK, Registry!TypeOK, previewVars, sweepVars
<1>8. LifeOK(j)'
    BY <1>1, <1>3, <1>6 DEF LifeOK, Active, Outcome
<1>9. BatchOK(j)'
    BY <1>1, <1>3, <1>6, NoneAssumption DEF BatchOK, Outcome
<1>10. DirsOK(j)'
    BY <1>1, <1>3, <1>6 DEF DirsOK, Active, Receiving, OnDisk, sweepVars
<1> QED
    BY <1>1, <1>3, <1>6, <1>7, <1>8, <1>9, <1>10, StageMoves

\* A step of the work of a job: it may remove directories of its own.
LEMMA WorkMoves ==
    ASSUME IInv, NEW j \in Jobs, phase[j] = "running",
           NEW w \in WorkerStates, w.at \notin {"none", "queued"}, worker' = [worker EXCEPT ![j] = w],
           UNCHANGED <<jobVars, handler, previewVars, sweepVars, starts>>,
           imported' \in [Jobs -> SUBSET (1..Files)], \A i \in Jobs \ {j} : imported'[i] = imported[i],
           disk' \in [Entries -> Age \cup {None}], OnDisk' \subseteq OnDisk,
           \A a \in OnDisk' : disk'[a] = disk[a],
           \A a \in OnDisk : a \notin OnDisk' => \A i \in Jobs \ {j} : ~Matches(a, i),
           BatchOK(j)',
           kind[j] = "Import" /\ w.at \in {"begun", "files"} =>
               \A k \in 1..handler[j].saved : UploadDir(j, k) \in OnDisk',
           kind[j] = "Export" /\ w.at = "succeeding" => ExportDir(j) \in OnDisk'
    PROVE  IInv'
<1>1. /\ worker \in [Jobs -> WorkerStates] /\ handler[j].at = "done" /\ worker[j].at # "none"
      /\ HandlerOK(j) /\ LifeOK(j) /\ DirsOK(j) /\ \A a \in sweep.doomed : ~Matches(a, j)
    BY JobFacts DEF LifeOK, Active
<1>2. worker'[j] = w /\ \A i \in Jobs \ {j} : worker'[i] = worker[i]
    BY <1>1
<1>3. TypeOK /\ SourcesOK /\ NumbersOK
    BY DEF IInv
<1>4. TypeOK'
    BY <1>3 DEF TypeOK, WorkerStates, jobVars, previewVars, sweepVars, Registry!TypeOK
<1>5. \A i \in Jobs \ {j} : Leaves(i) /\ KeepsDirs(i)
    BY <1>2 DEF Leaves, KeepsDirs, jobVars, sweepVars
<1>6. JobOK(j)'
    <2>1. HandlerOK(j)'
        BY <1>1 DEF HandlerOK, jobVars
    <2>2. LifeOK(j)'
        BY <1>1, <1>2 DEF LifeOK, Active, jobVars
    <2>3. DirsOK(j)'
        BY <1>1, <1>2 DEF DirsOK, Active, Receiving, jobVars, sweepVars
    <2> QED
        BY <2>1, <2>2, <2>3 DEF JobOK
<1>7. SourcesOK'
    <2>1. \A i \in Jobs : Owner(i)' => Owner(i) /\ handler'[i].source = handler[i].source
        BY <1>1, <1>2 DEF Owner
    <2> QED
        BY <1>3, <2>1, SourcesKept DEF previewVars
<1>8. NumbersOK'
    BY <1>3, NumbersKept DEF jobVars
<1> QED
    BY <1>4, <1>5, <1>6, <1>7, <1>8, JobMoves

\* What a step of the work finds.
LEMMA WorkFacts ==
    ASSUME IInv, NEW j \in Jobs, worker[j].at \notin {"none", "queued"}
    PROVE  /\ phase[j] = "running" /\ BatchOK(j) /\ DirsOK(j) /\ outcome[j] = None
           /\ worker \in [Jobs -> WorkerStates] /\ worker[j] \in WorkerStates
           /\ handler[j].saved \in 0..Files /\ \A k \in 1..handler[j].saved : k \in 1..Files
           /\ imported \in [Jobs -> SUBSET (1..Files)] /\ TypeOK
<1>1. LifeOK(j) /\ TypeOK
    BY DEF IInv, JobOK
<1>2. phase[j] = "running"
    BY <1>1 DEF LifeOK
<1>3. BatchOK(j) /\ DirsOK(j) /\ outcome[j] = None /\ worker \in [Jobs -> WorkerStates] /\ handler[j].saved \in 0..Files
    BY <1>2, JobFacts DEF Active
<1>4. \A k \in 1..handler[j].saved : k \in 1..Files
    BY <1>3, SizeAssumption
<1> QED
    BY <1>1, <1>2, <1>3, <1>4 DEF TypeOK

\* The work of job j goes to its next stage; the rest of its state stays.
LEMMA GotoFacts ==
    ASSUME IInv, NEW j \in Jobs, worker[j].at \notin {"none", "queued"},
           NEW at \in {"files", "cleaned", "writing", "failing", "cancelling", "succeeding"}, Goto(j, at)
    PROVE  \E w \in WorkerStates :
             w.at = at /\ w.next = worker[j].next /\ w.bad = worker[j].bad
             /\ worker' = [worker EXCEPT ![j] = w] /\ worker'[j] = w
<1>1. worker \in [Jobs -> WorkerStates] /\ worker[j] \in WorkerStates
    BY WorkFacts
<1> DEFINE w == [worker[j] EXCEPT !.at = at]
<1>2. w \in WorkerStates /\ w.at = at /\ w.next = worker[j].next /\ w.bad = worker[j].bad
    BY <1>1 DEF WorkerStates
<1>3. worker' = [worker EXCEPT ![j] = w]
    BY <1>1 DEF Goto
<1> HIDE DEF w
<1>4. worker'[j] = w
    BY <1>1, <1>3
<1> QED
    BY <1>2, <1>3, <1>4

\* The directories a clean-up removes are the job's own.
LEMMA SavedRemoved ==
    ASSUME TypeOK, NEW j \in Jobs, disk' = Removed(SavedDirs(j))
    PROVE  /\ disk' \in [Entries -> Age \cup {None}] /\ OnDisk' \subseteq OnDisk
           /\ \A a \in OnDisk' : disk'[a] = disk[a]
           /\ \A a \in OnDisk : a \notin OnDisk' => \A i \in Jobs \ {j} : ~Matches(a, i)
<1>1. /\ disk' \in [Entries -> Age \cup {None}] /\ OnDisk' = OnDisk \ SavedDirs(j)
      /\ \A a \in OnDisk' : disk'[a] = disk[a]
    BY RemovedDisk
<1>2. \A a \in SavedDirs(j) : \A i \in Jobs \ {j} : ~Matches(a, i)
    BY OwnEntries DEF SavedDirs
<1> QED
    BY <1>1, <1>2

\* The work is cancelled before its thread runs it.
LEMMA NeverRunInv == ASSUME IInv, NEW j \in Jobs, NeverRun(j) PROVE IInv'
<1>1. worker[j].at = "begun" /\ j \in asked /\ Goto(j, "cancelling")
      /\ UNCHANGED <<jobVars, disk, handler, imported, previewVars, sweepVars, starts>>
    BY DEF NeverRun
<1>2. /\ phase[j] = "running" /\ BatchOK(j) /\ outcome[j] = None /\ TypeOK
      /\ imported \in [Jobs -> SUBSET (1..Files)]
    BY <1>1, WorkFacts
<1>3. PICK w \in WorkerStates : w.at = "cancelling" /\ worker' = [worker EXCEPT ![j] = w] /\ worker'[j] = w
    BY <1>1, GotoFacts
<1>4. BatchOK(j)'
    BY <1>1, <1>2, <1>3, NoneAssumption DEF BatchOK, jobVars, Outcome
<1>5. disk' \in [Entries -> Age \cup {None}] /\ OnDisk' = OnDisk /\ disk' = disk
    BY <1>1, <1>2 DEF TypeOK, OnDisk
<1> QED
    BY <1>1, <1>2, <1>3, <1>4, <1>5, WorkMoves

\* A failed import has removed its files by then.
LEMMA OpenDatabaseInv == ASSUME IInv, NEW j \in Jobs, OpenDatabase(j) PROVE IInv'
<1>1. worker[j].at = "begun" /\ UNCHANGED <<jobVars, handler, imported, previewVars, sweepVars, starts>>
    BY DEF OpenDatabase
<1>2. /\ phase[j] = "running" /\ BatchOK(j) /\ DirsOK(j) /\ outcome[j] = None /\ TypeOK
      /\ imported \in [Jobs -> SUBSET (1..Files)] /\ handler[j].saved \in 0..Files
    BY <1>1, WorkFacts
<1>3. CASE Goto(j, IF kind[j] = "Import" THEN "files" ELSE "writing") /\ UNCHANGED disk
    <2>1. PICK at \in {"files", "writing"} : Goto(j, at) /\ (at = "files" <=> kind[j] = "Import")
        BY <1>3
    <2>2. PICK w \in WorkerStates : /\ w.at = at /\ w.next = worker[j].next /\ w.bad = worker[j].bad
                                    /\ worker' = [worker EXCEPT ![j] = w] /\ worker'[j] = w
        BY <1>1, <2>1, GotoFacts
    <2>3. BatchOK(j)'
        <3>1. worker[j].next = 1 /\ imported[j] = {} /\ 1 <= handler[j].saved + 1 /\ {} = 1..(1 - 1)
            BY <1>1, <1>2 DEF BatchOK
        <3> QED
            BY <1>1, <1>2, <2>1, <2>2, <3>1, NoneAssumption DEF BatchOK, jobVars, Outcome
    <2>4. disk' \in [Entries -> Age \cup {None}] /\ OnDisk' = OnDisk /\ disk' = disk
        BY <1>2, <1>3 DEF TypeOK, OnDisk
    <2>5. kind[j] = "Import" => \A k \in 1..handler[j].saved : UploadDir(j, k) \in OnDisk
        BY <1>1, <1>2 DEF DirsOK
    <2> QED
        BY <1>1, <1>2, <2>1, <2>2, <2>3, <2>4, <2>5, WorkMoves
<1>4. CASE Goto(j, "failing") /\ disk' = Removed(SavedDirs(j))
    <2>1. PICK w \in WorkerStates : w.at = "failing" /\ worker' = [worker EXCEPT ![j] = w] /\ worker'[j] = w
        BY <1>1, <1>4, GotoFacts
    <2>2. BatchOK(j)'
        BY <1>1, <1>2, <2>1, NoneAssumption DEF BatchOK, jobVars, Outcome
    <2> QED
        BY <1>1, <1>2, <1>4, <2>1, <2>2, SavedRemoved, WorkMoves
<1> QED
    BY <1>3, <1>4 DEF OpenDatabase

\* One more file is imported, or fails.
LEMMA ImportFileInv == ASSUME IInv, NEW j \in Jobs, ImportFile(j) PROVE IInv'
<1>1. /\ worker[j].at = "files" /\ worker[j].next <= handler[j].saved
      /\ UNCHANGED <<jobVars, disk, handler, previewVars, sweepVars, starts>>
    BY DEF ImportFile, Idx
<1>2. PICK commits \in BOOLEAN, fails \in BOOLEAN :
        /\ ~commits => fails \/ j \in asked
        /\ worker' = [worker EXCEPT ![j].next = @ + 1, ![j].bad = @ \/ fails]
        /\ imported' = IF commits THEN [imported EXCEPT ![j] = @ \cup {worker[j].next}] ELSE imported
    BY DEF ImportFile, Idx
<1>3. /\ phase[j] = "running" /\ BatchOK(j) /\ DirsOK(j) /\ outcome[j] = None /\ TypeOK
      /\ imported \in [Jobs -> SUBSET (1..Files)] /\ handler[j].saved \in 0..Files
      /\ worker \in [Jobs -> WorkerStates] /\ worker[j] \in WorkerStates
    BY <1>1, WorkFacts
<1> DEFINE n == worker[j].next
           b == worker[j].bad \/ fails
           w == [worker[j] EXCEPT !.next = n + 1, !.bad = b]
<1>4. n \in 1..Files /\ n + 1 \in 1..(Files + 1) /\ n + 1 <= handler[j].saved + 1
    <2>1. n \in Nat /\ n >= 1 /\ Files \in Nat /\ handler[j].saved \in Nat /\ handler[j].saved <= Files
        BY <1>3, SizeAssumption DEF WorkerStates
    <2> HIDE DEF n
    <2>2. n <= handler[j].saved
        BY <1>1 DEF n
    <2> QED
        BY <2>1, <2>2
<1>5. b \in BOOLEAN
    OBVIOUS
<1> HIDE DEF b
<1>6. w \in WorkerStates /\ w.at = "files" /\ w.next = n + 1 /\ w.bad = b
    BY <1>1, <1>3, <1>4, <1>5 DEF WorkerStates
<1>7. worker' = [worker EXCEPT ![j] = w]
    BY <1>2, <1>3 DEF b
<1> HIDE DEF w
<1>8. worker'[j] = w
    BY <1>3, <1>7
<1>9. /\ imported' \in [Jobs -> SUBSET (1..Files)] /\ \A i \in Jobs \ {j} : imported'[i] = imported[i]
      /\ imported'[j] = IF commits THEN imported[j] \cup {n} ELSE imported[j]
    BY <1>2, <1>3, <1>4
<1>10. BatchOK(j)'
    <2>1. ~b => ~worker[j].bad /\ ~fails
        BY DEF b
    <2>2. ~b /\ j \notin asked => imported'[j] = 1..(w.next - 1)
        <3>1. SUFFICES ASSUME ~b, j \notin asked PROVE imported'[j] = 1..(w.next - 1)
            OBVIOUS
        <3>2. imported[j] = 1..(n - 1)
            BY <1>1, <1>3, <2>1, <3>1 DEF BatchOK
        <3>3. commits
            BY <1>2, <2>1, <3>1
        <3>4. (1..(n - 1)) \cup {n} = 1..n /\ n + 1 - 1 = n
            BY <1>4, SizeAssumption
        <3>5. imported'[j] = imported[j] \cup {n}
            BY <1>9, <3>3
        <3>6. imported'[j] = 1..n
            BY <3>2, <3>4, <3>5
        <3>7. w.next - 1 = n
            BY <1>6, <3>4
        <3> QED
            BY <3>6, <3>7
    <2>3. kind[j] = "Import"
        BY <1>1, <1>3 DEF BatchOK
    <2> HIDE DEF n
    <2> QED
        BY <1>1, <1>3, <1>4, <1>6, <1>8, <2>2, <2>3, NoneAssumption DEF BatchOK, jobVars, Outcome
<1>11. disk' \in [Entries -> Age \cup {None}] /\ OnDisk' = OnDisk /\ disk' = disk
    BY <1>1, <1>3 DEF TypeOK, OnDisk
<1>12. kind[j] = "Import" => \A k \in 1..handler[j].saved : UploadDir(j, k) \in OnDisk
    BY <1>1, <1>3 DEF DirsOK
<1> QED
    BY <1>1, <1>3, <1>6, <1>7, <1>9, <1>10, <1>11, <1>12, WorkMoves

\* The files are removed when none is needed any more.
LEMMA CleanUpInv == ASSUME IInv, NEW j \in Jobs, CleanUp(j) PROVE IInv'
<1>1. /\ worker[j].at = "files" /\ (worker[j].next > handler[j].saved \/ j \in asked)
      /\ disk' = Removed(SavedDirs(j)) /\ Goto(j, "cleaned")
      /\ UNCHANGED <<jobVars, handler, imported, previewVars, sweepVars, starts>>
    BY DEF CleanUp, Idx
<1>2. /\ phase[j] = "running" /\ BatchOK(j) /\ outcome[j] = None /\ TypeOK
      /\ imported \in [Jobs -> SUBSET (1..Files)] /\ handler[j].saved \in 0..Files
    BY <1>1, WorkFacts
<1>3. PICK w \in WorkerStates : /\ w.at = "cleaned" /\ w.next = worker[j].next /\ w.bad = worker[j].bad
                                /\ worker' = [worker EXCEPT ![j] = w] /\ worker'[j] = w
    BY <1>1, GotoFacts
<1>4. BatchOK(j)'
    BY <1>1, <1>2, <1>3, NoneAssumption DEF BatchOK, jobVars, Outcome
<1> QED
    BY <1>1, <1>2, <1>3, <1>4, SavedRemoved, WorkMoves

\* A batch succeeds when none of its files failed and no cancellation cut it short.
LEMMA ConcludeInv == ASSUME IInv, NEW j \in Jobs, Conclude(j) PROVE IInv'
<1>1. /\ worker[j].at = "cleaned"
      /\ UNCHANGED <<jobVars, disk, handler, imported, previewVars, sweepVars, starts>>
    BY DEF Conclude
<1>2. /\ phase[j] = "running" /\ BatchOK(j) /\ outcome[j] = None /\ TypeOK
      /\ imported \in [Jobs -> SUBSET (1..Files)] /\ handler[j].saved \in 0..Files
      /\ worker[j] \in WorkerStates
    BY <1>1, WorkFacts
<1>3. PICK at \in {"cancelling", "failing", "succeeding"} :
        Goto(j, at) /\ (at = "succeeding" => j \notin asked /\ ~worker[j].bad)
    BY DEF Conclude
<1>4. PICK w \in WorkerStates : w.at = at /\ worker' = [worker EXCEPT ![j] = w] /\ worker'[j] = w
    BY <1>1, <1>3, GotoFacts
<1>5. at = "succeeding" => imported[j] = 1..handler[j].saved
    <2>1. SUFFICES ASSUME at = "succeeding" PROVE imported[j] = 1..handler[j].saved
        OBVIOUS
    <2>2. /\ imported[j] = 1..(worker[j].next - 1) /\ worker[j].next <= handler[j].saved + 1
          /\ worker[j].next > handler[j].saved
        BY <1>1, <1>2, <1>3, <2>1 DEF BatchOK
    <2>3. worker[j].next \in Int /\ handler[j].saved \in Int
        BY <1>2 DEF WorkerStates
    <2>4. worker[j].next - 1 = handler[j].saved
        BY <2>2, <2>3
    <2> QED
        BY <2>2, <2>4
<1>6. kind[j] = "Import"
    BY <1>1, <1>2 DEF BatchOK
<1>7. BatchOK(j)'
    BY <1>1, <1>2, <1>3, <1>4, <1>5, NoneAssumption DEF BatchOK, jobVars, Outcome
<1>8. disk' \in [Entries -> Age \cup {None}] /\ OnDisk' = OnDisk /\ disk' = disk
    BY <1>1, <1>2 DEF TypeOK, OnDisk
<1> QED
    BY <1>1, <1>2, <1>3, <1>4, <1>6, <1>7, <1>8, WorkMoves

\* The export directory is there when the work succeeds.
LEMMA WriteExportInv == ASSUME IInv, NEW j \in Jobs, WriteExport(j) PROVE IInv'
<1>1. /\ worker[j].at = "writing"
      /\ UNCHANGED <<jobVars, handler, imported, previewVars, sweepVars, starts>>
    BY DEF WriteExport
<1>2. /\ phase[j] = "running" /\ BatchOK(j) /\ outcome[j] = None /\ TypeOK /\ kind[j] # "Import"
      /\ imported \in [Jobs -> SUBSET (1..Files)]
    BY <1>1, WorkFacts DEF BatchOK
<1>3. PICK at \in {"cancelling", "failing", "succeeding"} :
        /\ Goto(j, at)
        /\ \/ ExportDir(j) \in OnDisk /\ disk' = disk
           \/ at # "succeeding" /\ disk' = Removed({ExportDir(j)})
    BY DEF WriteExport
<1>4. PICK w \in WorkerStates : w.at = at /\ worker' = [worker EXCEPT ![j] = w] /\ worker'[j] = w
    BY <1>1, <1>3, GotoFacts
<1>5. BatchOK(j)'
    BY <1>1, <1>2, <1>3, <1>4 DEF BatchOK, jobVars
<1>6. /\ disk' \in [Entries -> Age \cup {None}] /\ OnDisk' \subseteq OnDisk
      /\ \A a \in OnDisk' : disk'[a] = disk[a]
      /\ \A a \in OnDisk : a \notin OnDisk' => a = ExportDir(j)
      /\ at = "succeeding" => ExportDir(j) \in OnDisk'
    <2>1. CASE ExportDir(j) \in OnDisk /\ disk' = disk
        BY <1>2, <2>1 DEF TypeOK, OnDisk
    <2>2. CASE at # "succeeding" /\ disk' = Removed({ExportDir(j)})
        <3>1. /\ disk' \in [Entries -> Age \cup {None}] /\ OnDisk' = OnDisk \ {ExportDir(j)}
              /\ \A a \in OnDisk' : disk'[a] = disk[a]
            BY <1>2, <2>2, RemovedDisk
        <3> QED
            BY <2>2, <3>1
    <2> QED
        BY <1>3, <2>1, <2>2
<1>7. \A i \in Jobs \ {j} : ~Matches(ExportDir(j), i)
    BY OwnEntries
<1> QED
    BY <1>1, <1>2, <1>3, <1>4, <1>5, <1>6, <1>7, WorkMoves
----------------------------------------------------------------------------
(* Previews and the cleanup.                                               *)

\* A step that leaves requests, jobs and work alone.
LEMMA QuietMoves ==
    ASSUME IInv, TypeOK', UNCHANGED <<jobVars, handler, worker, imported>>, \A i \in Jobs : KeepsDirs(i),
           \A p \in Previews : preview[p] = "kept" => preview'[p] = "kept",
           \A p \in Previews : preview[p] = "kept" /\ Peek(p) \in OnDisk' => Peek(p) \in OnDisk,
           SweepOK'
    PROVE  IInv'
<1>1. TypeOK /\ SourcesOK /\ NumbersOK /\ \A i \in Jobs : JobOK(i)
    BY DEF IInv
<1>2. \A i \in Jobs : Leaves(i)
    BY DEF Leaves, jobVars
<1>3. \A i \in Jobs : JobOK(i)'
    BY <1>1, <1>2, JobKept
<1>4. SourcesOK'
    <2>1. \A i \in Jobs : Owner(i)' <=> Owner(i)
        BY DEF Owner
    <2>2. \A i \in Jobs : handler[i].at = "claiming" => handler[i].source \in Previews
        BY <1>1 DEF JobOK, HandlerOK
    <2> QED
        BY <1>1, <2>1, <2>2 DEF SourcesOK
<1>5. NumbersOK'
    BY <1>1, NumbersKept DEF jobVars
<1> QED
    BY <1>3, <1>4, <1>5 DEF IInv

\* A preview is admitted with a permit.
LEMMA AdmitPreviewInv == ASSUME IInv, NEW p \in Previews, AdmitPreview(p) PROVE IInv'
<1>1. /\ preview[p] = "none" /\ permits < PreviewLimit /\ preview' = [preview EXCEPT ![p] = "admitted"]
      /\ permits' = permits + 1 /\ UNCHANGED <<jobVars, disk, handler, worker, imported, sweepVars, starts>>
    BY DEF AdmitPreview, MayPreview
<1>2. TypeOK /\ SweepOK
    BY DEF IInv
<1>3. TypeOK'
    BY <1>1, <1>2 DEF TypeOK, Registry!TypeOK, jobVars, sweepVars
<1>4. OnDisk' = OnDisk /\ sweep' = sweep /\ SweepOK'
    BY <1>1, <1>2 DEF OnDisk, sweepVars, SweepOK
<1>5. \A i \in Jobs : KeepsDirs(i)
    BY <1>1, <1>4 DEF KeepsDirs
<1>6. \A q \in Previews : preview[q] = "kept" => preview'[q] = "kept"
    BY <1>1, <1>2 DEF TypeOK
<1> QED
    BY <1>1, <1>3, <1>4, <1>5, <1>6, QuietMoves

\* A new preview removes stale ones; none that an import has claimed comes back.
LEMMA ReceivePreviewInv == ASSUME IInv, NEW p \in Previews, ReceivePreview(p) PROVE IInv'
<1>1. PICK stale : /\ \A a \in stale : \E q \in Previews : a = Peek(q)
                   /\ disk' = [Removed(stale) EXCEPT ![Peek(p)] = 0]
    BY DEF ReceivePreview
<1>2. /\ preview[p] = "admitted" /\ preview' = [preview EXCEPT ![p] = "writing"] /\ permits' = permits
      /\ UNCHANGED <<jobVars, handler, worker, imported, sweepVars, starts>>
    BY DEF ReceivePreview
<1>3. TypeOK /\ SweepOK
    BY DEF IInv
<1>4. /\ disk' \in [Entries -> Age \cup {None}] /\ OnDisk' \subseteq OnDisk \cup {Peek(p)}
      /\ \A a \in OnDisk' : a # Peek(p) => disk'[a] = disk[a]
      /\ \A a \in OnDisk : a \in OnDisk' \/ \E q \in Previews : a = Peek(q)
    <2>1. 0 \in Age /\ None \notin Age
        BY TtlAssumption, NoneAssumption DEF Age
    <2>2. disk \in [Entries -> Age \cup {None}]
        BY <1>3 DEF TypeOK
    <2>3. disk' \in [Entries -> Age \cup {None}]
        BY <1>1, <2>1, <2>2 DEF Removed
    <2>4. \A a \in Entries : a # Peek(p) => disk'[a] = IF a \in stale THEN None ELSE disk[a]
        BY <1>1 DEF Removed
    <2> QED
        BY <1>1, <2>3, <2>4 DEF OnDisk
<1>5. TypeOK'
    BY <1>2, <1>3, <1>4 DEF TypeOK, Registry!TypeOK, jobVars, sweepVars
<1>6. SweepOK' /\ sweep' = sweep
    BY <1>2, <1>3 DEF SweepOK, sweepVars
<1>7. \A i \in Jobs : KeepsDirs(i)
    <2>1. \A i \in Jobs, q \in Previews : ~Matches(Peek(q), i)
        BY EntryNames
    <2> QED
        BY <1>4, <1>6, <2>1 DEF KeepsDirs
<1>8. /\ \A q \in Previews : preview[q] = "kept" => preview'[q] = "kept"
      /\ \A q \in Previews : preview[q] = "kept" => q # p
    BY <1>2, <1>3 DEF TypeOK
<1>9. \A q \in Previews : preview[q] = "kept" /\ Peek(q) \in OnDisk' => Peek(q) \in OnDisk
    <2>1. \A q \in Previews : q # p => Peek(q) # Peek(p)
        BY EntryNames
    <2> QED
        BY <1>4, <1>8, <2>1
<1> QED
    BY <1>2, <1>5, <1>6, <1>7, <1>8, <1>9, QuietMoves

\* A preview is read under the permit it has.
LEMMA ReadPreviewInv == ASSUME IInv, NEW p \in Previews, ReadPreview(p) PROVE IInv'
<1>1. /\ preview[p] = "writing" /\ preview' = [preview EXCEPT ![p] = "reading"]
      /\ UNCHANGED <<jobVars, permits, disk, handler, worker, imported, sweepVars, starts>>
    BY DEF ReadPreview
<1>2. TypeOK /\ SweepOK
    BY DEF IInv
<1>3. TypeOK'
    BY <1>1, <1>2 DEF TypeOK, Registry!TypeOK, jobVars, sweepVars
<1>4. OnDisk' = OnDisk /\ sweep' = sweep /\ SweepOK'
    BY <1>1, <1>2 DEF OnDisk, SweepOK, sweepVars
<1>5. \A i \in Jobs : KeepsDirs(i)
    BY <1>1, <1>4 DEF KeepsDirs
<1>6. \A q \in Previews : preview[q] = "kept" => preview'[q] = "kept"
    BY <1>1, <1>2 DEF TypeOK
<1> QED
    BY <1>1, <1>3, <1>4, <1>5, <1>6, QuietMoves

\* A preview ends, and keeps its file or not.
LEMMA EndPreviewInv == ASSUME IInv, NEW p \in Previews, EndPreview(p) PROVE IInv'
<1>1. PICK to \in {"kept", "ended"} :
        /\ preview' = [preview EXCEPT ![p] = to] /\ (disk' = disk \/ disk' = Removed({Peek(p)}))
    BY DEF EndPreview
<1>2. /\ p \in Previewing /\ permits' = IF permits > 0 THEN permits - 1 ELSE 0
      /\ UNCHANGED <<jobVars, handler, worker, imported, sweepVars, starts>>
    BY DEF EndPreview
<1>3. TypeOK /\ SweepOK
    BY DEF IInv
<1>4. /\ disk' \in [Entries -> Age \cup {None}] /\ OnDisk' \subseteq OnDisk
      /\ \A a \in OnDisk' : disk'[a] = disk[a]
      /\ \A a \in OnDisk : a \in OnDisk' \/ a = Peek(p)
    <2>1. CASE disk' = disk
        BY <1>3, <2>1 DEF TypeOK, OnDisk
    <2>2. CASE disk' = Removed({Peek(p)})
        BY <1>3, <2>2, RemovedDisk
    <2> QED
        BY <1>1, <2>1, <2>2
<1>5. permits' \in Nat
    BY <1>2, <1>3 DEF TypeOK
<1>6. TypeOK'
    BY <1>1, <1>2, <1>3, <1>4, <1>5 DEF TypeOK, Registry!TypeOK, jobVars, sweepVars
<1>7. SweepOK' /\ sweep' = sweep
    BY <1>2, <1>3 DEF SweepOK, sweepVars
<1>8. \A i \in Jobs : KeepsDirs(i)
    <2>1. \A i \in Jobs : ~Matches(Peek(p), i)
        BY EntryNames
    <2> QED
        BY <1>4, <1>7, <2>1 DEF KeepsDirs
<1>9. \A q \in Previews : preview[q] = "kept" => preview'[q] = "kept"
    BY <1>1, <1>2, <1>3 DEF TypeOK, Previewing
<1> QED
    BY <1>2, <1>4, <1>5, <1>6, <1>7, <1>8, <1>9, QuietMoves

\* What a sweep over a job list may remove: nothing of a job that has not ended, and nothing young.
LEMMA DoomedAreOld ==
    ASSUME NEW ph, NEW ages, NEW j \in Jobs, NEW a \in SweepOver(ph, ages).doomed, Matches(a, j)
    PROVE  /\ a \in OnDisk /\ ph[j] \notin {"queued", "running"}
           /\ ph[j] \in {"absent", "forgotten"} => disk[a] >= Ttl(a)
           /\ ph[j] \notin {"absent", "forgotten"} => ages[j] >= Ttl(a)
<1>1. a \in OnDisk /\ ~Protected(a, ph) /\ ReferenceAge(a, ph, ages) >= Ttl(a)
    BY DEF SweepOver
<1>2. \A i \in Jobs : Matches(a, i) => i = j
    BY EntryNames
<1> DEFINE owners == {i \in Jobs : Matches(a, i) /\ ph[i] \notin {"absent", "forgotten"}}
<1>3. ReferenceAge(a, ph, ages) = IF owners = {} THEN disk[a] ELSE ages[CHOOSE i \in owners : TRUE]
    BY DEF ReferenceAge
<1>4. ph[j] \in {"absent", "forgotten"} => owners = {}
    BY <1>2
<1>5. ph[j] \notin {"absent", "forgotten"} => owners # {} /\ (CHOOSE i \in owners : TRUE) = j
    <2>1. SUFFICES ASSUME ph[j] \notin {"absent", "forgotten"} PROVE owners # {} /\ (CHOOSE i \in owners : TRUE) = j
        OBVIOUS
    <2>2. owners = {j}
        BY <1>2, <2>1
    <2> QED
        BY <2>2
<1> HIDE DEF owners
<1> QED
    BY <1>1, <1>3, <1>4, <1>5 DEF Protected

\* A sweep is over the entries that are on disk.
LEMMA SweepOverType ==
    ASSUME NEW ph, NEW ages
    PROVE  SweepOver(ph, ages) \in [on : BOOLEAN, listed : SUBSET Entries, doomed : SUBSET Entries]
           /\ SweepOver(ph, ages).on
BY DEF SweepOver, OnDisk

\* The files of requests under way are young; those of jobs are protected, or as old as the job.
LEMMA StartSweepInv == ASSUME IInv, StartSweep PROVE IInv'
<1>1. /\ sweep' = SweepOver(phase, age) /\ swept' = swept
      /\ UNCHANGED <<jobVars, disk, handler, worker, imported, previewVars, starts>>
    BY DEF StartSweep
<1>2. TypeOK /\ NumbersOK /\ SourcesOK /\ \A j \in Jobs : JobOK(j)
    BY DEF IInv
<1>3. TypeOK'
    BY <1>1, <1>2, SweepOverType DEF TypeOK, Registry!TypeOK, jobVars, previewVars
<1>4. SweepOK'
    BY <1>1, SweepOverType DEF SweepOK
<1>5. OnDisk' = OnDisk
    BY <1>1 DEF OnDisk
<1>6. ASSUME NEW j \in Jobs PROVE JobOK(j)'
    <2>1. HandlerOK(j) /\ LifeOK(j) /\ BatchOK(j) /\ DirsOK(j)
        BY <1>2 DEF JobOK
    <2>2. handler[j].at # "done" \/ Active(j) => \A a \in sweep'.doomed : ~Matches(a, j)
        <3>1. SUFFICES ASSUME handler[j].at # "done" \/ Active(j), NEW a \in sweep'.doomed, Matches(a, j) PROVE FALSE
            OBVIOUS
        <3>2. /\ a \in OnDisk /\ phase[j] \notin {"queued", "running"}
              /\ phase[j] \in {"absent", "forgotten"} => disk[a] >= Ttl(a)
            BY <1>1, <3>1, DoomedAreOld
        <3>3. handler[j].at # "done" /\ phase[j] = "absent"
            BY <2>1, <3>1, <3>2 DEF Active, LifeOK
        <3>4. handler[j].at # "none"
            BY <2>1, <3>1, <3>2 DEF DirsOK
        <3>5. Receiving(j)
            BY <1>2, <3>3, <3>4 DEF TypeOK, Receiving
        <3>6. disk[a] < Ttl(a)
            BY <2>1, <3>1, <3>2, <3>5 DEF DirsOK
        <3>7. disk[a] \in Int /\ Ttl(a) \in Int
            BY <1>2, <3>2, TtlAssumption DEF TypeOK, OnDisk, Age, Ttl
        <3> QED
            BY <3>2, <3>3, <3>6, <3>7
    <2>3. phase[j] = "succeeded" /\ age[j] < ExportTtl => ExportDir(j) \notin sweep'.doomed
        <3>1. SUFFICES ASSUME phase[j] = "succeeded", age[j] < ExportTtl, ExportDir(j) \in sweep'.doomed PROVE FALSE
            OBVIOUS
        <3>2. Matches(ExportDir(j), j) /\ Ttl(ExportDir(j)) = ExportTtl
            BY EntryKinds
        <3>3. age[j] >= ExportTtl
            BY <1>1, <3>1, <3>2, DoomedAreOld
        <3> QED
            BY <1>2, <3>1, <3>3, TtlAssumption DEF TypeOK, Age
    <2>4. DirsOK(j)'
        BY <1>1, <1>5, <2>1, <2>2, <2>3 DEF DirsOK, jobVars, Active, Receiving
    <2>5. HandlerOK(j)' /\ LifeOK(j)' /\ BatchOK(j)'
        BY <1>1, <2>1 DEF HandlerOK, LifeOK, BatchOK, jobVars, Active
    <2> QED
        BY <2>4, <2>5 DEF JobOK
<1>7. SourcesOK'
    BY <1>1, <1>2, <1>5, SourcesKept DEF Owner, previewVars
<1>8. NumbersOK'
    BY <1>1, <1>2, NumbersKept DEF jobVars
<1> QED
    BY <1>3, <1>4, <1>6, <1>7, <1>8 DEF IInv

\* The cleanup removes one entry.
LEMMA SweepEntryInv == ASSUME IInv, NEW a \in Entries, SweepEntry(a) PROVE IInv'
<1>1. /\ sweep.on /\ a \in sweep.doomed \cap OnDisk /\ disk' = Removed({a})
      /\ sweep' = [sweep EXCEPT !.doomed = @ \ {a}, !.listed = @ \ {a}]
      /\ UNCHANGED <<jobVars, handler, worker, imported, previewVars, swept, starts>>
    BY DEF SweepEntry
<1>2. TypeOK
    BY DEF IInv
<1>3. /\ disk' \in [Entries -> Age \cup {None}] /\ OnDisk' = OnDisk \ {a} /\ \A b \in OnDisk' : disk'[b] = disk[b]
    BY <1>1, <1>2, RemovedDisk
<1>4. /\ sweep' \in [on : BOOLEAN, listed : SUBSET Entries, doomed : SUBSET Entries]
      /\ sweep'.doomed = sweep.doomed \ {a} /\ sweep'.on
    BY <1>1, <1>2 DEF TypeOK
<1>5. TypeOK'
    BY <1>1, <1>2, <1>3, <1>4 DEF TypeOK, Registry!TypeOK, jobVars, previewVars
<1>6. \A i \in Jobs : KeepsDirs(i)
    BY <1>1, <1>3, <1>4 DEF KeepsDirs
<1>7. SweepOK'
    BY <1>1, <1>4 DEF SweepOK
<1> QED
    BY <1>1, <1>3, <1>5, <1>6, <1>7, QuietMoves DEF previewVars

\* The cleanup ends.
LEMMA EndSweepInv == ASSUME IInv, EndSweep PROVE IInv'
<1>1. /\ sweep' = NoSweep /\ swept' = TRUE
      /\ UNCHANGED <<jobVars, disk, handler, worker, imported, previewVars, starts>>
    BY DEF EndSweep
<1>2. TypeOK
    BY DEF IInv
<1>3. TypeOK'
    BY <1>1, <1>2 DEF TypeOK, Registry!TypeOK, jobVars, previewVars, NoSweep
<1>4. OnDisk' = OnDisk /\ sweep'.doomed = {}
    BY <1>1 DEF OnDisk, NoSweep
<1>5. \A i \in Jobs : KeepsDirs(i)
    BY <1>1, <1>4 DEF KeepsDirs
<1>6. SweepOK'
    BY <1>4 DEF SweepOK
<1> QED
    BY <1>1, <1>3, <1>4, <1>5, <1>6, QuietMoves DEF previewVars
----------------------------------------------------------------------------
(* Time and restarts.                                                      *)

\* Time passes for files and for jobs alike, and not beyond what a request may take.
LEMMA TickInv == ASSUME IInv, Tick PROVE IInv'
<1>1. /\ ~sweep.on /\ \A j \in Jobs : InTime(j)
      /\ disk' = [a \in Entries |->
             IF disk[a] = None \/ \E p \in Previews : preview[p] = "writing" /\ a = Peek(p)
             THEN disk[a] ELSE Older(disk[a])]
      /\ age' = [j \in Jobs |-> Older(age[j])] /\ swept' = FALSE
      /\ UNCHANGED <<kind, phase, asked, number, nextId, outcome, handler, worker, imported, previewVars, sweep,
                     starts>>
    BY DEF Tick
<1>2. TypeOK /\ NumbersOK /\ SourcesOK /\ SweepOK /\ \A j \in Jobs : JobOK(j)
    BY DEF IInv
<1>3. /\ disk' \in [Entries -> Age \cup {None}] /\ OnDisk' = OnDisk
      /\ \A a \in OnDisk : \A j \in Jobs : Matches(a, j) => disk'[a] = Older(disk[a])
    <2>1. \A a \in Entries : disk[a] \in Age \cup {None}
        BY <1>2 DEF TypeOK
    <2>2. None \notin Age /\ \A n \in Age : Older(n) \in Age
        BY Older0, NoneAssumption DEF Age
    <2>3. \A a \in Entries : disk'[a] \in Age \cup {None} /\ (disk'[a] = None <=> disk[a] = None)
        BY <1>1, <2>1, <2>2
    <2>4. \A a \in OnDisk : \A j \in Jobs : Matches(a, j) => ~\E p \in Previews : a = Peek(p)
        BY EntryNames
    <2> QED
        BY <1>1, <2>3, <2>4 DEF OnDisk
<1>4. age' \in [Jobs -> Age] /\ \A j \in Jobs : age[j] <= age'[j] /\ age[j] \in Int /\ age'[j] \in Int
    BY <1>1, <1>2, Older0 DEF TypeOK, Age
<1>5. TypeOK'
    BY <1>1, <1>2, <1>3, <1>4 DEF TypeOK, Registry!TypeOK, previewVars
<1>6. ASSUME NEW j \in Jobs PROVE JobOK(j)'
    <2>1. HandlerOK(j) /\ LifeOK(j) /\ BatchOK(j) /\ DirsOK(j)
        BY <1>2 DEF JobOK
    <2>2. Receiving(j) => \A a \in OnDisk' : Matches(a, j) => disk'[a] < Ttl(a)
        BY <1>1, <1>3 DEF InTime, Receiving
    <2>3. age'[j] < ExportTtl => age[j] < ExportTtl
        BY <1>4, TtlAssumption
    <2>4. DirsOK(j)'
        BY <1>1, <1>3, <2>1, <2>2, <2>3 DEF DirsOK, Active, Receiving
    <2>5. HandlerOK(j)' /\ LifeOK(j)' /\ BatchOK(j)'
        BY <1>1, <2>1 DEF HandlerOK, LifeOK, BatchOK, Active
    <2> QED
        BY <2>4, <2>5 DEF JobOK
<1>7. SourcesOK'
    BY <1>1, <1>2, <1>3, SourcesKept DEF Owner, previewVars
<1>8. NumbersOK' /\ SweepOK'
    BY <1>1, <1>2, NumbersKept DEF SweepOK
<1> QED
    BY <1>5, <1>6, <1>7, <1>8 DEF IInv

\* There is a highest id.
LEMMA HighestOfBounded ==
    ASSUME NEW S \in SUBSET Nat, S # {}, NEW b \in Nat, \A y \in S : y <= b
    PROVE  Max(S) \in S /\ \A y \in S : y <= Max(S)
<1> DEFINE R == OpToRel(<, Nat)
           T == {n \in Nat : \E y \in S : n + y = b}
<1>1. IsWellFoundedOn(R, Nat)
    BY NatLessThanWellFounded
<1>2. \A x, y \in Nat : y < x => <<y, x>> \in R
    BY DEF OpToRel
<1>3. T \subseteq Nat /\ T # {}
    <2>1. PICK y \in S : TRUE
        OBVIOUS
    <2>2. b - y \in Nat /\ (b - y) + y = b
        BY <2>1
    <2> QED
        BY <2>1, <2>2
<1> HIDE DEF R
<1>4. PICK n \in T : \A m \in T : ~(<<m, n>> \in R)
    <2> HIDE DEF T
    <2> QED
        BY <1>1, <1>3, WFMin, Zenon
<1>5. PICK x \in S : n + x = b
    OBVIOUS
<1>6. \A y \in S : x >= y
    <2>1. SUFFICES ASSUME NEW y \in S, y > x PROVE FALSE
        OBVIOUS
    <2>2. b - y \in Nat /\ (b - y) + y = b /\ b - y < n /\ n \in Nat
        BY <1>5, <2>1
    <2>3. b - y \in T
        BY <2>2
    <2> QED
        BY <1>2, <1>4, <2>2, <2>3
<1>7. Max(S) \in S /\ \A y \in S : Max(S) >= y
    BY <1>6 DEF Max
<1> QED
    BY <1>7

\* Ids continue above those of the jobs that are listed.
LEMMA NextIdIsFree ==
    ASSUME TypeOK, NumbersOK, NEW ph
    PROVE  /\ IdAfter(ph) \in Nat \ {0}
           /\ \A j \in Jobs : ph[j] \notin {"absent", "forgotten"} => number[j] < IdAfter(ph)
<1> DEFINE S == {0} \cup {number[j] : j \in {j \in Jobs : ph[j] \notin {"absent", "forgotten"}}}
<1>1. HighestId(ph) = Max(S)
    BY DEF HighestId
<1>2. S \in SUBSET Nat /\ S # {} /\ nextId \in Nat
    BY DEF TypeOK
<1>3. \A y \in S : y <= nextId
    BY DEF TypeOK, NumbersOK
<1>4. \A j \in Jobs : ph[j] \notin {"absent", "forgotten"} => number[j] \in S
    OBVIOUS
<1> HIDE DEF S
<1>5. Max(S) \in Nat /\ \A y \in S : y <= Max(S) /\ y \in Nat
    BY <1>2, <1>3, HighestOfBounded
<1> QED
    BY <1>1, <1>4, <1>5 DEF IdAfter

\* What a job is after the restart.
LEMMA RecoveredJob ==
    ASSUME IInv, Restart, NEW j \in Jobs
    PROVE  /\ phase'[j] \in {"absent", "forgotten"} \cup Outcome
           /\ phase[j] = "absent" <=> phase'[j] = "absent"
           /\ phase'[j] \notin {"absent", "forgotten"} => number[j] # 0
           /\ phase'[j] = "succeeded" => outcome[j] = "succeeded" /\ phase[j] = "succeeded" /\ age'[j] = age[j]
<1>1. TypeOK /\ LifeOK(j)
    BY DEF IInv, JobOK
<1>2. outcome[j] \in Outcome \cup {None}
    BY <1>1 DEF TypeOK
<1>3. phase'[j] \in Recovered(j) /\ age' = [i \in Jobs |-> IF phase'[i] # "failed" \/ outcome[i] = "failed" THEN age[i] ELSE 0]
    BY DEF Restart
<1>4. phase[j] = "absent" => phase'[j] = "absent"
    BY <1>3 DEF Recovered
<1>5. phase[j] # "absent" /\ number[j] = 0 => phase'[j] = "forgotten"
    BY <1>3 DEF Recovered
<1>6. phase[j] # "absent" /\ number[j] # 0 =>
        phase'[j] \in {"forgotten", "failed"} \/ (outcome[j] # None /\ phase'[j] = outcome[j])
    BY <1>3 DEF Recovered
<1> QED
    BY <1>1, <1>2, <1>3, <1>4, <1>5, <1>6 DEF LifeOK, Outcome

\* A restart makes no success of anything else, forgets no file of a success, and continues the ids.
LEMMA RestartInv == ASSUME IInv, Restart PROVE IInv'
<1>1. /\ phase' \in [Jobs -> Registry!Phase]
      /\ age' = [j \in Jobs |-> IF phase'[j] # "failed" \/ outcome[j] = "failed" THEN age[j] ELSE 0]
      /\ outcome' = [j \in Jobs |-> IF phase'[j] \in Outcome THEN phase'[j] ELSE outcome[j]]
      /\ number' = [j \in Jobs |-> IF phase'[j] = "forgotten" THEN 0 ELSE number[j]]
      /\ nextId' = IdAfter(phase') /\ asked' = {}
    BY DEF Restart
<1>2. /\ handler' = [j \in Jobs |-> IF handler[j].at = "none" THEN NoHandler
                                    ELSE [handler[j] EXCEPT !.at = "done"]]
      /\ worker' = [j \in Jobs |-> [worker[j] EXCEPT !.at = "none"]]
      /\ preview' = [p \in Previews |-> IF p \in Previewing THEN "ended" ELSE preview[p]]
      /\ permits' = 0 /\ sweep' = SweepOver(phase', age') /\ UNCHANGED <<kind, disk, imported, swept>>
      /\ starts' = starts + 1 /\ starts < MaxStarts
    BY DEF Restart
<1>3. TypeOK /\ NumbersOK /\ \A j \in Jobs : JobOK(j)
    BY DEF IInv
<1>4. OnDisk' = OnDisk
    BY <1>2 DEF OnDisk
<1>5. /\ handler' \in [Jobs -> HandlerStates]
      /\ \A j \in Jobs : /\ handler'[j].at = "none" \/ handler'[j].at = "done"
                         /\ handler'[j].at = "none" => handler'[j] = NoHandler /\ handler[j].at = "none"
                         /\ handler'[j].saved = handler[j].saved
    <2>1. handler \in [Jobs -> HandlerStates]
        BY <1>3 DEF TypeOK, HandlerStates
    <2>2. ASSUME NEW j \in Jobs, handler[j].at = "none" PROVE handler'[j] = NoHandler /\ NoHandler = handler[j]
        BY <1>2, <1>3, <2>2 DEF JobOK, HandlerOK
    <2>3. ASSUME NEW j \in Jobs, handler[j].at # "none"
          PROVE  handler'[j] \in HandlerStates /\ handler'[j].at = "done" /\ handler'[j].saved = handler[j].saved
        <3>1. handler'[j] = [handler[j] EXCEPT !.at = "done"] /\ handler[j] \in HandlerStates
            BY <1>2, <2>1, <2>3
        <3> QED
            BY <3>1 DEF HandlerStates
    <2>4. \A j \in Jobs : handler'[j] \in HandlerStates
        BY <2>1, <2>2, <2>3
    <2>5. handler' \in [Jobs -> HandlerStates]
        BY <1>2, <2>4
    <2> QED
        BY <2>2, <2>3, <2>5 DEF NoHandler
<1>6. /\ worker' \in [Jobs -> WorkerStates] /\ \A j \in Jobs : worker'[j].at = "none"
      /\ \A j \in Jobs : worker[j] = NoWorker => worker'[j] = NoWorker
    <2>1. worker \in [Jobs -> WorkerStates]
        BY <1>3 DEF TypeOK, WorkerStates
    <2>2. \A j \in Jobs : worker'[j] \in WorkerStates /\ worker'[j].at = "none"
        BY <1>2, <2>1 DEF WorkerStates
    <2>3. \A j \in Jobs : worker[j] = NoWorker => worker'[j] = NoWorker
        BY <1>2 DEF NoWorker
    <2> QED
        BY <1>2, <2>2, <2>3
<1>7. \A j \in Jobs : /\ phase'[j] \in {"absent", "forgotten"} \cup Outcome
                      /\ phase[j] = "absent" <=> phase'[j] = "absent"
                      /\ phase'[j] \notin {"absent", "forgotten"} => number[j] # 0
                      /\ phase'[j] = "succeeded" => outcome[j] = "succeeded" /\ phase[j] = "succeeded" /\ age'[j] = age[j]
    BY RecoveredJob
<1>8. /\ sweep' \in [on : BOOLEAN, listed : SUBSET Entries, doomed : SUBSET Entries] /\ sweep'.on
    BY <1>2, SweepOverType
<1>9. nextId' \in Nat \ {0} /\ \A j \in Jobs : phase'[j] \notin {"absent", "forgotten"} => number[j] < nextId'
    BY <1>1, <1>3, NextIdIsFree
<1>10. TypeOK'
    <2>1. age' \in [Jobs -> Age]
        <3>1. 0 \in Age
            BY TtlAssumption DEF Age
        <3> QED
            BY <1>1, <1>3, <3>1 DEF TypeOK
    <2>2. outcome' \in [Jobs -> Outcome \cup {None}] /\ number' \in [Jobs -> Nat]
        BY <1>1, <1>3 DEF TypeOK
    <2>3. preview' \in [Previews -> {"none", "admitted", "writing", "reading", "kept", "ended"}] /\ permits' \in Nat
        BY <1>2, <1>3 DEF TypeOK
    <2>4. starts' \in 0..MaxStarts
        BY <1>2, <1>3, SizeAssumption DEF TypeOK
    <2> QED
        BY <1>1, <1>2, <1>3, <1>5, <1>6, <1>8, <1>9, <2>1, <2>2, <2>3, <2>4
           DEF TypeOK, Registry!TypeOK, HandlerStates, WorkerStates
<1>11. ASSUME NEW j \in Jobs PROVE JobOK(j)'
    <2>1. HandlerOK(j) /\ LifeOK(j) /\ BatchOK(j) /\ DirsOK(j)
        BY <1>3 DEF JobOK
    <2>2. HandlerOK(j)'
        BY <1>2, <1>5, <2>1 DEF HandlerOK, NoHandler
    <2>3. LifeOK(j)'
        <3>1. handler'[j].at # "done" => phase'[j] = "absent"
            BY <1>5, <1>7, <2>1 DEF LifeOK
        <3>2. phase'[j] = "absent" => worker'[j] = NoWorker /\ number'[j] = 0 /\ outcome'[j] = None /\ imported'[j] = {}
            BY <1>1, <1>2, <1>6, <1>7, <2>1 DEF LifeOK, Outcome
        <3>3. ~Active(j)' /\ phase'[j] # "running" /\ phase'[j] # "queued" /\ worker'[j].at = "none"
            BY <1>6, <1>7 DEF Active, Outcome
        <3>4. phase'[j] \notin {"absent", "forgotten"} => number'[j] # 0
            BY <1>1, <1>7
        <3>5. phase'[j] \in Outcome => outcome'[j] = phase'[j]
            BY <1>1
        <3>6. outcome'[j] # None /\ number'[j] # 0 => phase'[j] = outcome'[j]
            BY <1>1, <1>7, <3>2, <3>5
        <3> QED
            BY <3>1, <3>2, <3>3, <3>4, <3>5, <3>6 DEF LifeOK
    <2>4. BatchOK(j)'
        <3>1. outcome'[j] = "succeeded" => outcome[j] = "succeeded"
            BY <1>1, <1>7
        <3> QED
            BY <1>2, <1>5, <1>6, <2>1, <3>1 DEF BatchOK
    <2>5. DirsOK(j)'
        <3>1. handler'[j].at = "none" => \A a \in OnDisk' : ~Matches(a, j)
            BY <1>4, <1>5, <2>1 DEF DirsOK
        <3>2. \A a \in sweep'.doomed : Matches(a, j) => a \in OnDisk' /\ (phase'[j] = "succeeded" => age'[j] >= Ttl(a))
            BY <1>2, <1>4, DoomedAreOld
        <3>3. handler'[j].at # "done" \/ Active(j)' => \A a \in sweep'.doomed : ~Matches(a, j)
            BY <1>5, <1>7, <3>1, <3>2 DEF Active, Outcome
        <3>4. kind'[j] = "Export" /\ phase'[j] = "succeeded" /\ age'[j] < ExportTtl =>
                ExportDir(j) \in OnDisk' /\ ExportDir(j) \notin sweep'.doomed
            <4>1. SUFFICES ASSUME kind'[j] = "Export", phase'[j] = "succeeded", age'[j] < ExportTtl
                  PROVE  ExportDir(j) \in OnDisk' /\ ExportDir(j) \notin sweep'.doomed
                OBVIOUS
            <4>2. ExportDir(j) \in OnDisk
                BY <1>2, <1>7, <2>1, <4>1 DEF DirsOK
            <4>3. Matches(ExportDir(j), j) /\ Ttl(ExportDir(j)) = ExportTtl
                BY EntryKinds
            <4>4. age'[j] \in Int /\ ExportTtl \in Int
                BY <1>10, TtlAssumption DEF TypeOK, Age
            <4> QED
                BY <1>4, <3>2, <4>1, <4>2, <4>3, <4>4
        <3> QED
            BY <1>5, <1>6, <3>1, <3>3, <3>4 DEF DirsOK, Receiving
    <2> QED
        BY <2>2, <2>3, <2>4, <2>5 DEF JobOK
<1>12. NumbersOK'
    <2>1. \A j \in Jobs : number'[j] # 0 => number'[j] = number[j] /\ phase'[j] \notin {"absent", "forgotten"}
        <3>1. ASSUME NEW j \in Jobs, phase'[j] = "absent" PROVE number[j] = 0
            BY <1>3, <1>7, <3>1 DEF JobOK, LifeOK
        <3> QED
            BY <1>1, <3>1
    <2>2. \A j \in Jobs : number'[j] < nextId'
        BY <1>9, <2>1
    <2>3. \A i, j \in Jobs : number'[i] = number'[j] /\ number'[i] # 0 => i = j
        BY <1>3, <2>1 DEF NumbersOK
    <2> QED
        BY <2>2, <2>3 DEF NumbersOK
<1>13. SourcesOK'
    <2>1. \A j \in Jobs : ~Owner(j)' /\ handler'[j].at # "claiming"
        BY <1>5, <1>6 DEF Owner
    <2> QED
        BY <2>1 DEF SourcesOK
<1>14. SweepOK'
    BY <1>2, <1>8 DEF SweepOK
<1> QED
    BY <1>10, <1>11, <1>12, <1>13, <1>14 DEF IInv

\* A server that starts for the first time finds nothing.
LEMMA InitInv == Init => IInv
<1> SUFFICES ASSUME Init PROVE IInv
    OBVIOUS
<1>1. 0 \in Age /\ 1 \in 1..(Files + 1) /\ 0 \in 0..Files /\ 0 \in 0..MaxStarts
    BY TtlAssumption, SizeAssumption DEF Age
<1>2. /\ kind \in [Jobs -> Kinds] /\ phase = [j \in Jobs |-> "absent"] /\ asked = {}
      /\ number = [j \in Jobs |-> 0] /\ nextId = 1 /\ age = [j \in Jobs |-> 0] /\ outcome = [j \in Jobs |-> None]
      /\ disk = [a \in Entries |-> None] /\ handler = [j \in Jobs |-> NoHandler]
      /\ worker = [j \in Jobs |-> NoWorker] /\ imported = [j \in Jobs |-> {}]
    BY DEF Init, Registry!Init
<1>3. preview = [p \in Previews |-> "none"] /\ permits = 0 /\ sweep = NoSweep /\ swept = FALSE /\ starts = 0
    BY DEF Init
<1>4. NoHandler \in HandlerStates /\ NoWorker \in WorkerStates
    BY <1>1 DEF NoHandler, NoWorker, HandlerStates, WorkerStates
<1>5. TypeOK
    <2>1. Registry!TypeOK
        BY <1>2 DEF Registry!TypeOK, Registry!Phase
    <2>2. handler \in [Jobs -> HandlerStates] /\ worker \in [Jobs -> WorkerStates]
        BY <1>2, <1>4
    <2>3. sweep \in [on : BOOLEAN, listed : SUBSET Entries, doomed : SUBSET Entries]
        BY <1>3 DEF NoSweep
    <2>4. age \in [Jobs -> Age] /\ disk \in [Entries -> Age \cup {None}] /\ starts \in 0..MaxStarts
        BY <1>1, <1>2, <1>3
    <2>5. nextId \in Nat \ {0} /\ permits \in Nat /\ number \in [Jobs -> Nat]
        BY <1>2, <1>3
    <2>6. outcome \in [Jobs -> Outcome \cup {None}] /\ imported \in [Jobs -> SUBSET (1..Files)]
        BY <1>2
    <2>7. swept \in BOOLEAN
        BY <1>3
    <2>8. preview \in [Previews -> {"none", "admitted", "writing", "reading", "kept", "ended"}]
        BY <1>3
    <2> QED
        BY <2>1, <2>2, <2>3, <2>4, <2>5, <2>6, <2>7, <2>8 DEF TypeOK, HandlerStates, WorkerStates
<1>6. OnDisk = {}
    BY <1>2 DEF OnDisk
<1>7. ASSUME NEW j \in Jobs PROVE JobOK(j)
    <2>1. /\ handler[j].at = "none" /\ handler[j] = NoHandler /\ handler[j].saved = 0 /\ phase[j] = "absent"
          /\ worker[j] = NoWorker /\ worker[j].at = "none" /\ number[j] = 0 /\ outcome[j] = None /\ imported[j] = {}
          /\ sweep.doomed = {}
        BY <1>2, <1>3 DEF NoHandler, NoWorker, NoSweep
    <2>2. HandlerOK(j) /\ LifeOK(j)
        BY <2>1 DEF HandlerOK, LifeOK, Active, Outcome
    <2>3. BatchOK(j)
        BY <2>1, NoneAssumption DEF BatchOK, Outcome
    <2>4. DirsOK(j)
        BY <1>6, <2>1 DEF DirsOK, Receiving, Active
    <2> QED
        BY <2>2, <2>3, <2>4 DEF JobOK
<1>8. NumbersOK
    BY <1>2 DEF NumbersOK
<1>9. SourcesOK
    BY <1>2 DEF SourcesOK, Owner, NoHandler, NoWorker
<1>10. SweepOK
    BY <1>3 DEF SweepOK, NoSweep
<1> QED
    BY <1>5, <1>7, <1>8, <1>9, <1>10 DEF IInv

\* Every step keeps the invariant.
LEMMA NextInv == ASSUME IInv, [Next]_vars PROVE IInv'
<1>1. ASSUME NEW j \in Jobs, Reserve(j) \/ HandlerStep(j) PROVE IInv'
    BY <1>1, ReserveInv, StartFileInv, FinishFileInv, ClaimPreviewInv, MakeExportDirInv, SubmitInv, GiveUpInv,
       ResolvePreviewInv DEF HandlerStep
<1>2. ASSUME NEW j \in Jobs, WorkerStep(j) PROVE IInv'
    <2>1. CASE Succeed(j)
        <3>1. PICK o \in Outcome : EndWith(j, o) /\ (o = "succeeded" => worker[j].at = "succeeding" /\ j \notin asked)
            BY <2>1 DEF Succeed, Outcome
        <3> QED
            BY <3>1, EndWithInv
    <2>2. CASE Fail(j)
        BY <2>2, EndWithInv DEF Fail, Outcome
    <2>3. CASE MarkCancelled(j)
        BY <2>3, EndWithInv DEF MarkCancelled, Outcome
    <2>4. CASE Begin(j) \/ NeverRun(j) \/ OpenDatabase(j) \/ ImportFile(j)
        BY <2>4, BeginInv, NeverRunInv, OpenDatabaseInv, ImportFileInv
    <2>5. CASE CleanUp(j) \/ Conclude(j) \/ WriteExport(j)
        BY <2>5, CleanUpInv, ConcludeInv, WriteExportInv
    <2> QED
        BY <1>2, <2>1, <2>2, <2>3, <2>4, <2>5 DEF WorkerStep
<1>3. ASSUME NEW j \in Jobs, Withdraw(j) \/ Ask(j) \/ Forget(j) PROVE IInv'
    BY <1>3, WithdrawInv, AskInv, ForgetInv
<1>4. ASSUME NEW p \in Previews, AdmitPreview(p) \/ PreviewStep(p) PROVE IInv'
    BY <1>4, AdmitPreviewInv, ReceivePreviewInv, ReadPreviewInv, EndPreviewInv DEF PreviewStep
<1>5. CASE StartSweep \/ SweepStep \/ Tick \/ Restart
    BY <1>5, StartSweepInv, SweepEntryInv, EndSweepInv, TickInv, RestartInv DEF SweepStep
<1>6. CASE UNCHANGED vars
    <2>1. UNCHANGED <<jobVars, disk, handler, worker, imported, previewVars, sweepVars, starts>>
        BY <1>6 DEF vars
    <2>2. OnDisk' = OnDisk /\ sweep' = sweep /\ preview' = preview /\ TypeOK /\ SweepOK
        BY <2>1 DEF OnDisk, sweepVars, previewVars, IInv
    <2>3. TypeOK'
        BY <2>1, <2>2 DEF TypeOK, Registry!TypeOK, jobVars, previewVars, sweepVars
    <2>4. \A i \in Jobs : KeepsDirs(i)
        BY <2>1, <2>2 DEF KeepsDirs
    <2>5. SweepOK'
        BY <2>2 DEF SweepOK
    <2> QED
        BY <2>1, <2>2, <2>3, <2>4, <2>5, QuietMoves
<1> QED
    BY <1>1, <1>2, <1>3, <1>4, <1>5, <1>6 DEF Next

\* The inductive invariant.
LEMMA Invariant == Spec => []IInv
<1>1. IInv /\ [Next]_vars => IInv'
    BY NextInv
<1> QED
    BY InitInv, <1>1, PTL DEF Spec
----------------------------------------------------------------------------
(* The theorems.                                                           *)

\* The variables keep their types through every handler, worker, cleanup and restart.
THEOREM TypeCorrect == Spec => []TypeOK
<1>1. IInv => TypeOK
    BY DEF IInv
<1> QED
    BY <1>1, Invariant, PTL

\* No cleanup that goes by an older job list, no other request and no earlier clean-up takes the
\* files of an import that is queued or running, and no two imports have claimed one preview.
THEOREM FilesAreKept == Spec => []ImportsHaveTheirFiles
<1>1. IInv => ImportsHaveTheirFiles
    <2>1. SUFFICES ASSUME IInv, NEW j \in Jobs, kind[j] = "Import", worker[j].at \in {"queued", "begun", "files"}
          PROVE  /\ \A k \in worker[j].next..handler[j].saved : UploadDir(j, k) \in OnDisk
                 /\ \A i \in Jobs \ {j} : worker[i].at # "none" /\ handler[j].source # None
                                            => handler[i].source # handler[j].source
        BY DEF ImportsHaveTheirFiles
    <2>2. TypeOK /\ JobOK(j) /\ SourcesOK
        BY <2>1 DEF IInv
    <2>3. \A k \in 1..handler[j].saved : UploadDir(j, k) \in OnDisk
        BY <2>1, <2>2 DEF JobOK, DirsOK
    <2>4. worker[j].next \in 1..(Files + 1) /\ handler[j].saved \in 0..Files
        BY <2>2 DEF TypeOK
    <2>5. \A k \in worker[j].next..handler[j].saved : k \in 1..handler[j].saved
        BY <2>4, SizeAssumption
    <2>6. Owner(j) \/ handler[j].source = None
        BY <2>1 DEF Owner
    <2>7. \A i \in Jobs \ {j} : worker[i].at # "none" /\ handler[j].source # None
                                  => handler[i].source # handler[j].source
        BY <2>2, <2>6 DEF Owner, SourcesOK
    <2> QED
        BY <2>3, <2>5, <2>7
<1> QED
    BY <1>1, Invariant, PTL

\* A finished export can be downloaded for its time to live, whatever cleanups and restarts there are.
THEOREM ExportsStay == Spec => []ExportsAreServed
<1>1. IInv => ExportsAreServed
    BY DEF IInv, JobOK, DirsOK, ExportsAreServed
<1> QED
    BY <1>1, Invariant, PTL

\* An import that is reported as succeeded has imported each of its files.
THEOREM BatchesAreHonest == Spec => []BatchIsHonest
<1>1. IInv => BatchIsHonest
    BY DEF IInv, JobOK, LifeOK, BatchOK, BatchIsHonest, Outcome
<1> QED
    BY <1>1, Invariant, PTL

\* After a restart no job is listed as queued or running that no one works on, and no id twice.
THEOREM HistoryIsConsistent == Spec => []HistoryIsRecovered
<1>1. IInv => HistoryIsRecovered
    <2>1. SUFFICES ASSUME IInv PROVE HistoryIsRecovered
        OBVIOUS
    <2>2. \A j \in Jobs : Active(j) => worker[j].at # "none"
        BY <2>1 DEF IInv, JobOK, LifeOK, Active
    <2>3. \A i, j \in Listed : number[i] = number[j] => i = j
        BY <2>1 DEF IInv, JobOK, LifeOK, NumbersOK, Listed
    <2> QED
        BY <2>2, <2>3 DEF HistoryIsRecovered
<1> QED
    BY <1>1, Invariant, PTL
=============================================================================
