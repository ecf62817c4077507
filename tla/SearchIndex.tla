---------------------------- MODULE SearchIndex ----------------------------
(***************************************************************************)
(* The imported rows, the import log and the full-text index over them:    *)
(* import of a file, incremental indexing behind a watermark, the          *)
(* resumable rebuild of the whole index with its swap, and clearing.       *)
(*                                                                         *)
(* One write job works on the database at a time (JobLifecycle), so there  *)
(* is one program counter.  An action is one commit, or the reads and      *)
(* decisions between two commits; a crash or a cancellation may come       *)
(* between any two.  Other connections of the server commit small changes  *)
(* of their own meanwhile, which the rebuild notices by data_version.      *)
(***************************************************************************)
EXTENDS Integers, Sequences, FiniteSets, SequencesExt

CONSTANTS
    Texts,             \* the contents of a row; equal ones have one row_hash
    FileRows,          \* bound: rows of a file
    MaxRows,           \* bound: rows of the database
    ChunkRows,         \* CHUNK_ROWS
    BatchRows,         \* BATCH_SIZE
    MaxInterruptions,  \* bound: crashes, cancellations, failures and foreign commits
    ClearsPartial,     \* whether the database is cleared while a partial rebuild is kept
    InterruptedResets  \* whether the process stops while the bookkeeping is reset

ASSUME BoundsAssumption ==
    /\ FileRows \in Nat /\ MaxRows \in Nat /\ MaxInterruptions \in Nat
    /\ ChunkRows \in Nat \ {0} /\ BatchRows \in Nat \ {0}
ASSUME EnvironmentAssumption == {ClearsPartial, InterruptedResets} \subseteq BOOLEAN

VARIABLES
    records,       \* the table records: the row of id i is records[i]; its owner, 0 for
                   \* none, is the row it is a duplicate of
    log,           \* import_log: the files in order
    current,       \* meta fts_schema = SCHEMA_VERSION
    watermark,     \* meta fts_watermark
    live,          \* records_fts: the rows a search finds, as <<id, text>>
    rebuildTable,  \* whether records_fts_rebuild exists
    rebuild,       \* its contents
    kept,          \* the five fts_rebuild_* keys of meta
    pc,            \* where the write job stands
    file,          \* the file it imports; none: <<>>
    added,         \* the rows its transaction has inserted so far
    plan,          \* its local copy of the bookkeeping
    sourceChanged, \* data_version # source_version
    interruptions

data  == <<records, log>>
index == <<current, watermark, live>>
table == <<rebuildTable, rebuild>>
vars  == <<data, index, table, kept, pc, file, added, plan, sourceChanged, interruptions>>
----------------------------------------------------------------------------
(* Rows, files and the guard of a rebuild.                                 *)

Files == UNION {[1..n -> Texts] : n \in 1..FileRows}

\* The rows of content t that no other row owns.
Canonicals(rows, t) == {i \in DOMAIN rows : rows[i] = [text |-> t, owner |-> 0]}

\* Faulty: a row is looked up among the rows of before the batch alone.
InsertedUnseen(rows, batch) ==
    [k \in DOMAIN batch |->
        LET known == Canonicals(rows, batch[k])
        IN  [text |-> batch[k], owner |-> IF known = {} THEN 0 ELSE Min(known)]]

\* insert_batch_scoped: each row of the batch belongs to the first one of its content, among
\* the rows that load_existing_canonicals finds and those of the batch before it.
Inserted(rows, batch) ==
    [k \in DOMAIN batch |->
        LET known  == Canonicals(rows, batch[k])
            before == {Len(rows) + j : j \in {j \in 1..(k - 1) : batch[j] = batch[k]}}
        IN  [text |-> batch[k], owner |-> IF known \cup before = {} THEN 0 ELSE Min(known \cup before)]]

\* searchable_payload_clause: a row that no other row owns.
Searchable(i) == records[i].owner = 0

\* What INSERT ... SELECT puts into an index for the ids in (above, upTo].
Entries(above, upTo) ==
    {<<i, records[i].text>> : i \in {k \in DOMAIN records : above < k /\ k <= upTo /\ Searchable(k)}}

\* searchable_rows_between.
SearchableRows(above, upTo) == Cardinality(Entries(above, upTo))

\* unindexed_rows.
Unindexed == SearchableRows(IF current THEN watermark ELSE 0, Len(records))

\* Faulty: only the latest import is looked up.
KnownAsLatest(f) == log # <<>> /\ Last(log) = f

\* find_import_by_hash: the content of file f has been imported.
Known(f) == f \in ToSet(log)

\* A search for text t, as fts_filter_clause has it, whatever fts_schema says: the index up to where
\* it goes, the searchable rows beyond the watermark, and every row with the row_hash of one of them.
Found(t) ==
    LET indexed == {i \in DOMAIN records : <<i, t>> \in live}
        tail    == {i \in DOMAIN records : watermark < i /\ Searchable(i) /\ records[i].text = t}
    IN  {r \in DOMAIN records : \E i \in indexed \cup tail : records[i].text = records[r].text}

\* rebuild_guard: highest id and number of imports.
Guard == <<Len(records), Len(log)>>

\* The keys in the order in which a fresh rebuild writes them.
ResetKeys == <<"guard", "targetMax", "targetRows", "cursor", "indexed">>

NothingKept == [guard |-> <<>>, targetMax |-> 0, targetRows |-> 0, cursor |-> 0, indexed |-> 0]

FreshPlan ==
    [guard |-> Guard, targetMax |-> Len(records),
     targetRows |-> SearchableRows(0, Len(records)), cursor |-> 0, indexed |-> 0]

\* Faulty: a partial rebuild is resumed whatever it was built from.
ResumeAnyTable == rebuildTable

\* A partial rebuild is there and its guard is that of the data.
CanResume == rebuildTable /\ kept.guard = Guard

\* Faulty: the last chunk goes past the last row.
ChunkEndUnbounded(above, upTo) == above + ChunkRows

ChunkEnd(above, upTo) == IF above + ChunkRows < upTo THEN above + ChunkRows ELSE upTo
----------------------------------------------------------------------------
Resetting == ToSet(ResetKeys)
Building  == {"build", "verify", "assess", "swap"}
Location  ==
    {"idle", "import", "index", "chunk", "repair", "create", "discard", "forget", "log"}
        \cup Resetting \cup Building

Goto(l) == pc' = l

\* index returns: an import goes on to its log entry, other jobs end.
AfterIndex == IF file = <<>> THEN "idle" ELSE "log"

Interrupt == interruptions < MaxInterruptions /\ interruptions' = interruptions + 1

\* The index of an earlier version, in the columns that version had: it stops at its watermark,
\* and may also hold duplicates up to there.  Searches use it until a rebuild replaces it.
OutdatedIndex ==
    /\ current = FALSE
    /\ \E w \in 0..Len(records) :
         watermark = w /\ live \in {Entries(0, w), {<<i, records[i].text>> : i \in 1..w}}

\* A database without rows, or with one file.
InitRows ==
    \/ records = <<>> /\ log = <<>>
    \/ \E f \in Files : Len(f) <= MaxRows /\ records = Inserted(<<>>, f) /\ log = <<f>>

InitWork ==
    /\ rebuildTable = FALSE /\ rebuild = {} /\ kept = NothingKept
    /\ pc = "idle" /\ file = <<>> /\ added = <<>> /\ plan = NothingKept
    /\ sourceChanged = FALSE /\ interruptions = 0

Init == InitRows /\ InitWork /\ OutdatedIndex
----------------------------------------------------------------------------
(* Import of one file.                                                     *)

\* A file whose hash is in the log is skipped.
StartImport(f) ==
    /\ pc = "idle"
    /\ ~Known(f)
    /\ Len(records) + Len(f) <= MaxRows
    /\ file' = f
    /\ Goto("import")
    /\ UNCHANGED <<data, index, table, kept, added, plan, sourceChanged, interruptions>>

\* flush_batch, in the transaction of the file; a batch is short where a sheet ends.
InsertBatch ==
    /\ pc = "import" /\ Len(added) < Len(file)
    /\ \E n \in Len(added) + 1..Len(file) :
         /\ n <= Len(added) + BatchRows
         /\ added' = added \o Inserted(records \o added, SubSeq(file, Len(added) + 1, n))
    /\ UNCHANGED <<data, index, table, kept, pc, file, plan, sourceChanged, interruptions>>

\* All rows of the file are one transaction.
CommitImport ==
    /\ pc = "import" /\ Len(added) = Len(file)
    /\ records' = records \o added
    /\ added' = <<>>
    /\ Goto("index")
    /\ UNCHANGED <<log, index, table, kept, file, plan, sourceChanged, interruptions>>

\* The file is cancelled or cannot be read: the transaction is rolled back.
RollbackImport ==
    /\ pc = "import"
    /\ Interrupt
    /\ file' = <<>> /\ added' = <<>>
    /\ Goto("idle")
    /\ UNCHANGED <<data, index, table, kept, plan, sourceChanged>>

\* add_import_log, once indexing has returned, cancelled, failed or done.
LogImport ==
    /\ pc = "log"
    /\ log' = Append(log, file)
    /\ file' = <<>>
    /\ Goto("idle")
    /\ UNCHANGED <<records, index, table, kept, added, plan, sourceChanged, interruptions>>
----------------------------------------------------------------------------
(* index: incremental, or a rebuild when the schema is not current; and    *)
(* repair_fts, which rebuilds the index whatever it is.                    *)

\* A reindex job, the job at startup, or a search of the CLI.
StartIndex ==
    /\ pc = "idle"
    /\ Goto("index")
    /\ UNCHANGED <<data, index, table, kept, file, added, plan, sourceChanged, interruptions>>

\* repair_fts: an index that is current is built anew as well.
StartRepair ==
    /\ pc = "idle"
    /\ Goto("repair")
    /\ UNCHANGED <<data, index, table, kept, file, added, plan, sourceChanged, interruptions>>

ChooseIndex ==
    /\ pc = "index"
    /\ Goto(IF current THEN "chunk" ELSE "repair")
    /\ UNCHANGED <<data, index, table, kept, file, added, plan, sourceChanged, interruptions>>

\* Faulty: the watermark is not part of the transaction, and the next chunk is the same.
IndexChunkAgain ==
    /\ pc = "chunk"
    /\ IF watermark >= Len(records)
       THEN Goto(AfterIndex) /\ UNCHANGED live
       ELSE live' = live \cup Entries(watermark, ChunkEnd(watermark, Len(records))) /\ UNCHANGED pc
    /\ UNCHANGED <<data, current, watermark, table, kept, file, added, plan, sourceChanged, interruptions>>

\* The rows of a chunk and the watermark are one transaction.
IndexChunk ==
    /\ pc = "chunk"
    /\ IF watermark >= Len(records)
       THEN Goto(AfterIndex) /\ UNCHANGED <<watermark, live>>
       ELSE LET end == ChunkEnd(watermark, Len(records))
            IN  /\ live' = live \cup Entries(watermark, end)
                /\ watermark' = end
                /\ UNCHANGED pc
    /\ UNCHANGED <<data, current, table, kept, file, added, plan, sourceChanged, interruptions>>
----------------------------------------------------------------------------
(* repair: the rebuild, resumed or fresh.                                  *)

\* Resume from the cursor, or drop the table and compute the targets.
PlanRebuild ==
    /\ pc = "repair"
    /\ IF CanResume
       THEN /\ plan' = kept
            /\ sourceChanged' = FALSE
            /\ Goto("build")
            /\ UNCHANGED table
       ELSE /\ plan' = FreshPlan
            /\ rebuildTable' = FALSE /\ rebuild' = {}
            /\ Goto("create")
            /\ UNCHANGED sourceChanged
    /\ UNCHANGED <<data, index, kept, file, added, interruptions>>

\* Faulty: the index in use is emptied as well, to be built anew.
CreateTableInPlace ==
    /\ pc = "create"
    /\ rebuildTable' = TRUE /\ live' = {}
    /\ Goto(ResetKeys[1])
    /\ UNCHANGED <<data, current, watermark, rebuild, kept, file, added, plan, sourceChanged, interruptions>>

CreateTable ==
    /\ pc = "create"
    /\ rebuildTable' = TRUE
    /\ Goto(ResetKeys[1])
    /\ UNCHANGED <<data, index, rebuild, kept, file, added, plan, sourceChanged, interruptions>>

\* Each key is a commit of its own; then source_version is read.
ResetKey(n) ==
    /\ pc = ResetKeys[n]
    /\ kept' = [kept EXCEPT ![pc] = plan[pc]]
    /\ IF n < Len(ResetKeys)
       THEN Goto(ResetKeys[n + 1]) /\ UNCHANGED sourceChanged
       ELSE Goto("build") /\ sourceChanged' = FALSE
    /\ UNCHANGED <<data, index, table, file, added, plan, interruptions>>

\* The rows of a chunk, the cursor and the counter are one transaction.
BuildChunk ==
    /\ pc = "build" /\ plan.cursor < plan.targetMax
    /\ LET end  == ChunkEnd(plan.cursor, plan.targetMax)
           rows == plan.indexed + SearchableRows(plan.cursor, end)
       IN  /\ rebuild' = rebuild \cup Entries(plan.cursor, end)
           /\ kept' = [kept EXCEPT !.cursor = end, !.indexed = rows]
           /\ plan' = [plan EXCEPT !.cursor = end, !.indexed = rows]
    /\ UNCHANGED <<data, index, rebuildTable, pc, file, added, sourceChanged, interruptions>>

\* A chunk fails: the partial rebuild is given up.
FailBuild ==
    /\ pc = "build" /\ plan.cursor < plan.targetMax
    /\ Interrupt
    /\ Goto("discard")
    /\ UNCHANGED <<data, index, table, kept, file, added, plan, sourceChanged>>

\* The rows indexed must be the rows counted.
FinishBuild ==
    /\ pc = "build" /\ plan.cursor >= plan.targetMax
    /\ Goto(IF plan.indexed = plan.targetRows THEN "verify" ELSE "discard")
    /\ UNCHANGED <<data, index, table, kept, file, added, plan, sourceChanged, interruptions>>

\* The two checks of data_version before the swap.
VerifySource ==
    /\ pc \in {"verify", "assess"}
    /\ Goto(IF sourceChanged THEN "discard" ELSE IF pc = "verify" THEN "assess" ELSE "swap")
    /\ UNCHANGED <<data, index, table, kept, file, added, plan, sourceChanged, interruptions>>

\* The rebuilt table replaces the index in one transaction, which checks
\* data_version once more; when it has changed only the table is dropped.
Swap ==
    /\ pc = "swap"
    /\ IF sourceChanged
       THEN UNCHANGED <<index, kept>>
       ELSE /\ live' = rebuild
            /\ watermark' = plan.targetMax
            /\ current' = TRUE
            /\ kept' = NothingKept
    /\ rebuildTable' = FALSE /\ rebuild' = {}
    /\ Goto(AfterIndex)
    /\ UNCHANGED <<data, file, added, plan, sourceChanged, interruptions>>

\* drop_rebuild_table, and clear_rebuild_meta in the next commit.
Discard ==
    /\ pc = "discard"
    /\ rebuildTable' = FALSE /\ rebuild' = {}
    /\ Goto("forget")
    /\ UNCHANGED <<data, index, kept, file, added, plan, sourceChanged, interruptions>>

Forget ==
    /\ pc = "forget"
    /\ kept' = NothingKept
    /\ Goto(AfterIndex)
    /\ UNCHANGED <<data, index, table, file, added, plan, sourceChanged, interruptions>>
----------------------------------------------------------------------------
(* Cancellation, other connections, crashes, and clearing.                 *)

\* Where indexing looks at the cancel flag, or a check of the finished table
\* fails, or the swap does not get the write lock; the partial rebuild is kept.
Cancel ==
    /\ \/ pc \in {"repair"} \cup Building
       \/ pc = "chunk" /\ watermark < Len(records)
    /\ Interrupt
    /\ Goto(AfterIndex)
    /\ UNCHANGED <<data, index, table, kept, file, added, plan, sourceChanged>>

\* Another connection commits: a setting, a view, a mapping profile.
ForeignCommit ==
    /\ pc \in Building /\ ~sourceChanged
    /\ Interrupt
    /\ sourceChanged' = TRUE
    /\ UNCHANGED <<data, index, table, kept, pc, file, added, plan>>

\* The process ends; only what is committed is left.
Crash ==
    /\ pc # "idle"
    /\ pc \in Resetting => InterruptedResets
    /\ Interrupt
    /\ Goto("idle")
    /\ file' = <<>> /\ added' = <<>>
    /\ UNCHANGED <<data, index, table, kept, plan, sourceChanged>>

\* clear_all: rows, log, index and watermark in one transaction.  It leaves
\* the partial rebuild and its bookkeeping alone.
Clear ==
    /\ pc = "idle"
    /\ rebuildTable => ClearsPartial
    /\ records' = <<>>
    /\ log' = <<>>
    /\ live' = {}
    /\ watermark' = 0
    /\ UNCHANGED <<current, table, kept, pc, file, added, plan, sourceChanged, interruptions>>
----------------------------------------------------------------------------
Step ==
    \/ InsertBatch \/ CommitImport \/ LogImport \/ ChooseIndex \/ IndexChunk
    \/ PlanRebuild \/ CreateTable \/ \E n \in DOMAIN ResetKeys : ResetKey(n)
    \/ BuildChunk \/ FinishBuild \/ VerifySource \/ Swap \/ Discard \/ Forget

Work ==
    \/ \E f \in Files : StartImport(f)
    \/ StartIndex \/ StartRepair \/ Clear \/ Step
    \/ RollbackImport \/ FailBuild \/ Cancel \/ ForeignCommit

Next == Work \/ Crash

Spec == Init /\ [][Next]_vars
----------------------------------------------------------------------------
(* Correctness.                                                            *)

Row == [text : Texts, owner : Nat]
Bookkeeping ==
    [guard : {<<>>} \cup Nat \X Nat, targetMax : Nat, targetRows : Nat, cursor : Nat, indexed : Nat]

\* Every variable has its type, and only an import under way has a file.
TypeOK ==
    /\ records \in Seq(Row) /\ log \in Seq(Seq(Texts))
    /\ current \in BOOLEAN /\ watermark \in Nat
    /\ live \subseteq Nat \X Texts
    /\ rebuildTable \in BOOLEAN /\ rebuild \subseteq Nat \X Texts
    /\ kept \in Bookkeeping /\ plan \in Bookkeeping
    /\ pc \in Location
    /\ file \in Seq(Texts) /\ (pc = "idle" => file = <<>>)
    /\ added \in Seq(Row) /\ (pc # "import" => added = <<>>)
    /\ sourceChanged \in BOOLEAN /\ interruptions \in Nat

\* A current index finds exactly the searchable rows up to the watermark, with
\* the text they have: nothing stale after a clear, nothing lost or indexed
\* ahead after a crash, a cancellation, a resumed rebuild or a swap.
IndexExact == current => live = Entries(0, watermark) /\ watermark <= Len(records)

\* A partial rebuild that the next attempt will take over.
Resumable == CanResume /\ pc \notin Resetting

\* It holds rows of the data as they are: clearing and importing again makes
\* the next attempt start afresh.
PartialIsOfTheData == Resumable => rebuild \subseteq Entries(0, Len(records))

\* It lacks no row up to its cursor: it is resumed where it stopped.
PartialIsWhole == Resumable => Entries(0, kept.cursor) \subseteq rebuild

\* It holds exactly the searchable rows up to its cursor, and its counters are
\* those of the data, so that the count at the end proves it complete.
ResumeExact ==
    Resumable =>
        /\ rebuild = Entries(0, kept.cursor)
        /\ kept.indexed = Cardinality(rebuild)
        /\ kept.targetMax = Len(records)
        /\ kept.targetRows = SearchableRows(0, Len(records))

\* The log never makes an import skip a file whose rows are not there, and no
\* file is in it twice; an entry whose hash an upgrade has reset is <<>> and
\* stands for no file.
LogIsHonest ==
    /\ \A f \in ToSet(log) : ToSet(f) \subseteq {records[i].text : i \in DOMAIN records}
    /\ \A m, n \in DOMAIN log : log[m] = log[n] /\ log[m] # <<>> => m = n

\* An import gives every row it adds to the first row of the same content, in
\* this file or an earlier one, however its rows fall into batches: a content
\* is searchable once, and its copies lead to the row that is.
DuplicatesAreOwned ==
    [][\A i \in DOMAIN records' \ DOMAIN records :
          LET same == {k \in 1..(i - 1) : records'[k].text = records'[i].text}
          IN  records'[i].owner = IF same = {} THEN 0 ELSE Min(same)]_vars

\* Rows that are not indexed become searchable, once interruptions end.
IndexCatchesUp == Unindexed > 0 ~> Unindexed = 0
=============================================================================
