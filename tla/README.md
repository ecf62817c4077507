# Base Search in TLA+

Specifications, model checks and proofs for the Rust program in `src/`: a local
search and analytics workspace that imports trade tables into SQLite, keeps a
full-text index over them, serves a web interface whose long operations run as jobs,
and has a desktop window over the same database. Every definition is translated from
the Rust source; `PROJECT.json` names the lines each one stands for.

## What is here

| Module | Contents |
|---|---|
| `JobKinds` | the kinds of job and what the registry decides by kind |
| `JobLifecycle` | abstract: what the job registry promises about the life of a job |
| `JobLifecycleProofs` | theorems about it: single flight, one writer, commitment, final outcomes |
| `JobRegistry` | the registry in detail: admission, two queues, dispatch, workers, cancellation, history, job store |
| `JobRegistryProofs` | lemmas on queues; types, queues and the point of no return of `JobRegistry`; its slots, wakeups, order, store and limits, and that it implements `JobLifecycle` |
| `Artifacts`, `ArtifactsProofs` | uploads, previews, exports, the batch an import works through, artifact cleanup, restart; over `JobLifecycle` |
| `SearchIndex` | rows, duplicates, import log and full-text index: import, incremental indexing, resumable rebuild, clear |
| `SchemaUpgrade` | opening a database: backup, marker, migration, and then the work of `SearchIndex`, which it extends |
| `SchemaUpgradeProofs` | theorems about both together |
| `Sessions`, `SessionsProofs` | accounts, sessions, login with its limiter and permits, account requests |
| `Projection`, `ProjectionProofs` | the OLAP projection: tracking, building, replacing, trusting, answering |
| `Desktop`, `DesktopProofs` | the window thread of the desktop application, its workers and its operations |
| `DesktopFreshProofs` | the theorem that the window is up to date when all threads have come to rest |
| `MC*` | instances for TLC: symmetry, what is explored together, values a `.cfg` cannot state |

Check a run with `tlc -config <run>.cfg <module>.tla`, where `PROJECT.json` names the
module of each run, and the proofs of a module with `tlapm <module>Proofs.tla`, which
takes five to ten minutes for the larger ones. A run
is one `.cfg` and one question; each of its properties has at least one mutant in
`PROJECT.json`: a plausible bug, written as an operator beside the definition it
changes, that violates the property.

| Run | Module | Shows |
|---|---|---|
| `registry_queues` | `MCJobRegistry` | `TypeOK`, `QueuedIffInQueue`, `SlotsMatchHolders`, `FirstInFirstOut` |
| `registry_cancel` | `MCJobRegistry` | `LimitsHold`, `NoLostWakeup`, `PointOfNoReturn`, `ImplementsLifecycle`, `AcceptedJobsEnd` |
| `registry_store` | `MCJobRegistry` | `StoreNotAhead` |
| `registry_entry_gone` | `MCJobRegistry` | violation of `WorkerEntryExists` |
| `registry_late_row` | `MCJobRegistry` | violation of `StoredOnceIdle` |
| `artifacts` | `MCArtifacts` | `TypeOK`, `ImportsHaveTheirFiles`, `ExportsAreServed`, `BatchIsHonest`, `HistoryIsRecovered`, `LeftoversGo` |
| `index_rebuild` | `SchemaUpgrade` | `IndexExact`, `ResumeExact`, `LogIsHonest`, `SearchIsExact`, `DuplicatesAreOwned`, `IndexCatchesUp`, `UpgradeTypeOK`, `BackedUp`, `VersionIsEarned`, `Opens` |
| `index_clear` | `MCSearchIndex` | violation of `PartialIsOfTheData` |
| `index_reset` | `MCSearchIndex` | violation of `PartialIsWhole` |
| `sessions` | `MCSessions` | `TypeOK`, `OwnerRemains`, `LiveSessionsAreCurrent`, `LimitsHold`, `DeadStaysDead`, `ChangeEndsSessions` |
| `projection` | `Projection` | `TypeOK`, `AnswersAreFresh`, `PreviousIsKept` |
| `desktop` | `MCDesktop` | `WaitingEnds`, `TypeOK`, `ShownIsAsked`, `FreshAtRest` |

## Inventory of the system

**Job registry** (`src/src/server/jobs.rs`). State: one mutex around the entries,
the write and the read queue, the slots in use, the reservations; outside it an
atomic cancel flag per job. Operations: `reserve_for`, `enqueue_admitted`,
`dispatch_available`, `start_worker`, `worker_finished`, `cancel`, `prune`, and the
calls of the work on its `JobHandle`. Any number of request threads and workers
run them at once. Correct when: write jobs exclude each other, read jobs and
pending jobs stay within their limits, maintenance is single-flight, no wakeup is
lost, an outcome is final, a cancellation and a point of no return exclude each
other, the history stays bounded. Hard: every step between two critical sections.

**Job store** (`src/src/server/job_store.rs`). A SQLite table of snapshots, written
after the registry has unlocked. Correct when it never runs ahead of the registry
and, after a restart, tells what happened. Hard: late, failing and overtaking writes.

**Work of the jobs** (`src/src/server/api/maintenance.rs`, `imports.rs`, `exports.rs`).
Closures that report progress, look at the cancel flag, cross their point of no
return and publish an outcome, or fail, or panic.

**Uploads, previews, artifacts** (`src/src/server/api/imports.rs`, `exports.rs`,
`jobs.rs`): directories that requests and jobs leave, permits, and a cleanup that goes
by a list of jobs read earlier. Correct when no job loses its files, a finished export
can be downloaded as long as promised, and everything is removed in the end.

**Full-text index** (`src/src/storage/fts_index.rs`). State: `records_fts`, its
watermark and schema version, the partial rebuild and five keys of bookkeeping.
Operations: `index` and `repair`. Correct when the index holds exactly the searchable
rows up to the watermark, and a search finds its rows through it and beyond it. Hard:
crashes between commits, resumption, commits of other connections, everything that
changes the rows in between.

**Import pipeline** (`src/src/import.rs`, `src/src/storage/record_writer.rs`,
`import_log.rs`). One transaction per file, then indexing, then a log entry whose
hash makes a second import of the same file a no-op. Correct when the log never
claims rows that are not there and a retry neither loses nor doubles rows.

**Database facade** (`src/src/db.rs`): clearing, duplicate compaction, VACUUM.

**Schema upgrade** (`src/src/storage/connection.rs`, `migrations.rs`). Verified
backup, recovery marker, chunked migrations. Correct when a crash at any step
leaves either the old database or a resumable upgrade with a recorded backup.

**Accounts and sessions** (`src/src/server/auth.rs`, `login_limit.rs`). Correct when
an enabled owner always remains and no session outlives what it was granted for.
Hard: a login and an account request span several transactions, with a slow hash
between them, and the CLI changes the same tables.

**OLAP projection** (`src/src/duckdb_olap.rs`, `server/olap.rs`): a derived file,
replaced by renames and trusted while the database has not changed. Correct when no
answer is of records that no longer were the database's, and a failed replacement
loses nothing.

**Desktop application** (`src/src/app.rs`, `app/*.rs`, `workers.rs`, `messages.rs`). A
window thread that never blocks; a search, a count and an analytics worker; one thread
for each operation; one channel of answers. Generation counters discard results that
arrive late. Correct when what is shown is of what is asked, at rest it is of the
present data and settings, and nothing waits for ever.

**Launcher** (`src/src/launcher.rs`): a small window that starts the server, watches it and
stops it. It keeps state over several steps and is not modelled (see "Not modelled").

**The rest** - queries and analytics as SQL, formatting, HTTP routing, translations, web
client - keeps no state that several steps share.

How they interact: an HTTP handler asks the registry for a reservation and gives
it a closure; the registry runs the closure in a worker; import, reindex and clear
closures open the database and change rows, log and index; the registry persists
snapshots to the job store; at a restart the store is read back and a reindex job
finishes what an interrupted import left. The registry is what allows `SearchIndex`
to have one writer. Triggers on the records invalidate the projection. The desktop
window does without the registry and keeps its operations apart by a flag of its own.

`PROJECT.json` lists the hazards of this code at their lines, with the properties
that cover them. Two have none: two processes on one file, and previews that are read after
their request is gone (see "Not modelled").

## JobRegistry

**Correspondence.** An action is one critical section of the registry mutex, or one
call of the job store, which the code makes after it has unlocked. `pc` says where
each thread stands. For every request there are up to three threads: the
*submitter* (the HTTP handler: reserve, enqueue, persist, dispatch), the *canceller*
(the handler of an accepted cancellation) and the *worker*. All three run the
dispatch loop (`Start`, `Reject`, `ReleaseRejected`, `Spawn`, `LeaveLoop`) before they
end; `pick` is the job a loop has taken. The tables `AfterPersist` and `AfterPrune`
give the location that follows a store call or a prune, which is the order of the
statements in the code. `snap` is the status in the snapshot a thread has cloned
and will persist; `rows` is what the store holds. Without a job store (`Durable`
false) the persist steps vanish, as they do in the code.

Reads the code makes outside the mutex are steps of their own: `BeginWork` and
`LoadCancelFlag` read the flag, and `Succeed` decides later with what was read.
`updated_ms` is abstracted to the order of the finished jobs (`age`); `ClockMonotone`
says whether the clock may step back. The authorizer of a queued job is a
nondeterministic choice between `Start` and `Reject`. A panic of the worker in
`worker_finished` poisons the mutex (`poisoned`), after which every section fails.

**JobLifecycle** is the registry as its users see it: absent, queued, running, ended,
forgotten. `ImplementsLifecycle` checks that every step of the registry is a step of
it. So exclusion of write jobs, the read limit, single flight, at most one outcome,
no cancellation after the point of no return and no return of a forgotten job, which
`JobLifecycleProofs` proves of it, carry over. The mapping reads `phase` from the entry
(and, where there is none, from the submitter) and `asked` from the cancel flag.
`Artifacts` uses the same abstract module as its jobs: what it shows rests on what the
registry was shown to implement.

**Properties.** `QueuedIffInQueue`, `SlotsMatchHolders`, `NoLostWakeup`, `PointOfNoReturn`,
`StoreNotAhead` and `LimitsHold`, which is `PendingWithinLimits` (workspace and user),
`SingleFlight` (reservations included) and `HistoryBounded` (invariants);
`FirstInFirstOut` (what a step may never do); `AcceptedJobsEnd` (liveness);
`ImplementsLifecycle` (refinement). `NoLostWakeup` and `AcceptedJobsEnd` except a registry
whose mutex is poisoned: after the panic of `registry_entry_gone` ("Findings") no call gets
at the registry any more, and a job that is queued then stays queued. Without the
exception `AcceptedJobsEnd` is false of the code, though it takes a third job to see it.

**Fairness.** Weak fairness for each thread on store calls, pruning and dispatch: the
operating system schedules threads and the mutex is always free again. Strong
fairness on the end of the work, because progress reports may alternate with it
for ever in the model: work ends, by assumption. Requests and cancellations need
not come.

**Left out.** The role check of `reserve_for` (a refusal has no effect), what a
snapshot shows to which role, a poisoned authorizer, and what the work does to the
database. Preview permits and cleanup are in `Artifacts`.

| Run | Instance | Why it is enough |
|---|---|---|
| `registry_queues` | 3 imports, 1 user, pending limit 2 | three jobs are the fewest with one running, one queued and one refused or behind it |
| `registry_cancel` | 2 jobs of clear, import or export, 2 users, history 1, clock not monotone, fair | both queues, limits per user, single flight, cancellation against commit, liveness. TLC does not check liveness under symmetry, so `CanonicalInit` picks one of each set of initial states that differ only by names |
| `registry_store` | 2 clear jobs, store calls may fail | two jobs suffice for a loop that persists the other job's snapshot |
| `registry_entry_gone` | 2 imports, history 1 | see "Findings" |
| `registry_late_row` | 1 import with a store | see "Findings" |

The limits are the smallest at which they bind. The workspace limit binds together
with the limit of one user; with two users and separate limits three jobs take
several minutes.

## Artifacts

**Correspondence.** `disk` gives every directory entry its age. The handler of an upload
streams file after file into directories of its own (`StartFile`, `FinishFile`) or
claims a retained preview (`ResolvePreview`, `ClaimPreview`), makes the job (`Submit`), or is
dropped with its guard (`GiveUp`). The worker of an import takes the batch file by file
(`ImportFile`), removes its directories and concludes; that of an export writes and
publishes. A preview holds its permit from admission to its end. The cleanup reads
directory and jobs in `StartSweep`, then looks at one entry after the other
(`SweepEntry`), while everything else goes on. `Tick` is time, `Restart` a crash and the
next start: handlers, workers and permits are gone, the rows that the store held make
the history, and a sweep follows.

**Assumptions.** Ages stop growing at `MaxAge`. An upload is received within the time to
live of its directory (`InTime`), and a sweep takes no time compared with a time to live.
One sweep at a time, one at each start and at most one for each tick. The row of a
forgotten job comes back only as an older snapshot of the same job. A preview is read as
long as its handler lives (see "Not modelled"). A vanished entry
ends the sweep, as the code's `?` does. Panics of the work are in `JobRegistry` only. An
import cancelled in the queue leaves its files to the time to live.

**Bounds.** Two jobs (imports or exports), two files each, two previews with one permit,
all times to live 1, one restart. Two jobs are needed for an id given twice and for a
claim of the same preview, two files for a batch that fails in the middle. `Focus`
(`MCArtifacts`) limits which of them are explored together; `LeftoversGo` is checked
within it.

**Fairness.** Clients finish or go away, work ends, timer and time go on. No fairness
for new requests, cancellations or restarts.

**Run `artifacts`.** No import loses a file it has still to read, whatever sweep, claim or
restart comes between; a young export is served; success means every file; no job is
listed as running that nobody works on and no id names two jobs; and everything on disk goes.

**Seen while reading.** The comment at `imports.rs:891` says a preview's file is deleted
immediately; the code keeps it for the import that claims it. A commit that fails
(`import.rs:740`) leaves `summary.imported` as counted. `succeed` drops the payload of a
result when a cancellation was accepted between the last look at the flag and it.

## SearchIndex and SchemaUpgrade

**SearchIndex.** `records[i]` is the row with id `i` (ids are dense: only `clear_all` deletes,
and then all rows): its text and the owner it is a duplicate of, 0 for none. A row is
searchable when it has no owner. Duplicates are resolved per batch through a map loaded
from the database, plus the rows of the batch (`Inserted`); a sheet ends a batch, so
batches have any length up to `BatchRows`. `added` are the rows inserted by the open
transaction. A file is a sequence of texts and stands for its own hash; fingerprint and
schema scope are part of the text. `live` and `rebuild` are the two FTS tables as sets
of id and text. `kept` holds the five `fts_rebuild_*` keys, `plan` their copy in the
running `repair`. An action is one commit or the decisions between two: `ResetKey` writes
one key, `BuildChunk` a chunk with cursor and counter, `Swap` the whole transaction of
the swap with its last look at `data_version`. `Crash` may come anywhere and leaves what
is committed; `Cancel` stands wherever the code looks at the flag, and for the checks
whose failure also returns and keeps the partial rebuild; `ForeignCommit` is a commit of
another connection of the server, which must stop the swap. `StartRepair` is
`Db::repair_fts`, which builds a current index anew as well; the library offers it and its
tests call it. `Found(t)` is what a search for `t` finds, as `fts_filter_clause` has it
whatever the version of the index: what the index holds, the searchable rows beyond the
watermark, and all rows with the hash of one of these.

A single writer is justified by the registry: import, reindex and clear are write
jobs, and write jobs exclude each other (`OneWriter`).

**SchemaUpgrade** extends it with what `initialize` does before any work. `stage` is the
place in `initialize`; `schema` says which tables, columns and version there are, which
rows still have an old fingerprint (`stale`) or no derived columns (`untyped`) and
whether the fingerprint pass is pending; `backups` says what each backup file is: partial,
of the database as it was (`before`), or of a later state; `marker` is the recorded one;
`attempt` is what a running migration holds in memory. `before` is the database as the
upgrade found it (a history variable). A commit of the migration is an action
(`CopyLegacyTable`, `AddColumns`, `RebuildChunk`, `FinishFingerprints`, `ForgetHashes`,
`ResetWatermark`, `BackfillChunk`, `FinishTyping`, `MarkVersion`, `CreateTables`), the
backup is three (`StartBackup`, `FinishBackup`, `RecordBackup`), and `StopOpening` may come
before any: a crash or an error, after which the next opening starts again. When the
database is open, the steps of `SearchIndex` run; `StopWork` closes it at any of them.

**Initial states.** A new database, a current one, or one that a version in `OldVersions`
left - `LegacyVersions` with the table of that time - each with any file imported, with an
index that is current or of an earlier version, and with rows of equal content that
earlier fingerprints told apart (`CollapsedRows`). An index of an earlier version
(`OutdatedIndex`) ends at any watermark and holds the searchable rows up to it, or all.

**Abstractions.** `ensure_fts_schema`, which resets the watermark where `records_fts` is
missing, is left out: only a new database has no index before its first one, and the copy
of the first layout, which drops it, is followed by `ResetWatermark`. A text is what
indexes of all versions have of a row, so the columns that only a newer index has are not
searched for. A search reads the watermark (`db.rs:562`) and the index in one step; in the
code they are two statements, and a clear with a new import between them could hide the
new rows from that one search. `meta::set` swallows errors and is taken to write; one
process opens the file; a partial rebuild is not kept across an upgrade; a recorded
backup that is lost is a transient failure of opening; what a finished upgrade leaves as a
backup belongs to the user. The indexes dropped for a bulk load are not modelled.

**Environment switches.** `ClearsPartial` and `InterruptedResets` allow the two situations
in which the code goes wrong ("Findings"). `index_rebuild` excludes exactly these: it
never clears while a partial rebuild is kept, and never stops while the five keys are
written. Everything else may be interrupted anywhere. So the passing run says: but for
these two windows index, partial rebuild and log agree with the rows.

**Bounds.** `MaxRows` 3 with chunks of 2 gives a rebuild and a migration of two chunks, the
last not full; files of up to two rows in batches of up to two give duplicates within a
batch, across batches and across files; two interruptions allow a crash or a cancellation
and then, of the attempt that resumes, a second one or a foreign commit. Old versions 0, 4
and 6 lie on the two sides of every step the migration skips by version. `MaxInterruptions` bounds crashes,
failures, cancellations and foreign commits together. 444,341 distinct states; with three
interruptions the invariants and properties hold as well (1,285,183 states, over four minutes).
`index_clear` and `index_reset` need only chunks of 1 and two interruptions.

**Fairness.** A database that is closed is opened, a job that has begun goes on (weak), and
someone reindexes again and again (strong): the server at each start, the command line
at each search, a reindex job. That is an assumption about users; without it nothing
indexes what an interruption has left. The number of interruptions is finite.

**Properties.** `IndexExact` (a current index holds exactly the searchable rows up to the
watermark), `ResumeExact` (a partial rebuild that would be resumed is exact and its
counters are the data's), `LogIsHonest`, `SearchIsExact` (every search on an open database
finds exactly the rows of its text: whichever version the index in use has, it is replaced
as a whole, and its watermark never goes beyond it), `DuplicatesAreOwned`,
`IndexCatchesUp`; `BackedUp` (whatever an
unfinished upgrade has changed, the database names a complete backup of itself as it
was), `VersionIsEarned` (the version is written only when nothing is left to
do), `Opens`.

**Seen while reading.** A table of the first layout whose version is 2 or later with a
current full-text index would lose the index to a crash between the copy and the reset
of the watermark: the copy drops `records_fts`, and the attempt that resumes resets the
watermark only below version 2. No code seems to leave such a database
(the test at `migrations.rs:700` builds one), so `VersionsAssumption` bounds
`LegacyVersions` by 1. `backfill_derived_columns` begins after id 0 (`migrations.rs:429`), while
`rebuild_record_hashes` is tested with a negative id.

## Sessions

**Correspondence.** `AuthStore` is one SQLite connection behind a mutex, shared through the
file with the CLI; an action is one transaction on it (`opened` says that the migration
of an older table is done). A login is `CheckLogin`, `AcquirePermit`, `RecheckLogin`,
`Verify` - which reads the account and lets go of the connection before the hash -,
`OpenSession` and `AnswerLogin`; a client may go away (`AbandonLogin`). An account request
is identified up to three times (`AuthorizeRequest`, `ConfirmRequest`, `EnterRequest`), looks
at the account it is about (`InspectCreate`, `InspectDelete`) and applies the change.
`Administer` is the CLI. `Identify` is what every request does with a token: refuse, or
accept and slide the expiry. The limiter has its two maps, with pruning, eviction and
exponential back-off. Hashes, tokens and CSRF values are model values; a secret is right or
wrong. `epoch` is the session epoch that a change of the account increases.

**Assumption.** The clock never goes back.

**Bounds.** Two names, two account ids, one peer, two logins and one account request at a
time, three roles, three tokens at two sessions per user, one permit, back-off threshold
and maximum 1, clock up to 2, epoch up to 1: the smallest with a removed account whose
name is used again, a login between `Verify` and `OpenSession` while its account
changes, trimming, and two logins of one name that run together. `Focus` (`MCSessions`)
says which are explored together.

**Properties.** `OwnerRemains`, `LiveSessionsAreCurrent` (a session not revoked has its
account's present epoch: none is opened with the epoch of an older account), `LimitsHold`
(sessions per user; failures beyond the back-off by logins that run together),
`DeadStaysDead` and `ChangeEndsSessions` (what a step may never do). Nothing here waits, so
there is no liveness. A login whose password was right when verified may still open a
session after the password has changed back and forth, and an account request may act on
a role inspected a moment earlier; these races are in the model, and only the weaker
properties above are stated of them.

## Projection

**Correspondence.** `data` is the version of the records, `generation` and `dirty` the two
source marks, `triggers` whether they are there. A build drops and re-creates the
triggers, copies in a snapshot (`Copy`), checks the copy against the source, and replaces
the file: `Lock`, `RemoveStaleBackup`, `MoveAside`, `MoveIn` or `MoveInFails`, `RemoveBackup`.
`fresh` makes generations unique. A request reads the name of the projection, looks twice
whether it is current, looks up or establishes the trust in it, opens and asks it, or
falls back to SQLite. `since` collects what the database was while the request ran, `answer`
what it was told (history variables). `Crash` ends the builder at any step.

**Qualifications.** `PreviousIsKept` is stated for one fault: a crash after `MoveAside` and a
failing rename after it do lose the file, which is rebuilt. `AnswersAreFresh` is stated
unless records changed while a build had the triggers away (`missed`): they are dropped
and created in statements of their own, and the generation stays. The mapping is of the
same moment as the records as long as none was set back to an earlier one (`remaps`). An
answer may come from a projection that replaced the trusted one; a verdict is stored
under the name the request began with. Temporary files of a crashed build stay. A second
builder (the CLI beside the server) and an upgrade that drops the records are not modelled.

**Bounds.** One request, two mappings, two changes of records, two of the mapping, two
faults: a change before and after each look, a mapping that comes back, a crash of a
recovery. The proofs hold for any number of each.

## Desktop

**Correspondence.** `app` is the window: its fields and the two channels it sends to;
`messages` is the one it reads; `startup`, `search`, `count`, `analyst` and `ops` are the
threads, `data` the database. A click is an action that does what the handler does,
searches and analytics it triggers included (`StartSearch`, `RequestAnalytics`,
`AfterChange`). `Drain` handles the next message, `Repaint` is a frame, which asks for the
analytics of a view that has none. The count worker keeps its cache and drops all but
the last request of its channel. Rows, counts and reports are what they are of: query,
page or settings, and version of the data. `turned`, `overtaken` and `dossier` are history.

**Abstractions.** Progress messages and status texts, cards and selections, the catalog of
fields and stored queries are left out. The cancel flag is not there; an operation may end at
any time. The search worker answers page and count request in one step, and a report
is read in one. Frames and messages interleave more finely than in the code. The
confirmation of a clear may stay open while another operation runs, which allows more
than the code. A repair counts as a new version of the data.

**Bounds.** One query besides the empty one, of two pages, two scopes, one kind, two
levels, two pivots, one company; six clicks, of which two while something is under way
(`MaxHaste`), never more than two answers pending at a click, one unread message (the
workers wait), two operations, one commit and one fault, with a total weight of five
(`Focus`). Safety was also explored beyond: weight six with two unread messages and three
hasty clicks (2.57 million states), and 37 million states of random behaviours with
larger bounds.

**Fairness.** The window repaints while anything is under way (`app.rs:861`), workers
take what is in their channels, operations end. The user need not do anything.

**Properties.** `ShownIsAsked`: nothing is shown for another query, page or company than
the one asked. `FreshAtRest`: when all threads have come to rest, everything is of the
present data and settings. `WaitingEnds`: a search is answered, and a view is filled.

**Qualifications, and what the code does there.**
- Turning a page takes the same generation as a search. Analytics that are under way are
  dropped when they arrive, and `loading` stays: the view waits until something else is
  asked (`analytics_view.rs:111`), an answer of another level or pivot stays under the new
  choice, and the report is not ready again. Hence `turned`.
- "Show more" while other sections are under way counts their answers as loaded, with the
  old limit: the limit is not part of the generation. Hence `overtaken`.
- A failed dossier or price scan is reported as a search error with another counter's
  generation: its own flag stays, and a search of an equal generation is ended. Hence
  `faults`.
- A comparison is not invalidated by a search, and a dossier not by an import; both are left out
  of `FreshAtRest`.
- The death of a worker clears the operation that is shown and not the flags of what it
  owed. Hence the dead workers in `WaitingEnds`.
- The import button of the empty state and the confirmation of a clear do not look at
  `busy`: two writers can run. The model has them so.

## Findings

*The entry of a finishing worker can be gone* (`registry_entry_gone`). A worker publishes
its outcome, which makes the entry a candidate for pruning, and only then calls
`worker_finished`, which expects the entry (`jobs.rs:850`). If enough other jobs end in
between - forty with the real history, or fewer when the clock steps back - any thread
may prune it; the worker panics with the mutex held and the registry is poisoned.

*A late row stays* (`registry_late_row`). Snapshots are persisted after unlocking, and the
last writer wins. Submitter enqueues; a cancel ends the job and persists "cancelled";
the submitter persists its older "queued" snapshot (`jobs.rs:733`). Nothing writes the row
again; after a restart the job is reported as interrupted.

*A partial rebuild survives a clear* (`index_clear`). The first import is cancelled while it
is indexed; the partial table, cursor and guard (highest id, number of imports) are
kept. `clear_all` resets rows and log, not the partial rebuild. A file with as many rows
is imported: same guard, so the table is resumed, the count is right, and the swap puts
the text of the cleared rows into the index.

*A rebuild with another one's cursor* (`index_reset`). A fresh rebuild writes the guard first
and the cursor fourth, each in a commit of its own (`fts_index.rs:151`). If the process
stops in between and the keys of an earlier rebuild are still there, the next attempt
resumes an empty table from the old cursor with the old counts, which match; the rows up
to that cursor are never indexed.

## Proofs

Every theorem is of the specification, for all values of the constants that satisfy the
named assumptions of the modules, which TLC evaluates on every run. Each temporal
theorem is one inductive invariant, one step per action, and PTL.

**JobRegistryProofs**: `TypeCorrect`, `QueuesAreExact` (`QueuedIffInQueue`) and
`PointOfNoReturnHolds`, for any finite set of requests, any kinds, users and limits, with
and without a store, a failing store or a monotone clock. `TypeOK` is
inductive by itself; the other two are not. Their inductive invariant is `IInv`, the
conjunction of

- `TypeOK` and `QueuedIffInQueue`;
- `RankedAreFinished`: only finished jobs have a rank in the history, so pruning removes
  finished jobs and never a queued one;
- `UnbornAreUntouched`: until its submitter enqueues it, a job has no entry and no worker,
  so enqueueing keeps the queues injective;
- `QueuedHaveNoWorker`: the worker of a queued job does not exist yet;
- `StartedOnce`: a job is being started by at most one thread, is running then, and has
  no worker before, so no second worker can be spawned;
- `CommittedStayCommitted`: past the point of no return the entry is not cancellable and
  the worker stands where no cancellation is published unless the flag is set;
- `SeenCancelIsReal`: a worker that saw the flag in `succeed` saw a flag that is set;
- `PointOfNoReturn`.

The last needs most of the others: `cancel` is refused because the entry is not
cancellable, `worker_finished` and `mark_cancelled` do not cancel because the flag is
false, `succeed` because what it saw is real - and none of this would hold if a job could
get a second worker or be enqueued again. The module begins with what append, pop and
removal do to the elements and the injectivity of a queue, from the sequence operators alone.

Its second half goes on from `IInv`, under the same assumptions:

- `SlotsAreExact` (`SlotsMatchHolders`). `PicksAreHeld` is what it lacks: a job that a thread has
  taken and not yet given to a worker is taken by no other thread and is in no queue. So
  each slot that is taken or given back is that of one job.
- `WakeupsAreNotLost` (`NoLostWakeup`): every step after which a job could start leaves a thread
  that is still to come to the dispatch loop, and only a loop that finds nothing ends.
- `QueuesAreOrdered` (`FirstInFirstOut`), an action property.
- `StoreIsBehind` (`StoreNotAhead`): a snapshot that some thread is still to persist is not ahead
  of its entry, neither is a row, and statuses only move on (`Stands`, `RowsNotAhead`).
- `LivesAreKept`: a worker at work has a running job, a worker gives up only for a
  cancellation, a cancelled job has its flag set, a running job has a worker or a thread
  that is about to spawn one (`AllLives`).
- `LimitsAreKept` (`LimitsHold`). For admission: a submitter between `reserve_for` and
  `enqueue_admitted` holds its reservation (`WaitingHold`), so the limits checked at the one
  still hold at the other. For the history: finished jobs have different ranks, and what
  exceeds the limit is owed by threads that have still to prune, one for each job
  (`HistoryOwed`).
- `RegistryImplementsLifecycle` (`ImplementsLifecycle`): from `IInv`, `AllLives`, `PicksAreHeld` and the
  admission invariant, each step of each thread is a step of `JobLifecycle` or a stutter.

**JobLifecycleProofs**: `FlightIsSingle`, `WritersExclude`, `CommitmentHolds`, `OutcomesAreFinal`. `LifeInv`
adds that no committed job was asked to stop, that a cancelled job was asked, and that a
committed job has started. By `RegistryImplementsLifecycle` they hold of the registry for all
values of its constants.

**SchemaUpgradeProofs**:
- `UpgradeTypeCorrect`, `AlwaysBackedUp`, `VersionsAreEarned`, from `UpgradeInv`: `TableInv` (which tables
  there can be at which stage), `ProgressInv` (what is still stale or untyped lies behind the cursor of
  the attempt) and `BackupInv` (a marker names a complete backup, and nothing is changed before it is
  written).
- `IndexIsExact`, `ResumesAreExact`, under `~ClearsPartial` and `~InterruptedResets`; the two
  violations show that neither can be dropped. `IndexedInv` adds that a kept table holds exactly the
  rows up to its cursor and that its targets are those of the rows there were then - stable,
  because rows are only appended -, and that the local plan is what is kept while a table is built
  and fresh while keys are reset.
- `SearchesAreExact` (`SearchIsExact`), under the same conditions, from `IndexedInv`, `OwnersInv` and
  `LiveInv`: an index of whatever version holds rows there are and lacks no searchable row up to its
  watermark, except between the copy that drops it and the reset of the watermark, when the
  version tells every later attempt to reset it. An index that is not current changes only with the
  rows, or when a current one replaces it (`HeldStep`). That a duplicate is found follows from the
  owner it has.
- `DuplicatesHaveOwners`, unconditional, from `OwnersInv`: the first row of each content is
  searchable, and the rows of the open transaction have the owners they should.
- `LogStaysHonest` (`LogIsHonest`), unconditional, from `LogInv`, which follows a file through its
  batches: what is inserted so far is a prefix of the file, what is committed is all of it,
  and nobody logs the same content in between.

**SessionsProofs**: `AnOwnerRemains`, `SessionsAreCurrent`, `TheDeadStayDead`, `ChangesEndSessions`. `StoreInv`
has the types of the two tables and of the clock, the two invariants themselves, that the
store is open before it is used, and that a request under way has a name. `TypeCorrect` adds
the logins and the limiter: counters stay below their cap, and the back-off is a power
of two that is cut off. `LimitsAreRespected` (`LimitsHold`) has two parts. `LiveInv`: opening a session removes
the oldest ones until the new one fits. `OverrunInv`: for a name that backs off, the failures it
has seen and the verifications of it that still hold a permit are together fewer than the
permits - which holds because a login looks at the limiter again with its permit in hand.

**ProjectionProofs**: `TypeCorrect`; `PreviousSurvives` from `KeptInv`, which follows the file through
every step of a replacement and counts the faults; `FreshAnswers` and `CurrentProjectionIsExact` (a file
whose generation is current holds the records as they are) from `FreshInv`: what a
generation says of the records while the triggers are there, and what each request may
conclude from what it has seen so far.

**ArtifactsProofs**: `TypeCorrect`, `FilesAreKept`, `ExportsStay`, `BatchesAreHonest`, `HistoryIsConsistent`:
all invariants of the module, for any jobs, previews, files and times to live.
One invariant serves them all. For each job it says how handler, phase, worker and row go
together (`LifeOK`), how far the batch has come (`BatchOK`), and which directories are there and
not doomed (`DirsOK`): while a job is received or active no sweep has an entry of it on its
list, because the sweep reads directory and jobs in one step and the files are younger
than their time to live. `SourcesOK` says that a claimed preview has one owner and that its
file is gone; `NumbersOK` is about ids. The assumptions of
the section "Artifacts" are in the guards of the model, so the proofs rest on them too.

**DesktopProofs**: `TypeCorrect` and `ShownStaysAsked` (`ShownIsAsked`), for any number of queries, pages,
scopes, clicks, operations and faults. That an answer of the expected generation is an
answer to what is asked is a fact about all that is under way: `IInv` says of the requests in
both channels, of the request the count worker is at, and of all answers, that none has a
generation the window has not reached, and that one of the expected generation is of
what is asked now. `Carries(a, b)` is the step: what is under way for window `a` is so for `b`,
since the window changes what it asks only with a new generation. The proof shows for
each click and each message that the new window is `Good` and carries what was under way,
and for each thread that it answers what it was asked. Failures with another counter's
generation (`faults`) end a search and show nothing, so they do no harm here.

**DesktopFreshProofs**: `RestIsFresh` (`FreshAtRest`), for the same constants. `IInv` says what an answer of
the expected generation is of; it does not say that there is one, nor which of several
comes last, nor of which version of the data it is. `FInv`, inductive together with `IInv`,
does, of behaviours in which nothing has failed:

- `Searching`: only the last request of the search channel is of the search that is expected,
  and before the worker has taken it nothing else of that search is under way; while the
  window waits for a page, a count or both, each of them is in one of the channels or with
  the count worker, as the last of its requests or the one it is at. The
  worker may therefore drop all other requests.
- `Limited`, `Leveled`, `Pivoted`: a click changes row limit, level or pivot under the old
  generation, so answers with old settings may still be on their way. `Decided` says that they
  do not have the last word: the last request of the kind in the channel has the present
  settings; if none is left, the last answer has; if none of these is left, what is shown
  has. `Limited` is stronger, as `overtaken` excuses the one case in which it would not hold.
- `Grouped`: the groups an open explorer waits for are under way.
- `Starting`: until the startup has been told no operation runs, and what it tells is so.
- `Fresh`, required unless a change of the data is running or still to be told (`Renewal`), after
  which the window searches again under a new generation: every answer that is expected, all
  that is shown, and what the count worker is at are of the present version; the last
  statistics asked for are; and the cache of the count worker is, or the request that makes it
  clear the cache is on its way through the two channels (`Cached`). It is why the order
  of `AfterChange` - statistics first, then the search - matters: the clearing reaches the count
  worker before the count does.

There is one lemma for each message the window takes in, one for each click, and one for each
thread; the generations in `IInv` make answers of earlier searches irrelevant to all of
these. At rest every channel is empty and no change is pending, so that only what `FInv` says
of what is shown remains. TLC checked `FInv` as an invariant before it was proved. The proof
showed that one qualification of `FreshAtRest` was not needed: after a page was turned the row
limit of what is shown is still the present one, because "show more" unloads every section,
so `turned` no longer excuses it.

**Only model-checked.** All liveness (`AcceptedJobsEnd`, `LeftoversGo`, `IndexCatchesUp`, `Opens`, `WaitingEnds`), which is
out of the prover's reach as ENABLED is. Every other property of a passing run is a theorem:
each safety invariant and each action property, for all values of the constants.

## Not modelled

- **Search, analytics and export queries, source schemas, mapping profiles, column
  detection and parsing**: translations of values, each within one statement or one pass.
  They hold no state between steps; their correctness is about SQL text and formats.
- **HTTP server, security headers, observability, command line, user interface,
  translations and web client**: request-local or presentation.
- **Launcher** (`src/src/launcher.rs`): it does keep state over several steps - a server process it
  starts, watches and stops, and the choices of its window. It shares nothing with the
  components above but the process it starts.
- **Two processes on one file** (`fts_index.rs:84`): the desktop window and the server may open the same
  database. `SearchIndex` has one process with one write job. No property covers it.
- **Previews read after their request is gone** (`imports.rs:982`): the permit of a preview belongs to
  the handler, the file is read in a blocking task that does not end with it. When clients go away, more
  files than `concurrent_previews` may be read at once. `Artifacts` ends handler, permit and read
  together, and no property speaks of the number of reads.
- **Duplicate compaction** (`db.rs`): reached from the library only. It changes how a
  duplicate is stored, not which rows are searchable.
- **Read indexes dropped for a bulk load** (`import.rs:715`): a stop leaves them to the next
  opening, which creates them; they change speed, not answers.
- Within modelled components, what their sections list as left out.

Apart from the launcher, the definitions here stand for the code that keeps state over
several steps. Most of the repository's lines do not: translations, SQL text, formatting, layout, argument parsing
and the HTTP surface make up the larger part, and a model of them would restate them. That
is why the modelled lines are a small share of all lines and will remain one.

## What is left

1. Two processes that open, upgrade and index one file.
2. The launcher and the process it supervises.
