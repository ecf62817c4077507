--------------------------- MODULE SchemaUpgrade ---------------------------
(***************************************************************************)
(* Opening a database, which upgrades one of an earlier version first: a   *)
(* verified backup, its marker in the database, and the migration of the   *)
(* records in many small commits, any of which may be the last before the  *)
(* process stops.  The next opening goes on from what is committed.        *)
(*                                                                         *)
(* The database that has been opened is that of SearchIndex; while it is   *)
(* being opened nothing else works on it.                                  *)
(***************************************************************************)
EXTENDS SearchIndex

CONSTANTS
    OldVersions,    \* values of meta records_schema before RECORDS_SCHEMA_VERSION; none is 0
    LegacyVersions  \* those whose table may lack columns of the source schema: the first ones

CurrentVersion == 7

ASSUME VersionsAssumption ==
    OldVersions \subseteq 0..(CurrentVersion - 1) /\ LegacyVersions \subseteq OldVersions \cap 0..1

VARIABLES
    stage,    \* where open stands
    schema,   \* the table of the records and what meta says of it
    before,   \* the database as it was before this upgrade, and what was opened once it is open
    marker,   \* meta records_pre_upgrade_backup_v7: the recorded backup, 0 for none
    backups,  \* what each backup file holds
    attempt   \* the local variables of open

upgradeVars == <<stage, schema, before, marker, backups, attempt>>
allVars == <<vars, upgradeVars>>
----------------------------------------------------------------------------
Backups == 1..(MaxInterruptions + 1)
Rows == DOMAIN records

\* What a backup copies.
Database == [schema |-> schema, log |-> log, watermark |-> watermark, live |-> live]
Opened == [schema |-> schema, log |-> <<>>, watermark |-> 0, live |-> {}]

NoAttempt == [backup |-> 0, legacy |-> FALSE, cursor |-> 0]

\* destructive_upgrade_required.
UpgradeRequired == schema.table # "none" /\ schema.version # CurrentVersion

\* migrate_records_schema finds something to do.
MigrationRequired == schema.version # CurrentVersion \/ schema.pending

Reach(s) == stage' = s

\* The next chunk, as ORDER BY id LIMIT finds it.
Chunk == {i \in Rows : attempt.cursor < i /\ i <= attempt.cursor + ChunkRows}

unread == <<table, kept, pc, file, added, plan, sourceChanged>>

\* The process stops, or open returns an error: what is committed stays.
Abort == Interrupt /\ Reach("closed") /\ attempt' = NoAttempt
----------------------------------------------------------------------------
(* initialize: what there is to do, and the backup                         *)

\* Faulty: the marker of an interrupted upgrade is not looked up.
CheckVersionOnly ==
    /\ stage = "closed"
    /\ Reach(IF UpgradeRequired THEN "preflight" ELSE "tables")
    /\ UNCHANGED <<vars, schema, before, marker, backups, attempt>>

CheckVersion ==
    /\ stage = "closed"
    /\ Reach(IF marker # 0 THEN "resuming" ELSE IF UpgradeRequired THEN "preflight" ELSE "tables")
    /\ UNCHANGED <<vars, schema, before, marker, backups, attempt>>

\* reuse_pre_upgrade_backup: it is verified again; a partial one never is.
ReuseBackup ==
    /\ stage = "resuming" /\ backups[marker] # "partial"
    /\ attempt' = [attempt EXCEPT !.backup = marker]
    /\ Reach("tables")
    /\ UNCHANGED <<vars, schema, before, marker, backups>>

\* Free space and the quick check allow it: VACUUM INTO a file of a new name begins.
StartBackup ==
    /\ stage = "preflight"
    /\ \E b \in Backups :
         /\ backups[b] = "none" /\ \A c \in 1..(b - 1) : backups[c] # "none"
         /\ backups' = [backups EXCEPT ![b] = "partial"]
         /\ attempt' = [attempt EXCEPT !.backup = b]
    /\ Reach("copying")
    /\ UNCHANGED <<vars, schema, before, marker>>

FinishBackup ==
    /\ stage = "copying"
    /\ backups' = [backups EXCEPT ![attempt.backup] =
                       IF Database = before THEN "before" ELSE "later"]
    /\ Reach("verifying")
    /\ UNCHANGED <<vars, schema, before, marker, attempt>>

\* VACUUM or the integrity check of the copy fails: the file is removed.
FailBackup ==
    /\ stage \in {"copying", "verifying"}
    /\ Abort
    /\ backups' = [backups EXCEPT ![attempt.backup] = "none"]
    /\ UNCHANGED <<data, index, unread, schema, before, marker>>

\* The integrity check passes; record_pre_upgrade_backup.
RecordBackup ==
    /\ stage = "verifying"
    /\ marker' = attempt.backup
    /\ Reach("tables")
    /\ UNCHANGED <<vars, schema, before, backups, attempt>>
----------------------------------------------------------------------------
(* migrate_records_schema                                                  *)

backupVars == <<before, marker, backups>>

\* records_v2, left by an upgrade to an earlier version: dropped, or renamed when it is all there is.
SettleTables ==
    /\ stage = "tables" /\ MigrationRequired
    /\ IF schema.table = "none" THEN Reach("mark") /\ UNCHANGED schema
       ELSE Reach("layout") /\ schema' = [schema EXCEPT !.table = "records"]
    /\ watermark' = IF schema.table = "records_v2" THEN 0 ELSE watermark
    /\ UNCHANGED <<data, current, live, unread, interruptions, backupVars, attempt>>

\* Faulty: nothing says that the fingerprints of the copy are still to be rebuilt.
CopyLegacyTableUnmarked ==
    /\ stage = "layout" /\ schema.columns = "legacy"
    /\ schema' = [schema EXCEPT !.columns = "all", !.untyped = Rows]
    /\ live' = {}
    /\ attempt' = [attempt EXCEPT !.legacy = TRUE]
    /\ Reach("fingerprints")
    /\ UNCHANGED <<data, current, watermark, unread, interruptions, backupVars>>

\* One transaction: the pending flag, the rows copied to the new layout, the old index dropped.
CopyLegacyTable ==
    /\ stage = "layout" /\ schema.columns = "legacy"
    /\ schema' = [schema EXCEPT !.columns = "all", !.pending = TRUE, !.untyped = Rows]
    /\ live' = {}
    /\ attempt' = [attempt EXCEPT !.legacy = TRUE]
    /\ Reach("fingerprints")
    /\ UNCHANGED <<data, current, watermark, unread, interruptions, backupVars>>

\* Columns that are missing are added; a rebuild of fingerprints that was interrupted is resumed.
AddColumns ==
    /\ stage = "layout" /\ schema.columns # "legacy"
    /\ schema' = [schema EXCEPT !.columns = "all"]
    /\ Reach(IF schema.pending THEN "fingerprints" ELSE "hashes")
    /\ UNCHANGED <<vars, backupVars, attempt>>

\* Faulty: the next chunk begins where this one did.
RebuildChunkAgain ==
    /\ stage = "fingerprints" /\ Chunk # {}
    /\ schema' = [schema EXCEPT !.stale = @ \ Chunk]
    /\ UNCHANGED <<vars, stage, attempt, backupVars>>

\* rebuild_record_hashes, from the first row on: one transaction for each chunk.
RebuildChunk ==
    /\ stage = "fingerprints" /\ Chunk # {}
    /\ schema' = [schema EXCEPT !.stale = @ \ Chunk]
    /\ attempt' = [attempt EXCEPT !.cursor = @ + ChunkRows]
    /\ UNCHANGED <<vars, stage, backupVars>>

FinishFingerprints ==
    /\ stage = "fingerprints" /\ Chunk = {}
    /\ schema' = [schema EXCEPT !.pending = FALSE]
    /\ attempt' = [attempt EXCEPT !.cursor = 0]
    /\ Reach("hashes")
    /\ UNCHANGED <<vars, backupVars>>

\* reset_file_hashes: the entries of the log stay, and stand for no file any more.
ForgetHashes ==
    /\ stage = "hashes"
    /\ log' = [i \in DOMAIN log |-> <<>>]
    /\ Reach("watermark")
    /\ UNCHANGED <<records, index, unread, interruptions, schema, backupVars, attempt>>

ResetWatermark ==
    /\ stage = "watermark"
    /\ watermark' = IF attempt.legacy \/ schema.version < 2 THEN 0 ELSE watermark
    /\ Reach("typing")
    /\ UNCHANGED <<data, current, live, unread, interruptions, schema, backupVars, attempt>>

BackfillRequired == attempt.legacy \/ schema.version < 5

\* backfill_derived_columns, from the first row on.
BackfillChunk ==
    /\ stage = "typing" /\ BackfillRequired /\ Chunk # {}
    /\ schema' = [schema EXCEPT !.untyped = @ \ Chunk]
    /\ attempt' = [attempt EXCEPT !.cursor = @ + ChunkRows]
    /\ UNCHANGED <<vars, stage, backupVars>>

FinishTyping ==
    /\ stage = "typing" /\ (BackfillRequired => Chunk = {})
    /\ Reach("mark")
    /\ UNCHANGED <<vars, schema, backupVars, attempt>>

\* Faulty: the version after the one it had.
MarkNextVersion ==
    /\ stage = "mark"
    /\ schema' = [schema EXCEPT !.version = @ + 1]
    /\ Reach("creating")
    /\ UNCHANGED <<vars, backupVars, attempt>>

\* meta records_schema, once all of it is done.
MarkVersion ==
    /\ stage = "mark"
    /\ schema' = [schema EXCEPT !.version = CurrentVersion]
    /\ Reach("creating")
    /\ UNCHANGED <<vars, backupVars, attempt>>

\* The rest of ensure_schema: tables and indexes that are not there; it is all there is to do when
\* the version is current.  Without an upgrade the database is open.
CreateTables ==
    /\ \/ stage = "creating"
       \/ stage = "tables" /\ ~MigrationRequired
    /\ schema' = [schema EXCEPT !.table = "records", !.columns = "all"]
    /\ \/ /\ attempt.backup # 0 /\ Reach("checking")
          /\ UNCHANGED <<backupVars, attempt>>
       \/ /\ attempt.backup = 0 /\ Reach("open")
          /\ before' = [Opened EXCEPT !.schema = schema']
          /\ UNCHANGED <<marker, backups, attempt>>
    /\ UNCHANGED vars
----------------------------------------------------------------------------
\* The integrity check of the upgraded database passes and the marker goes; the retained backup
\* is the user's from here on.
FinishUpgrade ==
    /\ stage = "checking"
    /\ Reach("open")
    /\ before' = Opened
    /\ marker' = 0
    /\ backups' = [b \in Backups |-> "none"]
    /\ attempt' = NoAttempt
    /\ UNCHANGED <<vars, schema>>

\* The process stops at any point, or open returns an error.
StopOpening ==
    /\ stage \notin {"closed", "open"}
    /\ Abort
    /\ UNCHANGED <<data, index, unread, schema, backupVars>>

\* Work on the database that is open.
WorkOpen == stage = "open" /\ Work /\ UNCHANGED upgradeVars

\* The process that works on it stops.
StopWork ==
    /\ stage = "open" /\ Crash
    /\ Reach("closed")
    /\ before' = Database
    /\ UNCHANGED <<schema, marker, backups, attempt>>

\* A database as version v has left it, also one that an interrupted upgrade to v has left.
LeftBy(v) ==
    [version : {v}, table : {"records", "records_v2", "both"},
     columns : {"known"} \cup (IF v \in LegacyVersions THEN {"legacy"} ELSE {}),
     pending : {FALSE}, stale : {{}}, untyped : {IF v < 5 THEN Rows ELSE {}}]

\* The fingerprints of a legacy table are those of an earlier program.
Aged(s) == IF s.columns = "legacy" THEN [s EXCEPT !.stale = Rows] ELSE s

NewSchema == [version |-> 0, table |-> "none", columns |-> "all", pending |-> FALSE,
              stale |-> {}, untyped |-> {}]
CurrentSchema == [NewSchema EXCEPT !.version = CurrentVersion, !.table = "records"]

\* Rows of the same content that had different fingerprints before the first upgrade: each has
\* no owner still.
CollapsedRows ==
    \E f \in Files :
        Len(f) <= MaxRows /\ records = [i \in DOMAIN f |-> [text |-> f[i], owner |-> 0]] /\ log = <<f>>

\* The full-text index may be current although the records are not, but for the first versions.
UpgradeInit ==
    /\ InitRows \/ CollapsedRows
    /\ InitWork
    /\ \/ schema = NewSchema /\ records = <<>>
       \/ schema = CurrentSchema
       \/ schema \in {Aged(s) : s \in UNION {LeftBy(v) : v \in OldVersions}}
    /\ \/ OutdatedIndex
       \/ /\ schema.version >= 2 /\ schema.table = "records"
          /\ current = TRUE /\ watermark = Len(records) /\ live = Entries(0, Len(records))
    /\ stage = "closed" /\ marker = 0 /\ attempt = NoAttempt
    /\ backups = [b \in Backups |-> "none"]
    /\ before = Database

Opening ==
    \/ CheckVersion \/ ReuseBackup \/ StartBackup \/ FinishBackup \/ RecordBackup
    \/ SettleTables \/ CopyLegacyTable \/ AddColumns
    \/ RebuildChunk \/ FinishFingerprints \/ ForgetHashes \/ ResetWatermark
    \/ BackfillChunk \/ FinishTyping \/ MarkVersion \/ CreateTables \/ FinishUpgrade

UpgradeNext == Opening \/ FailBackup \/ StopOpening \/ WorkOpen \/ StopWork

\* A database that is closed is opened, a job that has begun goes on, and someone reindexes again
\* and again: a restart, a search of the CLI, a reindex job.
Fairness ==
    /\ WF_allVars(Opening)
    /\ WF_allVars(stage = "open" /\ Step /\ UNCHANGED upgradeVars)
    /\ SF_allVars(stage = "open" /\ StartIndex /\ UNCHANGED upgradeVars)

UpgradeSpec == UpgradeInit /\ [][UpgradeNext]_allVars /\ Fairness
----------------------------------------------------------------------------
(* Correctness.                                                            *)

Stages == {"closed", "resuming", "preflight", "copying", "verifying", "tables", "layout",
           "fingerprints", "hashes", "watermark", "typing", "mark", "creating", "checking", "open"}

(* Type invariant.                                                         *)
UpgradeTypeOK ==
    /\ TypeOK
    /\ stage \in Stages
    /\ schema \in [version : {0, CurrentVersion} \cup OldVersions,
                   table   : {"none", "records", "records_v2", "both"},
                   columns : {"legacy", "known", "all"},
                   pending : BOOLEAN, stale : SUBSET Rows, untyped : SUBSET Rows]
    /\ marker \in {0} \cup Backups
    /\ backups \in [Backups -> {"none", "partial", "before", "later"}]
    /\ attempt \in [backup : {0} \cup Backups, legacy : BOOLEAN, cursor : Nat]
    /\ stage # "open" => pc = "idle"

(* As soon as anything that an upgrade changes differs from what it was    *)
(* before, and until the upgrade has been verified, the database names a   *)
(* complete backup of itself as it was: not one that a crash cut short,    *)
(* and not one that a second attempt took of a database half upgraded.     *)
BackedUp ==
    stage # "open" /\ Database # before /\ before.schema.table # "none"
        => marker # 0 /\ backups[marker] = "before"

(* The version says that the upgrade is complete, whatever interrupted it: *)
(* a later opening relies on it and does none of it again.  A database     *)
(* that is open has it.                                                    *)
VersionIsEarned ==
    /\ schema.version = CurrentVersion =>
         /\ schema.columns = "all" /\ ~schema.pending
         /\ schema.stale = {} /\ schema.untyped = {}
         /\ stage # "open" /\ before.schema.version # CurrentVersion => ToSet(log) \subseteq {<<>>}
    /\ stage = "open" => schema.version = CurrentVersion /\ schema.table = "records" /\ marker = 0

(* Every search on an open database finds the rows that hold its text, all *)
(* of them and no other, while the index is outdated, rebuilt or repaired  *)
(* and after any failure of that: what searches use is replaced as a whole *)
(* ("the live index was kept"), and its watermark never goes beyond it,    *)
(* whatever an upgrade, a crash, a clear or a cancelled import has done.   *)
SearchIsExact ==
    stage = "open" =>
        \A t \in Texts : Found(t) = {r \in Rows : records[r].text = t}

(* Interrupted as often as it may be, opening ends with an open database.  *)
Opens == stage = "closed" ~> stage = "open"
=============================================================================
