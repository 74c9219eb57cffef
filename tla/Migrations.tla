------------------------------ MODULE Migrations ------------------------------
(***************************************************************************)
(* A history of an earlier build.                                            *)
(*                                                                         *)
(* Opening a SQLite history of an older schema (sqlite_migration.rs and      *)
(* Store::open_profiled): a backup, a dry run on a copy of it, the migration *)
(* of the live file in one transaction, its verification, and the rollback   *)
(* or the removal of the plaintext copies.  The process may die between any  *)
(* two steps; another process may write the live file meanwhile, and as long *)
(* as it has the file open, what it wrote may be in the -wal only.           *)
(*                                                                         *)
(* The one-time import of a SQLite history into DuckDB (duck_migration.rs):  *)
(* each process that finds no history.duckdb copies history.db into a staging*)
(* file of its own, copies the bodies into duckdb-blobs, verifies both, and  *)
(* publishes the file by a hard link, which never replaces one.              *)
(***************************************************************************)
EXTENDS Integers, FiniteSets

-----------------------------------------------------------------------------
(* The upgrade of a SQLite history *)

CONSTANTS
    UpRows,      \* rows
    LostRows,    \* rows a defective migration drops
    MaxHarm      \* bound: damage done to the live file

ASSUME UpgradeAssumption == IsFiniteSet(UpRows) /\ LostRows \subseteq UpRows /\ MaxHarm \in Nat

VARIABLES
    upStep,      \* where open_profiled is: "down" .. "open"
    live,        \* history.db as it is read: [version, rows, sound]
    base,        \* history.db without its -wal
    backup,      \* history.migration-v<n>.bak, or NoFile
    dry,         \* history.migration-dry-run.db, or NoFile
    manifest,    \* history.migration.json exists
    guard,       \* MigrationGuard's backup and its checksum, or NoFile
    owned,       \* ghost: the rows the upgrade must not lose
    severed,     \* ghost: where a rollback that ended without its copy left the rows
    harm         \* ghost: counts damage

upVars == <<upStep, live, base, backup, dry, manifest, guard, owned, severed, harm>>

NoFile == [version |-> 0, rows |-> {}, sound |-> FALSE]
OldSchema == 1
NewSchema == 2

UpInit ==
    /\ upStep = "down"
    /\ \E rows, filed \in SUBSET UpRows :
         /\ live = [version |-> OldSchema, rows |-> rows, sound |-> TRUE] /\ owned = rows
         /\ base = [live EXCEPT !.rows = filed]
    /\ backup = NoFile /\ dry = NoFile /\ manifest = FALSE /\ guard = NoFile
    /\ severed = "no" /\ harm = 0

-----------------------------------------------------------------------------
\* apply_migrations: forward only, up to the schema of this build.
Migrated(db) ==
    IF db.version = NewSchema THEN db
    ELSE [db EXCEPT !.version = NewSchema, !.rows = @ \ LostRows]

\* verify: the version, the number of rows, quick_check.
Verified(db) ==
    /\ db.version = NewSchema
    /\ Cardinality(db.rows) = Cardinality(guard.rows)
    /\ db.sound

\* An error is returned, or the process dies: the guard is gone either way,
\* and only the drop of the guard removes the dry run.
Stops ==
    /\ upStep' = "down" /\ guard' = NoFile
    /\ dry' \in {dry, IF guard = NoFile THEN dry ELSE NoFile}

\* prepare removes the backup of an earlier attempt before it makes its own:
\* if that attempt was a rollback cut short, the rows it alone had are gone.
BackupGoes ==
    severed' = IF severed # "backed" THEN severed
               ELSE IF owned \subseteq live.rows THEN "no" ELSE "lost"

\* prepare, of a history of an older schema; its own errors leave the copies.
Prepare ==
    /\ upStep = "down" /\ live.version < NewSchema
    /\ backup' = live /\ dry' = live /\ guard' = live
    /\ BackupGoes /\ owned' = owned \cup live.rows
    /\ upStep' = "dry"
    /\ UNCHANGED <<live, base, manifest, harm>>

Torn(db) == [db EXCEPT !.sound = FALSE]

\* It ends at a removal, or in the middle of a copy.
PrepareStops ==
    /\ upStep = "down" /\ live.version < NewSchema
    /\ \/ UNCHANGED <<backup, dry, severed>>
       \/ /\ \/ backup' = NoFile /\ dry' \in {dry, NoFile}
             \/ backup' = Torn(live) /\ dry' = NoFile
             \/ backup' = live /\ dry' \in {NoFile, Torn(live), live}
          /\ BackupGoes
    /\ UNCHANGED <<upStep, live, base, manifest, guard, owned, harm>>

\* prepare, with nothing to migrate
PrepareNothing ==
    /\ upStep = "down" /\ live.version = NewSchema
    /\ upStep' = "opening"
    /\ UNCHANGED <<live, base, backup, dry, manifest, guard, owned, severed, harm>>

\* The dry run: verified, it leaves the manifest; its file goes in any case.
DryRun ==
    /\ upStep = "dry"
    /\ dry' = NoFile
    /\ IF Verified(Migrated(dry))
       THEN upStep' = "opening" /\ manifest' = TRUE /\ UNCHANGED guard
       ELSE upStep' = "down" /\ guard' = NoFile /\ UNCHANGED manifest
    /\ UNCHANGED <<live, base, backup, owned, severed, harm>>

\* from_connection_with_cas on the live file: one transaction for the schema,
\* so that an error leaves the file as it was or migrated.
OpenLive ==
    /\ upStep = "opening"
    /\ \E sound \in BOOLEAN :
         /\ sound \/ (live.version = OldSchema /\ harm < MaxHarm)
         /\ live' = [Migrated(live) EXCEPT !.sound = @ /\ sound]
         /\ harm' = IF sound THEN harm ELSE harm + 1
    /\ upStep' \in {IF guard = NoFile THEN "cleanup" ELSE "verify",
                    IF guard = NoFile THEN "down" ELSE "rollback"}
    /\ UNCHANGED <<base, backup, dry, manifest, guard, owned, severed>>

OpenLiveFails ==
    /\ upStep = "opening"
    /\ upStep' = IF guard = NoFile THEN "down" ELSE "rollback"
    /\ UNCHANGED <<live, base, backup, dry, manifest, guard, owned, severed, harm>>

\* verify_live, against the guard and the manifest
Accepts(db) == Verified(db) /\ manifest

\* verify_live, then commit: the backup goes, then the manifest.
VerifyLive ==
    /\ upStep = "verify"
    /\ IF Accepts(live)
       THEN backup' = NoFile /\ manifest' = FALSE /\ upStep' = "cleanup"
       ELSE upStep' = "rollback" /\ UNCHANGED <<backup, manifest>>
    /\ UNCHANGED <<live, base, dry, guard, owned, severed, harm>>

\* rollback, if the backup is what was written: the live file loses its -wal
\* and -shm first, and with them what was never checkpointed ...
Rollback ==
    /\ upStep = "rollback"
    /\ IF backup = guard
       THEN upStep' = "copying" /\ live' = base /\ UNCHANGED <<dry, guard>>
       ELSE Stops /\ UNCHANGED live
    /\ UNCHANGED <<base, backup, manifest, owned, severed, harm>>

\* ... and only then the backup is copied over it (atomic_copy).
RollbackCopies ==
    /\ upStep = "copying"
    /\ live' = backup /\ base' = backup
    /\ Stops
    /\ UNCHANGED <<backup, manifest, owned, severed, harm>>

\* cleanup_stale_after_verified_open: of an earlier attempt that died.
Cleanup ==
    /\ upStep = "cleanup"
    /\ IF backup = NoFile /\ dry = NoFile /\ ~manifest
       THEN upStep' = "open" /\ guard' = NoFile /\ UNCHANGED <<backup, dry, manifest>>
       ELSE IF live.version = NewSchema /\ live.sound
       THEN /\ upStep' = "open" /\ guard' = NoFile
            /\ backup' = NoFile /\ dry' = NoFile /\ manifest' = FALSE
       ELSE Stops /\ UNCHANGED <<backup, manifest>>
    /\ UNCHANGED <<live, base, owned, severed, harm>>

\* It ends anywhere, in the middle of the commit and of the rollback too.
UpgradeEnds ==
    /\ upStep \notin {"down", "open"}
    /\ Stops
    /\ backup' \in {backup, IF upStep = "verify" /\ Accepts(live) THEN NoFile ELSE backup}
    /\ severed' = IF upStep = "copying" /\ severed = "no" /\ ~(owned \subseteq live.rows)
                  THEN "backed" ELSE severed
    /\ UNCHANGED <<live, base, manifest, owned, harm>>

\* SQLite moves the -wal into the file: on its own, or at the last close.
Checkpoint ==
    /\ base # live /\ base' = live
    /\ UNCHANGED <<upStep, live, backup, dry, manifest, guard, owned, severed, harm>>

\* The open store is used, then closed.
UseAndClose ==
    /\ upStep = "open"
    /\ \E rows \in SUBSET UpRows :
         live' = [live EXCEPT !.rows = rows] /\ owned' = rows
    /\ upStep' = "down"
    /\ UNCHANGED <<base, backup, dry, manifest, guard, severed, harm>>

\* Another process, of the older build, stores or deletes a row meanwhile.  What
\* it stores counts as owned from the next attempt on: a rollback drops it.
OtherWrites ==
    /\ upStep \in {"down", "dry", "opening", "rollback"} /\ live.version = OldSchema
    /\ \E r \in UpRows :
         \/ live' = [live EXCEPT !.rows = @ \cup {r}] /\ UNCHANGED owned
         \/ live' = [live EXCEPT !.rows = @ \ {r}] /\ owned' = owned \ {r}
    /\ UNCHANGED <<upStep, base, backup, dry, manifest, guard, severed, harm>>

UpNext ==
    \/ Prepare \/ PrepareStops \/ PrepareNothing \/ DryRun \/ OpenLive \/ OpenLiveFails
    \/ VerifyLive \/ Rollback \/ RollbackCopies \/ Cleanup \/ UpgradeEnds \/ Checkpoint
    \/ UseAndClose \/ OtherWrites

UpSpec == UpInit /\ [][UpNext]_upVars

-----------------------------------------------------------------------------
UpTypeOK ==
    /\ upStep \in {"down", "dry", "opening", "verify", "rollback", "copying", "cleanup", "open"}
    /\ upStep \in {"dry", "verify", "rollback", "copying"} => guard.version = OldSchema
    /\ severed \in {"no", "backed", "lost"}

\* The one loss the code admits: rows another process had in the -wal only, after
\* a rollback that ended between its removal and the copy, once the next attempt
\* has removed the backup.
Whole(db) == db.sound /\ (severed # "lost" => owned \subseteq db.rows)

\* Wherever the upgrade stops, the rows it began with are whole in the live
\* file or in the backup: neither a migration that loses rows, nor damage to
\* the migrated file, nor a death between two steps takes them, but for the
\* rollback cut short that Whole excepts (MigrationGuard).
RowsAreRecoverable == \E db \in {live, backup} : Whole(db)

\* A store that is open has no plaintext copy of its rows beside it.
CopiesAreGone == upStep = "open" => backup = NoFile /\ dry = NoFile /\ ~manifest

UpgradeSafety == UpTypeOK /\ RowsAreRecoverable /\ CopiesAreGone

-----------------------------------------------------------------------------
(* The import into DuckDB *)

CONSTANTS
    Importers,   \* processes that open the store
    ImportRows,  \* rows, numbered by their seq
    Spilling,    \* rows whose body is a file of the CAS
    MaxImports   \* bound: imports begun

ASSUME ImportAssumption ==
    /\ ImportRows \subseteq Nat \ {0} /\ IsFiniteSet(ImportRows)
    /\ Spilling \subseteq ImportRows /\ MaxImports \in Nat

VARIABLES
    imp,         \* [Importers -> [at, rows]]: how far, and the image it staged
    history,     \* rows of history.db
    oldBlobs,    \* bodies in blobs/
    newBlobs,    \* bodies in duckdb-blobs/
    dest,        \* history.duckdb: [there, rows, sequence]
    orphans,     \* images left in staging files nobody owns
    deleted,     \* ghost: rows the user deleted from history.duckdb
    imports      \* ghost: counts the imports begun

impVars == <<imp, history, oldBlobs, newBlobs, dest, orphans, deleted, imports>>

Absent == [there |-> FALSE, rows |-> {}, sequence |-> 0]
AtRest == [at |-> "closed", rows |-> {}]
Highest(rows) == CHOOSE n \in rows \cup {0} : \A m \in rows : m <= n

ImpInit ==
    /\ imp = [p \in Importers |-> AtRest]
    /\ \E rows \in SUBSET ImportRows :
         /\ history = rows
         /\ \E lost \in SUBSET (rows \cap Spilling) : oldBlobs = (rows \cap Spilling) \ lost
    /\ newBlobs = {} /\ dest = Absent /\ orphans = {} /\ deleted = {} /\ imports = 0

Goes(p, at, rows) == imp' = [imp EXCEPT ![p] = [at |-> at, rows |-> rows]]

-----------------------------------------------------------------------------
\* A destination already there: nothing to import.  DuckDB locks its file.
OpenDestination(p) ==
    /\ imp[p].at = "closed" /\ dest.there
    /\ \A q \in Importers : imp[q].at # "open"
    /\ Goes(p, "open", {})
    /\ newBlobs' = newBlobs \cap dest.rows   \* gc_blobs at the open
    /\ UNCHANGED <<history, oldBlobs, dest, orphans, deleted, imports>>

\* One read transaction: the image is of one moment of the source, each table
\* verified by count and hash against it before the commit.
StageTables(p) ==
    /\ imp[p].at = "closed" /\ ~dest.there /\ imports < MaxImports
    /\ Goes(p, "staged", history)
    /\ imports' = imports + 1
    /\ UNCHANGED <<history, oldBlobs, newBlobs, dest, orphans, deleted>>

\* copy_from and the content hash, clip by clip; a missing body is an error.
CopyBodies(p) ==
    /\ imp[p].at = "staged" /\ imp[p].rows \cap Spilling \subseteq oldBlobs
    /\ newBlobs' = newBlobs \cup (imp[p].rows \cap Spilling)
    /\ Goes(p, "verified", imp[p].rows)
    /\ UNCHANGED <<history, oldBlobs, dest, orphans, deleted, imports>>

\* hard_link fails where the name exists.
Publishable == ~dest.there

\* Native sequences restart above the imported ones.
Publish(p) ==
    /\ imp[p].at = "verified" /\ Publishable
    /\ dest' = [there |-> TRUE, rows |-> imp[p].rows, sequence |-> Highest(imp[p].rows)]
    /\ Goes(p, "published", imp[p].rows)
    /\ UNCHANGED <<history, oldBlobs, newBlobs, orphans, deleted, imports>>

RemoveStaging(p) ==
    /\ imp[p].at = "published"
    /\ Goes(p, "closed", {})
    /\ UNCHANGED <<history, oldBlobs, newBlobs, dest, orphans, deleted, imports>>

\* An error: the staging file goes, what was copied of the bodies stays.
ImportFails(p) ==
    /\ imp[p].at \in {"staged", "verified"}
    /\ Goes(p, "closed", {})
    /\ newBlobs' \in {newBlobs, newBlobs \cup (imp[p].rows \cap oldBlobs)}
    /\ UNCHANGED <<history, oldBlobs, dest, orphans, deleted, imports>>

\* A death leaves the staging file; nothing looks for its name again.
ImporterDies(p) ==
    /\ imp[p].at # "closed"
    /\ Goes(p, "closed", {})
    /\ orphans' = IF imp[p].at = "open" THEN orphans ELSE orphans \cup {imp[p].rows}
    /\ UNCHANGED <<history, oldBlobs, newBlobs, dest, deleted, imports>>

\* The open store deletes a row and collects its body.
UserDeletes(p, r) ==
    /\ imp[p].at = "open" /\ r \in dest.rows
    /\ dest' = [dest EXCEPT !.rows = @ \ {r}]
    /\ newBlobs' = newBlobs \cap dest'.rows
    /\ deleted' = deleted \cup {r}
    /\ UNCHANGED <<imp, history, oldBlobs, orphans, imports>>

\* A SQLite build still runs beside.
OldBuildWrites(r) ==
    /\ history' \in {history \cup {r}, history \ {r}}
    /\ oldBlobs' = (oldBlobs \cap history') \cup ((history' \ history) \cap Spilling)
    /\ UNCHANGED <<imp, newBlobs, dest, orphans, deleted, imports>>

ImpNext ==
    \/ \E p \in Importers :
         \/ OpenDestination(p) \/ StageTables(p) \/ CopyBodies(p) \/ Publish(p)
         \/ RemoveStaging(p) \/ ImportFails(p) \/ ImporterDies(p)
         \/ \E r \in ImportRows : UserDeletes(p, r)
    \/ \E r \in ImportRows : OldBuildWrites(r)

ImpSpec == ImpInit /\ [][ImpNext]_impVars

-----------------------------------------------------------------------------
ImpTypeOK ==
    /\ imp \in [Importers -> [at : {"closed", "staged", "verified", "published", "open"},
                              rows : SUBSET ImportRows]]
    /\ dest.rows \subseteq ImportRows /\ newBlobs \subseteq Spilling

\* The published history is whole, whoever else imports, opens or deletes:
\* every row has its body, and the next sequence is above every row's.
PublishedIsWhole ==
    /\ dest.rows \cap Spilling \subseteq newBlobs
    /\ \A r \in dest.rows : r <= dest.sequence
    /\ dest.rows \cap deleted = {}

\* Once published it is only edited: no later import replaces it.
PublishedOnce == dest.there => dest'.there /\ dest'.rows \subseteq dest.rows

ImportSafety == ImpTypeOK /\ PublishedIsWhole
=============================================================================
