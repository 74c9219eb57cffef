------------------------------- MODULE MCUpkeep -------------------------------
(***************************************************************************)
(* What runs beside capture: the supervisor's patience, the watchdog, and    *)
(* the upkeep of the stored data.  The parts share no state, so a behaviour  *)
(* is of one of them, chosen at the start.                                   *)
(***************************************************************************)
EXTENDS SupervisorPatience, BlobStore, RetentionPass, ClipLifecycle, StoreMaintenance,
        SqliteStore, Migrations, CaptureWatchdog

VARIABLE part

sqliteVars == <<sqlVars, upVars, impVars>>
duckVars == <<vars, blobVars, retVars, lifeVars, maintVars>>
upkeepVars == <<part, duckVars, sqliteVars, wdVars>>

\* Clip 1 has one flavor of its own, clip 2 shares it and has another one twice.
MCBody == [c \in {1, 2} |-> IF c = 1 THEN <<1>> ELSE <<1, 2, 2>>]

MCScope == [c \in {1, 2, 3} |-> IF c = 2 THEN "sensitive" ELSE "text"]
MCSize == [c \in {1, 2, 3} |-> IF c = 2 THEN 2 ELSE 1]
MCOrder == <<"text", "sensitive">>
MCRules == {[age |-> 0, items |-> 0, graced |-> FALSE], [age |-> 0, items |-> 1, graced |-> TRUE]}
MCCollection == [age |-> 0, items |-> 2, bytes |-> 2]

\* Rows 1 and 11 have the same content.
MCContent == [id \in {1, 2, 11} |-> id % 10]
MCOld == <<1, 2>>

\* Two flavors of clip 1 are one blob.
MCUses == [c \in {1, 2} |-> IF c = 1 THEN 2 ELSE 1]

\* The longest wait for a recovery is longer than the watchdog's patience.
MCDelay == [r \in {"resubscribe", "restart", "degrade"} |-> IF r = "degrade" THEN 4 ELSE 1]

\* The table of a part that has none to maintain.
EmptyTable ==
    /\ tabled = [id \in {} |-> {}] /\ bySeq = <<>> /\ scanned = 0 /\ byCheck = <<>>
    /\ known = {} /\ walPending = FALSE /\ unreadable = {} /\ stage = "idle"
    /\ copies = 0 /\ stops = 0

\* The SQLite parts at rest.
NoSqlite ==
    /\ upStep = "down" /\ live = NoFile /\ base = NoFile /\ backup = NoFile /\ dry = NoFile
    /\ manifest = FALSE /\ guard = NoFile /\ owned = {} /\ severed = "no" /\ harm = 0
NoImport ==
    /\ imp = [p \in Importers |-> AtRest] /\ history = {} /\ oldBlobs = {}
    /\ newBlobs = {} /\ dest = Absent /\ orphans = {} /\ deleted = {} /\ imports = 0

UpkeepInit ==
    /\ part \in {"patience", "blobs", "retention", "lifecycle", "maintenance",
                "sqlite", "upgrade", "import", "watchdog"}
    /\ WdInit /\ Init /\ BlobInit /\ RetInit /\ LifeInit /\ SqlInit
    /\ IF part = "maintenance" THEN MaintInit ELSE EmptyTable
    /\ IF part = "upgrade" THEN UpInit ELSE NoSqlite
    /\ IF part = "import" THEN ImpInit ELSE NoImport

DuckNext ==
    \/ part = "patience" /\ Next /\ UNCHANGED <<blobVars, retVars, lifeVars, maintVars>>
    \/ part = "blobs" /\ BlobNext /\ UNCHANGED <<vars, retVars, lifeVars, maintVars>>
    \/ part = "retention" /\ RetNext /\ UNCHANGED <<vars, blobVars, lifeVars, maintVars>>
    \/ part = "lifecycle" /\ LifeNext /\ UNCHANGED <<vars, blobVars, retVars, maintVars>>
    \/ part = "maintenance" /\ MaintNext /\ UNCHANGED <<vars, blobVars, retVars, lifeVars>>

SqliteNext ==
    \/ part = "sqlite" /\ SqlNext /\ UNCHANGED <<upVars, impVars>>
    \/ part = "upgrade" /\ UpNext /\ UNCHANGED <<sqlVars, impVars>>
    \/ part = "import" /\ ImpNext /\ UNCHANGED <<sqlVars, upVars>>

UpkeepNext ==
    /\ UNCHANGED part
    /\ \/ DuckNext /\ UNCHANGED <<sqliteVars, wdVars>>
       \/ SqliteNext /\ UNCHANGED <<duckVars, wdVars>>
       \/ part = "watchdog" /\ WdNext /\ UNCHANGED <<duckVars, sqliteVars>>

UpkeepSpec ==
    /\ UpkeepInit /\ [][UpkeepNext]_upkeepVars
    /\ WF_maintVars(part = "maintenance" /\ PassSteps)
    /\ WF_wdVars(part = "watchdog" /\ WdTick)
    /\ WF_wdVars(part = "watchdog" /\ Wakes)
    /\ WF_wdVars(part = "watchdog" /\ Watches)

\* Every part keeps its types.
UpkeepTypeOK == TypeOK /\ BlobTypeOK /\ RetTypeOK /\ LifeTypeOK /\ MaintTypeOK /\ WdTypeOK

\* What is derived from the rows is true of them: the counts and files of blobs
\* (cas.rs) and what the idle pass maintains (maintain_idle).
StoreIsAccounted == BlobsAreAccounted /\ HelpersAreTrue

\* The reports of a retention pass account for every clip it looked at
\* (enforce_retention), in states of the right shape.
UpkeepIsAccounted == UpkeepTypeOK /\ PassIsAccounted

\* The SQLite history stays whole: its side tables agree, and neither the
\* migration of its file nor the import into DuckDB, wherever they stop and
\* whoever else writes, loses a row, but for what a rollback drops that ends
\* without the -wal it removed (MigrationGuard, migrate_if_needed).
SqliteKeepsHistory == SqliteSafety /\ (part = "upgrade" => UpgradeSafety) /\ ImportSafety

\* What the passes promise over time: a spared clip can be brought back for its
\* grace (enforce_retention), an import is not lost before it is restored
\* (data_lifecycle.rs), an imported history is never replaced (duck_migration.rs),
\* and the passes get through the whole table (maintain_idle).
PassesKeepTheirPromises ==
    /\ GraceIsHonoured
    /\ ImportsAreNotLost
    /\ [][PublishedOnce]_impVars
    /\ UpkeepSettles
=============================================================================
