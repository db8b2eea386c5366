---------------------------- MODULE StoreOpening ----------------------------
(***************************************************************************)
(* Opening the store (figstash-store catalog.rs: Store::open,              *)
(* initialize_catalog, cleanup_orphan_staging), which every command of     *)
(* figstash does first, and the staging files that commands create after   *)
(* it (create_staging_file) and that later openings reap.                  *)
(*                                                                         *)
(* Several processes open the store at the same time.  They share the      *)
(* catalog file and the staging directory; there is no lock around an      *)
(* opening other than SQLite's write lock inside the migration.            *)
(***************************************************************************)
EXTENDS Naturals

CONSTANTS
    Procs,      \* figstash processes, all of the same build
    Files,      \* names of staging files (fresh UUIDs)
    Version,    \* MIGRATION_VERSION
    Checksum,   \* the hash of MIGRATION_SQL
    Catalogs,   \* the migrations an existing catalog may have recorded
    None        \* no process, no file

\* A migration row is a version and a checksum; the version is the key.
Versions(c) == {m[1] : m \in c}
ASSUME VersionAssumption == Version \in Nat
ASSUME CatalogsAssumption ==
    \A c \in Catalogs : Versions(c) \subseteq Nat
ASSUME NoneAssumption == None \notin Procs /\ None \notin Files

VARIABLES
    catalog,  \* rows of schema_migrations; {} stands for no such table
    writer,   \* the process in its migration transaction, or None
    pc,       \* what a process does next
    expired,  \* the files that were a day old at the `now` of its search
    listed,   \* entries of the staging directory it has yet to look at
    doomed,   \* the file it has found too old
    stage,    \* the staging file of its command
    files,    \* the state of every staging file
    alone     \* (history) no other process ran during its opening

locals == <<expired, listed, doomed, stage>>
vars == <<catalog, writer, pc, locals, files, alone>>

\* "clashed": the opening ended on what another process did; "broken": on an
\* error of the disk or of SQLite; "refused": on an incompatible catalog.
OpeningPC == {"inspect", "rows", "migrate", "record", "list", "entries", "remove"}
RestPC == {"idle", "clashed", "broken", "refused"}
Opening(p) == pc[p] \in OpeningPC
Active(p) == pc[p] \notin RestPC

TypeOK ==
    /\ Versions(catalog) \subseteq Nat
    /\ writer \in Procs \union {None}
    /\ pc \in [Procs -> OpeningPC \union RestPC \union {"open"}]
    /\ expired \in [Procs -> SUBSET Files]
    /\ listed \in [Procs -> SUBSET Files]
    /\ doomed \in [Procs -> Files \union {None}]
    /\ stage \in [Procs -> Files \union {None}]
    /\ files \in [Files -> {"unused", "young", "old", "fresh", "gone"}]
    /\ alone \in [Procs -> BOOLEAN]

Init ==
    /\ catalog \in Catalogs \union {{}}
    /\ writer = None
    /\ pc = [p \in Procs |-> "idle"]
    /\ expired = [p \in Procs |-> {}]
    /\ listed = [p \in Procs |-> {}]
    /\ doomed = [p \in Procs |-> None]
    /\ stage = [p \in Procs |-> None]
    /\ files = [f \in Files |-> "unused"]
    /\ alone = [p \in Procs |-> FALSE]

GoTo(p, there) == pc' = [pc EXCEPT ![p] = there]

\* The process ends; an open transaction is rolled back.
End(p, how) ==
    /\ GoTo(p, how)
    /\ writer' = IF writer = p THEN None ELSE writer
    /\ expired' = [expired EXCEPT ![p] = {}]
    /\ listed' = [listed EXCEPT ![p] = {}]
    /\ doomed' = [doomed EXCEPT ![p] = None]
    /\ stage' = [stage EXCEPT ![p] = None]
    /\ UNCHANGED alone

\* "old": last written a day ago or more; "fresh": written again since then.
Exists(f) == files[f] \in {"young", "old", "fresh"}

-----------------------------------------------------------------------------
(***************************************************************************)
(* initialize_catalog                                                      *)
(***************************************************************************)

\* The directories are created, the connection is made.
Open(p) ==
    /\ ~Active(p)
    /\ GoTo(p, "inspect")
    /\ alone' = [q \in Procs |->
                    IF q = p THEN \A r \in Procs \ {p} : ~Active(r)
                    ELSE alone[q] /\ ~Active(q)]
    /\ UNCHANGED <<catalog, writer, locals, files>>

\* Variant: IF NOT EXISTS is trusted to make the migration repeatable.
InspectCatalogSkipped(p) ==
    /\ pc[p] = "inspect"
    /\ GoTo(p, "migrate")
    /\ UNCHANGED <<catalog, writer, locals, files, alone>>

\* SELECT ... FROM sqlite_master: the table is created with its first row.
InspectCatalog(p) ==
    /\ pc[p] = "inspect"
    /\ GoTo(p, IF catalog = {} THEN "migrate" ELSE "rows")
    /\ UNCHANGED <<catalog, writer, locals, files, alone>>

\* Variants: the table is taken for the migration; only this version's row
\* is looked at.
ReadMigrationsUnread(p) ==
    /\ pc[p] = "rows"
    /\ GoTo(p, "list")
    /\ UNCHANGED <<catalog, writer, locals, files, alone>>
ReadMigrationsOfVersion(p) ==
    /\ pc[p] = "rows"
    /\ IF Version \notin Versions(catalog) THEN GoTo(p, "migrate")
       ELSE IF <<Version, Checksum>> \in catalog THEN GoTo(p, "list")
       ELSE GoTo(p, "refused")
    /\ UNCHANGED <<catalog, writer, locals, files, alone>>

\* A newer version, or another checksum for this one: the build does not fit.
Newer(c) == \E v \in Versions(c) : v > Version
Incompatible(c) ==
    \/ Newer(c)
    \/ Version \in Versions(c) /\ <<Version, Checksum>> \notin c

\* SELECT ... FROM schema_migrations.
ReadMigrations(p) ==
    /\ pc[p] = "rows"
    /\ ~Incompatible(catalog)
    /\ GoTo(p, IF Version \in Versions(catalog) THEN "list" ELSE "migrate")
    /\ UNCHANGED <<catalog, writer, locals, files, alone>>

RefuseCatalog(p) ==
    /\ pc[p] = "rows"
    /\ Incompatible(catalog)
    /\ End(p, "refused")
    /\ UNCHANGED <<catalog, files>>

\* The first CREATE TABLE takes the write lock, which is waited for.
BeginMigration(p) ==
    /\ pc[p] = "migrate"
    /\ writer = None
    /\ writer' = p
    /\ GoTo(p, "record")
    /\ UNCHANGED <<catalog, locals, files, alone>>

\* Variant: the columns of the row are bound in the wrong order.
RecordMigrationSwapped(p) ==
    /\ pc[p] = "record"
    /\ Version \notin Versions(catalog)
    /\ catalog' = catalog \union {<<Checksum, Version>>}
    /\ writer' = None
    /\ GoTo(p, "list")
    /\ UNCHANGED <<locals, files, alone>>

\* The row of the version is inserted, and the transaction committed.
RecordMigration(p) ==
    /\ pc[p] = "record"
    /\ Version \notin Versions(catalog)
    /\ catalog' = catalog \union {<<Version, Checksum>>}
    /\ writer' = None
    /\ GoTo(p, "list")
    /\ UNCHANGED <<locals, files, alone>>

\* CREATE TABLE IF NOT EXISTS did nothing, and the primary key refuses the row.
MigrationClash(p) ==
    /\ pc[p] = "record"
    /\ Version \in Versions(catalog)
    /\ End(p, "clashed")
    /\ UNCHANGED <<catalog, files>>

-----------------------------------------------------------------------------
(***************************************************************************)
(* cleanup_orphan_staging                                                  *)
(***************************************************************************)

AfterEntries(rest) == IF rest = {} THEN "open" ELSE "entries"

ListStaged(p) ==
    /\ pc[p] = "list"
    /\ expired' = [expired EXCEPT ![p] = {f \in Files : files[f] = "old"}]
    /\ listed' = [listed EXCEPT ![p] = {f \in Files : Exists(f)}]
    /\ GoTo(p, AfterEntries(listed'[p]))
    /\ UNCHANGED <<catalog, writer, doomed, stage, files, alone>>

\* By the time of its last writing the entry is younger than a day, and stays;
\* or read_dir never returns it, since it went away while the directory was read.
KeepEntry(p, f) ==
    /\ pc[p] = "entries"
    /\ f \in listed[p]
    /\ files[f] = "old" => f \notin expired[p]
    /\ listed' = [listed EXCEPT ![p] = @ \ {f}]
    /\ GoTo(p, AfterEntries(listed'[p]))
    /\ UNCHANGED <<catalog, writer, expired, doomed, stage, files, alone>>

\* It is a day old or more, and has to go.
DoomEntry(p, f) ==
    /\ pc[p] = "entries"
    /\ f \in listed[p]
    /\ files[f] = "old"
    /\ f \in expired[p]
    /\ listed' = [listed EXCEPT ![p] = @ \ {f}]
    /\ doomed' = [doomed EXCEPT ![p] = f]
    /\ GoTo(p, "remove")
    /\ UNCHANGED <<catalog, writer, expired, stage, files, alone>>

\* Variant: the search ends with the first file removed.
RemoveOneEntry(p) ==
    /\ pc[p] = "remove"
    /\ Exists(doomed[p])
    /\ files' = [files EXCEPT ![doomed[p]] = "gone"]
    /\ doomed' = [doomed EXCEPT ![p] = None]
    /\ listed' = [listed EXCEPT ![p] = {}]
    /\ GoTo(p, "open")
    /\ UNCHANGED <<catalog, writer, expired, stage, alone>>

RemoveEntry(p) ==
    /\ pc[p] = "remove"
    /\ Exists(doomed[p])
    /\ files' = [files EXCEPT ![doomed[p]] = "gone"]
    /\ doomed' = [doomed EXCEPT ![p] = None]
    /\ GoTo(p, AfterEntries(listed[p]))
    /\ UNCHANGED <<catalog, writer, expired, listed, stage, alone>>

\* The file went away after it was listed, or after its age was read: both
\* the metadata call and the removal then fail the opening.
EntryVanished(p) ==
    /\ \/ pc[p] = "entries" /\ \E f \in listed[p] : files[f] = "gone"
       \/ pc[p] = "remove" /\ ~Exists(doomed[p])
    /\ End(p, "clashed")
    /\ UNCHANGED <<catalog, files>>

-----------------------------------------------------------------------------
(***************************************************************************)
(* Commands on the open store                                              *)
(***************************************************************************)

\* create_staging_file: a name nobody has used.
CreateStage(p, f) ==
    /\ pc[p] = "open"
    /\ stage[p] = None
    /\ files[f] = "unused"
    /\ files' = [files EXCEPT ![f] = "young"]
    /\ stage' = [stage EXCEPT ![p] = f]
    /\ UNCHANGED <<catalog, writer, pc, expired, listed, doomed, alone>>

\* The download goes on after the command was suspended for a day; a file that
\* was removed is not created again.
WriteStage(p) ==
    /\ pc[p] = "open"
    /\ stage[p] # None
    /\ files[stage[p]] = "old"
    /\ files' = [files EXCEPT ![stage[p]] = "fresh"]
    /\ UNCHANGED <<catalog, writer, pc, locals, alone>>

\* The command ends; it removes its staging file (that it may be gone
\* already is no matter here), or, after some errors, leaves it.
Finish(p) ==
    /\ pc[p] = "open"
    /\ End(p, "idle")
    /\ \/ UNCHANGED files
       \/ stage[p] # None /\ files' = [files EXCEPT ![stage[p]] = "gone"]
    /\ UNCHANGED catalog

-----------------------------------------------------------------------------
\* An error of the disk or of SQLite, the wait for the write lock included.
Breaks(p) ==
    /\ Opening(p)
    /\ End(p, "broken")
    /\ UNCHANGED <<catalog, files>>

Crash(p) ==
    /\ Active(p)
    /\ End(p, "idle")
    /\ UNCHANGED <<catalog, files>>

\* 24 hours pass, also for the file of a command that is suspended.  No file
\* that was written again grows old once more (a bound of the model).
GrowOld(f) ==
    /\ files[f] = "young"
    /\ files' = [files EXCEPT ![f] = "old"]
    /\ UNCHANGED <<catalog, writer, pc, locals, alone>>

Initialize(p) ==
    \/ InspectCatalog(p)
    \/ ReadMigrations(p)
    \/ RefuseCatalog(p)
    \/ BeginMigration(p)
    \/ RecordMigration(p)
    \/ MigrationClash(p)

Reap(p) ==
    \/ ListStaged(p)
    \/ \E f \in Files : KeepEntry(p, f) \/ DoomEntry(p, f)
    \/ RemoveEntry(p)
    \/ EntryVanished(p)

Next ==
    \/ \E p \in Procs :
           \/ Open(p)
           \/ Initialize(p)
           \/ Reap(p)
           \/ \E f \in Files : CreateStage(p, f)
           \/ WriteStage(p)
           \/ Finish(p)
           \/ Breaks(p)
           \/ Crash(p)
    \/ \E f \in Files : GrowOld(f)

Spec == Init /\ [][Next]_vars

-----------------------------------------------------------------------------
(***************************************************************************)
(* Properties                                                              *)
(***************************************************************************)

\* A process past initialize_catalog works on a catalog that has this
\* build's migration and no newer one: none gets through the check while the
\* migration of another is under way, rolled back, or lost in a crash.
OpenMeansMigrated ==
    \A p \in Procs :
        pc[p] \in {"list", "entries", "remove", "open"} =>
            /\ <<Version, Checksum>> \in catalog
            /\ ~Newer(catalog)

\* A catalog of a newer or of a different build is never written
\* ("The catalog schema is newer than this Figstash binary").
IncompatibleIsUntouched ==
    [][Incompatible(catalog) => catalog' = catalog]_vars

\* An opening fails for no other reason than the disk, SQLite or the build
\* only if another process ran meanwhile: whatever crashed openings and
\* commands have left behind, trying again alone succeeds.
ClashesNeedCompany == \A p \in Procs : pc[p] = "clashed" => ~alone[p]

\* An opening that succeeds leaves no file that was a day old when it looked
\* at the clock, also when others removed files under its feet, except for one
\* whose command woke up and wrote to it.
OpeningReapsOldStages ==
    \A p \in Procs : pc[p] = "open" =>
        \A f \in expired[p] : files[f] \in {"gone", "fresh"}
=============================================================================
