------------------------- MODULE StoreOpeningProofs -------------------------
(***************************************************************************)
(* Proofs about StoreOpening, for any processes, staging files, versions   *)
(* and existing catalogs.                                                  *)
(*                                                                         *)
(* The invariant: whoever means to migrate, or has, sees a catalog that    *)
(* fits its build (CatalogInv); a process that is alone sees no change it  *)
(* did not make (AloneInv); what an opening found old is gone, listed or   *)
(* about to be removed (ReapInv).                                          *)
(***************************************************************************)
EXTENDS StoreOpening, TLAPS

\* Rows that fit the build, or none of its version.
Fits(c) == ~Incompatible(c)

WriterInv == \A p \in Procs : writer = p <=> pc[p] = "record"

CatalogInv ==
    \A p \in Procs :
        /\ pc[p] \in {"migrate", "record"} => Fits(catalog)
        /\ pc[p] \in {"list", "entries", "remove", "open"} =>
               Fits(catalog) /\ <<Version, Checksum>> \in catalog

\* Where an opening is with its entries.
EntriesInv ==
    \A p \in Procs :
        /\ pc[p] # "entries" /\ pc[p] # "remove" => listed[p] = {}
        /\ \A f \in listed[p] : files[f] # "unused"
        /\ pc[p] = "remove" => /\ doomed[p] \in Files \ listed[p]
                               /\ files[doomed[p]] \in {"old", "fresh", "gone"}

\* What a process that is alone, or was to its end, relies on.
AloneAt(p) ==
    /\ Active(p) => \A q \in Procs \ {p} : ~Active(q)
    /\ pc[p] \in {"migrate", "record"} => Version \notin Versions(catalog)
    /\ \A f \in listed[p] : Exists(f)
    /\ pc[p] = "remove" => Exists(doomed[p])
    /\ pc[p] # "clashed"

AloneInv == \A p \in Procs : alone[p] => AloneAt(p)

ReapInv ==
    \A p \in Procs : \A f \in expired[p] :
        /\ files[f] \in {"old", "fresh", "gone"}
        /\ pc[p] = "entries" /\ files[f] = "old" => f \in listed[p]
        /\ pc[p] = "remove" /\ files[f] = "old" => f \in listed[p] \union {doomed[p]}
        /\ pc[p] = "open" => files[f] # "old"
        /\ pc[p] \in {"entries", "remove", "open"}

IInv == TypeOK /\ WriterInv /\ CatalogInv /\ EntriesInv /\ AloneInv /\ ReapInv

-----------------------------------------------------------------------------
\* What the migration of this build adds to a catalog.
LEMMA MigrationVersions ==
    ASSUME NEW c
    PROVE  Versions(c \union {<<Version, Checksum>>}) = Versions(c) \union {Version}
<1>1. <<Version, Checksum>>[1] = Version
  OBVIOUS
<1>2. ASSUME NEW v
      PROVE  v \in Versions(c \union {<<Version, Checksum>>})
                 <=> v \in Versions(c) \union {Version}
  BY <1>1, Zenon DEF Versions
<1> QED
  BY <1>2

\* It keeps a catalog that fits this build fitting.
LEMMA MigrationFits ==
    ASSUME NEW c, Fits(c)
    PROVE  Fits(c \union {<<Version, Checksum>>})
<1>1. ~Newer(c \union {<<Version, Checksum>>})
  BY MigrationVersions, VersionAssumption DEF Newer, Fits, Incompatible
<1> QED
  BY <1>1 DEF Fits, Incompatible

LEMMA InitInv == Init => IInv
<1> SUFFICES ASSUME Init PROVE IInv
  OBVIOUS
<1>1. TypeOK
  <2>1. catalog = {} => Versions(catalog) \subseteq Nat
    BY DEF Versions
  <2> QED
    BY <2>1, CatalogsAssumption DEF Init, TypeOK, RestPC
<1>2. WriterInv /\ CatalogInv /\ EntriesInv /\ AloneInv /\ ReapInv
  BY NoneAssumption DEF Init, WriterInv, CatalogInv, EntriesInv, AloneInv, ReapInv
<1> QED
  BY <1>1, <1>2 DEF IInv

\* A process that ends has no part in any of it, and takes at most its own
\* staging file along.
LEMMA EndKeepsInv ==
    ASSUME IInv, NEW p \in Procs, NEW how \in RestPC, End(p, how),
           UNCHANGED catalog,
           how = "clashed" => ~alone[p],
           \/ UNCHANGED files
           \/ /\ pc[p] = "open" /\ stage[p] # None
              /\ files' = [files EXCEPT ![stage[p]] = "gone"]
    PROVE  IInv'
<1> USE DEF IInv, End, GoTo, RestPC
<1>1. TypeOK'
  BY DEF TypeOK
<1>2. WriterInv'
  BY NoneAssumption DEF TypeOK, WriterInv
<1>3. CatalogInv'
  BY DEF TypeOK, CatalogInv
<1>4. EntriesInv'
  BY DEF TypeOK, EntriesInv
<1>5. AloneInv'
  <2> SUFFICES ASSUME NEW q \in Procs, alone'[q]
               PROVE  AloneAt(q)'
    BY DEF AloneInv
  <2>1. CASE q = p
    BY <2>1 DEF TypeOK, AloneAt, Active
  <2>2. CASE q # p
    BY <2>2 DEF TypeOK, EntriesInv, AloneInv, AloneAt, Active, Exists
  <2> QED
    BY <2>1, <2>2
<1>6. ReapInv'
  BY DEF TypeOK, ReapInv
<1> QED
  BY <1>1, <1>2, <1>3, <1>4, <1>5, <1>6
-----------------------------------------------------------------------------
LEMMA OpenKeepsInv ==
    ASSUME IInv, NEW p \in Procs, Open(p)
    PROVE  IInv'
<1> USE DEF IInv, Open, GoTo, locals
<1>1. TypeOK'
  BY DEF TypeOK, OpeningPC
<1>2. WriterInv' /\ CatalogInv' /\ EntriesInv'
  BY DEF TypeOK, WriterInv, CatalogInv, EntriesInv, Active, RestPC
<1>3. AloneInv'
  <2> SUFFICES ASSUME NEW q \in Procs, alone'[q]
               PROVE  AloneAt(q)'
    BY DEF AloneInv
  <2>1. CASE q = p
    BY <2>1 DEF TypeOK, EntriesInv, AloneAt, Active, RestPC, Exists
  <2>2. CASE q # p
    <3>1. alone[q] /\ ~Active(q) /\ pc'[q] = pc[q]
      BY <2>2 DEF TypeOK
    <3>2. pc[q] \in RestPC /\ listed'[q] = {}
      BY <3>1 DEF EntriesInv, Active, RestPC
    <3>3. AloneAt(q)
      BY <3>1 DEF AloneInv
    <3> QED
      BY <3>1, <3>2, <3>3 DEF AloneAt, Active, RestPC
  <2> QED
    BY <2>1, <2>2
<1>4. ReapInv'
  BY DEF TypeOK, ReapInv, Active, RestPC
<1> QED
  BY <1>1, <1>2, <1>3, <1>4

\* The reads of initialize_catalog and the lock of the migration.
LEMMA InspectKeepsInv ==
    ASSUME IInv, NEW p \in Procs,
           InspectCatalog(p) \/ ReadMigrations(p) \/ BeginMigration(p)
    PROVE  IInv'
<1> USE DEF IInv, InspectCatalog, ReadMigrations, BeginMigration, GoTo, locals
<1>1. TypeOK'
  BY DEF TypeOK, OpeningPC
<1>2. WriterInv'
  BY NoneAssumption DEF TypeOK, WriterInv
<1>3. CatalogInv'
  <2>1. catalog = {} => Fits(catalog)
    BY DEF Fits, Incompatible, Newer, Versions
  <2> QED
    BY <2>1 DEF TypeOK, CatalogInv, Fits, Incompatible
<1>4. EntriesInv'
  BY DEF TypeOK, EntriesInv
<1>5. AloneInv'
  <2>1. catalog = {} => Version \notin Versions(catalog)
    BY DEF Versions
  <2> QED
    BY <2>1 DEF TypeOK, EntriesInv, AloneInv, AloneAt, Active, RestPC, Exists
<1>6. ReapInv'
  BY DEF TypeOK, ReapInv
<1> QED
  BY <1>1, <1>2, <1>3, <1>4, <1>5, <1>6

\* The migration is committed.
LEMMA RecordKeepsInv ==
    ASSUME IInv, NEW p \in Procs, RecordMigration(p)
    PROVE  IInv'
<1> USE DEF IInv, RecordMigration, GoTo, locals
<1>1. Fits(catalog)
  BY DEF CatalogInv
<1>2. Fits(catalog') /\ <<Version, Checksum>> \in catalog'
  BY <1>1, MigrationFits
<1>3. TypeOK'
  <2>1. Versions(catalog') = Versions(catalog) \union {Version}
    BY MigrationVersions
  <2> QED
    BY <2>1, VersionAssumption DEF TypeOK, OpeningPC
<1>4. WriterInv'
  BY NoneAssumption DEF TypeOK, WriterInv
<1>5. CatalogInv'
  BY <1>1, <1>2 DEF TypeOK, CatalogInv
<1>6. EntriesInv'
  BY DEF TypeOK, EntriesInv
<1>7. AloneInv'
  <2> SUFFICES ASSUME NEW q \in Procs, alone'[q]
               PROVE  AloneAt(q)'
    BY DEF AloneInv
  <2>1. Active(p)
    BY DEF Active, RestPC
  <2>2. CASE q = p
    BY <2>2 DEF TypeOK, EntriesInv, AloneInv, AloneAt, Active, RestPC, Exists
  <2>3. CASE q # p
    BY <2>1, <2>3 DEF TypeOK, EntriesInv, AloneInv, AloneAt, Active, RestPC, Exists
  <2> QED
    BY <2>2, <2>3
<1>8. ReapInv'
  BY DEF TypeOK, ReapInv
<1> QED
  BY <1>3, <1>4, <1>5, <1>6, <1>7, <1>8
-----------------------------------------------------------------------------
\* One entry of the staging directory after another.
LEMMA EntryKeepsInv ==
    ASSUME IInv, NEW p \in Procs,
           \/ ListStaged(p)
           \/ \E f \in Files : KeepEntry(p, f) \/ DoomEntry(p, f)
           \/ RemoveEntry(p)
    PROVE  IInv'
<1> USE DEF IInv, ListStaged, KeepEntry, DoomEntry, RemoveEntry, AfterEntries,
            GoTo, Exists
<1>1. TypeOK'
  BY DEF TypeOK, OpeningPC
<1>2. WriterInv' /\ CatalogInv'
  BY DEF TypeOK, WriterInv, CatalogInv
<1>3. EntriesInv'
  BY DEF TypeOK, EntriesInv
<1>4. AloneInv'
  <2> SUFFICES ASSUME NEW q \in Procs, alone'[q]
               PROVE  AloneAt(q)'
    BY DEF AloneInv
  <2>1. Active(p)
    BY DEF Active, RestPC
  <2>2. CASE q = p
    BY <2>1, <2>2 DEF TypeOK, EntriesInv, AloneInv, AloneAt, Active, RestPC
  <2>3. CASE q # p
    BY <2>1, <2>3 DEF TypeOK, EntriesInv, AloneInv, AloneAt, Active, RestPC
  <2> QED
    BY <2>2, <2>3
<1>5. ReapInv'
  BY DEF TypeOK, EntriesInv, ReapInv
<1> QED
  BY <1>1, <1>2, <1>3, <1>4, <1>5

\* A new staging file, one that grows old, and one that is written again.
LEMMA StageKeepsInv ==
    ASSUME IInv,
           \/ \E p \in Procs, f \in Files : CreateStage(p, f)
           \/ \E f \in Files : GrowOld(f)
           \/ \E p \in Procs : WriteStage(p)
    PROVE  IInv'
<1> USE DEF IInv, CreateStage, WriteStage, GrowOld, locals, Exists
<1>1. TypeOK'
  BY DEF TypeOK
<1>2. WriterInv' /\ CatalogInv'
  BY DEF TypeOK, WriterInv, CatalogInv
<1>3. EntriesInv'
  BY DEF TypeOK, EntriesInv
<1>4. AloneInv'
  BY DEF TypeOK, EntriesInv, AloneInv, AloneAt, Active
<1>5. ReapInv'
  BY DEF TypeOK, ReapInv
<1> QED
  BY <1>1, <1>2, <1>3, <1>4, <1>5

\* What ends an opening or a command.
LEMMA EndsKeepInv ==
    ASSUME IInv, NEW p \in Procs,
           \/ RefuseCatalog(p)
           \/ MigrationClash(p)
           \/ EntryVanished(p)
           \/ Finish(p)
           \/ Breaks(p)
           \/ Crash(p)
    PROVE  IInv'
<1> USE DEF RestPC
<1>1. CASE RefuseCatalog(p)
  BY <1>1, EndKeepsInv DEF RefuseCatalog
<1>2. CASE MigrationClash(p)
  <2>1. ~alone[p]
    BY <1>2 DEF IInv, AloneInv, AloneAt, MigrationClash
  <2> QED
    BY <1>2, <2>1, EndKeepsInv DEF MigrationClash
<1>3. CASE EntryVanished(p)
  <2>1. ~alone[p]
    BY <1>3 DEF IInv, AloneInv, AloneAt, EntryVanished, Exists
  <2> QED
    BY <1>3, <2>1, EndKeepsInv DEF EntryVanished
<1>4. CASE Finish(p)
  BY <1>4, EndKeepsInv DEF Finish
<1>5. CASE Breaks(p)
  BY <1>5, EndKeepsInv DEF Breaks
<1>6. CASE Crash(p)
  BY <1>6, EndKeepsInv DEF Crash
<1> QED
  BY <1>1, <1>2, <1>3, <1>4, <1>5, <1>6

\* IInv is inductive.
LEMMA StepKeepsInv == IInv /\ [Next]_vars => IInv'
<1> SUFFICES ASSUME IInv, [Next]_vars PROVE IInv'
  OBVIOUS
<1>1. CASE UNCHANGED vars
  BY <1>1 DEF vars, locals, IInv, TypeOK, WriterInv, CatalogInv, EntriesInv,
              AloneInv, AloneAt, ReapInv, Active, Exists, Fits, Incompatible, Newer
<1>2. ASSUME NEW p \in Procs, Initialize(p) PROVE IInv'
  BY <1>2, InspectKeepsInv, RecordKeepsInv, EndsKeepInv DEF Initialize
<1>3. ASSUME NEW p \in Procs, Reap(p) PROVE IInv'
  BY <1>3, EntryKeepsInv, EndsKeepInv DEF Reap
<1>4. ASSUME NEW p \in Procs, Open(p) \/ Finish(p) \/ Breaks(p) \/ Crash(p)
      PROVE  IInv'
  BY <1>4, OpenKeepsInv, EndsKeepInv
<1> QED
  BY <1>1, <1>2, <1>3, <1>4, StageKeepsInv DEF Next

-----------------------------------------------------------------------------
\* The invariant holds for any number of processes and staging files: what
\* initialize_catalog and the reaper rely on between their steps.
THEOREM InvariantHolds == Spec => []IInv
BY InitInv, StepKeepsInv, PTL DEF Spec

\* Type correctness of the catalog, the processes and the staging files.
THEOREM TypeCorrect == Spec => []TypeOK
BY InvariantHolds, PTL DEF IInv

\* No process works on a catalog that lacks this build's migration or has a
\* newer one, however the migrations of several processes interleave.
THEOREM OpenIsMigrated == Spec => []OpenMeansMigrated
<1>1. IInv => OpenMeansMigrated
  BY DEF IInv, CatalogInv, Fits, Incompatible, OpenMeansMigrated
<1> QED
  BY <1>1, InvariantHolds, PTL

\* initialize_catalog never writes a catalog of a newer or different build.
THEOREM IncompatibleStaysUntouched == Spec => IncompatibleIsUntouched
<1>1. IInv /\ [Next]_vars => [Incompatible(catalog) => catalog' = catalog]_vars
  <2> SUFFICES ASSUME IInv, [Next]_vars, Incompatible(catalog)
               PROVE  catalog' = catalog
    OBVIOUS
  <2>1. ~\E p \in Procs : RecordMigration(p)
    BY DEF IInv, CatalogInv, Fits, RecordMigration
  <2> QED
    BY <2>1 DEF Next, vars, Initialize, Reap, Open, InspectCatalog, ReadMigrations,
                RefuseCatalog, BeginMigration, MigrationClash, ListStaged, KeepEntry,
                DoomEntry, RemoveEntry, EntryVanished, CreateStage, WriteStage, Finish, Breaks,
                Crash, GrowOld
<1> QED
  BY <1>1, InvariantHolds, PTL DEF Spec, IncompatibleIsUntouched

\* Store::open fails on what another process did only beside another process.
THEOREM AloneOpeningsSucceed == Spec => []ClashesNeedCompany
<1>1. IInv => ClashesNeedCompany
  BY DEF IInv, AloneInv, AloneAt, ClashesNeedCompany
<1> QED
  BY <1>1, InvariantHolds, PTL

\* cleanup_orphan_staging misses no file that was a day old when it
\* looked at the clock, for any number of files and of reapers.
THEOREM OldStagesAreReaped == Spec => []OpeningReapsOldStages
<1>1. IInv => OpeningReapsOldStages
  BY DEF IInv, ReapInv, OpeningReapsOldStages
<1> QED
  BY <1>1, InvariantHolds, PTL
=============================================================================
