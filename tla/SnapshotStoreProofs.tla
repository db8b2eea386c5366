------------------------ MODULE SnapshotStoreProofs ------------------------
(***************************************************************************)
(* Proofs about SnapshotStore, for any sets of processes, lineages,        *)
(* contents and blobs.                                                     *)
(*                                                                         *)
(* The invariant IInv says what each process may rely on between its       *)
(* steps: the writer lock of its lineage is its own while a pull runs      *)
(* (LockInv), only it can move that HEAD, so what it read of HEAD stays    *)
(* true until it commits (PullInv), and a HEAD always names a row because  *)
(* no deletion gets past the foreign key (HeadsAreReady).                  *)
(***************************************************************************)
EXTENDS SnapshotStore, TLAPS

\* A pull runs exactly while its process holds the lock of its lineage.
LockInv ==
    \A p \in Procs, l \in Lineages :
        lock[l] = p <=> pc[p] \in PullPC /\ lineage[p] = l

\* The write lock of SQLite is held by a pull inside its transaction.
WriterInv == \A p \in Procs : writer = p <=> pc[p] = "index"

\* Every HEAD names a committed row of its lineage.
HeadInv == HeadsAreReady

\* What the pull at each point knows about HEAD and about its own download.
PullInv ==
    \A p \in Procs :
        /\ pc[p] \in PullPC => lineage[p] \in Lineages
        /\ pc[p] \in {"row", "request", "raw", "begin", "index"}
               => existing[p] = heads[lineage[p]]
        /\ pc[p] \in {"request", "raw", "begin", "index"}
               => explicit[p] \/ existing[p] = None
        /\ pc[p] \in {"raw", "begin", "index", "confirm"}
               => content[p] \in Contents
        /\ pc[p] = "confirm" => heads[lineage[p]] = Target(p)

IInv == TypeOK /\ LockInv /\ WriterInv /\ HeadInv /\ PullInv

-----------------------------------------------------------------------------
(***************************************************************************)
(* What rows refer to.                                                     *)
(***************************************************************************)

\* The blobs of snapshot rows are blobs.
LEMMA BlobsOfRows ==
    ASSUME NEW S \in SUBSET SnapshotId
    PROVE  /\ RawBlobs(S) \subseteq Blob
           /\ PartBlobs(S) \subseteq Blob
BY RawAssumption, PartsAssumption DEF RawBlobs, PartBlobs, SnapshotId

\* A prune deletes only rows it has read.
LEMMA RemovableRows ==
    ASSUME NEW S \in SUBSET SnapshotId
    PROVE  Removable(S) \subseteq S
BY DEF Removable

-----------------------------------------------------------------------------
(***************************************************************************)
(* Steps of one kind that keep the invariant.                              *)
(***************************************************************************)

LEMMA InitInv == Init => IInv
BY NoneAssumption
DEF Init, IInv, TypeOK, LockInv, WriterInv, HeadInv, HeadsAreReady, PullInv,
    PullPC, RestPC, SnapshotId

\* A command may end anywhere: with success, with an error or by a crash.
LEMMA EndKeepsInv ==
    ASSUME IInv, NEW p \in Procs, NEW outcome \in RestPC,
           End(p, outcome), UNCHANGED store
    PROVE  IInv'
<1>1. TypeOK'
  BY DEF IInv, TypeOK, End, GoTo, store
<1>2. LockInv'
  BY NoneAssumption DEF IInv, TypeOK, LockInv, PullInv, End, GoTo, PullPC, RestPC
<1>3. WriterInv'
  BY NoneAssumption DEF IInv, TypeOK, WriterInv, End, GoTo, RestPC
<1>4. HeadInv'
  BY DEF IInv, HeadInv, HeadsAreReady, store
<1>5. PullInv'
  BY DEF IInv, TypeOK, PullInv, End, GoTo, store, PullPC, RestPC, Target
<1> QED  BY <1>1, <1>2, <1>3, <1>4, <1>5 DEF IInv

\* A prune moves on without touching what pulls rely on: HEADs, the rows the
\* HEADs name, the locks and the locals of pulls.
LEMMA PruneStepKeepsInv ==
    ASSUME IInv, TypeOK', HeadInv', NEW p \in Procs, NEW there \in PrunePC,
           pc[p] \notin PullPC, GoTo(p, there), UNCHANGED <<heads, locks, pullVars>>
    PROVE  IInv'
<1>1. LockInv'
  BY DEF IInv, TypeOK, LockInv, GoTo, locks, pullVars, PullPC, PrunePC
<1>2. WriterInv'
  BY DEF IInv, TypeOK, WriterInv, GoTo, locks, PullPC, PrunePC
<1>3. PullInv'
  BY DEF IInv, TypeOK, PullInv, GoTo, pullVars, PullPC, PrunePC, Target
<1> QED  BY <1>1, <1>2, <1>3 DEF IInv

\* A pull moves on while it keeps its lock and changes neither rows nor HEADs.
\* What it knows at the next point (third assumption) is left to the caller.
LEMMA PullStepKeepsInv ==
    ASSUME IInv, TypeOK', WriterInv', NEW p \in Procs, NEW there \in PullPC,
           pc[p] \in PullPC, GoTo(p, there),
           UNCHANGED <<snapshots, heads, lock, lineage, explicit>>,
           \A q \in Procs \ {p} : existing'[q] = existing[q] /\ content'[q] = content[q],
           /\ there \in {"row", "request", "raw", "begin", "index"}
                  => existing'[p] = heads[lineage[p]]
           /\ there \in {"request", "raw", "begin", "index"}
                  => explicit[p] \/ existing'[p] = None
           /\ there \in {"raw", "begin", "index"} => content'[p] \in Contents
           /\ there # "confirm"
    PROVE  IInv'
<1>1. LockInv'
  BY DEF IInv, TypeOK, LockInv, GoTo, PullPC
<1>2. HeadInv'
  BY DEF IInv, HeadInv, HeadsAreReady
<1>3. PullInv'
  BY DEF IInv, TypeOK, PullInv, GoTo, PullPC, Target
<1> QED  BY <1>1, <1>2, <1>3 DEF IInv

-----------------------------------------------------------------------------
(***************************************************************************)
(* The steps in which something happens to the locks, HEADs or rows.       *)
(***************************************************************************)

\* Whoever takes the lock of a lineage is its only pull.
LEMMA TryLockKeepsInv ==
    ASSUME IInv, NEW p \in Procs, NEW l \in Lineages, NEW e \in BOOLEAN, TryLock(p, l, e)
    PROVE  IInv'
<1>1. TypeOK'
  BY DEF IInv, TypeOK, TryLock, GoTo, store, planVars, PullPC
<1>2. LockInv'
  BY NoneAssumption
  DEF IInv, TypeOK, LockInv, TryLock, GoTo, Running, PullPC, RestPC
<1>3. WriterInv'
  BY DEF IInv, TypeOK, WriterInv, TryLock, GoTo, Running, RestPC
<1>4. HeadInv'
  BY DEF IInv, HeadInv, HeadsAreReady, TryLock, store
<1>5. PullInv'
  BY DEF IInv, TypeOK, PullInv, TryLock, GoTo, store, Running, PullPC, RestPC, Target
<1> QED  BY <1>1, <1>2, <1>3, <1>4, <1>5 DEF IInv

\* The commit makes the row and its HEAD visible in one step, and the HEAD it
\* moves is that of no other pull.
LEMMA CommitKeepsInv ==
    ASSUME IInv, NEW p \in Procs, CommitSnapshot(p)
    PROVE  IInv'
<1>1. pc[p] = "index" /\ lineage[p] \in Lineages /\ content[p] \in Contents
  BY DEF IInv, PullInv, CommitSnapshot, PullPC
<1>2. Target(p) \in SnapshotId /\ Target(p)[1] = lineage[p] /\ Target(p) # None
  BY <1>1, NoneAssumption DEF Target, SnapshotId
<1>3. \A q \in Procs : pc[q] \in PullPC /\ lineage[q] = lineage[p] => q = p
  BY <1>1 DEF IInv, LockInv, PullPC
<1>4. TypeOK'
  BY <1>1, <1>2
  DEF IInv, TypeOK, CommitSnapshot, GoTo, pullVars, planVars, PullPC
<1>5. LockInv'
  BY <1>1 DEF IInv, TypeOK, LockInv, CommitSnapshot, GoTo, pullVars, PullPC
<1>6. WriterInv'
  BY NoneAssumption, <1>1 DEF IInv, TypeOK, WriterInv, CommitSnapshot, GoTo
<1>7. HeadInv'
  BY <1>1, <1>2 DEF IInv, TypeOK, HeadInv, HeadsAreReady, CommitSnapshot
<1>8. PullInv'
  <2> SUFFICES ASSUME NEW q \in Procs PROVE PullInv!(q)'
    BY DEF PullInv
  <2>1. CASE q = p
    BY <2>1, <1>1, <1>2
    DEF IInv, TypeOK, PullInv, CommitSnapshot, GoTo, pullVars, PullPC, Target
  <2>2. CASE q # p
    BY <2>2, <1>1, <1>3
    DEF IInv, TypeOK, PullInv, CommitSnapshot, GoTo, pullVars, PullPC, Target
  <2> QED  BY <2>1, <2>2
<1> QED  BY <1>4, <1>5, <1>6, <1>7, <1>8 DEF IInv

\* The foreign key keeps every HEAD's row out of a stale plan's reach.
LEMMA DeleteKeepsInv ==
    ASSUME IInv, NEW p \in Procs, DeleteRows(p)
    PROVE  IInv'
<1>1. TypeOK'
  BY DEF IInv, TypeOK, DeleteRows, GoTo, locks, pullVars, PrunePC
<1>2. HeadInv'
  BY DEF IInv, HeadInv, HeadsAreReady, DeleteRows, IsHead
<1> QED  BY <1>1, <1>2, PruneStepKeepsInv DEF DeleteRows, PullPC, PrunePC

-----------------------------------------------------------------------------
LEMMA PullKeepsInv ==
    ASSUME IInv, NEW p \in Procs, Pull(p)
    PROVE  IInv'
<1>1. CASE ReadHead(p)
  <2>1. TypeOK'
    BY <1>1 DEF IInv, TypeOK, PullInv, ReadHead, GoTo, store, locks, planVars, PullPC
  <2>2. WriterInv'
    BY <1>1 DEF IInv, TypeOK, WriterInv, ReadHead, GoTo, locks
  <2> QED  BY <1>1, <2>1, <2>2, PullStepKeepsInv DEF IInv, TypeOK, ReadHead, store, locks, PullPC
<1>2. CASE ReadRow(p)
  <2>1. Resolved(p) = existing[p]
    BY <1>2 DEF IInv, PullInv, HeadInv, HeadsAreReady, ReadRow, Resolved, PullPC
  <2>2. TypeOK'
    BY <1>2, <2>1 DEF IInv, TypeOK, ReadRow, GoTo, store, locks, planVars, PullPC
  <2>3. WriterInv'
    BY <1>2 DEF IInv, TypeOK, WriterInv, ReadRow, GoTo, locks
  <2> QED  BY <1>2, <2>1, <2>2, <2>3, PullStepKeepsInv
           DEF IInv, TypeOK, PullInv, ReadRow, store, locks, PullPC
<1>3. CASE RefuseImplicit(p)
  BY <1>3, EndKeepsInv DEF RefuseImplicit, RestPC
<1>4. ASSUME NEW c \in Contents, Download(p, c)
      PROVE  IInv'
  <2>1. TypeOK'
    BY <1>4 DEF IInv, TypeOK, Download, GoTo, store, locks, planVars, PullPC
  <2>2. WriterInv'
    BY <1>4 DEF IInv, TypeOK, WriterInv, Download, GoTo, locks
  <2> QED  BY <1>4, <2>1, <2>2, PullStepKeepsInv
           DEF IInv, TypeOK, PullInv, Download, store, locks, PullPC
<1>5. CASE PutRaw(p)
  <2>1. TypeOK'
    BY <1>5, RawAssumption
    DEF IInv, TypeOK, PullInv, PutRaw, GoTo, locks, pullVars, planVars, PullPC
  <2>2. WriterInv'
    BY <1>5 DEF IInv, TypeOK, WriterInv, PutRaw, GoTo, locks
  <2> QED  BY <1>5, <2>1, <2>2, PullStepKeepsInv
           DEF IInv, PullInv, PutRaw, locks, pullVars, PullPC
<1>6. CASE BeginCommit(p)
  <2>1. TypeOK'
    BY <1>6, PartsAssumption
    DEF IInv, TypeOK, PullInv, BeginCommit, GoTo, store, pullVars, planVars, PullPC
  <2>2. WriterInv'
    BY <1>6, NoneAssumption DEF IInv, TypeOK, WriterInv, BeginCommit, GoTo
  <2> QED  BY <1>6, <2>1, <2>2, PullStepKeepsInv
           DEF IInv, PullInv, BeginCommit, store, pullVars, PullPC
<1>7. ASSUME NEW b \in Blob, PutPart(p, b)
      PROVE  IInv'
  BY <1>7
  DEF IInv, TypeOK, LockInv, WriterInv, HeadInv, HeadsAreReady, PullInv, PutPart,
      locks, pullVars, planVars, Target
<1>8. CASE CommitSnapshot(p)
  BY <1>8, CommitKeepsInv
<1>9. CASE ReportPulled(p)
  BY <1>9, EndKeepsInv DEF ReportPulled, RestPC
<1>10. CASE PullFails(p)
  BY <1>10, EndKeepsInv DEF PullFails, RestPC
<1> QED
  BY <1>1, <1>2, <1>3, <1>4, <1>5, <1>6, <1>7, <1>8, <1>9, <1>10 DEF Pull

LEMMA PruneKeepsInv ==
    ASSUME IInv, NEW p \in Procs, Prune(p)
    PROVE  IInv'
<1>1. CASE PlanRows(p)
  <2>1. TypeOK'
    BY <1>1 DEF IInv, TypeOK, PlanRows, GoTo, store, locks, pullVars, PrunePC
  <2> QED  BY <1>1, <2>1, PruneStepKeepsInv
           DEF IInv, HeadInv, HeadsAreReady, PlanRows, store, PullPC, PrunePC
<1>2. CASE PlanHeads(p)
  <2>1. Removable(planned[p]) \in SUBSET SnapshotId
    BY RemovableRows DEF IInv, TypeOK
  <2>2. TypeOK'
    BY <1>2, <2>1 DEF IInv, TypeOK, PlanHeads, GoTo, store, locks, pullVars, PrunePC
  <2> QED  BY <1>2, <2>2, PruneStepKeepsInv
           DEF IInv, HeadInv, HeadsAreReady, PlanHeads, store, PullPC, PrunePC
<1>3. CASE PlanRaws(p)
  <2>1. /\ RawBlobs(snapshots \intersect planned[p]) \subseteq Blob
        /\ RawBlobs(snapshots \ planned[p]) \subseteq Blob
    BY BlobsOfRows DEF IInv, TypeOK
  <2>2. TypeOK'
    BY <1>3, <2>1 DEF IInv, TypeOK, PlanRaws, GoTo, store, locks, pullVars, PrunePC
  <2> QED  BY <1>3, <2>2, PruneStepKeepsInv
           DEF IInv, HeadInv, HeadsAreReady, PlanRaws, store, PullPC, PrunePC
<1>4. CASE PlanParts(p)
  <2>1. PartBlobs(snapshots \intersect planned[p]) \subseteq Blob
    BY BlobsOfRows DEF IInv, TypeOK
  <2>2. TypeOK'
    BY <1>4, <2>1 DEF IInv, TypeOK, PlanParts, GoTo, store, locks, pullVars, PrunePC
  <2> QED  BY <1>4, <2>2, PruneStepKeepsInv
           DEF IInv, HeadInv, HeadsAreReady, PlanParts, store, PullPC, PrunePC
<1>5. CASE DeleteRows(p)
  BY <1>5, DeleteKeepsInv
<1>6. ASSUME NEW b \in Blob, Unlink(p, b)
      PROVE  IInv'
  BY <1>6
  DEF IInv, TypeOK, LockInv, WriterInv, HeadInv, HeadsAreReady, PullInv, Unlink,
      locks, pullVars, planVars, Target
<1>7. CASE ReportPruned(p)
  BY <1>7, EndKeepsInv DEF ReportPruned, RestPC
<1>8. CASE PruneFails(p)
  BY <1>8, EndKeepsInv DEF PruneFails, RestPC
<1> QED
  BY <1>1, <1>2, <1>3, <1>4, <1>5, <1>6, <1>7, <1>8 DEF Prune

LEMMA StartKeepsInv ==
    ASSUME IInv, NEW p \in Procs, Start(p)
    PROVE  IInv'
<1>1. ASSUME NEW l \in Lineages, NEW e \in BOOLEAN, TryLock(p, l, e)
      PROVE  IInv'
  BY <1>1, TryLockKeepsInv
<1>2. ASSUME NEW l \in Lineages, StoreBusy(p, l)
      PROVE  IInv'
  <2>1. TypeOK'
    BY <1>2 DEF IInv, TypeOK, StoreBusy, GoTo, store, locks, pullVars, planVars, RestPC
  <2>2. LockInv' /\ WriterInv' /\ HeadInv'
    BY <1>2 DEF IInv, TypeOK, LockInv, WriterInv, HeadInv, HeadsAreReady, StoreBusy,
                GoTo, Running, store, locks, pullVars, PullPC, RestPC
  <2>3. PullInv'
    BY <1>2 DEF IInv, TypeOK, PullInv, StoreBusy, GoTo, Running, store, pullVars,
                PullPC, RestPC, Target
  <2> QED  BY <2>1, <2>2, <2>3 DEF IInv
<1>3. CASE StartPrune(p)
  <2>1. TypeOK'
    BY <1>3 DEF IInv, TypeOK, StartPrune, GoTo, store, locks, pullVars, planVars, PrunePC
  <2> QED  BY <1>3, <2>1, PruneStepKeepsInv
           DEF IInv, HeadInv, HeadsAreReady, StartPrune, Running, store, PullPC, PrunePC,
               RestPC
<1> QED  BY <1>1, <1>2, <1>3 DEF Start

\* The invariant holds whatever the processes do.
THEOREM InvariantHolds == Spec => []IInv
<1>1. IInv /\ [Next]_vars => IInv'
  <2> SUFFICES ASSUME IInv, [Next]_vars PROVE IInv'
    OBVIOUS
  <2>1. ASSUME NEW p \in Procs, Start(p) \/ Pull(p) \/ Prune(p) \/ Crash(p)
        PROVE  IInv'
    <3>1. CASE Crash(p)
      BY <3>1, EndKeepsInv DEF Crash, RestPC
    <3> QED  BY <2>1, <3>1, StartKeepsInv, PullKeepsInv, PruneKeepsInv
  <2>2. CASE UNCHANGED vars
    BY <2>2
    DEF vars, store, locks, pullVars, planVars, IInv, TypeOK, LockInv, WriterInv,
        HeadInv, HeadsAreReady, PullInv, Target
  <2> QED  BY <2>1, <2>2 DEF Next
<1> QED  BY <1>1, InitInv, PTL DEF Spec

-----------------------------------------------------------------------------
(***************************************************************************)
(* The properties.                                                         *)
(***************************************************************************)

\* Every variable keeps its type.
THEOREM TypeCorrect == Spec => []TypeOK
BY InvariantHolds, PTL DEF IInv

\* A HEAD always names a committed row of its lineage.
THEOREM HeadsStayReady == Spec => []HeadsAreReady
BY InvariantHolds, PTL DEF IInv, HeadInv

\* A pull that was not forced requests only what is not there.
THEOREM ImplicitTier1IsSafe == Spec => []ImplicitTier1OnlyWhenEmpty
<1>1. IInv => ImplicitTier1OnlyWhenEmpty
  BY DEF IInv, PullInv, ImplicitTier1OnlyWhenEmpty
<1> QED  BY <1>1, InvariantHolds, PTL

\* A pull that was not forced never replaces a HEAD.
THEOREM ImplicitPullIsSafe == Spec => ImplicitPullNeverMovesHead
<1>1. IInv /\ [Next]_vars =>
          [\A p \in Procs :
              CommitSnapshot(p) /\ ~explicit[p] => heads[lineage[p]] = None]_vars
  BY DEF IInv, PullInv, CommitSnapshot
<1> QED  BY <1>1, InvariantHolds, PTL DEF Spec, ImplicitPullNeverMovesHead

\* The snapshot a pull reports is HEAD when it reports it.
THEOREM ReportedPullIsCurrent == Spec => ReportedPullIsHead
<1>1. IInv /\ [Next]_vars =>
          [\A p \in Procs : ReportPulled(p) => heads[lineage[p]] = Target(p)]_vars
  BY DEF IInv, PullInv, ReportPulled
<1> QED  BY <1>1, InvariantHolds, PTL DEF Spec, ReportedPullIsHead

-----------------------------------------------------------------------------
(***************************************************************************)
(* The store implements SnapshotCatalog: its commit publishes, its         *)
(* deletion retires, and every other step leaves rows and HEADs alone.     *)
(***************************************************************************)

\* Steps that are neither a commit nor a deletion.
LEMMA OtherStepsAreInvisible ==
    ASSUME [Next]_vars,
           \A p \in Procs : ~CommitSnapshot(p) /\ ~DeleteRows(p)
    PROVE  UNCHANGED <<snapshots, heads>>
<1>1. ASSUME NEW p \in Procs, Start(p) \/ Crash(p)
      PROVE  UNCHANGED <<snapshots, heads>>
  BY <1>1 DEF Start, TryLock, StoreBusy, StartPrune, Crash, store
<1>2. ASSUME NEW p \in Procs, Pull(p)
      PROVE  UNCHANGED <<snapshots, heads>>
  BY <1>2
  DEF Pull, ReadHead, ReadRow, RefuseImplicit, Download, PutRaw, BeginCommit, PutPart,
      ReportPulled, PullFails, store
<1>3. ASSUME NEW p \in Procs, Prune(p)
      PROVE  UNCHANGED <<snapshots, heads>>
  BY <1>3
  DEF Prune, PlanRows, PlanHeads, PlanRaws, PlanParts, Unlink, ReportPruned,
      PruneFails, store
<1> QED  BY <1>1, <1>2, <1>3 DEF Next, vars, store

\* Rows and HEADs behave as SnapshotCatalog says.
THEOREM StoreImplementsCatalog == Spec => CatalogSpec
<1>1. Init => Catalog!Init
  BY DEF Init, Catalog!Init
<1>2. IInv /\ [Next]_vars => [Catalog!Next]_<<snapshots, heads>>
  <2> SUFFICES ASSUME IInv, [Next]_vars
               PROVE  Catalog!Next \/ UNCHANGED <<snapshots, heads>>
    OBVIOUS
  <2>1. ASSUME NEW p \in Procs, CommitSnapshot(p)
        PROVE  Catalog!Next
    <3>1. lineage[p] \in Lineages /\ content[p] \in Contents
      BY <2>1 DEF IInv, PullInv, CommitSnapshot, PullPC
    <3>2. Catalog!Publish(lineage[p], content[p])
      BY <2>1 DEF CommitSnapshot, Target, Catalog!Publish
    <3> QED  BY <3>1, <3>2 DEF Catalog!Next
  <2>2. ASSUME NEW p \in Procs, DeleteRows(p)
        PROVE  Catalog!Next
    <3>1. planned[p] \in SUBSET Catalog!SnapshotId
      BY DEF IInv, TypeOK, SnapshotId, Catalog!SnapshotId
    <3>2. Catalog!Retire(planned[p])
      BY <2>2 DEF DeleteRows, IsHead, Catalog!Retire
    <3> QED  BY <3>1, <3>2 DEF Catalog!Next
  <2> QED  BY <2>1, <2>2, OtherStepsAreInvisible
<1> QED  BY <1>1, <1>2, InvariantHolds, PTL DEF Spec, CatalogSpec, Catalog!Spec
=============================================================================
